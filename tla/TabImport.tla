------------------------------ MODULE TabImport ------------------------------
(***************************************************************************)
(* Scores for practising: the tracks of the guitar window and what is       *)
(* imported into them, from a PDF that was read or from a text that was     *)
(* pasted (gui/PanelsGuitarTab.cpp, gui/Panels.cpp,                         *)
(* sequencer/TabImport.cpp).                                               *)
(*                                                                         *)
(* A practice track carries the name of the score and the number of the     *)
(* part it was made for; an import looks for them to find its tracks again. *)
(* The window remembers tracks by their index: the one in view, those shown *)
(* together, and the range of the last import.  None of these moves when a  *)
(* track is taken away, and only the first is put right, by every frame.    *)
(* Tracks, parts and indices count from 1 here, and 0 is none.              *)
(*                                                                         *)
(* What a PDF holds is whatever pdf/PdfTab.cpp found there (Scores).  A     *)
(* text is a sequence of lines, and a line a sequence of characters.        *)
(* `imported' is a history variable: what the last step imported.           *)
(***************************************************************************)
EXTENDS Track, UndoHistory

CONSTANTS
    InitialSongs,        \* the tracks that a session begins with
    Scores,              \* what PDF files hold
    Tabs,                \* texts to paste, by their columns: see Drawn
    Places,              \* ticks the playhead may be at
    HandNotes,           \* notes that come into the project in other ways
    Ppqn,
    MaxTracks, MaxSteps  \* bounds

TabImportAssumption ==
    /\ UndoHistoryAssumption
    /\ {Ppqn, MaxTracks, MaxSteps} \subseteq Nat \ {0} /\ Places \subseteq Nat
    /\ \A system \in UNION {ToSet(tab) : tab \in Tabs} :
         /\ Len(system.columns) >= 4   \* fewer dashes make no line of a tab
         /\ \A mark \in UNION ToSet(system.columns) : mark \in (1..6) \X (0..24)
    /\ \A tracks \in InitialSongs : tracks \in Seq(ToSet(tracks))
    /\ \A score \in Scores : score.parts \in Seq(ToSet(score.parts))

VARIABLES
    song,           \* [tracks, tempo], which undo knows
    meter,          \* metroSigIndex
    practiceTrack, tabTracks, playPos,
    box,            \* the import window: its text, and the PDF that was opened
    last,           \* s_lastImportTrack, -Start and -End
    history, steps,
    imported

vars == <<song, meter, practiceTrack, tabTracks, playPos, box, last, history, steps, imported>>

------------------------------------------------------------------------------
(***************************************************************************)
(* Reading a text: sequencer/TabImport.cpp.                                *)
(***************************************************************************)
Open   == <<64, 59, 55, 50, 45, 40>>
Digits == <<"0", "1", "2", "3", "4", "5", "6", "7", "8", "9">>

IsDigit(c) == c \in ToSet(Digits)
DigitOf(c) == SelectInSeq(Digits, LAMBDA d : d = c) - 1

LooksLikeTabLine(line) ==
    /\ Len(SelectSeq(line, LAMBDA c : c = "-")) >= 4
    /\ Len(SelectSeq(line, LAMBDA c : c # " ")) >= 6

\* Behind the bar line that ends the label, or at the first dash.
Content(line) ==
    LET bar  == SelectInSeq(line, LAMBDA c : c = "|")
        dash == SelectInSeq(line, LAMBDA c : c = "-")
    IN  IF bar # 0 /\ (dash = 0 \/ bar < dash + 3) THEN SubSeq(line, bar + 1, Len(line))
        ELSE SubSeq(line, Max({dash, 1}), Len(line))

\* Six lines in a row that look like it are a system.
Systems(lines) ==
    LET IsSystem(i) == i + 5 <= Len(lines) /\ \A k \in 0..5 : LooksLikeTabLine(lines[i + k])
        Step(acc, i) ==
          IF i < acc.next THEN acc
          ELSE IF IsSystem(i)
          THEN [next |-> i + 6, rows |-> Append(acc.rows, [k \in 1..6 |-> Content(lines[i + k - 1])])]
          ELSE [acc EXCEPT !.next = i + 1]
    IN  FoldLeft(Step, [next |-> 1, rows |-> <<>>], [i \in DOMAIN lines |-> i]).rows

Columns(rows)      == 1..Min({Len(rows[s]) : s \in 1..6})
Continues(rows, s, c) == IsDigit(rows[s][c]) /\ c > 1 /\ IsDigit(rows[s][c - 1])
Starts(rows, s, c)    == IsDigit(rows[s][c]) /\ ~Continues(rows, s, c)

OnlyBarLines(rows, c) == Cardinality({s \in 1..6 : rows[s][c] = "|"}) >= 4  \* (defect: second digits take time)

\* Bar lines, and the second digits of frets, take no time.
Timeless(rows, c) ==
    \/ Cardinality({s \in 1..6 : rows[s][c] = "|"}) >= 4
    \/ (\E s \in 1..6 : Continues(rows, s, c)) /\ ~\E s \in 1..6 : Starts(rows, s, c)

TimeOf(rows, C) == Cardinality({c \in C : ~Timeless(rows, c)})

FretAt(rows, s, c) ==
    LET one == DigitOf(rows[s][c])
        two == IF c + 1 \in DOMAIN rows[s] /\ IsDigit(rows[s][c + 1])
               THEN 10 * one + DigitOf(rows[s][c + 1]) ELSE one
    IN  IF two <= 24 THEN two ELSE one

TabNote(tick, note, dur, str, vel, artic) ==
    [tick |-> tick, note |-> note, dur |-> dur, str |-> str, vel |-> vel, artic |-> artic]

\* Written in the order of their ticks, so that the sort at the end changes nothing.
ParseAsciiTab(lines, step) ==
    LET At(rows, base, c) ==
          IF Timeless(rows, c) THEN <<>>
          ELSE LET strings == SetToSortSeq({s \in 1..6 : Starts(rows, s, c)}, <)
               IN  [k \in DOMAIN strings |->
                      TabNote(base + step * TimeOf(rows, 1..c - 1),
                              Open[strings[k]] + FretAt(rows, strings[k], c),
                              step, strings[k] - 1, 100, 75)]
        Read(acc, rows) ==
          [base  |-> acc.base + step * TimeOf(rows, Columns(rows)),
           notes |-> acc.notes \o FlattenSeq([c \in Columns(rows) |-> At(rows, acc.base, c)])]
    IN  FoldLeft(Read, [base |-> 0, notes |-> <<>>], Systems(lines)).notes

(***************************************************************************)
(* What was meant by a text: a tab is a sequence of systems, a system a     *)
(* sequence of columns with bar lines behind some, and a column a set of    *)
(* <<string, fret>>.  It is drawn under a title, which may be all there is, *)
(* with a dash behind every column and two digits where they are needed.    *)
(***************************************************************************)
Drawn(tab) ==
    LET Mark(fret) == IF fret < 10 THEN <<Digits[fret + 1]>>
                      ELSE <<Digits[fret \div 10 + 1], Digits[(fret % 10) + 1]>>
        Wide(column) == \E mark \in column : mark[2] >= 10
        Cell(column, s) ==
          LET on == {mark \in column : mark[1] = s}
              written == IF on = {} THEN <<"-">> ELSE Mark((CHOOSE mark \in on : TRUE)[2])
          IN  written \o (IF Wide(column) /\ Len(written) = 1 THEN <<"-", "-">> ELSE <<"-">>)
        Row(system, s) ==
          <<"e", "|">> \o FlattenSeq([i \in DOMAIN system.columns |->
             Cell(system.columns[i], s) \o (IF i \in system.bars THEN <<"|">> ELSE <<>>)])
    IN  <<<<"s", "o", "l", "o">>>> \o FlattenSeq([k \in DOMAIN tab |-> [s \in 1..6 |-> Row(tab[k], s)]])

\* A column and the dash behind it take a step each, however wide the column is.
Meant(tab, step) ==
    LET columns == FlattenSeq([k \in DOMAIN tab |-> tab[k].columns])
    IN  UNION {{<<2 * step * (i - 1), Open[mark[1]] + mark[2], mark[1] - 1>> : mark \in columns[i]} :
                  i \in DOMAIN columns}

------------------------------------------------------------------------------
(***************************************************************************)
(* The practice tracks.                                                    *)
(***************************************************************************)
Tracks        == song.tracks
PracticeOnes  == {i \in DOMAIN Tracks : Tracks[i].practice}

\* What a frame of the window makes of the index of the track in view ...
Current == CASE practiceTrack \in PracticeOnes -> practiceTrack
             [] PracticeOnes = {} -> 0
             [] OTHER -> Min(PracticeOnes)

\* ... and the tracks it shows.
ShownTracks ==
    LET chosen == SelectSeq(tabTracks, LAMBDA i : i \in PracticeOnes)
        once   == FoldLeft(LAMBDA acc, i : IF i \in ToSet(acc) THEN acc ELSE Append(acc, i),
                           <<>>, chosen)
    IN  IF once = <<>> THEN <<Current>> ELSE once

\* The row a note is drawn on: that of its last hint, if the note can be played there, or
\* else the one with the lowest fret.  No row for what no string reaches.
CanReach(note) == {s \in 1..6 : note - Open[s] \in 0..24}
Assigned(note) == {s \in CanReach(note) : \A r \in CanReach(note) : note - Open[s] <= note - Open[r]}
RowOf(tr, n) ==
    LET hints == SelectSeq(tr.hints, LAMBDA h : h.tick = n.start /\ h.note = n.note)
        named == IF hints = <<>> THEN {} ELSE {Last(hints).str + 1} \cap CanReach(n.note)
    IN  IF named # {} THEN named ELSE Assigned(n.note)

TicksPerBar(m) == Max({1, (IF m = 2 THEN Ppqn \div 2 ELSE Ppqn) * <<4, 3, 6>>[m + 1]})

NoBox    == [text |-> <<>>, tab |-> <<>>, parts |-> <<>>, key |-> "", rhythm |-> FALSE, div |-> 1]
NoRange  == [track |-> 0, start |-> 0, end |-> 0]
NoImport == [targets |-> <<>>]

Init ==
    /\ song \in [tracks : InitialSongs, tempo : {120}]
    /\ meter = 0 /\ practiceTrack = 0 /\ tabTracks = <<>> /\ playPos = 0
    /\ box = NoBox /\ last = NoRange /\ history = Empty /\ steps = 0
    /\ imported = NoImport

\* The conjuncts that every command of the user shares.
Command   == steps < MaxSteps /\ steps' = steps + 1
NoNews    == imported' = NoImport
WindowKept == UNCHANGED <<practiceTrack, tabTracks>>

\* The work an import does on the way, and addPracticeTrack in it.
Added(w) ==
    [w EXCEPT !.history = Record(@, w.song),
              !.song.tracks = Append(@, [events |-> <<>>, clips |-> <<>>, stamp |-> 0,
                                         practice |-> TRUE, key |-> "", part |-> 0,
                                         hints |-> <<>>]),
              !.current = Len(w.song.tracks) + 1]

AddPracticeTrack ==
    LET made == Added([song |-> song, history |-> history, current |-> 0])
    IN  /\ Command /\ NoNews /\ Len(Tracks) < MaxTracks
        /\ song' = made.song /\ history' = made.history /\ practiceTrack' = made.current
        /\ UNCHANGED <<meter, tabTracks, playPos, box, last>>

SelectTrack(i) ==
    /\ Command /\ NoNews /\ i \in PracticeOnes \ {Current}
    /\ practiceTrack' = i
    /\ UNCHANGED <<song, meter, tabTracks, playPos, box, last, history>>

\* Shift and a click.
ToggleTabTrack(i) ==
    /\ Command /\ NoNews /\ i \in PracticeOnes
    /\ tabTracks' = IF i \in ToSet(tabTracks)
                    THEN RemoveAt(tabTracks, SelectInSeq(tabTracks, LAMBDA j : j = i))
                    ELSE Append(tabTracks, i)
    /\ practiceTrack' = Current
    /\ UNCHANGED <<song, meter, playPos, box, last, history>>

Deleted(i) ==
    /\ song' = [song EXCEPT !.tracks = RemoveAt(@, i)]
    /\ history' = Record(history, song)
    /\ UNCHANGED <<meter, tabTracks, playPos, box, last>>

\* The button of the window forgets the index; the track view does not know of it.
DeletePractice == Command /\ NoNews /\ Current # 0 /\ Deleted(Current) /\ practiceTrack' = 0
DeleteSongTrack(i) ==
    /\ Command /\ NoNews /\ i \in DOMAIN Tracks \ PracticeOnes
    /\ Deleted(i) /\ UNCHANGED practiceTrack

Undo ==
    /\ Command /\ NoNews /\ CanUndo(history)
    /\ song' = Undone(history) /\ history' = AfterUndo(history, song)
    /\ WindowKept /\ UNCHANGED <<meter, playPos, box, last>>

Redo ==
    /\ Command /\ NoNews /\ CanRedo(history)
    /\ song' = Redone(history) /\ history' = AfterRedo(history, song)
    /\ WindowKept /\ UNCHANGED <<meter, playPos, box, last>>

Seek(tick) ==
    /\ Command /\ NoNews /\ tick # playPos /\ playPos' = tick
    /\ WindowKept /\ UNCHANGED <<song, meter, box, last, history>>

\* The project is opened again, with a note that a tool wrote into its file: the song is
\* another one, and the window remembers what it did.
Reload(i, n) ==
    /\ Command /\ NoNews /\ i \in PracticeOnes
    /\ history' = Record(history, song)
    /\ song' = [song EXCEPT !.tracks[i] = SortEvents(AddNote(@, n.tick, n.dur, n.note, n.vel))]
    /\ WindowKept /\ UNCHANGED <<meter, playPos, box, last>>

\* The program is closed and opened with the same project.
Restart ==
    /\ Command /\ NoNews
    /\ practiceTrack' = 0 /\ tabTracks' = <<>> /\ playPos' = 0
    /\ box' = NoBox /\ last' = NoRange /\ history' = Record(Empty, [tracks |-> <<>>, tempo |-> 120])
    /\ UNCHANGED <<song, meter>>

------------------------------------------------------------------------------
(***************************************************************************)
(* The import window.                                                      *)
(***************************************************************************)
\* A PDF is put into the box as the text of its first part, and sets metre and tempo.
OpenPdf(score) ==
    /\ Command /\ NoNews /\ Current # 0
    /\ box' = [text |-> Drawn(score.parts[1].tab), tab |-> score.parts[1].tab,
               parts |-> score.parts, key |-> score.key, rhythm |-> score.rhythm, div |-> 2]
    /\ meter' = IF score.meter >= 0 THEN score.meter ELSE meter
    /\ song' = IF score.tempo > 0 THEN [song EXCEPT !.tempo = score.tempo] ELSE song
    /\ practiceTrack' = Current
    /\ UNCHANGED <<tabTracks, playPos, last, history>>

OpenFails ==
    /\ Command /\ NoNews /\ Current # 0 /\ box.parts # <<>>
    /\ box' = [box EXCEPT !.parts = <<>>, !.rhythm = FALSE]
    /\ practiceTrack' = Current
    /\ UNCHANGED <<song, meter, tabTracks, playPos, last, history>>

\* Another part of the PDF, or another text in the box; the PDF's notes stay where they are.
Show(tab) == box' = [box EXCEPT !.text = Drawn(tab), !.tab = tab]

PreviewPart(k) ==
    /\ Command /\ NoNews /\ Current # 0 /\ Len(box.parts) > 1 /\ k \in DOMAIN box.parts
    /\ Show(box.parts[k].tab) /\ practiceTrack' = Current
    /\ UNCHANGED <<song, meter, tabTracks, playPos, last, history>>

Paste(tab) ==
    /\ Command /\ NoNews /\ Current # 0
    /\ Show(tab) /\ practiceTrack' = Current
    /\ UNCHANGED <<song, meter, tabTracks, playPos, last, history>>

UsePdfRhythm == box.rhythm /\ \E k \in DOMAIN box.parts : box.parts[k].notes # <<>>

SetStep(div) ==
    /\ Command /\ NoNews /\ Current # 0 /\ ~UsePdfRhythm /\ div # box.div
    /\ box' = [box EXCEPT !.div = div] /\ practiceTrack' = Current
    /\ UNCHANGED <<song, meter, tabTracks, playPos, last, history>>

ClearBox ==
    /\ Command /\ NoNews /\ Current # 0 /\ box.text # <<>>
    /\ box' = [box EXCEPT !.text = <<>>, !.tab = <<>>, !.parts = <<>>, !.rhythm = FALSE]
    /\ practiceTrack' = Current
    /\ UNCHANGED <<song, meter, tabTracks, playPos, last, history>>

Step == Max({1, Ppqn \div <<2, 4, 8>>[box.div + 1]})

PartNotes ==
    LET read == IF UsePdfRhythm THEN [k \in DOMAIN box.parts |-> box.parts[k].notes]
                ELSE <<ParseAsciiTab(box.text, Step)>>
    IN  FoldLeft(LAMBDA acc, notes : IF notes = <<>> THEN acc ELSE Append(acc, notes), <<>>, read)

TaggedInView(tracks, key, p) ==  \* (defect: only the track in view is looked at)
    IF key = "" THEN {}
    ELSE {i \in {Current} : tracks[i].key = key /\ tracks[i].part = p}
Tagged(tracks, key, p) ==
    IF key = "" THEN {}
    ELSE {i \in DOMAIN tracks : /\ tracks[i].practice
                                /\ tracks[i].key = key /\ tracks[i].part = p}

BegunWithoutCopy ==  \* (defect: no copy is taken before the import)
    [song |-> song, history |-> history, current |-> Current, targets |-> <<>>]
Begun == [song |-> song, history |-> Record(history, song), current |-> Current, targets |-> <<>>]

\* The first part goes to the track in view, the others to new ones, unless they are known.
\* All tracks are found before any is tagged.
WithTargets(w, key, n) ==
    LET Target(acc, p) ==
          LET known == Tagged(acc.song.tracks, key, p)
              more  == IF known = {} /\ p > 1 THEN Added(acc) ELSE acc
              index == CASE known # {} -> Min(known)
                         [] known = {} /\ p = 1 -> Current
                         [] OTHER -> more.current
          IN  [more EXCEPT !.targets = Append(@, index)]
    IN  FoldLeft(Target, w, [p \in 1..n |-> p])

\* How long a note sounds.
Sounded(n)      == Max({1, (n.dur * n.artic) \div 100})
EndOf(notes, base) == Max({base} \cup {base + n.tick + Sounded(n) : n \in ToSet(notes)})

Emptied(tr, from, to) ==
    [EraseRange(tr, from, to) EXCEPT
        !.hints = SelectSeq(@, LAMBDA h : h.tick < from \/ to <= h.tick)]

HintWithoutBase(n, base) ==  \* (defect: the hint lies where the score begins)
    IF n.str \in 0..5 THEN <<[tick |-> n.tick, note |-> n.note, str |-> n.str]>> ELSE <<>>
HintOf(n, base) ==
    IF n.str \in 0..5 THEN <<[tick |-> base + n.tick, note |-> n.note, str |-> n.str]>> ELSE <<>>

AnyRange(first)  == last.start < last.end  \* (defect: whatever track the range is of)
RangeIsOf(first) == last.track = first /\ last.start < last.end

\* One part in its track: the range it takes is emptied, and that of the last import too,
\* if that began in the same track.
Filled(tr, notes, base, first) ==
    LET fresh == Emptied(tr, base, EndOf(notes, base))
        clean == IF RangeIsOf(first) THEN Emptied(fresh, last.start, last.end) ELSE fresh
        Put(t, n) ==
          LET on == AddNote(t, base + n.tick, Sounded(n), n.note, n.vel)
          IN  [AdoptNote(on, n.note, base + n.tick) EXCEPT !.hints = @ \o HintOf(n, base)]
    IN  SortEvents(FoldLeft(Put, clean, notes))

Import ==
    LET parts   == PartNotes
        key     == IF UsePdfRhythm THEN box.key ELSE ""
        base    == (playPos \div TicksPerBar(meter)) * TicksPerBar(meter)
        work    == WithTargets(Begun, key, Len(parts))
        targets == work.targets
        Label(ts, p) == [ts EXCEPT ![targets[p]].key = key, ![targets[p]].part = p]
        Fill(ts, p) == [ts EXCEPT ![targets[p]] = Filled(@, parts[p], base, targets[1])]
        Each(s)     == [p \in DOMAIN s |-> p]
    IN  /\ Command /\ Current # 0 /\ box.text # <<>> /\ parts # <<>>
        /\ Len(work.song.tracks) <= MaxTracks
        /\ song' = [work.song EXCEPT
                       !.tracks = FoldLeft(Fill, IF key = "" THEN @
                                                 ELSE FoldLeft(Label, @, Each(targets)),
                                           Each(parts))]
        /\ history' = work.history
        /\ practiceTrack' = targets[1]
        /\ tabTracks' = IF Len(targets) > 1 THEN targets ELSE tabTracks
        /\ last' = [track |-> targets[1], start |-> base,
                    end |-> Max({EndOf(parts[p], base) : p \in DOMAIN parts})]
        /\ box' = [box EXCEPT !.text = <<>>, !.tab = <<>>, !.parts = <<>>, !.rhythm = FALSE]
        /\ imported' = [targets |-> targets, parts |-> parts, base |-> base, was |-> song,
                        last |-> last, tab |-> IF UsePdfRhythm THEN <<>> ELSE box.tab, step |-> Step]
        /\ UNCHANGED <<meter, playPos>>

\* A box whose text is no tab is left as it is.
NothingFound ==
    /\ Command /\ NoNews /\ Current # 0 /\ box.text # <<>> /\ PartNotes = <<>>
    /\ practiceTrack' = Current
    /\ UNCHANGED <<song, meter, tabTracks, playPos, box, last, history>>

\* A frame in which the user does nothing.
Frame ==
    /\ practiceTrack' = Current /\ NoNews
    /\ UNCHANGED <<song, meter, tabTracks, playPos, box, last, history, steps>>

Next ==
    \/ AddPracticeTrack \/ DeletePractice \/ Undo \/ Redo \/ Restart
    \/ OpenFails \/ ClearBox \/ Import \/ NothingFound \/ Frame
    \/ \E i \in 1..MaxTracks : SelectTrack(i) \/ ToggleTabTrack(i) \/ DeleteSongTrack(i)
    \/ \E tick \in Places : Seek(tick)
    \/ \E i \in 1..MaxTracks, n \in HandNotes : Reload(i, n)
    \/ \E score \in Scores : OpenPdf(score)
    \/ \E k \in 1..3 : PreviewPart(k)
    \/ \E tab \in Tabs : Paste(tab)
    \/ \E div \in 0..2 : SetStep(div)

Spec == Init /\ [][Next]_vars

------------------------------------------------------------------------------
(***************************************************************************)
(* Properties.                                                             *)
(***************************************************************************)
Imported == imported.targets # <<>>
Targets  == imported.targets

\* The parts that are the last to go into their track, and the ticks a part takes there.
Kept == {p \in DOMAIN Targets : \A q \in DOMAIN Targets : q > p => Targets[q] # Targets[p]}
End(p) == EndOf(imported.parts[p], imported.base)
KeysIn(tr, T(_)) == {Key(n) : n \in {n \in NoteSet(tr) : T(n.start)}}

\* After an import the range of a part holds that part and nothing else, whatever was there
\* before and however often the score came in; a text gives the notes that were drawn, in
\* columns of one step, whether their frets have one digit or two.
ScoreIsInItsTracks ==
    Imported =>
      /\ \A p \in Kept :
           KeysIn(Tracks[Targets[p]], LAMBDA t : imported.base <= t /\ t < End(p))
             = {<<n.note, imported.base + n.tick>> : n \in ToSet(imported.parts[p])}
      /\ imported.tab # <<>> =>
           {<<n.tick, n.note, n.str>> : n \in ToSet(imported.parts[1])}
             = Meant(imported.tab, imported.step)

\* Every note that came in is drawn on the string that the score gives it, and the parts of a
\* score of several are all in view.
ImportedStringsShow ==
    Imported =>
      /\ \A p \in Kept : \A n \in NoteSet(Tracks[Targets[p]]) :
           LET named == {m \in ToSet(imported.parts[p]) :
                           /\ <<m.note, imported.base + m.tick>> = Key(n) /\ m.str \in 0..5}
           IN  named # {} => RowOf(Tracks[Targets[p]], n) \subseteq {m.str + 1 : m \in named}
      /\ Len(Targets) > 1 => ToSet(Targets) \subseteq ToSet(ShownTracks)

\* A score comes in again without a new track, wherever it is, because no two practice tracks
\* carry the same part of the same score.
PartsHaveOneTrack ==
    \A i, j \in PracticeOnes :
      i # j /\ Tracks[i].key # "" => <<Tracks[i].key, Tracks[i].part>> # <<Tracks[j].key, Tracks[j].part>>

\* What the import does not replace it leaves: tracks it does not go to, and in the others
\* the notes outside of its range and of the last import's.
RestIsKept ==
    Imported =>
      \A i \in DOMAIN imported.was.tracks :
        LET mine == {p \in DOMAIN Targets : Targets[p] = i}
            Outside(t) ==
              /\ \A p \in mine : t < imported.base \/ End(p) <= t
              /\ imported.last.track = Targets[1] => t < imported.last.start \/ imported.last.end <= t
        IN  IF mine = {} THEN Tracks[i] = imported.was.tracks[i]
            ELSE KeysIn(imported.was.tracks[i], Outside) = KeysIn(Tracks[i], Outside)

\* One undo takes an import back: the tracks there were are what they were, and no note of
\* the score is left in new ones.
UndoTakesBackTheImport ==
    [][ Imported /\ Undo =>
          \A i \in DOMAIN song'.tracks :
            IF i \in DOMAIN imported.was.tracks THEN song'.tracks[i] = imported.was.tracks[i]
                                                ELSE song'.tracks[i].events = <<>> ]_vars

\* The manual: the parts of a score come into a track each.
PartsStayApart == Imported => Cardinality(ToSet(Targets)) = Len(Targets)
==============================================================================
