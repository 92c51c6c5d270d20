---------------------------- MODULE StringEditor -----------------------------
(***************************************************************************)
(* The editor of string instruments: gui/PanelsStringTab.cpp over           *)
(* gui/StringTab.h.                                                        *)
(*                                                                         *)
(* A note is drawn on a string: the one its hint names, if the note can be  *)
(* played there, or else the string that needs the lowest fret.  A hint is  *)
(* found by the note's tick and pitch, so an edit takes the note and the    *)
(* hint away and puts both back.  Rows count from the highest string down,  *)
(* strings from the lowest up.  The note that was picked is remembered as a *)
(* span, which later frames look for among the notes.  `before' and `told'  *)
(* are history variables: the track at the last step's start, and what that *)
(* step was to do.                                                         *)
(***************************************************************************)
EXTENDS Track, UndoHistory

CONSTANTS
    InitialTracks,
    Rows, Places,        \* where the mouse may be
    Digits,              \* the digits that may be typed
    NoteLen,             \* ticks of a new note, and of the grid
    MaxEvents, MaxSteps  \* bounds

StringEditorAssumption ==
    /\ {NoteLen, MaxEvents, MaxSteps} \subseteq Nat \ {0}
    /\ Rows \subseteq Nat /\ Places \subseteq Nat /\ Digits \subseteq 0..9

VARIABLES
    track,         \* with its tuning and its hints, <<tick, pitch>> -> row
    ed,            \* g_ed: the drag under way, the note picked, the digit typed before
    focused,       \* the window has the keyboard
    history,
    steps, before, told

vars == <<track, ed, focused, history, steps, before, told>>

------------------------------------------------------------------------------
(***************************************************************************)
(* Tunings.                                                                *)
(***************************************************************************)
None    == <<>>
MaxFret == 24
Tunings == {None, <<40, 45, 50, 55, 59, 64>>, <<28, 33, 38, 43>>}  \* a guitar, a bass
Strings(tuning) == DOMAIN tuning

\* What a fret of a string sounds: a sequence of at most one pitch.
NoteAt(tuning, s, fret) ==
    IF s \in Strings(tuning) /\ fret \in 0..MaxFret /\ tuning[s] + fret <= 127
    THEN <<tuning[s] + fret>> ELSE <<>>

Lowest(tuning)  == tuning[1]
Highest(tuning) == tuning[Len(tuning)] + MaxFret
IsPlayable(tuning, note) == tuning = None \/ (Lowest(tuning) <= note /\ note <= Highest(tuning))

CanReach(tuning, note) == {s \in Strings(tuning) : note - tuning[s] \in 0..MaxFret}

\* The lowest fret is the one on the highest string that can reach the note.
Assigned(tuning, note) ==
    {[string |-> s, fret |-> note - tuning[s]] : s \in
        {s \in CanReach(tuning, note) : \A other \in CanReach(tuning, note) :
             \/ note - tuning[s] < note - tuning[other]
             \/ note - tuning[s] = note - tuning[other] /\ s <= other}}

AutoPlaced(tuning, note, hint) == Assigned(tuning, note)  \* (defect: the hint is not looked at)

\* At most one place; hint is the set of the rows the hint names.
Placed(tuning, note, hint) ==
    LET named == {s \in CanReach(tuning, note) : \E row \in hint : s = Len(tuning) - row}
    IN  IF named = {} THEN Assigned(tuning, note)
        ELSE {[string |-> s, fret |-> note - tuning[s]] : s \in named}

\* By octaves into the range, or nothing.
Fitted(tuning, note) ==
    LET octaves == {note + 12 * k : k \in -10..10} \cap 0..127
        inside  == {n \in octaves : IsPlayable(tuning, n)}
    IN  CASE inside = {} -> {}
          [] IsPlayable(tuning, note) -> {note}
          [] note < Lowest(tuning) -> {Min(inside)}
          [] OTHER -> {Max(inside)}

------------------------------------------------------------------------------
(***************************************************************************)
(* Where the notes are drawn.                                              *)
(***************************************************************************)
HintKey(n)  == <<n.start, n.note>>
HintOf(t, n) == {t.hints[k] : k \in {HintKey(n)} \cap DOMAIN t.hints}
PlaceOf(t, n) == Placed(t.tuning, n.note, HintOf(t, n))
RowOf(t, n) == IF PlaceOf(t, n) = {} THEN 0
               ELSE CHOOSE row \in 0..Len(t.tuning) - 1 :
                      \E p \in PlaceOf(t, n) : p.string = Len(t.tuning) - row

\* The string and fret an edit starts from; what cannot be placed counts as 0 and 0.
Grip(t, n) == IF PlaceOf(t, n) = {} THEN [string |-> 1, fret |-> 0]
              ELSE CHOOSE p \in PlaceOf(t, n) : TRUE
RowOfString(s) == Len(track.tuning) - s

\* Of the notes under the mouse, the last in the list is drawn on top.
HitAt(row, tick) ==
    LET over == SelectSeq(ExtractNotes(track),
                    LAMBDA n : /\ RowOf(track, n) = row /\ n.start <= tick
                               /\ tick <= Max({n.end, n.start + 1}))
    IN  IF over = <<>> THEN {} ELSE {Last(over)}

Snap(tick) == ((tick + NoteLen \div 2) \div NoteLen) * NoteLen

------------------------------------------------------------------------------
SameSpan(a, b) == a.start = b.start /\ a.end = b.end /\ a.note = b.note
Picks(e, t)    == \E n \in NoteSet(t) : SameSpan(n, e.span)
Nothing        == [start |-> 0, end |-> 0, note |-> 0, vel |-> 0]

Init ==
    /\ track \in InitialTracks /\ focused = FALSE
    /\ ed = [mode |-> "none", span |-> Nothing, fret |-> 0, grab |-> 0, hasSel |-> FALSE,
             typing |-> -1]
    /\ history = Empty /\ steps = 0 /\ before = track /\ told = <<>>

WithHint(t, n, row)  == [t EXCEPT !.hints = (HintKey(n) :> row) @@ @]
WithoutHint(t, n)    == [t EXCEPT !.hints = [k \in DOMAIN @ \ {HintKey(n)} |-> @[k]]]
NewNote(t, n, row)   == WithHint(AddNote(t, n.start, n.end - n.start, n.note, n.vel), n, row)

HintLeftBehind(t, old, new, row) ==  \* (defect: the hint stays with the old tick and pitch)
    AddNote(RemoveNote(t, old), new.start, Duration(new), new.note, new.vel)

\* replaceNote: the note is taken out with its hint and put in with another.
ReplaceNote(t, old, new, row) ==
    NewNote(WithoutHint(RemoveNote(t, old), old),
            [new EXCEPT !.end = new.start + Duration(new)], row)

CopyAfter(t) == history' = Record(history, t) /\ track' = t  \* (defect: the copy is made too late)

\* The copy is made before the note is taken out.
Edit(t) == history' = Record(history, track) /\ track' = t

\* A frame looks for the picked note among those the frame began with: a note that was
\* put in by the mouse is not yet there, and the choice is lost if the keys are here.
Settled(e, t) == IF focused' /\ e.hasSel /\ ~Picks(e, t) THEN [e EXCEPT !.hasSel = FALSE] ELSE e

Replaces(old, new, row) ==
    /\ Edit(ReplaceNote(track, old, new, row))
    /\ told' = [old |-> old, new |-> new, row |-> row]

------------------------------------------------------------------------------
(***************************************************************************)
(* The mouse.                                                              *)
(***************************************************************************)
Shown == track.tuning # None

\* The wheel goes one fret up or down on the same string.
Wheel(row, tick, d) ==
    /\ Shown /\ UNCHANGED focused
    /\ \E n \in HitAt(row, tick) : \E p \in PlaceOf(track, n) :
         \E note \in ToSet(NoteAt(track.tuning, p.string, p.fret + d)) :
            /\ Replaces(n, [n EXCEPT !.note = note], RowOfString(p.string))
            /\ ed' = Settled([ed EXCEPT !.hasSel = TRUE, !.span = [n EXCEPT !.note = note]], track)

PressNote(row, tick, edge) ==
    /\ Shown /\ ed.mode = "none" /\ focused' = TRUE
    /\ \E n \in HitAt(row, tick) :
         ed' = [mode |-> IF edge THEN "resize" ELSE "move", span |-> n,
                fret |-> Grip(track, n).fret, grab |-> AtLeast0(tick - n.start),
                hasSel |-> TRUE, typing |-> -1]
    /\ told' = <<>> /\ UNCHANGED <<track, history>>

\* A click beside the notes adds the open string.
AddAt(row, tick) ==
    LET n == [start |-> Snap(tick), end |-> Snap(tick) + NoteLen, vel |-> 100,
              note |-> track.tuning[Len(track.tuning) - row]]
    IN  /\ Shown /\ ed.mode = "none" /\ row < Len(track.tuning) /\ HitAt(row, tick) = {}
        /\ focused' = TRUE /\ Edit(NewNote(track, n, row)) /\ told' = <<>>
        /\ ed' = Settled([ed EXCEPT !.hasSel = TRUE, !.span = n, !.typing = -1], track)

RightClick(row, tick) ==
    /\ Shown /\ focused' = TRUE
    /\ \E n \in HitAt(row, tick) : Edit(WithoutHint(RemoveNote(track, n), n))
    /\ ed' = [ed EXCEPT !.hasSel = FALSE] /\ told' = <<>>

Unedited == told' = <<>> /\ UNCHANGED <<track, history>>

\* The drag is carried out when the button comes up, on the note as it was picked.
ReleaseResize(tick) ==
    LET end == Max({Snap(tick), ed.span.start + NoteLen})
        new == [ed.span EXCEPT !.end = end]
    IN  /\ Shown /\ ed.mode = "resize" /\ UNCHANGED focused
        /\ IF end = ed.span.end
           THEN Unedited /\ ed' = Settled([ed EXCEPT !.mode = "none"], track)
           ELSE /\ Replaces(ed.span, new, RowOfString(Grip(track, ed.span).string))
                /\ ed' = Settled([ed EXCEPT !.mode = "none", !.span = new], track)

ReleaseMove(row, tick) ==
    LET start == Snap(AtLeast0(tick - ed.grab))
        notes == NoteAt(track.tuning, Len(track.tuning) - row, ed.fret)
        moved == {note \in ToSet(notes) : note # ed.span.note \/ start # ed.span.start}
    IN  /\ Shown /\ ed.mode = "move" /\ UNCHANGED focused
        /\ IF moved = {}
           THEN Unedited /\ ed' = Settled([ed EXCEPT !.mode = "none"], track)
           ELSE \E note \in moved :
                  LET new == [ed.span EXCEPT !.note = note, !.start = start,
                                             !.end = start + ed.span.end - ed.span.start]
                  IN  /\ Replaces(ed.span, new, row)
                      /\ ed' = Settled([ed EXCEPT !.mode = "none", !.span = new], track)

------------------------------------------------------------------------------
(***************************************************************************)
(* The keys, for the note picked; they work while the button is down too.   *)
(***************************************************************************)
HasKeys == Shown /\ focused /\ ed.hasSel /\ Picks(ed, track)

PickForgotten(new, typing) ==  \* (defect: the old span stays picked)
    /\ HasKeys /\ Replaces(ed.span, new, RowOfString(Grip(track, ed.span).string))
    /\ ed' = [ed EXCEPT !.typing = typing]
    /\ UNCHANGED focused

KeyEdit(new, typing) ==
    /\ HasKeys /\ Replaces(ed.span, new, RowOfString(Grip(track, ed.span).string))
    /\ ed' = [ed EXCEPT !.span = new, !.typing = typing]
    /\ UNCHANGED focused

\* A fret the string does not have changes nothing but what was typed.
SetFret(fret, typing) ==
    LET notes == NoteAt(track.tuning, Grip(track, ed.span).string, fret)
    IN  IF notes # <<>> THEN KeyEdit([ed.span EXCEPT !.note = notes[1]], typing)
        ELSE ed' = [ed EXCEPT !.typing = typing] /\ Unedited /\ UNCHANGED focused

FretKey(d) == HasKeys /\ SetFret(Grip(track, ed.span).fret + d, -1)

\* A second digit after a 1 or a 2 makes a number of two.
DigitKey(d) ==
    LET two  == IF ed.typing >= 0 THEN ed.typing * 10 + d ELSE d
        fret == IF two <= MaxFret THEN two ELSE d
    IN  HasKeys /\ SetFret(fret, IF fret \in 1..2 THEN fret ELSE -1)

MoveKey(d) ==
    /\ ed.span.start + d * NoteLen >= 0
    /\ KeyEdit([ed.span EXCEPT !.start = @ + d * NoteLen, !.end = @ + d * NoteLen], ed.typing)

LengthKey(d) ==
    /\ d < 0 => ed.span.end - ed.span.start > NoteLen
    /\ KeyEdit([ed.span EXCEPT !.end = @ + d * NoteLen], ed.typing)

DeleteKey ==
    /\ HasKeys /\ Edit(WithoutHint(RemoveNote(track, ed.span), ed.span))
    /\ ed' = [ed EXCEPT !.hasSel = FALSE] /\ told' = <<>> /\ UNCHANGED focused

------------------------------------------------------------------------------
(***************************************************************************)
(* The buttons, and the rest of the program.                               *)
(***************************************************************************)
SetTuning(tuning) ==
    /\ ed.mode = "none" /\ Edit([track EXCEPT !.tuning = tuning]) /\ told' = <<>>
    /\ UNCHANGED <<ed, focused>>

OutOfRange == SelectSeq(ExtractNotes(track),
    LAMBDA n : ~IsPlayable(track.tuning, n.note) /\ Fitted(track.tuning, n.note) # {})

FitOctaves ==
    LET Fit(t, n) == AddNote(RemoveNote(t, n), n.start, n.end - n.start,
                             CHOOSE note \in Fitted(track.tuning, n.note) : TRUE, n.vel)
    IN  /\ Shown /\ ed.mode = "none" /\ OutOfRange # <<>>
        /\ Edit(FoldLeft(Fit, track, OutOfRange)) /\ told' = <<>>
        /\ UNCHANGED focused /\ ed' = Settled(ed, track)

Undo ==
    /\ CanUndo(history) /\ history' = AfterUndo(history, track) /\ track' = Undone(history)
    /\ UNCHANGED focused /\ told' = <<>>
    /\ ed' = IF track'.tuning = None THEN ed ELSE Settled(ed, track')

Redo ==
    /\ CanRedo(history) /\ history' = AfterRedo(history, track) /\ track' = Redone(history)
    /\ UNCHANGED focused /\ told' = <<>>
    /\ ed' = IF track'.tuning = None THEN ed ELSE Settled(ed, track')

ClickElsewhere ==
    /\ focused /\ ed.mode = "none" /\ focused' = FALSE /\ UNCHANGED ed /\ Unedited

------------------------------------------------------------------------------
Mouse ==
    \E tick \in Places :
        \/ ReleaseResize(tick)
        \/ \E row \in Rows : \/ AddAt(row, tick) \/ RightClick(row, tick) \/ ReleaseMove(row, tick)
                             \/ \E edge \in BOOLEAN : PressNote(row, tick, edge)
                             \/ \E d \in {-1, 1} : Wheel(row, tick, d)

Keys ==
    \/ \E d \in {-1, 1} : FretKey(d) \/ MoveKey(d) \/ LengthKey(d)
    \/ \E d \in Digits : DigitKey(d)
    \/ DeleteKey

Others == FitOctaves \/ Undo \/ Redo \/ ClickElsewhere \/ \E t \in Tunings : SetTuning(t)

Next ==
    /\ steps < MaxSteps /\ steps' = steps + 1
    /\ Mouse \/ Keys \/ Others
    /\ Len(track'.events) <= MaxEvents
    /\ before' = track

Spec == Init /\ [][Next]_vars

------------------------------------------------------------------------------
(***************************************************************************)
(* An edit of one note puts that note where it was to go, on the string it  *)
(* was on or was dropped on, and leaves the others where they were, each on *)
(* its string: as many notes before as after, if the note was still there    *)
(* and ended (an undo during the drag may have taken it away).             *)
(* Two notes of one tick and pitch share a hint and are not told apart.     *)
(***************************************************************************)
Starting(t, n) == Cardinality({i \in DOMAIN t.events : /\ t.events[i].kind = "on"
                                                       /\ t.events[i].note = n.note
                                                       /\ t.events[i].tick = n.start})
Alone(t, n) == Starting(t, n) <= 1

\* Every note has an end of its own, and no end is left over.
Tidy(t) ==
    /\ Len(t.events) = 2 * Len(ExtractNotes(t))
    /\ \A n \in NoteSet(t) : \E i \in DOMAIN t.events :
         t.events[i].kind = "off" /\ t.events[i].note = n.note /\ t.events[i].tick = n.end

NotesStayOnTheirStrings ==
    (/\ told # <<>> /\ Tidy(before) /\ Starting(before, told.old) = 1
     /\ \E m \in NoteSet(before) : SameSpan(m, told.old)) =>
        LET others(t, n) == {m \in NoteSet(t) : Key(m) # Key(n)}
        IN  /\ Starting(track, told.new) >= 1
            /\ Alone(track, told.new) =>
                 /\ IsPlayable(track.tuning, told.new.note) => RowOf(track, told.new) = told.row
                 /\ Len(track.events) = Len(before.events)
                 /\ {Key(n) : n \in others(track, told.new)} = {Key(n) : n \in others(before, told.old)}
            /\ \A n \in NoteSet(track) :
                 (Key(n) # Key(told.new) /\ n \in NoteSet(before) /\ Key(n) # Key(told.old)) =>
                    RowOf(track, n) = RowOf(before, n)

(***************************************************************************)
(* What the keys edit is a note of the track, so that the next key finds    *)
(* it, unless notes of its pitch overlap.                                  *)
(***************************************************************************)
Overlapped(t, n) == \E m \in NoteSet(t) : /\ m.note = n.note /\ ~SameSpan(m, n)
                                          /\ m.start < n.end /\ n.start < m.end
KeysKeepTheNote ==
    [][Keys => (~ed'.hasSel \/ Picks(ed', track') \/ Overlapped(track', ed'.span))]_vars

(***************************************************************************)
(* One undo takes back one edit, whole.                                    *)
(***************************************************************************)
OneUndoPerEdit ==
    [][(track' # track /\ ~Undo /\ ~Redo) => CanUndo(history') /\ Undone(history') = track]_vars

(***************************************************************************)
(* A note is drawn on a string and at a fret that sound it, if there are    *)
(* any, whatever the hint says, and without a hint at the lowest fret; and  *)
(* an octave can be found for every pitch.                                 *)
(***************************************************************************)
StringsSoundTheirNotes ==
    \A tuning \in Tunings \ {None}, note \in 0..127 :
        /\ \A hint \in {{}} \cup {{row} : row \in 0..6} :
             LET places == Placed(tuning, note, hint)
             IN  /\ (places # {}) = IsPlayable(tuning, note)
                 /\ Cardinality(places) <= 1
                 /\ \A p \in places : NoteAt(tuning, p.string, p.fret) = <<note>>
        /\ \E n \in Fitted(tuning, note) : IsPlayable(tuning, n) /\ n % 12 = note % 12
==============================================================================
