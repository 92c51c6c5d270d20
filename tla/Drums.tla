-------------------------------- MODULE Drums --------------------------------
(***************************************************************************)
(* The drum window: gui/PanelsDrums.cpp and sequencer/DrumPattern.h.        *)
(*                                                                         *)
(* Rows of drums over a grid of cells.  A press paints, takes hold of a     *)
(* note or of the selection, opens a box or changes how loud a cell is, and *)
(* the gesture lasts until the button comes up; what a note that was not    *)
(* moved means is known only then: it is removed.  The notes the mouse      *)
(* works on are those of the frame's start.  Buttons copy a bar, swing the  *)
(* track and fill bars with a pattern.  `rest' and `broken' are history     *)
(* variables as in NoteEditor, `filled' tells what the last step filled.    *)
(***************************************************************************)
EXTENDS Track, UndoHistory, FiniteSetsExt

CONSTANTS
    Songs,               \* the tracks of the song at first
    Rows,                \* the notes of the rows, top to bottom
    Places,              \* the ticks the mouse may be over
    Ppqn, Grid,          \* ticks of a beat, and of a cell
    Meters, Styles,     \* the signatures (or -1, the song's) and the styles of patterns
    Delays,              \* the amounts of swing
    MaxBars, MaxTracks, MaxSteps,    \* bounds
    MaxEvents            \* bound: a longer track is only undone

DrumsAssumption ==
    /\ {Ppqn, Grid, MaxBars, MaxEvents, MaxTracks, MaxSteps} \subseteq Nat \ {0}
    /\ Ppqn % 4 = 0 /\ Places \subseteq Nat /\ Styles \subseteq 0..2
    /\ Meters \subseteq -1..2 /\ Delays \subseteq Nat

VARIABLES
    tracks, selectedTrack, selectedNotes,
    sig,           \* metroSigIndex
    playPos,
    mouse,         \* the gesture under way
    history,
    steps, rest, broken, filled

vars == <<tracks, selectedTrack, selectedNotes, sig, playPos, mouse, history, steps, rest,
          broken, filled>>

Tr       == tracks[selectedTrack]
Idle     == [mode |-> "idle"]
IsDrum(t) == t.channel = 9
\* The window works on the selected track if it plays drums.
DrumShown == selectedTrack \in DOMAIN tracks /\ IsDrum(Tr)
CellOf(tick) == (tick \div Grid) * Grid
\* A new note fills three quarters of its cell.
PaintLen == (Grid * 3) \div 4

------------------------------------------------------------------------------
(***************************************************************************)
(* The patterns, on the eighths of a bar.  Signatures: 4/4, 3/4, 6/8.       *)
(***************************************************************************)
Kick == 36
Snare == 38
Hat == 42
Crash == 49

BarTicks(s) == (IF s = 2 THEN Ppqn \div 2 ELSE Ppqn) * <<4, 3, 6>>[s + 1]
Eighths(s)  == IF s = 0 THEN 8 ELSE 6

Hit(pos, note, vel) == [pos |-> pos, note |-> note, vel |-> vel]
Hats(s, every, loud, soft) ==
    [p \in 1..Eighths(s) |-> Hit(p - 1, Hat, IF (p - 1) % every = 0 THEN loud ELSE soft)]

Bar(s, style) ==
    CASE s = 0 /\ style = 2 -> <<Hit(0, Kick, 104), Hit(4, Snare, 96)>> \o Hats(s, 1, 64, 64)
      [] s = 0 /\ style = 1 -> <<Hit(0, Kick, 108), Hit(3, Kick, 92), Hit(4, Kick, 100),
                                 Hit(2, Snare, 104), Hit(6, Snare, 104)>> \o Hats(s, 2, 92, 72)
      [] s = 0 /\ style = 0 -> <<Hit(0, Kick, 108), Hit(4, Kick, 104),
                                 Hit(2, Snare, 106), Hit(6, Snare, 106)>> \o Hats(s, 2, 92, 72)
      [] s = 1 -> <<Hit(0, Kick, 108), Hit(2, Snare, 100), Hit(4, Snare, 100)>>
                  \o (IF style = 2 THEN [b \in 1..3 |-> Hit(2 * b - 2, Hat, 66)]
                                   ELSE Hats(s, 2, 92, 72))
      [] s = 2 -> <<Hit(0, Kick, 108), Hit(3, Snare, 102)>>
                  \o (IF style = 2 THEN <<>> ELSE <<Hit(3, Kick, 84)>>) \o Hats(s, 3, 90, 68)

\* The first bar begins with a crash, but in a ballad.
Pattern(s, style, bars, from) ==
    LET eighth == Ppqn \div 2
        Placed(b) == [i \in DOMAIN Bar(s, style) |->
            [tick |-> from + (b - 1) * Eighths(s) * eighth + Bar(s, style)[i].pos * eighth,
             note |-> Bar(s, style)[i].note, vel |-> Bar(s, style)[i].vel]]
    IN  (IF style = 2 THEN <<>> ELSE <<[tick |-> from, note |-> Crash, vel |-> 100]>>)
        \o FlattenSeq([b \in 1..bars |-> Placed(b)])

------------------------------------------------------------------------------
Init ==
    /\ tracks \in Songs /\ selectedTrack = 1 /\ selectedNotes = {}
    /\ sig \in {0, 1} /\ playPos = 0 /\ mouse = Idle /\ history = Empty
    /\ steps = 0 /\ rest = tracks /\ broken = FALSE /\ filled = <<>>

Snapshot == history' = Record(history, tracks)
Put(t)   == tracks' = [tracks EXCEPT ![selectedTrack] = t]
Command(t) == Snapshot /\ Put(t)
Place(t, tick, dur, note, vel) == AdoptNote(AddNote(t, tick, dur, note, vel), note, tick)

Still == UNCHANGED <<selectedTrack, sig, playPos>>

(***************************************************************************)
(* The buttons.                                                            *)
(***************************************************************************)
\* Without a drum track in hand the window offers the first there is ...  A press that
\* ends on this button ends out of the editor's sight.
FindDrum ==
    LET drums == {i \in DOMAIN tracks : IsDrum(tracks[i]) /\ ~tracks[i].practice}
    IN  /\ ~DrumShown /\ drums # {} /\ selectedTrack' = Min(drums)
        /\ mouse' = IF mouse.mode = "note" THEN [mouse EXCEPT !.mode = "left"] ELSE Idle
        /\ UNCHANGED <<tracks, selectedNotes, sig, playPos, history>>

\* ... or a new one, which the menu offers at any time.
AddDrumTrack ==
    /\ mouse = Idle /\ Len(tracks) < MaxTracks /\ Snapshot
    /\ tracks' = Append(tracks, [channel |-> 9, practice |-> FALSE, events |-> <<>>,
                                 clips |-> <<>>, stamp |-> 0])
    /\ selectedTrack' = Len(tracks) + 1
    /\ UNCHANGED <<selectedNotes, sig, playPos, mouse>>

SelectTrack(i) ==
    /\ mouse = Idle /\ i # selectedTrack /\ selectedTrack' = i
    \* The piano roll, if it is open, drops the selection.
    /\ selectedNotes' \in {selectedNotes, {}}
    /\ UNCHANGED <<tracks, sig, playPos, mouse, history>>

DuplicateBar ==
    LET bar  == BarTicks(sig)
        from == (playPos \div bar) * bar
        Copied(t, n) == Place(t, n.start + bar, n.end - n.start, n.note, n.vel)
    IN  /\ DrumShown /\ mouse = Idle
        /\ Command(SortEvents(FoldLeft(Copied, Tr, NotesInside(Tr, from, from + bar))))
        /\ Still /\ UNCHANGED <<selectedNotes, mouse>>

ApplySwing(delay) ==
    LET sel   == SelectSeq(ExtractNotes(Tr), LAMBDA n : Key(n) \in selectedNotes)
        notes == IF sel = <<>> THEN ExtractNotes(Tr) ELSE sel
        at    == Swung(notes, Grid, delay)
    IN  /\ DrumShown /\ mouse = Idle /\ notes # <<>>
        /\ Command(Retime(Tr, notes, at, {i \in DOMAIN notes : at[i] # notes[i].start}))
        /\ selectedNotes' = IF sel = <<>> THEN selectedNotes
                            ELSE {<<notes[i].note, at[i]>> : i \in DOMAIN notes}
        /\ Still /\ UNCHANGED mouse

\* The bars from the playhead on are emptied and filled.  The pattern may be of another
\* signature than the song's, which it then takes over if it is asked to.
FillPattern(choice, style, bars, follow) ==
    LET own   == IF choice < 0 THEN sig ELSE choice
        ours  == IF follow /\ choice >= 0 THEN choice ELSE sig
        from  == (playPos \div BarTicks(ours)) * BarTicks(ours)
        to    == from + bars * BarTicks(ours)
        hits  == Pattern(own, style, bars, from)
        put   == FoldLeft(LAMBDA t, h : Place(t, h.tick, Max({1, Ppqn \div 4}), h.note, h.vel),
                          EraseRange(Tr, from, to), hits)
    IN  /\ DrumShown /\ mouse = Idle
        /\ sig' = ours /\ Command(SortEvents(put))
        /\ filled' = [from |-> from, to |-> to, hits |-> hits, fits |-> own = ours,
                      before |-> Tr]
        /\ UNCHANGED <<selectedTrack, selectedNotes, playPos, mouse>>

------------------------------------------------------------------------------
(***************************************************************************)
(* The mouse.                                                              *)
(***************************************************************************)
CellNotes(t, row, cell) ==
    SelectSeq(ExtractNotes(t), LAMBDA n : /\ n.note = Rows[row]
                                          /\ cell <= n.start /\ n.start < cell + Grid)
KeysOf(notes) == {Key(n) : n \in ToSet(notes)}
IsEmpty(row, tick) == CellNotes(Tr, row, CellOf(tick)) = <<>>

\* The playhead is taken and drawn along.
Scrub(tick) ==
    /\ DrumShown /\ mouse = Idle /\ tick # playPos /\ playPos' = tick
    /\ UNCHANGED <<tracks, selectedTrack, selectedNotes, sig, mouse, history>>

\* With Ctrl: every note of the cell gets half its length, or a box is opened.
PressCtrl(row, tick) ==
    LET hits == CellNotes(Tr, row, CellOf(tick))
        Half(n) == Max({1, (IF n.end > n.start THEN n.end - n.start ELSE 2) \div 2})
        Halved(t, n) == Place(RemoveNote(t, n), n.start, Half(n), n.note, n.vel)
    IN  /\ DrumShown /\ mouse = Idle
        /\ IF hits = <<>>
           THEN /\ mouse' = [mode |-> "box", row |-> row, tick |-> tick]
                /\ selectedNotes' = {} /\ UNCHANGED <<tracks, history>>
           ELSE /\ Command(SortEvents(FoldLeft(Halved, Tr, hits)))
                /\ UNCHANGED <<mouse, selectedNotes>>
        /\ Still

\* With Alt: the cell is made louder or softer.
PressAlt(row, tick) ==
    /\ DrumShown /\ mouse = Idle /\ ~IsEmpty(row, tick) /\ Command(Tr)
    /\ mouse' = [mode |-> "loud", row |-> row, cell |-> CellOf(tick)]
    /\ Still /\ UNCHANGED selectedNotes

PressSelected(row, tick) ==
    /\ DrumShown /\ mouse = Idle
    /\ KeysOf(CellNotes(Tr, row, CellOf(tick))) \cap selectedNotes # {}
    /\ Command(Tr) /\ mouse' = [mode |-> "group", cell |-> CellOf(tick), moved |-> FALSE]
    /\ Still /\ UNCHANGED selectedNotes

\* A press elsewhere only drops the selection, if there is one.
Deselect(row, tick) ==
    /\ DrumShown /\ mouse = Idle /\ selectedNotes # {} /\ selectedNotes' = {}
    /\ KeysOf(CellNotes(Tr, row, CellOf(tick))) \cap selectedNotes = {}
    /\ Still /\ UNCHANGED <<tracks, mouse, history>>

PressWithoutCopy(row, tick) ==  \* (defect: the copy is left to a move that may never come)
    /\ DrumShown /\ mouse = Idle /\ selectedNotes = {} /\ ~IsEmpty(row, tick)
    /\ mouse' = [mode |-> "note", row |-> row, cell |-> CellOf(tick), moved |-> FALSE]
    /\ Still /\ UNCHANGED <<tracks, selectedNotes, history>>

PressNote(row, tick) ==
    /\ DrumShown /\ mouse = Idle /\ selectedNotes = {} /\ ~IsEmpty(row, tick) /\ Command(Tr)
    /\ mouse' = [mode |-> "note", row |-> row, cell |-> CellOf(tick), moved |-> FALSE]
    /\ Still /\ UNCHANGED selectedNotes

Painted(row, cell, vel) == SortEvents(Place(Tr, cell, PaintLen, Rows[row], vel))

PressEmpty(row, tick, vel) ==
    /\ DrumShown /\ mouse = Idle /\ selectedNotes = {} /\ IsEmpty(row, tick)
    /\ Command(Painted(row, CellOf(tick), vel))
    /\ mouse' = [mode |-> "paint", row |-> row, cell |-> CellOf(tick)]
    /\ Still /\ UNCHANGED selectedNotes

DragBox(row, tick) ==
    LET Between(a, b, x) == Min({a, b}) <= x /\ x <= Max({a, b})
        touched == {n \in NoteSet(Tr) :
                      /\ \E r \in DOMAIN Rows : Rows[r] = n.note /\ Between(mouse.row, row, r)
                      /\ Min({mouse.tick, tick}) <= n.start + Grid
                      /\ n.start <= Max({mouse.tick, tick})}
    IN  /\ DrumShown /\ mouse.mode = "box" /\ selectedNotes' = {Key(n) : n \in touched}
        /\ Still /\ UNCHANGED <<tracks, mouse, history>>

DragLoud(vel) ==
    /\ DrumShown /\ mouse.mode = "loud"
    /\ Put(FoldLeft(LAMBDA t, n : SetVelocity(t, n, vel), Tr,
                    CellNotes(Tr, mouse.row, mouse.cell)))
    /\ Still /\ UNCHANGED <<selectedNotes, mouse, history>>

NothingCleared(t, row, cell) == t  \* (defect: the note is put over what is in the cell)

ClearCell(t, row, cell) == RemoveNotes(t, CellNotes(t, row, cell))

\* What is in the cell that was taken becomes one note at the start of the cell it is
\* carried to, in the place of what is there.
DragNote(tick) ==
    LET cell    == CellOf(tick)
        grabbed == CellNotes(Tr, mouse.row, mouse.cell)
        cleared == ClearCell(RemoveNotes(Tr, grabbed), mouse.row, cell)
    IN  /\ DrumShown /\ mouse.mode = "note" /\ cell # mouse.cell /\ grabbed # <<>>
        /\ Put(SortEvents(Place(cleared, cell, PaintLen, Rows[mouse.row],
                                Max({n.vel : n \in ToSet(grabbed)}))))
        /\ selectedNotes' = selectedNotes \ KeysOf(CellNotes(Tr, mouse.row, cell))
        /\ mouse' = [mouse EXCEPT !.cell = cell, !.moved = TRUE]
        /\ Still /\ UNCHANGED history

\* The selection moves by cells, each note to the nearest cell; a move that would take
\* one past the start of the song is left out.
DragGroup(tick) ==
    LET cell == CellOf(tick)
        d    == cell - mouse.cell
        sel  == SelectSeq(ExtractNotes(Tr), LAMBDA n : Key(n) \in selectedNotes)
        To(n) == OnGrid(n.start + d, Grid)
    IN  /\ DrumShown /\ mouse.mode = "group" /\ cell # mouse.cell /\ sel # <<>>
        /\ \A n \in ToSet(sel) : n.start + d >= 0
        /\ Put(SortEvents(FoldLeft(LAMBDA t, n : Place(t, To(n), n.end - n.start, n.note, n.vel),
                                   RemoveNotes(Tr, sel), sel)))
        /\ selectedNotes' = {<<n.note, To(n)>> : n \in ToSet(sel)}
        /\ mouse' = [mouse EXCEPT !.cell = cell, !.moved = TRUE]
        /\ Still /\ UNCHANGED history

DragPaint(row, tick, vel) ==
    /\ DrumShown /\ mouse.mode = "paint" /\ <<row, CellOf(tick)>> # <<mouse.row, mouse.cell>>
    /\ IF IsEmpty(row, tick) THEN Put(Painted(row, CellOf(tick), vel)) ELSE UNCHANGED tracks
    /\ mouse' = [mouse EXCEPT !.row = row, !.cell = CellOf(tick)]
    /\ Still /\ UNCHANGED <<selectedNotes, history>>

\* A note that was taken and not moved is removed when the button comes up.
Release ==
    /\ DrumShown /\ mouse # Idle /\ mouse' = Idle
    /\ IF mouse.mode \in {"note", "left"} /\ ~mouse.moved
       THEN /\ Put(ClearCell(Tr, mouse.row, mouse.cell))
            /\ selectedNotes' = selectedNotes \ KeysOf(CellNotes(Tr, mouse.row, mouse.cell))
       ELSE UNCHANGED <<tracks, selectedNotes>>
    /\ Still /\ UNCHANGED history

\* A box and a change of loudness go before the right button; what is carried or painted,
\* only once the mouse has left its cell (a note, once it was dragged some way).
GivesWay(row, cell) ==
    \/ mouse = Idle
    \/ mouse.mode = "note"  /\ (mouse.cell = cell \/ ~mouse.moved)
    \/ mouse.mode = "group" /\ mouse.cell = cell
    \/ mouse.mode = "paint" /\ mouse.cell = cell /\ mouse.row = row

RightClick(row, tick) ==
    /\ DrumShown /\ GivesWay(row, CellOf(tick)) /\ ~IsEmpty(row, tick)
    /\ Command(ClearCell(Tr, row, CellOf(tick)))
    /\ selectedNotes' = selectedNotes \ KeysOf(CellNotes(Tr, row, CellOf(tick)))
    /\ Still /\ UNCHANGED mouse

\* The keyboard stays alive while the button is down.
Clamped(i, n) == Max({1, Min({i, n})})

Undo ==
    /\ CanUndo(history) /\ history' = AfterUndo(history, tracks)
    /\ tracks' = Undone(history) /\ selectedTrack' = Clamped(selectedTrack, Len(tracks'))
    /\ UNCHANGED <<selectedNotes, sig, playPos, mouse>>

Redo ==
    /\ CanRedo(history) /\ history' = AfterRedo(history, tracks)
    /\ tracks' = Redone(history) /\ selectedTrack' = Clamped(selectedTrack, Len(tracks'))
    /\ UNCHANGED <<selectedNotes, sig, playPos, mouse>>

------------------------------------------------------------------------------
Buttons ==
    \/ FindDrum \/ AddDrumTrack \/ DuplicateBar
    \/ \E i \in DOMAIN tracks : SelectTrack(i)
    \/ \E delay \in Delays : ApplySwing(delay)

Fill == \E choice \in Meters, style \in Styles, bars \in 1..MaxBars, follow \in BOOLEAN :
            FillPattern(choice, style, bars, follow)

Mouse ==
    \/ Release
    \/ \E tick \in Places : DragNote(tick) \/ DragGroup(tick)
    \/ \E vel \in {64, 127} : DragLoud(vel)
    \/ \E row \in DOMAIN Rows, tick \in Places :
         \/ PressCtrl(row, tick) \/ PressAlt(row, tick) \/ PressSelected(row, tick)
         \/ Deselect(row, tick) \/ PressNote(row, tick) \/ PressEmpty(row, tick, 100)
         \/ DragBox(row, tick) \/ DragPaint(row, tick, 127) \/ RightClick(row, tick)
    \/ \E tick \in {BarTicks(sig)} : Scrub(tick)

IsShort == Len(Tr.events) <= MaxEvents

Frame ==
    /\ rest'   = IF mouse' = Idle THEN tracks' ELSE rest
    /\ broken' = (/\ mouse' # Idle
                  /\ broken \/ (mouse # Idle /\ history' # history))

Next ==
    /\ steps < MaxSteps /\ steps' = steps + 1
    /\ \/ IsShort /\ Fill
       \/ IsShort /\ (Buttons \/ Mouse) /\ filled' = <<>>
       \/ (Undo \/ Redo) /\ filled' = <<>>
    /\ Frame

Spec == Init /\ [][Next]_vars

------------------------------------------------------------------------------
(***************************************************************************)
(* One undo takes back a whole gesture, if none came in between: also the   *)
(* removal that is decided when the button comes up, and the whole stroke   *)
(* of a brush, of a move or of a change of loudness.                       *)
(***************************************************************************)
UndoTakesBackTheStroke ==
    [][(mouse' = Idle /\ ~broken /\ tracks' # rest /\ ~Undo /\ ~Redo)
       => CanUndo(history') /\ Undone(history') = rest]_vars

(***************************************************************************)
(* A note that is carried lands alone in its cell, whatever lay in either   *)
(* cell, off the grid or on it.                                            *)
(***************************************************************************)
CarriedNoteIsAlone ==
    (mouse.mode = "note" /\ mouse.moved /\ ~broken) =>
        LET there == CellNotes(Tr, mouse.row, mouse.cell)
        IN  Len(there) = 1 /\ there[1].start = mouse.cell

(***************************************************************************)
(* Bars that are filled with a pattern in the song's own signature hold the *)
(* pattern and nothing else, each hit once and in the clip it starts in,    *)
(* and the notes outside of them start where they did.                     *)
(***************************************************************************)
StartsOf(notes) == {<<n.note, n.start, n.vel>> : n \in ToSet(notes)}

PatternFillsItsBars ==
    (filled # <<>> /\ filled.fits) =>
        LET inside  == NotesInside(Tr, filled.from, filled.to)
            Outside(t) == SelectSeq(ExtractNotes(t),
                              LAMBDA n : n.start < filled.from \/ filled.to <= n.start)
        IN  /\ Len(inside) = Len(filled.hits)
            /\ StartsOf(inside) = {<<h.note, h.tick, h.vel>> : h \in ToSet(filled.hits)}
            /\ StartsOf(Outside(Tr)) = StartsOf(Outside(filled.before))
            /\ \A n \in ToSet(inside) :
                 LET over == {i \in DOMAIN Tr.clips : Covers(Tr.clips[i], n.start)}
                 IN  over # {} => Key(n) \in Tr.clips[Min(over)].members
==============================================================================
