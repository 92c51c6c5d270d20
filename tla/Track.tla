-------------------------------- MODULE Track --------------------------------
(***************************************************************************)
(* The track's event list and the operations on it: sequencer/Track.cpp.    *)
(*                                                                         *)
(* A track keeps its notes as a flat list of events, a Note On and a Note   *)
(* Off per note, sorted by tick; a note is whatever pair ExtractNotes finds *)
(* there.  A MIDI clip lies over the list and names its notes by their key, *)
(* <<pitch, start tick>>.  Every operation takes a track and returns the    *)
(* track it leaves; the modules of the editors hold the state.              *)
(***************************************************************************)
EXTENDS Integers, SequencesExt

On(tick, note, vel)  == [tick |-> tick, kind |-> "on",  note |-> note, vel |-> vel]
Off(tick, note)      == [tick |-> tick, kind |-> "off", note |-> note, vel |-> 0]
\* A controller, a pitch bend or a program change: an event that is no note.
Control(tick, number, value) ==
    [tick |-> tick, kind |-> "cc", note |-> number, vel |-> value]

EmptyTrack == [events |-> <<>>, clips |-> <<>>, stamp |-> 0]

IsNote(e) == e.kind # "cc"
Key(n)    == <<n.note, n.start>>

------------------------------------------------------------------------------
(***************************************************************************)
(* The list.                                                               *)
(***************************************************************************)
\* The elements that pass a test, in their order.
Where(s, Test(_)) == FlattenSeq([k \in DOMAIN s |-> IF Test(s[k]) THEN <<s[k]>> ELSE <<>>])

AddNote(t, tick, dur, note, vel) ==
    [t EXCEPT !.events = @ \o <<On(tick, note, vel), Off(tick + dur, note)>>]

LengthTicks(t) == Max({0} \cup {t.events[i].tick : i \in DOMAIN t.events})

\* A stable sort: within a tick the order of the list is kept.
ByTick(events) ==
    LET last == Max({0} \cup {events[i].tick : i \in DOMAIN events})
    IN  FlattenSeq([k \in 1..last + 1 |->
                       Where(events, LAMBDA e : e.tick = k - 1)])

SortEvents(t) == [t EXCEPT !.events = ByTick(@), !.stamp = @ + 1]

(***************************************************************************)
(* The notes of the list.  A Note Off closes the oldest open note of its    *)
(* pitch; a note that is never closed lasts to the end of the track.        *)
(***************************************************************************)
ExtractNotes(t) ==
    LET Step(acc, e) ==
          LET open == {i \in acc.open : acc.spans[i].note = e.note}
          IN  CASE e.kind = "on" ->
                     [spans |-> Append(acc.spans, [start |-> e.tick, end |-> e.tick,
                                                   note |-> e.note, vel |-> e.vel]),
                      open  |-> acc.open \cup {Len(acc.spans) + 1}]
                [] e.kind = "off" /\ open # {} ->
                     [spans |-> [acc.spans EXCEPT ![Min(open)].end = e.tick],
                      open  |-> acc.open \ {Min(open)}]
                [] OTHER -> acc
        done == FoldLeft(Step, [spans |-> <<>>, open |-> {}], t.events)
    IN  [i \in DOMAIN done.spans |->
            IF i \in done.open THEN [done.spans[i] EXCEPT !.end = LengthTicks(t)]
                               ELSE done.spans[i]]

NoteSet(t)  == ToSet(ExtractNotes(t))
Duration(n) == IF n.end > n.start THEN n.end - n.start ELSE 1

\* noteSpanAt: the notes of a pitch that sound at a tick, of which the first is returned.
SpansAt(t, note, tick) ==
    SelectSeq(ExtractNotes(t), LAMBDA n : n.note = note /\ n.start <= tick /\ tick < n.end)

------------------------------------------------------------------------------
(***************************************************************************)
(* Membership.                                                             *)
(***************************************************************************)
Covers(c, tick) == c.start <= tick /\ tick < c.end

\* The first clip that covers the tick owns the note.
AdoptNote(t, note, tick) ==
    LET over == {i \in DOMAIN t.clips : Covers(t.clips[i], tick)}
    IN  IF over = {} THEN t
        ELSE [t EXCEPT !.clips[Min(over)].members = @ \cup {<<note, tick>>}]

DisownNote(t, note, tick) ==
    [t EXCEPT !.clips = [i \in DOMAIN t.clips |->
                            [t.clips[i] EXCEPT !.members = @ \ {<<note, tick>>}]]]

NotesInside(t, from, to) ==
    SelectSeq(ExtractNotes(t), LAMBDA n : from <= n.start /\ n.start < to)

WhateverLiesThere(t, c) ==  \* (defect: the clip takes the notes under its box)
    NotesInside(t, c.start, c.end)

AliveMembers(t, c) == Where(ExtractNotes(t), LAMBDA n : Key(n) \in c.members)

AdoptMembers(t, c) ==
    [c EXCEPT !.members = {Key(n) : n \in ToSet(NotesInside(t, c.start, c.end))}]

------------------------------------------------------------------------------
(***************************************************************************)
(* Removing a note takes its first matching Note On and its first matching  *)
(* Note Off out of the list, each once.                                     *)
(***************************************************************************)
OnsOf(t, n)  == {i \in DOMAIN t.events : /\ t.events[i].kind = "on"
                                         /\ t.events[i].note = n.note
                                         /\ t.events[i].tick = n.start}
OffsOfAnyPitch(t, n) ==  \* (defect: the pitch of the Note Off is not compared)
    {i \in DOMAIN t.events : t.events[i].kind = "off" /\ t.events[i].tick = n.end}
OffsOf(t, n) == {i \in DOMAIN t.events : /\ t.events[i].kind = "off"
                                         /\ t.events[i].note = n.note
                                         /\ t.events[i].tick = n.end}
Without(s, I) == FlattenSeq([k \in DOMAIN s |-> IF k \in I THEN <<>> ELSE <<s[k]>>])
FirstOf(I) == IF I = {} THEN {} ELSE {Min(I)}

RemoveNote(t, n) ==
    LET rest == [t EXCEPT !.events = Without(@, FirstOf(OnsOf(t, n)) \cup FirstOf(OffsOf(t, n)))]
    IN  IF OnsOf(t, n) = {} THEN rest
        ELSE DisownNote([rest EXCEPT !.stamp = @ + 1], n.note, n.start)

RemoveNotes(t, notes) == FoldLeft(RemoveNote, t, notes)

\* The notes are put back at the places At gives them.
AddNotes(t, notes, At(_)) ==
    FoldLeft(LAMBDA a, n : AddNote(a, At(n)[2], Duration(n), At(n)[1], n.vel), t, notes)

SetVelocity(t, n, vel) ==
    IF OnsOf(t, n) = {} THEN t
    ELSE [t EXCEPT !.events[Min(OnsOf(t, n))].vel = IF vel = 0 THEN 1 ELSE vel,
                   !.stamp = @ + 1]

\* Takes a note out, puts it at another key and lets the clip there own it.
Rekey(t, n, note, tick) ==
    AdoptNote(AddNote(RemoveNote(t, n), tick, Duration(n), note, n.vel), note, tick)

\* The notes of the list named by touched move one after the other, each to its
\* place in at, and the list is sorted if any did.
Retime(t, notes, at, touched) ==
    LET moved == FoldLeft(LAMBDA a, i : IF i \notin touched THEN a
                                        ELSE Rekey(a, notes[i], notes[i].note, at[i]),
                          t, [i \in DOMAIN notes |-> i])
    IN  IF touched = {} THEN t ELSE SortEvents(moved)

Late(notes, at) == {i \in DOMAIN notes : at[i] # notes[i].start}

OnGrid(tick, grid) == ((tick + grid \div 2) \div grid) * grid

\* Where the grid, and the swing of every second cell of it, puts each note.
Quantized(notes, grid) == [i \in DOMAIN notes |-> OnGrid(notes[i].start, grid)]
Swung(notes, grid, delay) ==
    [i \in DOMAIN notes |->
        LET q == OnGrid(notes[i].start, grid)
        IN  IF (q \div grid) % 2 = 0 THEN q ELSE q + delay]

------------------------------------------------------------------------------
(***************************************************************************)
(* Ranges and clips.  Notes move by the pair, controllers by their place.   *)
(***************************************************************************)
AtLeast0(tick) == Max({0, tick})

ShiftControls(t, from, to, d) ==
    [t EXCEPT !.events = [i \in DOMAIN t.events |->
        LET e == t.events[i]
        IN  IF IsNote(e) \/ ~(from <= e.tick /\ e.tick < to) THEN e
            ELSE [e EXCEPT !.tick = AtLeast0(@ + d)]]]

ControlsInside(t, from, to) ==
    SelectSeq(t.events, LAMBDA e : ~IsNote(e) /\ from <= e.tick /\ e.tick < to)

DropControls(t, from, to) ==
    [t EXCEPT !.events = Where(@, LAMBDA e : IsNote(e) \/ e.tick < from \/ to <= e.tick)]

NotErased(t, from, to) == t  \* (defect: the range is not emptied first)

EraseRange(t, from, to) ==
    IF to <= from THEN t
    ELSE DropControls(RemoveNotes(t, NotesInside(t, from, to)), from, to)

Later(events, d) == [i \in DOMAIN events |-> [events[i] EXCEPT !.tick = AtLeast0(@ + d)]]

\* The clip's own notes move with it, whatever else lies there.
ShiftClip(t, i, from, to, d) ==
    IF d = 0 THEN t
    ELSE LET mine == AliveMembers(t, t.clips[i])
             put  == AddNotes(ShiftControls(RemoveNotes(t, mine), from, to, d), mine,
                              LAMBDA n : <<n.note, AtLeast0(n.start + d)>>)
         IN  SortEvents([put EXCEPT !.clips[i].members =
                             {<<n.note, AtLeast0(n.start + d)>> : n \in ToSet(mine)}])

CopiedClip(t, c, d) ==
    [c EXCEPT !.start = @ + d, !.end = @ + d,
              !.members = {<<n.note, n.start + d>> : n \in ToSet(AliveMembers(t, c))}]

CopyClip(t, c, d) ==
    SortEvents(AddNotes([t EXCEPT !.events = @ \o Later(ControlsInside(t, c.start, c.end), d)],
                        AliveMembers(t, c), LAMBDA n : <<n.note, n.start + d>>))

EraseClip(t, c) == DropControls(RemoveNotes(t, AliveMembers(t, c)), c.start, c.end)

\* The source track without the clip's notes and controllers ...
LeaveTrack(src, c, from, to) == SortEvents(DropControls(RemoveNotes(src, AliveMembers(src, c)), from, to))

\* ... and the track they go to, at the end of whose list they are put.
EnterTrack(dst, src, c, from, to, d) ==
    LET mine == AliveMembers(src, c)
        ccs  == ControlsInside(RemoveNotes(src, mine), from, to)
        put  == AddNotes(dst, mine, LAMBDA n : <<n.note, AtLeast0(n.start + d)>>)
    IN  SortEvents([put EXCEPT !.events = @ \o Later(ccs, d)])

ByStart(clips) == FlattenSeq([k \in 1..Max({0} \cup {clips[i].start : i \in DOMAIN clips}) + 1 |->
                                 Where(clips, LAMBDA c : c.start = k - 1)])
==============================================================================
