----------------------------- MODULE NoteEditor ------------------------------
(***************************************************************************)
(* Editing notes: the piano roll (gui/PanelsPianoRoll.cpp), the note and    *)
(* MIDI-clip commands of gui/Panels.cpp and gui/PanelsTrackView.cpp, MIDI   *)
(* recording, undo, and the version tree.                                   *)
(*                                                                         *)
(* Two tracks and one mouse.  A gesture of the mouse (a drag of a note, of  *)
(* the selection or of a clip, a painted stroke, a stroke in the lane below *)
(* the roll) spans many frames: it takes its copy of the song when it       *)
(* starts, changes the song as it goes or when the button comes up, and     *)
(* leaves the keyboard alive in between.  `rest' and `broken' are history   *)
(* variables: the song before the gesture under way, and whether undo,      *)
(* redo, a version or a command came in during it.                          *)
(***************************************************************************)
EXTENDS Track, UndoHistory, FiniteSetsExt

CONSTANTS
    Pitches, Ticks,      \* where the mouse and the keyboard may put a note
    Velocities,          \* what a key press or a bar of the lane gives
    InitialTracks,       \* the lists the tracks may hold at first
    Ppqn,                \* ticks of a beat
    NoteLen,             \* ticks of a new note
    Grids, Percents,     \* what the quantise and swing menus offer
    MaxEvents, MaxClips, MaxSteps, MaxVersions   \* bounds

NoteEditorAssumption ==
    /\ {Ppqn, NoteLen, MaxEvents, MaxClips, MaxSteps, MaxVersions} \subseteq Nat
    /\ Ppqn > 0 /\ NoteLen > 0
    /\ Pitches \subseteq Nat /\ Ticks \subseteq Nat /\ Velocities \subseteq Nat \ {0}
    /\ Grids \subseteq Nat \ {0} /\ Percents \subseteq Nat \ {0}

VARIABLES
    tracks,        \* song.tracks
    selectedTrack,
    selectedNotes, \* the keys of the selected notes
    selectedClip,  \* <<selMidiClipTrack, selMidiClipIndex>>, index 0 for none
    clipboard,     \* noteClipboard
    mouse,         \* the gesture under way
    last,          \* lastNoteDurationTicks, lastNoteVelocity
    recording,
    openRec,       \* openRecNotes: pitch -> [tick, vel]
    playPos,
    history,
    versions,      \* the songs checked in
    shown,         \* cachedNotes: what the track view draws of each track
    steps, rest, broken

vars == <<tracks, selectedTrack, selectedNotes, selectedClip, clipboard, mouse, last,
          recording, openRec, playPos, history, versions, shown, steps, rest, broken>>

Lanes   == DOMAIN tracks
Tr      == tracks[selectedTrack]
Grid    == Max({1, Ppqn \div 4})
Snap(t) == (t \div Grid) * Grid
Idle    == [mode |-> "idle"]

\* The first note of a pitch under the mouse, as a sequence of at most one.
HitAt(t, note, tick) == LET over == SpansAt(t, note, tick) IN SubSeq(over, 1, Min({1, Len(over)}))

------------------------------------------------------------------------------
(***************************************************************************)
(* What the track view draws.  The notes found last are kept as long as the *)
(* track's stamp, its number of events and a probe of them are the same.    *)
(***************************************************************************)
Probe(t) == IF t.events = <<>> THEN <<>> ELSE <<Head(t.events).tick, Last(t.events).tick>>

Found(t) == [stamp |-> t.stamp, count |-> Len(t.events), probe |-> Probe(t),
             notes |-> ExtractNotes(t)]

Refreshed(entry, t) ==
    IF /\ entry.stamp = t.stamp /\ entry.count = Len(t.events) /\ entry.probe = Probe(t)
    THEN entry ELSE Found(t)

Init ==
    /\ tracks \in {<<t, EmptyTrack>> : t \in InitialTracks}
    /\ selectedTrack = 1 /\ selectedNotes = {} /\ selectedClip = <<1, 0>>
    /\ clipboard = <<>> /\ mouse = Idle /\ last = [dur |-> 0, vel |-> 100]
    /\ recording = FALSE /\ openRec = <<>> /\ playPos = 0
    /\ history = Empty /\ versions = <<>> /\ shown = [i \in 1..2 |-> Found(tracks[i])]
    /\ steps = 0 /\ rest = tracks /\ broken = FALSE

\* The frame ends: what is drawn, and whether the user is at rest.
Frame ==
    LET still       == mouse' = Idle /\ ~recording'
        interrupted == /\ mouse # Idle \/ recording
                       /\ \/ <<history, recording, mouse.mode>>' # <<history, recording, mouse.mode>>
                          \/ mouse.mode = "move" /\ tracks' # tracks
    IN  /\ shown'  = [i \in Lanes |-> Refreshed(shown[i], tracks'[i])]
        /\ rest'   = IF still THEN tracks' ELSE rest
        /\ broken' = (~still /\ (broken \/ interrupted))

Fits(t)   == Len(t.events) <= MaxEvents /\ Len(t.clips) <= MaxClips
Snapshot  == history' = Record(history, tracks)
PutIn(lane, t) == Fits(t) /\ tracks' = [tracks EXCEPT ![lane] = t]
Put(t)    == PutIn(selectedTrack, t)

\* Neither the mouse nor another widget holds the keyboard.
NoItemActive == mouse = Idle

\* A command on a track: a copy, then the change.
CommandOn(lane, t) ==
    /\ Snapshot /\ PutIn(lane, t)
    /\ UNCHANGED <<selectedTrack, recording, openRec, playPos, versions>>
Command(t) == CommandOn(selectedTrack, t)

------------------------------------------------------------------------------
(***************************************************************************)
(* Selecting.                                                              *)
(***************************************************************************)
Selected(t) == SelectSeq(ExtractNotes(t), LAMBDA n : Key(n) \in selectedNotes)

\* Shift-drag over empty or filled ground: the notes the box touches.
SelectBox(t0, t1, n0, n1) ==
    /\ mouse = Idle /\ t0 <= t1 /\ n0 <= n1
    /\ selectedNotes' = {Key(n) : n \in {m \in NoteSet(Tr) :
                            n0 <= m.note /\ m.note <= n1 /\ m.start <= t1 /\ m.end >= t0}}
    /\ UNCHANGED <<tracks, selectedTrack, selectedClip, clipboard, mouse, last, recording,
                   openRec, playPos, history, versions>>

\* The piano roll drops the selection when it is shown another track.
SelectTrack(i) ==
    /\ mouse = Idle /\ i # selectedTrack
    /\ selectedTrack' = i /\ selectedNotes' = {}
    /\ UNCHANGED <<tracks, selectedClip, clipboard, mouse, last, recording, openRec,
                   playPos, history, versions>>

SeekTo(tick) ==
    /\ mouse = Idle /\ tick # playPos /\ ~recording
    /\ playPos' = tick
    /\ UNCHANGED <<tracks, selectedTrack, selectedNotes, selectedClip, clipboard, mouse, last,
                   recording, openRec, history, versions>>

------------------------------------------------------------------------------
(***************************************************************************)
(* The commands on the selection.                                          *)
(***************************************************************************)
CopySelectedNotes ==
    LET sel  == Selected(Tr)
        base == Min({n.start : n \in ToSet(sel)})
    IN  [i \in DOMAIN sel |-> [at |-> sel[i].start - base, dur |-> sel[i].end - sel[i].start,
                               note |-> sel[i].note, vel |-> sel[i].vel]]

CopyKey ==
    /\ clipboard' = CopySelectedNotes
    /\ UNCHANGED <<tracks, selectedTrack, selectedNotes, selectedClip, mouse, last, recording,
                   openRec, playPos, history, versions>>

DeleteSelectedNotes ==
    /\ Selected(Tr) # <<>>
    /\ Command(SortEvents(RemoveNotes(Tr, Selected(Tr))))
    /\ selectedNotes' = {}

\* Delete takes a selected MIDI clip before it takes selected notes.
ClipSelected == selectedClip[2] \in DOMAIN tracks[selectedClip[1]].clips

DeleteKey ==
    /\ NoItemActive /\ ~ClipSelected /\ DeleteSelectedNotes
    /\ UNCHANGED <<selectedClip, clipboard, mouse, last>>

CutKey ==
    /\ DeleteSelectedNotes /\ clipboard' = CopySelectedNotes
    /\ UNCHANGED <<selectedClip, mouse, last>>

AddAll(t, placed) ==
    FoldLeft(LAMBDA a, p : AdoptNote(AddNote(a, p.tick, p.dur, p.note, p.vel), p.note, p.tick),
             t, placed)
KeysOf(placed) == {<<p.note, p.tick>> : p \in ToSet(placed)}

PasteKey ==
    LET placed == [i \in DOMAIN clipboard |->
                      [tick |-> playPos + clipboard[i].at, dur |-> Max({1, clipboard[i].dur}),
                       note |-> clipboard[i].note, vel |-> clipboard[i].vel]]
    IN  /\ clipboard # <<>>
        /\ Command(SortEvents(AddAll(Tr, placed)))
        /\ selectedNotes' = KeysOf(placed)
        /\ UNCHANGED <<selectedClip, clipboard, mouse, last>>

\* The copy starts a whole number of sixteenths after the original.
DuplicateSelectedNotes ==
    LET sel    == Selected(Tr)
        len    == Max({n.end : n \in ToSet(sel)}) - Min({n.start : n \in ToSet(sel)})
        shift  == ((len + Grid - 1) \div Grid) * Grid
        placed == [i \in DOMAIN sel |->
                      [tick |-> sel[i].start + shift, dur |-> Duration(sel[i]),
                       note |-> sel[i].note, vel |-> sel[i].vel]]
    IN  /\ sel # <<>> /\ shift > 0
        /\ Command(SortEvents(AddAll(Tr, placed)))
        /\ selectedNotes' = KeysOf(placed)
        /\ UNCHANGED <<selectedClip, clipboard, mouse, last>>

\* The selected notes, or all of them, go to their places one after the other.
Targets(t) == IF selectedNotes = {} THEN ExtractNotes(t) ELSE Selected(t)
RetimeTouched(t, notes, at) == Retime(t, notes, at, Late(notes, at))

KeysAt(notes, at, I) == {<<notes[i].note, at[i]>> : i \in I}

QuantizeNotes(g) ==
    LET notes == Targets(Tr)
        at    == Quantized(notes, g)
    IN  /\ NoItemActive
        /\ Command(RetimeTouched(Tr, notes, at))
        /\ selectedNotes' = KeysAt(notes, at, IF selectedNotes = {} THEN Late(notes, at)
                                                                    ELSE DOMAIN notes)
        /\ UNCHANGED <<selectedClip, clipboard, mouse, last>>

\* An empty or a stale selection swings the whole track.
SwingTargets(t) == IF Selected(t) = <<>> THEN ExtractNotes(t) ELSE Selected(t)

ApplySwing(g, pct) ==
    LET notes == SwingTargets(Tr)
        at    == Swung(notes, g, (g * pct) \div 300)
    IN  /\ NoItemActive /\ notes # <<>>
        /\ Command(RetimeTouched(Tr, notes, at))
        /\ selectedNotes' = IF Selected(Tr) = <<>> THEN selectedNotes
                                                   ELSE KeysAt(notes, at, DOMAIN notes)
        /\ UNCHANGED <<selectedClip, clipboard, mouse, last>>

\* Each note moves by its own small amount, or stays.
Humanize(d) ==
    LET notes == SwingTargets(Tr)
        at    == [i \in DOMAIN notes |-> AtLeast0(notes[i].start + (IF i % 2 = 1 THEN d ELSE -d))]
    IN  /\ NoItemActive
        /\ Command(Retime(Tr, notes, at, DOMAIN notes))
        /\ selectedNotes' = {}
        /\ UNCHANGED <<selectedClip, clipboard, mouse, last>>

\* The tools of the velocity lane: a ramp, a random spread, one value for all.
VelocityTool(v, w) ==
    LET notes == Targets(Tr)
    IN  /\ NoItemActive /\ notes # <<>>
        /\ Command(FoldLeft(LAMBDA t, i : SetVelocity(t, notes[i], IF i = 1 THEN v ELSE w),
                            Tr, [i \in DOMAIN notes |-> i]))
        /\ UNCHANGED <<selectedNotes, selectedClip, clipboard, mouse, last>>

------------------------------------------------------------------------------
(***************************************************************************)
(* The mouse over the roll.                                                *)
(***************************************************************************)
\* Shift-click on an empty spot repeats the note touched last.
ShiftClick(note, tick) ==
    LET len == IF last.dur = 0 THEN NoteLen ELSE last.dur
    IN  /\ mouse = Idle /\ HitAt(Tr, note, tick) = <<>>
        /\ Command(SortEvents(AddAll(Tr, <<[tick |-> Snap(tick), dur |-> len,
                                            note |-> note, vel |-> last.vel]>>)))
        /\ UNCHANGED <<selectedNotes, selectedClip, clipboard, mouse, last>>

\* Ctrl-click halves a note that is not yet a thirty-second.
Halve(note, tick) ==
    /\ mouse = Idle
    /\ \E n \in ToSet(HitAt(Tr, note, tick)) :
         /\ (n.end - n.start) \div 2 >= Max({1, Ppqn \div 8})
         /\ Command(SortEvents(AddAll(RemoveNote(Tr, n),
                                      <<[tick |-> n.start, dur |-> (n.end - n.start) \div 2,
                                         note |-> n.note, vel |-> n.vel]>>)))
    /\ UNCHANGED <<selectedNotes, selectedClip, clipboard, mouse, last>>

\* The right button removes one note; the list stays sorted.
EraseHit(note, tick) ==
    /\ mouse = Idle
    /\ \E n \in ToSet(HitAt(Tr, note, tick)) :
         Command(RemoveNote(Tr, n)) /\ selectedNotes' = selectedNotes \ {Key(n)}
    /\ UNCHANGED <<selectedClip, clipboard, mouse, last>>

\* A press on a selected note takes hold of the selection ...
GrabSelection(note, tick) ==
    /\ mouse = Idle
    /\ \E n \in ToSet(HitAt(Tr, note, tick)) : Key(n) \in selectedNotes
    /\ mouse' = [mode |-> "move"]
    /\ UNCHANGED <<tracks, selectedTrack, selectedNotes, selectedClip, clipboard, last,
                   recording, openRec, playPos, history, versions>>

MovedTo(n, dTick, dNote) == [tick |-> AtLeast0(n.start + dTick), dur |-> n.end - n.start,
                             note |-> Max({Min(Pitches), Min({Max(Pitches), n.note + dNote})}),
                             vel |-> n.vel]

MoveSelectedNotes(dTick, dNote) ==
    LET sel    == Selected(Tr)
        placed == [i \in DOMAIN sel |-> MovedTo(sel[i], dTick, dNote)]
    IN  /\ mouse.mode = "move" /\ mouse' = Idle
        /\ UNCHANGED <<selectedClip, clipboard, last>>
        /\ IF (dTick = 0 /\ dNote = 0) \/ sel = <<>>
           THEN /\ UNCHANGED <<tracks, selectedTrack, selectedNotes, recording, openRec, playPos,
                               history, versions>>
           ELSE /\ Command(SortEvents(AddAll(RemoveNotes(Tr, sel), placed)))
                /\ selectedNotes' = KeysOf(placed)

\* A press on another note takes it out of the list ...
LiftBeforeCopy(note, tick) ==  \* (defect: the note is taken out before the copy is made)
    /\ mouse = Idle
    /\ \E n \in ToSet(HitAt(Tr, note, tick)), resize \in BOOLEAN :
         /\ Key(n) \notin selectedNotes
         /\ Put(RemoveNote(Tr, n))
         /\ history' = Record(history, tracks')
         /\ mouse' = [mode |-> "drag", resize |-> resize, n |-> n]
         /\ last' = [dur |-> n.end - n.start, vel |-> n.vel]
    /\ selectedNotes' = {}
    /\ UNCHANGED <<selectedTrack, selectedClip, clipboard, recording, openRec, playPos, versions>>

LiftNote(note, tick) ==
    /\ mouse = Idle
    /\ \E n \in ToSet(HitAt(Tr, note, tick)), resize \in BOOLEAN :
         /\ Key(n) \notin selectedNotes
         /\ Command(RemoveNote(Tr, n))
         /\ mouse' = [mode |-> "drag", resize |-> resize, n |-> n]
         /\ last' = [dur |-> n.end - n.start, vel |-> n.vel]
    /\ selectedNotes' = {}
    /\ UNCHANGED <<selectedClip, clipboard>>

\* ... and the release puts it down, with no further copy.
DroppedAt(n, resize, note, tick) ==
    IF resize
    THEN [tick |-> n.start, note |-> n.note, vel |-> n.vel,
          dur |-> Max({Snap(tick) + Grid, n.start + Grid}) - n.start]
    ELSE [tick |-> Snap(tick), note |-> note, vel |-> n.vel, dur |-> Max({1, n.end - n.start})]

DropNote(note, tick) ==
    /\ mouse.mode = "drag"
    /\ LET p == DroppedAt(mouse.n, mouse.resize, note, tick)
       IN  /\ Put(SortEvents(AddAll(Tr, <<p>>)))
           /\ last' = [dur |-> p.dur, vel |-> p.vel]
    /\ mouse' = Idle
    /\ UNCHANGED <<selectedTrack, selectedNotes, selectedClip, clipboard, recording, openRec,
                   playPos, history, versions>>

\* A press on an empty spot adds a note and starts a stroke: one note per cell.
NewNote(note, tick) == [tick |-> tick, dur |-> NoteLen, note |-> note, vel |-> 100]

StartPainting(note, tick) ==
    /\ mouse = Idle /\ HitAt(Tr, note, tick) = <<>>
    /\ Command(SortEvents(AddAll(Tr, <<NewNote(note, Snap(tick))>>)))
    /\ mouse' = [mode |-> "paint", at |-> <<note, Snap(tick)>>, cells |-> {Snap(tick)}]
    /\ last' = [dur |-> NoteLen, vel |-> 100]
    /\ selectedNotes' = {}
    /\ UNCHANGED <<selectedClip, clipboard>>

\* The cells the stroke passed since the last frame, each at the pitch of the straight line.
Passed(from, to) ==
    LET cells == Max({1, IF to[2] > from[2] THEN (to[2] - from[2]) \div Grid
                                            ELSE (from[2] - to[2]) \div Grid})
        Near(a, b, k) == (2 * a * cells + 2 * (b - a) * k + cells) \div (2 * cells)
    IN  [k \in 1..cells |->
            NewNote(Near(from[1], to[1], k),
                    IF to[2] >= from[2] THEN from[2] + ((to[2] - from[2]) * k) \div cells
                    ELSE from[2] - ((from[2] - to[2]) * k) \div cells)]

PaintOne(acc, p) ==
    IF p.tick \in acc.cells \/ SpansAt(acc.t, p.note, p.tick) # <<>> THEN acc
    ELSE [t |-> AddAll(acc.t, <<p>>), cells |-> acc.cells \cup {p.tick}]

Paint(note, tick) ==
    /\ mouse.mode = "paint" /\ mouse.at # <<note, Snap(tick)>>
    /\ LET done == FoldLeft(PaintOne, [t |-> Tr, cells |-> mouse.cells],
                            Passed(mouse.at, <<note, Snap(tick)>>))
       IN  /\ Put(IF done.t = Tr THEN Tr ELSE SortEvents(done.t))
           /\ mouse' = [mouse EXCEPT !.at = <<note, Snap(tick)>>, !.cells = done.cells]
    /\ UNCHANGED <<selectedTrack, selectedNotes, selectedClip, clipboard, last, recording,
                   openRec, playPos, history, versions>>

(***************************************************************************)
(* The lane below the roll: velocities, a controller or the pitch bend.     *)
(* The press takes the copy; each frame of the stroke writes one value.     *)
(***************************************************************************)
PressLane ==
    /\ mouse = Idle /\ Command(Tr) /\ mouse' = [mode |-> "lane"]
    /\ UNCHANGED <<selectedNotes, selectedClip, clipboard, last>>

LaneStep(t) ==
    /\ mouse.mode = "lane" /\ Put(t)
    /\ UNCHANGED <<selectedTrack, selectedNotes, selectedClip, clipboard, mouse, recording,
                   openRec, playPos, history, versions>>

LaneVelocity(n, v) ==
    /\ n \in NoteSet(Tr) /\ v # n.vel
    /\ LaneStep(IF Key(n) \in selectedNotes
                THEN FoldLeft(LAMBDA t, s : SetVelocity(t, s, v), Tr, Selected(Tr))
                ELSE SetVelocity(Tr, n, v))
    /\ last' = [last EXCEPT !.vel = v]

\* A sixteenth of a beat on either side is cleared of the same controller.
LaneControl(number, tick, v) ==
    LET win  == Max({1, Ppqn \div 16})
        kept == SelectSeq(Tr.events, LAMBDA e : \/ IsNote(e) \/ e.note # number
                                                \/ e.tick + win < tick \/ e.tick > tick + win)
    IN  /\ LaneStep(SortEvents([Tr EXCEPT !.events = Append(kept, Control(tick, number, v))]))
        /\ UNCHANGED last

ClearLane(number) ==
    /\ mouse = Idle
    /\ Command([Tr EXCEPT !.events = SelectSeq(@, LAMBDA e : IsNote(e) \/ e.note # number)])
    /\ UNCHANGED <<selectedNotes, selectedClip, clipboard, mouse, last>>

\* The button comes up at the end of a stroke.
ReleaseStroke ==
    /\ mouse.mode \in {"paint", "lane"} /\ mouse' = Idle
    /\ UNCHANGED <<tracks, selectedTrack, selectedNotes, selectedClip, clipboard, last, recording,
                   openRec, playPos, history, versions>>

------------------------------------------------------------------------------
(***************************************************************************)
(* MIDI clips in the track view.                                           *)
(***************************************************************************)
WithClips(t, clips) == [t EXCEPT !.clips = ByStart(clips)]

CreateClip(lane, from, to) ==
    /\ mouse = Idle /\ from < to
    /\ LET t == tracks[lane]
       IN  CommandOn(lane, WithClips(t, Append(t.clips,
               AdoptMembers(t, [start |-> from, end |-> to, members |-> {}]))))
    /\ selectedClip' = <<lane, 0>>
    /\ UNCHANGED <<selectedNotes, clipboard, mouse, last>>

\* A press takes the copy and remembers where the box was.
PressClip(lane, i, part) ==
    /\ mouse = Idle /\ i \in DOMAIN tracks[lane].clips
    /\ Snapshot
    /\ selectedTrack' = lane /\ selectedClip' = <<lane, i>>
    /\ selectedNotes' = IF lane = selectedTrack THEN selectedNotes ELSE {}
    /\ mouse' = [mode |-> "clip", i |-> i, part |-> part,
                 from |-> tracks[lane].clips[i].start, to |-> tracks[lane].clips[i].end]
    /\ UNCHANGED <<tracks, clipboard, last, recording, openRec, playPos, versions>>

\* While it is dragged only the box moves, by whole beats; its notes wait.
DragClip(beats) ==
    LET i == mouse.i
        c == Tr.clips[i]
        d == beats * Ppqn
        box == CASE mouse.part = "left" ->
                      [c EXCEPT !.start = AtLeast0(Min({AtLeast0(mouse.from + d), c.end - Ppqn}))]
                 [] mouse.part = "right" -> [c EXCEPT !.end = Max({mouse.to + d, c.start + Ppqn})]
                 [] OTHER -> LET at == AtLeast0(mouse.from + d)
                             IN  [c EXCEPT !.start = at, !.end = at + mouse.to - mouse.from]
    IN  /\ mouse.mode = "clip" /\ i \in DOMAIN Tr.clips
        /\ Put([Tr EXCEPT !.clips[i] = box])
        /\ UNCHANGED <<selectedTrack, selectedNotes, selectedClip, clipboard, mouse, last,
                       recording, openRec, playPos, history, versions>>

\* On release the notes follow the box, into another track if it was dropped there.
ReleaseClip(lane) ==
    LET i     == mouse.i
        c     == Tr.clips[i]
        d     == c.start - mouse.from
        moved == [c EXCEPT !.members = {<<n.note, AtLeast0(n.start + d)>> :
                                           n \in ToSet(AliveMembers(Tr, c))}]
        left  == LeaveTrack(Tr, c, mouse.from, mouse.to)
        enter == EnterTrack(tracks[lane], Tr, c, mouse.from, mouse.to, d)
    IN  /\ mouse.mode = "clip" /\ mouse' = Idle
        /\ CASE i \notin DOMAIN Tr.clips \/ mouse.part # "body" ->
                  UNCHANGED <<tracks, selectedTrack, selectedClip>>
             [] mouse.part = "body" /\ lane # selectedTrack ->
                  /\ tracks' = [tracks EXCEPT
                       ![selectedTrack] = [left EXCEPT !.clips = RemoveAt(@, i)],
                       ![lane] = WithClips(enter, Append(enter.clips, moved))]
                  /\ Fits(tracks'[lane])
                  /\ selectedTrack' = lane /\ selectedClip' = <<lane, 0>>
             [] mouse.part = "body" /\ lane = selectedTrack ->
                  /\ Put(ShiftClip(Tr, i, mouse.from, mouse.to, d))
                  /\ UNCHANGED <<selectedTrack, selectedClip>>
        /\ selectedNotes' = IF selectedTrack' = selectedTrack THEN selectedNotes ELSE {}
        /\ UNCHANGED <<clipboard, last, recording, openRec, playPos, history, versions>>

\* Copied right behind itself, from the menu or with Ctrl+D when no note is selected.
DuplicateClip(lane, i) ==
    /\ i \in DOMAIN tracks[lane].clips
    /\ mouse = Idle \/ (selectedNotes = {} /\ selectedClip = <<lane, i>>)
    /\ LET t   == tracks[lane]
           c   == t.clips[i]
           len == c.end - c.start
       IN  CommandOn(lane, WithClips(CopyClip(t, c, len), Append(t.clips, CopiedClip(t, c, len))))
    /\ UNCHANGED <<selectedNotes, selectedClip, clipboard, mouse, last>>

ReadoptClip(lane, i) ==
    /\ mouse = Idle /\ i \in DOMAIN tracks[lane].clips
    /\ CommandOn(lane, [tracks[lane] EXCEPT !.clips[i] = AdoptMembers(tracks[lane], @)])
    /\ selectedClip' = <<lane, i>>
    /\ UNCHANGED <<selectedNotes, clipboard, mouse, last>>

\* The clip goes, alone or with its notes.
RemoveClip(lane, i, withNotes) ==
    /\ mouse = Idle /\ i \in DOMAIN tracks[lane].clips
    /\ LET t == tracks[lane]
       IN  CommandOn(lane, [(IF withNotes THEN EraseClip(t, t.clips[i]) ELSE t)
                               EXCEPT !.clips = RemoveAt(@, i)])
    /\ selectedClip' = <<lane, 0>> /\ selectedNotes' = {}
    /\ UNCHANGED <<clipboard, mouse, last>>

------------------------------------------------------------------------------
(***************************************************************************)
(* Recording from a keyboard.  The copy is taken when recording starts.     *)
(***************************************************************************)
StartRecording ==
    /\ mouse = Idle /\ ~recording /\ Snapshot
    /\ recording' = TRUE /\ openRec' = <<>>
    /\ UNCHANGED <<tracks, selectedTrack, selectedNotes, selectedClip, clipboard, mouse, last,
                   playPos, versions>>

Recorded(t, note, now) ==
    LET start == openRec[note].tick
    IN  AddAll(t, <<[tick |-> start, dur |-> IF now > start THEN now - start ELSE 1,
                     note |-> note, vel |-> openRec[note].vel]>>)

KeyDown(note, vel, now) ==
    /\ recording
    /\ openRec' = [p \in DOMAIN openRec \cup {note} |->
                      IF p = note THEN [tick |-> now, vel |-> vel] ELSE openRec[p]]
    /\ playPos' = now
    /\ UNCHANGED <<tracks, selectedTrack, selectedNotes, selectedClip, clipboard, mouse, last,
                   recording, history, versions>>

KeyUp(note, now) ==
    /\ recording /\ note \in DOMAIN openRec
    /\ Put(SortEvents(Recorded(Tr, note, now)))
    /\ openRec' = [p \in DOMAIN openRec \ {note} |-> openRec[p]]
    /\ playPos' = now
    /\ UNCHANGED <<selectedTrack, selectedNotes, selectedClip, clipboard, mouse, last, recording,
                   history, versions>>

\* The keys still down are closed where the song stops.
Finalized(t, now) ==
    IF recording THEN SortEvents(FoldLeft(LAMBDA a, note : Recorded(a, note, now), t,
                                          SetToSortSeq(DOMAIN openRec, <)))
    ELSE t

StopTransport ==
    /\ recording
    /\ Put(Finalized(Tr, playPos))
    /\ recording' = FALSE /\ openRec' = <<>>
    /\ UNCHANGED <<selectedTrack, selectedNotes, selectedClip, clipboard, mouse, last, playPos,
                   history, versions>>

------------------------------------------------------------------------------
(***************************************************************************)
(* Undo, redo and versions.  They stop the transport, and so close a        *)
(* recording, before they take the current song for the other stack; the    *)
(* selected notes and the mouse are left as they are.                       *)
(***************************************************************************)
Stopped == [tracks EXCEPT ![selectedTrack] = Finalized(Tr, playPos)]

Apply(song) ==
    /\ tracks' = song
    /\ recording' = FALSE /\ openRec' = <<>>
    /\ UNCHANGED <<selectedTrack, selectedNotes, clipboard, mouse, last, playPos>>

DoUndo ==
    /\ CanUndo(history)
    /\ history' = AfterUndo(history, Stopped)
    /\ Apply(Undone(history)) /\ selectedClip' = <<1, 0>>
    /\ UNCHANGED <<versions>>

DoRedo ==
    /\ CanRedo(history)
    /\ history' = AfterRedo(history, Stopped)
    /\ Apply(Redone(history)) /\ selectedClip' = <<1, 0>>
    /\ UNCHANGED <<versions>>

CheckinVersion ==
    /\ mouse = Idle /\ Len(versions) < MaxVersions
    /\ versions' = Append(versions, tracks)
    /\ UNCHANGED <<tracks, selectedTrack, selectedNotes, selectedClip, clipboard, mouse, last,
                   recording, openRec, playPos, history>>

CheckoutVersion(v) ==
    /\ mouse = Idle /\ v \in DOMAIN versions
    /\ history' = Record(history, Stopped)
    /\ Apply(versions[v]) /\ UNCHANGED <<selectedClip, versions>>

------------------------------------------------------------------------------
Commands ==
    \/ CopyKey \/ CutKey \/ PasteKey \/ DeleteKey \/ DuplicateSelectedNotes
    \/ \E g \in Grids : QuantizeNotes(g) \/ \E pct \in Percents : ApplySwing(g, pct)
    \/ Humanize(1)
    \/ \E v, w \in Velocities : VelocityTool(v, w)

Roll ==
    \/ \E t0, t1 \in Ticks, n0, n1 \in Pitches : SelectBox(t0, t1, n0, n1)
    \/ \E note \in Pitches, tick \in Ticks :
         \/ ShiftClick(note, tick) \/ Halve(note, tick) \/ EraseHit(note, tick)
         \/ GrabSelection(note, tick) \/ LiftNote(note, tick) \/ DropNote(note, tick)
         \/ StartPainting(note, tick) \/ Paint(note, tick)
    \/ \E dTick \in {-1, 0, 1}, dNote \in {-1, 0, 1} : MoveSelectedNotes(dTick, dNote)

Lane ==
    \/ PressLane \/ ReleaseStroke
    \/ \E n \in NoteSet(Tr), v \in Velocities : LaneVelocity(n, v)
    \/ \E tick \in Ticks, v \in Velocities : LaneControl(1, tick, v)
    \/ ClearLane(1)

Clips ==
    \/ \E lane \in Lanes, from, to \in Ticks : CreateClip(lane, from, to)
    \/ \E beats \in {-1, 1} : mouse.mode = "clip" /\ DragClip(beats)
    \/ \E lane \in Lanes : mouse.mode = "clip" /\ ReleaseClip(lane)
    \/ \E lane \in Lanes : \E i \in DOMAIN tracks[lane].clips :
         \/ DuplicateClip(lane, i) \/ ReadoptClip(lane, i)
         \/ \E withNotes \in BOOLEAN : RemoveClip(lane, i, withNotes)
         \/ \E part \in {"left", "right", "body"} : PressClip(lane, i, part)

Take ==
    \/ StartRecording \/ StopTransport
    \/ \E note \in Pitches, now \in Ticks :
         KeyUp(note, now) \/ \E v \in Velocities : KeyDown(note, v, now)

Travel == DoUndo \/ DoRedo \/ CheckinVersion \/ \E v \in DOMAIN versions : CheckoutVersion(v)

Step ==
    \/ Commands \/ Roll \/ Lane \/ Clips \/ Take \/ Travel
    \/ \E i \in Lanes : SelectTrack(i)
    \/ \E tick \in Ticks : SeekTo(tick)

Next == steps < MaxSteps /\ steps' = steps + 1 /\ Step /\ Frame

Spec == Init /\ [][Next]_vars

------------------------------------------------------------------------------
EventOK(e) == e.tick \in Nat /\ e.vel \in Nat /\ (IsNote(e) => e.note \in Pitches)

\* The track holds events of its own pitches, sorted whenever nothing is being
\* drawn, the selection names pitches, and a gesture is one of the mouse's.
TypeOK ==
    /\ \A lane \in Lanes : /\ \A e \in ToSet(tracks[lane].events) : EventOK(e)
                           /\ \A i \in 1..Len(tracks[lane].events) - 1 :
                                tracks[lane].events[i].tick <= tracks[lane].events[i + 1].tick
    /\ selectedTrack \in Lanes
    /\ selectedNotes \subseteq Pitches \X Nat
    /\ mouse.mode \in {"idle", "move", "drag", "paint", "lane", "clip"}
    /\ Len(history.undo) <= MaxDepth

(***************************************************************************)
(* Read from the front, the list never closes a note it has not opened, and *)
(* at its end every note is closed: whatever was lifted, dropped, painted,  *)
(* quantised on top of another note, recorded across the loop point, undone *)
(* with the button down or carried to another track by its clip, no note    *)
(* rings on to the end of the song and none loses its end to another.       *)
(***************************************************************************)
Before(t, note, i, kind) ==
    Cardinality({k \in 1..i : t.events[k].kind = kind /\ t.events[k].note = note})

NotesArePaired ==
    /\ TypeOK
    /\ \A lane \in Lanes, note \in Pitches :
        LET t == tracks[lane]
        IN  /\ \A i \in DOMAIN t.events : Before(t, note, i, "off") <= Before(t, note, i, "on")
            /\ Before(t, note, Len(t.events), "off") = Before(t, note, Len(t.events), "on")

(***************************************************************************)
(* An edit moves the notes it names and no other: as many notes start at a  *)
(* place afterwards as were there and stayed, or were sent there, although  *)
(* the code takes the notes one after the other out of a list it has        *)
(* already put moved notes into.                                           *)
(***************************************************************************)
Starts(t, k) == Cardinality({i \in DOMAIN t.events : /\ t.events[i].kind = "on"
                                                     /\ t.events[i].note = k[1]
                                                     /\ t.events[i].tick = k[2]})

StartAs(At(_)) ==
    LET notes  == ExtractNotes(Tr)
        places == {At(notes[i]) : i \in DOMAIN notes}
    IN  /\ \A k \in places : Starts(Tr', k) = Cardinality({i \in DOMAIN notes : At(notes[i]) = k})
        /\ \A e \in ToSet(Tr'.events) : e.kind = "on" => <<e.note, e.tick>> \in places

IsTaken(n) == selectedNotes = {} \/ Key(n) \in selectedNotes

EditsArePointwise ==
    [][/\ \A g \in Grids : QuantizeNotes(g) =>
             StartAs(LAMBDA n : IF IsTaken(n) THEN <<n.note, OnGrid(n.start, g)>> ELSE Key(n))
       /\ \A dTick \in {-1, 0, 1}, dNote \in {-1, 0, 1} : MoveSelectedNotes(dTick, dNote) =>
             StartAs(LAMBDA n : IF Key(n) \in selectedNotes
                                THEN LET p == MovedTo(n, dTick, dNote) IN <<p.note, p.tick>>
                                ELSE Key(n))
       /\ (mouse.mode = "clip" /\ mouse.part = "body" /\ mouse.i \in DOMAIN Tr.clips
              /\ ReleaseClip(selectedTrack)) =>
             StartAs(LAMBDA n : IF Key(n) \in Tr.clips[mouse.i].members
                                THEN <<n.note, AtLeast0(n.start + Tr.clips[mouse.i].start - mouse.from)>>
                                ELSE Key(n))]_vars

(***************************************************************************)
(* Once the mouse and the recorder are at rest again, one undo takes back   *)
(* the whole gesture and nothing else: it is on top of the stack, with the  *)
(* song as it was before the button went down or the recording started, if  *)
(* no undo, version or other command came in between.                      *)
(***************************************************************************)
UndoTakesBackTheGesture ==
    [][(/\ mouse' = Idle /\ ~recording' /\ ~broken /\ tracks' # rest
        /\ ~(DoUndo \/ DoRedo \/ \E v \in DOMAIN versions : CheckoutVersion(v)))
       => CanUndo(history') /\ Undone(history') = rest]_vars

(***************************************************************************)
(* What the track view draws is what the track holds (Panels.cpp:1455-1456, *)
(* 1470: if the stamp is the same nothing has changed, and the probe tells  *)
(* by content should two stamps happen to agree).                          *)
(***************************************************************************)
ShownNotesAreTheTracks == \A lane \in Lanes : shown[lane].notes = ExtractNotes(tracks[lane])
==============================================================================
