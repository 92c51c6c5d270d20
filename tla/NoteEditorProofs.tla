--------------------------- MODULE NoteEditorProofs ---------------------------
(***************************************************************************)
(* That one undo takes back a whole gesture of the mouse or a recording,    *)
(* for any tracks, keys, grids and bounds, and a whole import, for any      *)
(* scores, texts and tracks.                                                *)
(***************************************************************************)
EXTENDS MCEditor, FiniteSetTheorems, SequenceTheorems, TLAPS

-----------------------------------------------------------------------------
(* The two stacks. *)

IsList(s) == Len(s) \in Nat /\ s = [k \in 1..Len(s) |-> s[k]]

LEMMA ListSeq ==
    ASSUME NEW s, IsList(s), NEW x
    PROVE  \E T : s \in Seq(T) /\ x \in T
<1> DEFINE T == {s[k] : k \in 1..Len(s)} \cup {x}
           n == Len(s)
<1>1. n \in Nat /\ s = [k \in 1..n |-> s[k]] /\ \A k \in 1..n : s[k] \in T  BY DEF IsList
<1>2. x \in T  OBVIOUS
<1> HIDE DEF T, n
<1>3. [k \in 1..n |-> s[k]] \in Seq(T)  BY <1>1
<1> QED  BY <1>1, <1>2, <1>3

LEMMA SeqList ==
    ASSUME NEW T, NEW s \in Seq(T)
    PROVE  IsList(s)
BY DEF IsList

\* A copy goes on top, and the stack stays a list.
LEMMA RecordTop ==
    ASSUME N!UndoHistoryAssumption, NEW h, IsList(h.undo), NEW x
    PROVE  /\ IsList(N!Record(h, x).undo)
           /\ N!CanUndo(N!Record(h, x)) /\ N!Undone(N!Record(h, x)) = x
<1>1. PICK T : h.undo \in Seq(T) /\ x \in T  BY ListSeq
<1> DEFINE s == IF Len(h.undo) = MaxDepth THEN Tail(h.undo) ELSE h.undo
<1>2. s \in Seq(T)
  <2>1. CASE Len(h.undo) = MaxDepth
    <3>1. h.undo # <<>>  BY <1>1, <2>1 DEF N!UndoHistoryAssumption
    <3> QED  BY <1>1, <2>1, <3>1
  <2> QED  BY <1>1, <2>1
<1>3. N!Record(h, x).undo = Append(s, x)  BY DEF N!Record
<1> HIDE DEF s
<1>4. /\ Append(s, x) \in Seq(T) /\ Len(Append(s, x)) = Len(s) + 1 /\ Len(s) \in Nat
      /\ Append(s, x)[Len(s) + 1] = x
  BY <1>1, <1>2
<1>5. Append(s, x) # <<>>  BY <1>4
<1>6. IsList(Append(s, x))  BY <1>4, SeqList
<1> QED  BY <1>3, <1>4, <1>5, <1>6 DEF N!CanUndo, N!Undone

LEMMA UndoneIsList ==
    ASSUME NEW h, IsList(h.undo), N!CanUndo(h), NEW x
    PROVE  IsList(N!AfterUndo(h, x).undo) /\ N!AfterUndo(h, x).undo # h.undo
<1>1. PICK T : h.undo \in Seq(T)  BY ListSeq
<1> DEFINE n == Len(h.undo)
           s == SubSeq(h.undo, 1, n - 1)
<1>2. n \in Nat /\ n # 0  BY <1>1 DEF N!CanUndo
<1>3. s \in Seq(T) /\ Len(s) = n - 1  BY <1>1, <1>2
<1>4. N!AfterUndo(h, x).undo = s  BY DEF N!AfterUndo
<1> HIDE DEF s
<1>5. IsList(s)  BY <1>3, SeqList
<1>6. s # h.undo  BY <1>2, <1>3
<1> QED  BY <1>4, <1>5, <1>6

LEMMA RedoneIsList ==
    ASSUME NEW h, IsList(h.undo), NEW x
    PROVE  IsList(N!AfterRedo(h, x).undo) /\ N!AfterRedo(h, x).undo # h.undo
<1>1. PICK T : h.undo \in Seq(T) /\ x \in T  BY ListSeq
<1> DEFINE s == Append(h.undo, x)
<1>2. s \in Seq(T) /\ Len(s) = Len(h.undo) + 1 /\ Len(h.undo) \in Nat  BY <1>1
<1>3. N!AfterRedo(h, x).undo = s  BY DEF N!AfterRedo
<1> HIDE DEF s
<1>4. IsList(s)  BY <1>2, SeqList
<1>5. s # h.undo  BY <1>2
<1> QED  BY <1>3, <1>4, <1>5

-----------------------------------------------------------------------------
(* One undo takes back a whole gesture. *)

Still == mouse = N!Idle /\ ~recording
Top   == N!CanUndo(noteHistory) /\ N!Undone(noteHistory) = rest

\* At rest nothing is missed; a gesture that took its copy has it on top of the stack, and
\* one that has not has changed nothing.  Two gestures at a time count as broken.
UndoInv ==
    /\ N!UndoHistoryAssumption
    /\ IsList(noteHistory.undo) /\ recording \in BOOLEAN /\ broken \in BOOLEAN
    /\ "mode" \in DOMAIN mouse /\ (mouse.mode = "idle" => mouse = N!Idle)
    /\ Still => rest = tracks /\ ~broken
    /\ mouse # N!Idle /\ recording => broken
    /\ ~Still /\ ~broken => IF mouse.mode = "move" THEN rest = tracks ELSE Top

\* What a step is to the mouse, the recorder and the stacks.
Quiet     == UNCHANGED <<tracks, mouse, recording, noteHistory>>
Edited    == noteHistory' = N!Record(noteHistory, tracks) /\ UNCHANGED <<mouse, recording>>
Pressed   == /\ mouse = N!Idle /\ mouse'.mode # "idle" /\ "mode" \in DOMAIN mouse' /\ UNCHANGED recording
             /\ \/ mouse'.mode # "move" /\ noteHistory' = N!Record(noteHistory, tracks)
                \/ mouse'.mode = "move" /\ UNCHANGED <<tracks, noteHistory>>
Released  == /\ mouse.mode = "move" /\ mouse' = N!Idle /\ UNCHANGED recording
             /\ UNCHANGED <<tracks, noteHistory>> \/ noteHistory' = N!Record(noteHistory, tracks)
Stroked   == /\ mouse.mode \notin {"idle", "move"} /\ UNCHANGED <<recording, noteHistory>>
             /\ mouse' = N!Idle \/ (mouse'.mode = mouse.mode /\ "mode" \in DOMAIN mouse')
Played    == recording /\ recording' \in BOOLEAN /\ UNCHANGED <<mouse, noteHistory>>
Begun     == /\ mouse = N!Idle /\ ~recording /\ recording' = TRUE
             /\ noteHistory' = N!Record(noteHistory, tracks) /\ UNCHANGED <<tracks, mouse>>
Travelled == /\ recording' = FALSE /\ UNCHANGED mouse
             /\ \/ N!CanUndo(noteHistory) /\ noteHistory' = N!AfterUndo(noteHistory, N!Stopped)
                \/ noteHistory' = N!AfterRedo(noteHistory, N!Stopped)
                \/ mouse = N!Idle /\ noteHistory' = N!Record(noteHistory, N!Stopped)
Travels   == N!DoUndo \/ N!DoRedo \/ \E v \in DOMAIN noteVersions : N!CheckoutVersion(v)

LEMMA IdleHasMode == "mode" \in DOMAIN N!Idle /\ N!Idle.mode = "idle"
BY DEF N!Idle

LEMMA CommandsSorted == UndoInv /\ N!Commands => Quiet \/ Edited
<1> SUFFICES ASSUME UndoInv, N!Commands  PROVE Quiet \/ Edited  OBVIOUS
<1>1. CASE N!CopyKey  BY <1>1 DEF N!CopyKey, Quiet
<1>2. CASE N!CutKey
  BY <1>2 DEF N!CutKey, N!DeleteSelectedNotes, N!Command, N!CommandOn, N!Snapshot, Edited
<1>3. CASE N!PasteKey
  BY <1>3 DEF N!PasteKey, N!Command, N!CommandOn, N!Snapshot, Edited
<1>4. CASE N!DeleteKey
  BY <1>4 DEF N!DeleteKey, N!DeleteSelectedNotes, N!Command, N!CommandOn, N!Snapshot, Edited
<1>5. CASE N!DuplicateSelectedNotes
  BY <1>5 DEF N!DuplicateSelectedNotes, N!Command, N!CommandOn, N!Snapshot, Edited
<1>6. ASSUME NEW g \in Grids, N!QuantizeNotes(g)  PROVE Edited
  BY <1>6 DEF N!QuantizeNotes, N!Command, N!CommandOn, N!Snapshot, Edited
<1>7. ASSUME NEW g \in Grids, NEW pct \in Percents, N!ApplySwing(g, pct)  PROVE Edited
  BY <1>7 DEF N!ApplySwing, N!Command, N!CommandOn, N!Snapshot, Edited
<1>8. CASE N!Humanize(1)  BY <1>8 DEF N!Humanize, N!Command, N!CommandOn, N!Snapshot, Edited
<1>9. ASSUME NEW v \in Velocities, NEW w \in Velocities, N!VelocityTool(v, w)  PROVE Edited
  BY <1>9 DEF N!VelocityTool, N!Command, N!CommandOn, N!Snapshot, Edited
<1> QED  BY <1>1, <1>2, <1>3, <1>4, <1>5, <1>6, <1>7, <1>8, <1>9 DEF N!Commands

LEMMA RollSorted == UndoInv /\ N!Roll => Quiet \/ Edited \/ Pressed \/ Released \/ Stroked
<1> DEFINE Goal == Quiet \/ Edited \/ Pressed \/ Released \/ Stroked
<1> SUFFICES ASSUME UndoInv, N!Roll  PROVE Goal  OBVIOUS
<1>1. ASSUME NEW t0, NEW t1, NEW n0, NEW n1, N!SelectBox(t0, t1, n0, n1)  PROVE Quiet
  BY <1>1 DEF N!SelectBox, Quiet
<1>2. ASSUME NEW note, NEW tick, N!ShiftClick(note, tick)  PROVE Edited
  BY <1>2 DEF N!ShiftClick, N!Command, N!CommandOn, N!Snapshot, Edited
<1>3. ASSUME NEW note, NEW tick, N!Halve(note, tick)  PROVE Edited
  BY <1>3 DEF N!Halve, N!Command, N!CommandOn, N!Snapshot, Edited
<1>4. ASSUME NEW note, NEW tick, N!EraseHit(note, tick)  PROVE Edited
  BY <1>4 DEF N!EraseHit, N!Command, N!CommandOn, N!Snapshot, Edited
<1>5. ASSUME NEW note, NEW tick, N!GrabSelection(note, tick)  PROVE Pressed
  BY <1>5 DEF N!GrabSelection, Pressed
<1>6. ASSUME NEW note, NEW tick, N!LiftNote(note, tick)  PROVE Pressed
  <2>1. PICK n \in N!ToSet(N!HitAt(N!Tr, note, tick)) : \E resize \in BOOLEAN :
           N!Command(N!RemoveNote(N!Tr, n)) /\ mouse' = [mode |-> "drag", resize |-> resize, n |-> n]
    BY <1>6, Zenon DEF N!LiftNote
  <2>2. mouse'.mode = "drag" /\ "mode" \in DOMAIN mouse'  BY <2>1
  <2> QED  BY <1>6, <2>1, <2>2 DEF N!LiftNote, N!Command, N!CommandOn, N!Snapshot, Pressed
<1>7. ASSUME NEW note, NEW tick, N!DropNote(note, tick)  PROVE Stroked
  BY <1>7 DEF N!DropNote, Stroked
<1>8. ASSUME NEW note, NEW tick, N!StartPainting(note, tick)  PROVE Pressed
  <2>1. mouse'.mode = "paint" /\ "mode" \in DOMAIN mouse'  BY <1>8 DEF N!StartPainting
  <2> QED  BY <1>8, <2>1 DEF N!StartPainting, N!Command, N!CommandOn, N!Snapshot, Pressed
<1>9. ASSUME NEW note, NEW tick, N!Paint(note, tick)  PROVE Stroked
  <2>1. mouse.mode = "paint" /\ UNCHANGED <<recording, noteHistory>>
        /\ \E c : mouse' = [mouse EXCEPT !.at = <<note, N!Snap(tick)>>, !.cells = c]
    BY <1>9 DEF N!Paint
  <2>2. "mode" \in DOMAIN mouse  BY DEF UndoInv
  <2>3. mouse'.mode = mouse.mode /\ "mode" \in DOMAIN mouse'  BY <2>1, <2>2
  <2> QED  BY <2>1, <2>3 DEF Stroked
<1>10. ASSUME NEW dTick, NEW dNote, N!MoveSelectedNotes(dTick, dNote)  PROVE Released
  BY <1>10 DEF N!MoveSelectedNotes, N!Command, N!CommandOn, N!Snapshot, Released
<1> QED  BY <1>1, <1>2, <1>3, <1>4, <1>5, <1>6, <1>7, <1>8, <1>9, <1>10 DEF N!Roll

LEMMA LaneSorted == UndoInv /\ N!Lane => Edited \/ Pressed \/ Stroked
<1> SUFFICES ASSUME UndoInv, N!Lane  PROVE Edited \/ Pressed \/ Stroked  OBVIOUS
<1>1. CASE N!PressLane
  <2>1. mouse'.mode = "lane" /\ "mode" \in DOMAIN mouse'  BY <1>1 DEF N!PressLane
  <2> QED  BY <1>1, <2>1 DEF N!PressLane, N!Command, N!CommandOn, N!Snapshot, Pressed
<1>2. CASE N!ReleaseStroke  BY <1>2 DEF N!ReleaseStroke, Stroked
<1>3. ASSUME NEW t, N!LaneStep(t)  PROVE Stroked
  BY <1>3 DEF N!LaneStep, Stroked, UndoInv
<1>4. ASSUME NEW n, NEW v, N!LaneVelocity(n, v)  PROVE Stroked  BY <1>3, <1>4 DEF N!LaneVelocity
<1>5. ASSUME NEW tick, NEW v, N!LaneControl(1, tick, v)  PROVE Stroked  BY <1>3, <1>5 DEF N!LaneControl
<1>6. CASE N!ClearLane(1)  BY <1>6 DEF N!ClearLane, N!Command, N!CommandOn, N!Snapshot, Edited
<1> QED  BY <1>1, <1>2, <1>4, <1>5, <1>6 DEF N!Lane

LEMMA ClipsSorted == UndoInv /\ N!Clips => Edited \/ Pressed \/ Stroked
<1> SUFFICES ASSUME UndoInv, N!Clips  PROVE Edited \/ Pressed \/ Stroked  OBVIOUS
<1>1. ASSUME NEW lane, NEW from, NEW to, N!CreateClip(lane, from, to)  PROVE Edited
  BY <1>1 DEF N!CreateClip, N!CommandOn, N!Snapshot, Edited
<1>2. ASSUME NEW beats, N!DragClip(beats)  PROVE Stroked
  BY <1>2 DEF N!DragClip, Stroked, UndoInv
<1>3. ASSUME NEW lane, N!ReleaseClip(lane)  PROVE Stroked
  BY <1>3 DEF N!ReleaseClip, Stroked
<1>4. ASSUME NEW lane, NEW i, N!DuplicateClip(lane, i)  PROVE Edited
  BY <1>4 DEF N!DuplicateClip, N!CommandOn, N!Snapshot, Edited
<1>5. ASSUME NEW lane, NEW i, N!ReadoptClip(lane, i)  PROVE Edited
  BY <1>5 DEF N!ReadoptClip, N!CommandOn, N!Snapshot, Edited
<1>6. ASSUME NEW lane, NEW i, NEW withNotes, N!RemoveClip(lane, i, withNotes)  PROVE Edited
  BY <1>6 DEF N!RemoveClip, N!CommandOn, N!Snapshot, Edited
<1>7. ASSUME NEW lane, NEW i, NEW side, N!PressClip(lane, i, side)  PROVE Pressed
  <2>1. mouse'.mode = "clip" /\ "mode" \in DOMAIN mouse'  BY <1>7 DEF N!PressClip
  <2> QED  BY <1>7, <2>1 DEF N!PressClip, N!Snapshot, Pressed
<1> QED  BY <1>1, <1>2, <1>3, <1>4, <1>5, <1>6, <1>7 DEF N!Clips

LEMMA StepSorted ==
    ASSUME UndoInv, N!Step
    PROVE  Quiet \/ Edited \/ Pressed \/ Released \/ Stroked \/ Played \/ Begun \/ (Travelled /\ Travels)
<1>1. CASE N!Commands  BY <1>1, CommandsSorted
<1>2. CASE N!Roll  BY <1>2, RollSorted
<1>3. CASE N!Lane  BY <1>3, LaneSorted
<1>4. CASE N!Clips  BY <1>4, ClipsSorted
<1>5. CASE N!Take
  <2>1. CASE N!StartRecording  BY <2>1 DEF N!StartRecording, N!Snapshot, Begun
  <2>2. CASE N!StopTransport  BY <2>2 DEF N!StopTransport, Played
  <2>3. ASSUME NEW note, NEW now, N!KeyUp(note, now)  PROVE Played
    BY <2>3 DEF N!KeyUp, Played, UndoInv
  <2>4. ASSUME NEW note, NEW now, NEW v, N!KeyDown(note, v, now)  PROVE Quiet
    BY <2>4 DEF N!KeyDown, Quiet
  <2> QED  BY <1>5, <2>1, <2>2, <2>3, <2>4 DEF N!Take
<1>6. CASE N!Travel
  <2>1. CASE N!DoUndo  BY <2>1 DEF N!DoUndo, N!Apply, Travelled, Travels
  <2>2. CASE N!DoRedo  BY <2>2 DEF N!DoRedo, N!Apply, Travelled, Travels
  <2>3. CASE N!CheckinVersion  BY <2>3 DEF N!CheckinVersion, Quiet
  <2>4. ASSUME NEW v \in DOMAIN noteVersions, N!CheckoutVersion(v)  PROVE Travelled /\ Travels
    BY <2>4 DEF N!CheckoutVersion, N!Apply, Travelled, Travels
  <2> QED  BY <1>6, <2>1, <2>2, <2>3, <2>4 DEF N!Travel
<1>7. ASSUME NEW i, N!SelectTrack(i)  PROVE Quiet  BY <1>7 DEF N!SelectTrack, Quiet
<1>8. ASSUME NEW tick, N!SeekTo(tick)  PROVE Quiet  BY <1>8 DEF N!SeekTo, Quiet
<1> QED  BY <1>1, <1>2, <1>3, <1>4, <1>5, <1>6, <1>7, <1>8 DEF N!Step


\* From rest, or inside a gesture: what the frame leaves.
LEMMA FrameKeeps ==
    ASSUME UndoInv, N!Frame, IsList(noteHistory'.undo), recording' \in BOOLEAN,
           "mode" \in DOMAIN mouse', mouse'.mode = "idle" => mouse' = N!Idle,
           Still' \/ broken' \/ (IF mouse'.mode = "move" THEN rest' = tracks' ELSE Top'),
           (mouse' # N!Idle /\ recording') => broken'
    PROVE  UndoInv'
<1>1. broken' \in BOOLEAN /\ (Still' => rest' = tracks' /\ ~broken')  BY DEF N!Frame, Still
<1> QED  BY <1>1 DEF UndoInv, Still, Top, N!UndoHistoryAssumption

\* Something else may come in between: it is noticed, or changes nothing that matters.
LEMMA InsideKeeps ==
    ASSUME UndoInv, N!Frame, IsList(noteHistory'.undo), ~Still, UNCHANGED <<mouse, recording>>
    PROVE  UndoInv' /\ ~Still'
<1>1. ~Still' /\ rest' = rest  BY DEF N!Frame, Still
<1>2. /\ broken \/ noteHistory' # noteHistory => broken'
      /\ mouse.mode = "move" /\ tracks' # tracks => broken'
  BY <1>1, IdleHasMode DEF N!Frame, Still
<1>3. Still' \/ broken' \/ (IF mouse'.mode = "move" THEN rest' = tracks' ELSE Top')
  BY <1>1, <1>2 DEF UndoInv, Top
<1>4. (mouse' # N!Idle /\ recording') => broken'  BY <1>2 DEF UndoInv
<1>5. /\ recording' \in BOOLEAN /\ "mode" \in DOMAIN mouse'
      /\ mouse'.mode = "idle" => mouse' = N!Idle
  BY DEF UndoInv
<1> QED  BY <1>1, <1>3, <1>4, <1>5, FrameKeeps

\* At rest a step that leaves the user at rest keeps the invariant.
LEMMA RestKeeps ==
    ASSUME UndoInv, N!Frame, IsList(noteHistory'.undo), mouse' = N!Idle, recording' = FALSE
    PROVE  UndoInv' /\ Still'
<1>1. Still'  BY DEF Still
<1> QED  BY <1>1, FrameKeeps, IdleHasMode

LEMMA QuietKeeps ==
    ASSUME UndoInv, Quiet, N!Frame
    PROVE  UndoInv' /\ (Still' /\ ~broken => tracks' = rest)
<1>1. /\ UNCHANGED <<tracks, mouse, recording, noteHistory>> /\ IsList(noteHistory'.undo)
      /\ Still' = Still
  BY DEF Quiet, UndoInv, Still
<1>2. CASE Still
  <2>1. mouse' = N!Idle /\ recording' = FALSE  BY <1>1, <1>2 DEF Still, UndoInv
  <2> QED  BY <1>1, <1>2, <2>1, RestKeeps DEF UndoInv
<1>3. CASE ~Still  BY <1>1, <1>3, InsideKeeps
<1> QED  BY <1>2, <1>3

\* A command.
LEMMA EditedKeeps ==
    ASSUME UndoInv, Edited, N!Frame
    PROVE  UndoInv' /\ (Still' => N!CanUndo(noteHistory') /\ N!Undone(noteHistory') = rest)
<1>1. /\ IsList(noteHistory'.undo) /\ N!CanUndo(noteHistory') /\ N!Undone(noteHistory') = tracks
      /\ UNCHANGED <<mouse, recording>> /\ Still' = Still
  BY RecordTop DEF UndoInv, Edited, Still
<1>2. CASE Still
  <2>1. mouse' = N!Idle /\ recording' = FALSE  BY <1>1, <1>2 DEF Still, UndoInv
  <2> QED  BY <1>1, <1>2, <2>1, RestKeeps DEF UndoInv
<1>3. CASE ~Still  BY <1>1, <1>3, InsideKeeps
<1> QED  BY <1>2, <1>3

\* The button goes down.
LEMMA PressedKeeps ==
    ASSUME UndoInv, Pressed, N!Frame
    PROVE  UndoInv' /\ ~Still'
<1>1. mouse = N!Idle /\ mouse'.mode # "idle" /\ recording' = recording /\ "mode" \in DOMAIN mouse'
  BY DEF Pressed
<1>2. mouse' # N!Idle /\ ~Still'  BY <1>1, IdleHasMode DEF Still
<1>3. IsList(noteHistory'.undo)  BY RecordTop DEF UndoInv, Pressed
<1>4. CASE recording
  <2>1. broken'  BY <1>1, <1>2, <1>4, IdleHasMode DEF N!Frame, Still
  <2> QED  BY <1>1, <1>2, <1>3, <2>1, FrameKeeps DEF UndoInv
<1>5. CASE ~recording
  <2>1. rest = tracks /\ rest' = rest  BY <1>1, <1>2, <1>5 DEF UndoInv, Still, N!Frame
  <2>2. IF mouse'.mode = "move" THEN rest' = tracks' ELSE Top'
    BY <2>1, RecordTop DEF UndoInv, Pressed, Top
  <2> QED  BY <1>1, <1>2, <1>3, <1>5, <2>2, FrameKeeps DEF UndoInv
<1> QED  BY <1>2, <1>4, <1>5 DEF UndoInv

\* The selection is put down.
LEMMA ReleasedKeeps ==
    ASSUME UndoInv, Released, N!Frame
    PROVE  /\ UndoInv'
           /\ Still' /\ ~broken /\ tracks' # rest =>
                N!CanUndo(noteHistory') /\ N!Undone(noteHistory') = rest
<1>1. mouse.mode = "move" /\ mouse' = N!Idle /\ recording' = recording  BY DEF Released
<1>2. mouse # N!Idle /\ ~Still  BY <1>1, IdleHasMode DEF Still
<1>3. IsList(noteHistory'.undo)  BY RecordTop DEF UndoInv, Released
<1>4. CASE recording
  <2>1. broken /\ broken' /\ ~Still'  BY <1>1, <1>2, <1>4 DEF UndoInv, N!Frame, Still
  <2> QED  BY <1>1, <1>3, <1>4, <2>1, FrameKeeps, IdleHasMode DEF UndoInv
<1>5. CASE ~recording
  <2>1. UndoInv' /\ Still'  BY <1>1, <1>3, <1>5, RestKeeps DEF UndoInv
  <2>2. ASSUME ~broken, tracks' # rest  PROVE N!CanUndo(noteHistory') /\ N!Undone(noteHistory') = rest
    <3>1. rest = tracks  BY <1>1, <1>2, <2>2 DEF UndoInv
    <3>2. noteHistory' = N!Record(noteHistory, tracks)  BY <2>2, <3>1 DEF Released
    <3> QED  BY <3>1, <3>2, RecordTop DEF UndoInv
  <2> QED  BY <2>1, <2>2
<1> QED  BY <1>4, <1>5 DEF UndoInv

\* A stroke goes on, or the button comes up.
LEMMA StrokedKeeps ==
    ASSUME UndoInv, Stroked, N!Frame
    PROVE  UndoInv' /\ (Still' /\ ~broken => N!CanUndo(noteHistory') /\ N!Undone(noteHistory') = rest)
<1>1. /\ mouse.mode \notin {"idle", "move"} /\ mouse # N!Idle /\ ~Still
      /\ UNCHANGED <<recording, noteHistory>> /\ IsList(noteHistory'.undo)
  BY IdleHasMode DEF Stroked, Still, UndoInv
<1>2. ~broken => Top /\ ~recording  BY <1>1 DEF UndoInv
<1>3. CASE recording
  <2>1. broken /\ broken' /\ ~Still'  BY <1>1, <1>3 DEF UndoInv, N!Frame, Still
  <2> QED  BY <1>1, <1>3, <2>1, FrameKeeps, IdleHasMode DEF UndoInv, Stroked
<1>4. CASE ~recording /\ mouse' = N!Idle
  <2>1. UndoInv' /\ Still'  BY <1>1, <1>4, RestKeeps DEF UndoInv
  <2> QED  BY <1>1, <1>2, <2>1 DEF Top
<1>5. CASE ~recording /\ mouse' # N!Idle
  <2>0. ~Still' /\ ~recording'  BY <1>1, <1>5 DEF Still
  <2>1. /\ mouse'.mode = mouse.mode /\ "mode" \in DOMAIN mouse'
        /\ rest' = rest /\ (broken => broken')
    <3>1. mouse'.mode = mouse.mode /\ "mode" \in DOMAIN mouse'  BY <1>5 DEF Stroked
    <3>2. rest' = rest  BY <2>0 DEF Still, N!Frame
    <3>3. broken => broken'  BY Zenon, <2>0 DEF Still, N!Frame
    <3> QED  BY <3>1, <3>2, <3>3
  <2>2. broken' \/ Top'  BY <1>1, <1>2, <2>1 DEF Top
  <2> QED  BY <1>1, <2>0, <2>1, <2>2, FrameKeeps DEF UndoInv
<1> QED  BY <1>3, <1>4, <1>5 DEF UndoInv

\* A key comes up, or the recording ends.
LEMMA PlayedKeeps ==
    ASSUME UndoInv, Played, N!Frame
    PROVE  UndoInv' /\ (Still' /\ ~broken => N!CanUndo(noteHistory') /\ N!Undone(noteHistory') = rest)
<1>1. /\ recording /\ ~Still /\ UNCHANGED <<mouse, noteHistory>> /\ IsList(noteHistory'.undo)
      /\ recording' \in BOOLEAN
  BY DEF Played, Still, UndoInv
<1>2. mouse # N!Idle => broken  BY <1>1 DEF UndoInv
<1>3. ~broken => Top  BY <1>1, <1>2, IdleHasMode DEF UndoInv
<1>4. CASE Still'
  <2>1. UndoInv'  BY <1>1, <1>4, RestKeeps DEF Still
  <2> QED  BY <1>1, <1>3, <1>4, <2>1 DEF Top
<1>5. CASE ~Still'
  <2>1. rest' = rest /\ (broken => broken')  BY <1>5 DEF N!Frame, Still
  <2>2. broken' \/ (mouse' = N!Idle /\ Top')  BY <1>1, <1>2, <1>3, <2>1 DEF Top
  <2>3. (mouse' # N!Idle /\ recording') => broken'  BY <2>2
  <2>4. Still' \/ broken' \/ (IF mouse'.mode = "move" THEN rest' = tracks' ELSE Top')
    BY <2>2, IdleHasMode
  <2> QED  BY <1>1, <1>5, <2>3, <2>4, FrameKeeps DEF UndoInv
<1> QED  BY <1>4, <1>5

\* A recording starts.
LEMMA BegunKeeps ==
    ASSUME UndoInv, Begun, N!Frame
    PROVE  UndoInv' /\ ~Still'
<1>1. /\ mouse = N!Idle /\ mouse' = N!Idle /\ recording' = TRUE /\ Still /\ ~Still' /\ tracks' = tracks
      /\ noteHistory' = N!Record(noteHistory, tracks)
  BY DEF Begun, Still
<1>2. IsList(noteHistory'.undo) /\ N!CanUndo(noteHistory') /\ N!Undone(noteHistory') = tracks
  BY <1>1, RecordTop DEF UndoInv
<1>3. rest = tracks /\ rest' = rest  BY <1>1 DEF UndoInv, N!Frame, Still
<1>4. Top'  BY <1>2, <1>3 DEF Top
<1> QED  BY <1>1, <1>2, <1>4, FrameKeeps, IdleHasMode

\* Undo, redo and versions end a recording, and are noticed by a gesture under way.
LEMMA TravelledKeeps ==
    ASSUME UndoInv, Travelled, N!Frame
    PROVE  UndoInv'
<1>1. recording' = FALSE /\ mouse' = mouse  BY DEF Travelled
<1>2. IsList(noteHistory'.undo)
  BY RecordTop, UndoneIsList, RedoneIsList DEF Travelled, UndoInv
<1>3. CASE mouse = N!Idle  BY <1>1, <1>2, <1>3, RestKeeps
<1>4. CASE mouse # N!Idle
  <2>1. noteHistory' # noteHistory
    BY <1>4, UndoneIsList, RedoneIsList DEF Travelled, UndoInv
  <2>2. broken'  BY <1>1, <1>4, <2>1 DEF N!Frame
  <2> QED  BY <1>1, <1>2, <2>2, FrameKeeps DEF UndoInv
<1> QED  BY <1>3, <1>4

-----------------------------------------------------------------------------
LEMMA UndoInit == N!UndoHistoryAssumption /\ N!Init => UndoInv
<1> SUFFICES ASSUME N!UndoHistoryAssumption, N!Init  PROVE UndoInv  OBVIOUS
<1>1. mouse = N!Idle /\ ~recording /\ recording \in BOOLEAN /\ ~broken /\ broken \in BOOLEAN /\ rest = tracks
  BY DEF N!Init
<1>2. noteHistory.undo = << >>  BY DEF N!Init, N!Empty
<1>3. IsList(noteHistory.undo)  BY <1>2 DEF IsList
<1> QED  BY <1>1, <1>3, IdleHasMode DEF UndoInv, Still

\* What a step leaves on the stacks.
OneUndo ==
    (/\ Still' /\ ~broken /\ tracks' # rest
     /\ ~(N!DoUndo \/ N!DoRedo \/ \E v \in DOMAIN noteVersions : N!CheckoutVersion(v)))
    => N!CanUndo(noteHistory') /\ N!Undone(noteHistory') = rest

LEMMA UndoNext == UndoInv /\ N!Next => UndoInv' /\ OneUndo
<1> SUFFICES ASSUME UndoInv, N!Next  PROVE UndoInv' /\ OneUndo  OBVIOUS
<1>1. N!Step /\ N!Frame  BY DEF N!Next
<1>2. CASE Quiet  BY <1>1, <1>2, QuietKeeps DEF OneUndo
<1>3. CASE Edited  BY <1>1, <1>3, EditedKeeps DEF OneUndo
<1>4. CASE Pressed  BY <1>1, <1>4, PressedKeeps DEF OneUndo
<1>5. CASE Released  BY <1>1, <1>5, ReleasedKeeps DEF OneUndo
<1>6. CASE Stroked  BY <1>1, <1>6, StrokedKeeps DEF OneUndo
<1>7. CASE Played  BY <1>1, <1>7, PlayedKeeps DEF OneUndo
<1>8. CASE Begun  BY <1>1, <1>8, BegunKeeps DEF OneUndo
<1>9. CASE Travelled /\ Travels  BY <1>1, <1>9, TravelledKeeps DEF OneUndo, Travels
<1> QED  BY <1>1, <1>2, <1>3, <1>4, <1>5, <1>6, <1>7, <1>8, <1>9, StepSorted

LEMMA UndoStutter == UndoInv /\ UNCHANGED N!vars => UndoInv'
BY DEF UndoInv, N!vars, Still, Top, N!UndoHistoryAssumption

\* For any tracks, keys, grids, gestures and bounds: when the mouse and the recorder are at rest
\* again, one undo takes back all that the gesture or the recording did and nothing else,
\* unless undo, redo, a version or another command came in between.
THEOREM UndoIsWhole == N!UndoHistoryAssumption /\ N!Spec => N!UndoTakesBackTheGesture
<1>1. UndoInv /\ [N!Next]_N!vars => UndoInv'  BY UndoNext, UndoStutter
<1>2. UndoInv /\ [N!Next]_N!vars =>
        [(/\ mouse' = N!Idle /\ ~recording' /\ ~broken /\ tracks' # rest
          /\ ~(N!DoUndo \/ N!DoRedo \/ \E v \in DOMAIN noteVersions : N!CheckoutVersion(v)))
         => N!CanUndo(noteHistory') /\ N!Undone(noteHistory') = rest]_N!vars
  BY UndoNext DEF OneUndo, Still
<1> QED  BY <1>1, <1>2, UndoInit, PTL DEF N!Spec, N!UndoTakesBackTheGesture

-----------------------------------------------------------------------------
(* And one undo takes back an import. *)


\* A song is a list of tracks with a tempo, and a stack one of songs.
IsSong(s)  == s = [tracks |-> s.tracks, tempo |-> s.tempo] /\ \E T : s.tracks \in Seq(T)
IsStack(s) == \E T : s \in Seq(T) /\ \A x \in T : IsSong(x)

\* The tracks of a song are those of another, followed by such as hold no notes.
Grown(s, was) == \A i \in DOMAIN s.tracks :
    IF i \in DOMAIN was.tracks THEN s.tracks[i] = was.tracks[i] ELSE s.tracks[i].events = <<>>

\* What is undone next is the song from before.
ImportInv ==
    /\ N!UndoHistoryAssumption
    /\ IsSong(practised) /\ IsStack(undone.undo) /\ IsStack(undone.redo)
    /\ IsList(box.parts) /\ "parts" \in DOMAIN box
    /\ I!Imported => N!CanUndo(undone) /\ Grown(N!Undone(undone), imported.was)

LEMMA RecordStack ==
    ASSUME N!UndoHistoryAssumption, NEW h, IsStack(h.undo), NEW x, IsSong(x)
    PROVE  /\ IsStack(N!Record(h, x).undo) /\ IsStack(N!Record(h, x).redo)
           /\ N!CanUndo(N!Record(h, x)) /\ N!Undone(N!Record(h, x)) = x
<1>1. PICK T : h.undo \in Seq(T) /\ \A y \in T : IsSong(y)  BY DEF IsStack
<1> DEFINE U == T \cup {x}
           s == IF Len(h.undo) = MaxDepth THEN Tail(h.undo) ELSE h.undo
<1>2. \A y \in U : IsSong(y)  BY <1>1
<1>3. s \in Seq(T)
  <2>1. CASE Len(h.undo) = MaxDepth
    <3>1. h.undo # <<>>  BY <1>1, <2>1 DEF N!UndoHistoryAssumption
    <3> QED  BY <1>1, <2>1, <3>1
  <2> QED  BY <1>1, <2>1
<1>4. N!Record(h, x).undo = Append(s, x) /\ N!Record(h, x).redo = <<>>  BY DEF N!Record
<1> HIDE DEF s
<1>5. Append(s, x) \in Seq(U)
  <2>1. s \in Seq(U)  BY <1>3
  <2>2. x \in U  OBVIOUS
  <2> HIDE DEF U
  <2> QED  BY <2>1, <2>2
<1>6. IsStack(N!Record(h, x).undo)  BY <1>2, <1>4, <1>5 DEF IsStack
<1>7. IsStack(N!Record(h, x).redo)
  <2>1. N!Record(h, x).redo \in Seq({})  BY <1>4
  <2> QED  BY <2>1 DEF IsStack
<1>8. IsList(h.undo)  BY <1>1, SeqList
<1> QED  BY <1>6, <1>7, <1>8, RecordTop

LEMMA StacksMove ==
    ASSUME NEW h, IsStack(h.undo), IsStack(h.redo), NEW x, IsSong(x)
    PROVE  /\ N!CanUndo(h) => /\ IsSong(N!Undone(h))
                            /\ IsStack(N!AfterUndo(h, x).undo) /\ IsStack(N!AfterUndo(h, x).redo)
           /\ N!CanRedo(h) => /\ IsSong(N!Redone(h))
                            /\ IsStack(N!AfterRedo(h, x).undo) /\ IsStack(N!AfterRedo(h, x).redo)
<1>1. ASSUME NEW s, IsStack(s)  PROVE IsStack(Append(s, x))
  <2>1. PICK T : s \in Seq(T) /\ \A y \in T : IsSong(y)  BY <1>1 DEF IsStack
  <2> DEFINE U == T \cup {x}
  <2>2. \A y \in U : IsSong(y)  BY <2>1
  <2>3. s \in Seq(U) /\ x \in U  BY <2>1
  <2> HIDE DEF U
  <2>4. Append(s, x) \in Seq(U)  BY <2>3
  <2> QED  BY <2>2, <2>4 DEF IsStack
<1>2. ASSUME NEW s, IsStack(s), s # <<>>
      PROVE  IsSong(s[Len(s)]) /\ IsStack(SubSeq(s, 1, Len(s) - 1))
  <2>1. PICK T : s \in Seq(T) /\ \A y \in T : IsSong(y)  BY <1>2 DEF IsStack
  <2>2. Len(s) \in Nat \ {0} /\ s[Len(s)] \in T  BY <1>2, <2>1
  <2>3. SubSeq(s, 1, Len(s) - 1) \in Seq(T)  BY <2>1, <2>2
  <2> QED  BY <2>1, <2>2, <2>3 DEF IsStack
<1> QED  BY <1>1, <1>2 DEF N!CanUndo, N!CanRedo, N!Undone, N!Redone, N!AfterUndo, N!AfterRedo

\* What an import does to the song on its way: tracks come behind those of the song before.
AddedTrack == [events |-> <<>>, clips |-> <<>>, stamp |-> 0, practice |-> TRUE, key |-> "",
               part |-> 0, hints |-> <<>>]
IsWork(was, i, w) ==
    /\ w = [song |-> w.song, history |-> w.history, current |-> w.current, targets |-> w.targets]
    /\ IsSong(w.song) /\ IsStack(w.history.undo) /\ IsStack(w.history.redo) /\ IsList(w.targets)
    /\ DOMAIN was.tracks \subseteq DOMAIN w.song.tracks /\ Grown(w.song, was)
    /\ N!CanUndo(w.history) /\ Grown(N!Undone(w.history), was)
TargetStep(key, acc, p) ==
    LET known == I!Tagged(acc.song.tracks, key, p)
        more  == IF known = {} /\ p > 1 THEN I!Added(acc) ELSE acc
        index == CASE known # {} -> I!Min(known)
                   [] known = {} /\ p = 1 -> I!Current
                   [] OTHER -> more.current
    IN  [more EXCEPT !.targets = Append(@, index)]
Targeting == INSTANCE Recursion WITH Op <- TargetStep, Inv <- IsWork

\* The song with a track more.
LEMMA TrackAdded ==
    ASSUME NEW s, IsSong(s), NEW was, DOMAIN was.tracks \subseteq DOMAIN s.tracks, Grown(s, was)
    PROVE  LET r == [s EXCEPT !.tracks = Append(@, AddedTrack)]
           IN  IsSong(r) /\ DOMAIN was.tracks \subseteq DOMAIN r.tracks /\ Grown(r, was)
<1>1. PICK T : s.tracks \in Seq(T)  BY DEF IsSong
<1> DEFINE l == Append(s.tracks, AddedTrack)
           r == [s EXCEPT !.tracks = l]
<1>2. r = [tracks |-> l, tempo |-> s.tempo] /\ r.tracks = l
  <2> HIDE DEF l
  <2> QED  BY DEF IsSong
<1>3. /\ l \in Seq(T \cup {AddedTrack}) /\ DOMAIN l = 1..Len(s.tracks) + 1
      /\ DOMAIN s.tracks = 1..Len(s.tracks) /\ Len(s.tracks) \in Nat
      /\ \A k \in 1..Len(s.tracks) : l[k] = s.tracks[k]
      /\ l[Len(s.tracks) + 1] = AddedTrack
  BY <1>1
<1> HIDE DEF l, r
<1>4. IsSong(r)  BY <1>2, <1>3 DEF IsSong
<1>5. DOMAIN was.tracks \subseteq DOMAIN l  BY <1>3
<1>6. Grown(r, was)
  <2> SUFFICES ASSUME NEW i \in DOMAIN l
               PROVE  IF i \in DOMAIN was.tracks THEN l[i] = was.tracks[i] ELSE l[i].events = <<>>
    BY <1>2 DEF Grown
  <2>1. CASE i = Len(s.tracks) + 1
    <3>1. i \notin DOMAIN was.tracks /\ l[i] = AddedTrack  BY <1>3, <2>1
    <3>2. AddedTrack.events = <<>>  BY DEF AddedTrack
    <3> QED  BY <3>1, <3>2
  <2>2. CASE i # Len(s.tracks) + 1
    <3>1. i \in DOMAIN s.tracks /\ l[i] = s.tracks[i]  BY <1>3, <2>2
    <3> QED  BY <3>1 DEF Grown
  <2> QED  BY <2>1, <2>2
<1> QED  BY <1>2, <1>4, <1>5, <1>6 DEF l, r

LEMMA AddedIsWork ==
    ASSUME N!UndoHistoryAssumption, NEW was, NEW i, NEW w, IsWork(was, i, w)
    PROVE  IsWork(was, i, I!Added(w))
<1> DEFINE s == [w.song EXCEPT !.tracks = Append(@, AddedTrack)]
           h == N!Record(w.history, w.song)
           n == Len(w.song.tracks) + 1
           r == [song |-> s, history |-> h, current |-> n, targets |-> w.targets]
<1>1. /\ w = [song |-> w.song, history |-> w.history, current |-> w.current, targets |-> w.targets]
      /\ IsSong(w.song) /\ IsStack(w.history.undo) /\ IsStack(w.history.redo) /\ IsList(w.targets)
      /\ DOMAIN was.tracks \subseteq DOMAIN w.song.tracks /\ Grown(w.song, was)
  BY DEF IsWork
<1>2. I!Added(w) = r
  <2>1. h = I!Record(w.history, w.song)  BY DEF N!Record, I!Record
  <2>2. I!Added(w) = [w EXCEPT !.history = h, !.song = s, !.current = n]
    BY <2>1 DEF I!Added, AddedTrack
  <2> HIDE DEF h, s, n
  <2> QED  BY <1>1, <2>2
<1>3. IsSong(s) /\ DOMAIN was.tracks \subseteq DOMAIN s.tracks /\ Grown(s, was)
  BY <1>1, TrackAdded
<1>4. IsStack(h.undo) /\ IsStack(h.redo) /\ N!CanUndo(h) /\ N!Undone(h) = w.song
  BY <1>1, RecordStack
<1> HIDE DEF s, h, n
<1>5. r.song = s /\ r.history = h /\ r.current = n /\ r.targets = w.targets  OBVIOUS
<1> HIDE DEF r
<1>6. r = [song |-> r.song, history |-> r.history, current |-> r.current, targets |-> r.targets]
  BY <1>5 DEF r
<1> QED  BY <1>1, <1>2, <1>3, <1>4, <1>5, <1>6 DEF IsWork

LEMMA TargetIsWork ==
    ASSUME N!UndoHistoryAssumption, NEW was, NEW i, NEW j, NEW w, IsWork(was, i, w), NEW key, NEW p
    PROVE  IsWork(was, j, TargetStep(key, w, p))
<1> DEFINE known == I!Tagged(w.song.tracks, key, p)
           more  == IF known = {} /\ p > 1 THEN I!Added(w) ELSE w
           index == CASE known # {} -> I!Min(known)
                      [] known = {} /\ p = 1 -> I!Current
                      [] OTHER -> more.current
           l == Append(more.targets, index)
           r == [song |-> more.song, history |-> more.history, current |-> more.current, targets |-> l]
<1>1. IsWork(was, i, more)  BY AddedIsWork
<1>2. TargetStep(key, w, p) = [more EXCEPT !.targets = l]  BY DEF TargetStep
<1> HIDE DEF known, more, index
<1>3. [more EXCEPT !.targets = l] = r  BY <1>1 DEF IsWork
<1>4. IsList(l)
  <2>1. PICK T : more.targets \in Seq(T) /\ index \in T  BY <1>1, ListSeq DEF IsWork
  <2>2. l \in Seq(T)  BY <2>1
  <2> QED  BY <2>2, SeqList
<1> HIDE DEF l
<1>5. IsWork(was, j, r)  BY <1>1, <1>4 DEF IsWork
<1> QED  BY <1>2, <1>3, <1>5

LEMMA TargetsFound ==
    ASSUME N!UndoHistoryAssumption, NEW was, NEW w, IsWork(was, 0, w), NEW key, NEW n \in Nat
    PROVE  IsWork(was, n, I!WithTargets(w, key, n))
<1> DEFINE s == [p \in 1..n |-> p]
           f == Targeting!Fold(key, w, s)
<1>1. I!WithTargets(w, key, n) = f
  BY DEF I!WithTargets, TargetStep, I!FoldLeft, I!MapThenFoldSet, Targeting!Fold, Targeting!Last, I!Max
<1>2. \A i \in 1..n : \A a : IsWork(was, i - 1, a) => IsWork(was, i, TargetStep(key, a, s[i]))
  <2> HIDE DEF s
  <2> QED  BY TargetIsWork
<1>3. DOMAIN s = 1..n  OBVIOUS
<1>4. IsWork(was, n, f)
  <2> HIDE DEF s, f
  <2> QED  BY <1>2, <1>3, Targeting!FoldInvOf DEF f
<1> QED  BY <1>1, <1>4

\* Lists stay lists.
IsAList(p, i, a) == IsList(a)

LEMMA ListExcept ==
    ASSUME NEW s, IsList(s), NEW x, NEW e
    PROVE  IsList([s EXCEPT ![x] = e])
<1>1. PICK T : s \in Seq(T) /\ e \in T  BY ListSeq
<1> DEFINE r == [s EXCEPT ![x] = e]
<1>2. r \in Seq(T)
  <2> DEFINE n == Len(s)
  <2>1. n \in Nat /\ s \in [1..n -> T]  BY <1>1
  <2> HIDE DEF n
  <2>2. r \in [1..n -> T]  BY <1>1, <2>1
  <2> HIDE DEF r
  <2>3. [1..n -> T] \subseteq Seq(T)  BY <2>1
  <2> QED  BY <2>2, <2>3
<1> HIDE DEF r
<1> QED  BY <1>2, SeqList DEF r

LEMMA ListAppended ==
    ASSUME NEW s, IsList(s), NEW x
    PROVE  IsList(Append(s, x))
<1>1. PICK T : s \in Seq(T) /\ x \in T  BY ListSeq
<1>2. Append(s, x) \in Seq(T)  BY <1>1
<1> QED  BY <1>2, SeqList

LEMMA ListDomain ==
    ASSUME NEW s, IsList(s)
    PROVE  DOMAIN s = 1..Len(s) /\ Len(s) \in Nat
<1> DEFINE n == Len(s)
<1>1. n \in Nat /\ s = [k \in 1..n |-> s[k]]  BY DEF IsList
<1> HIDE DEF n
<1> QED  BY <1>1 DEF n

LEMMA SongLists ==
    ASSUME NEW s
    PROVE  IsSong(s) <=> s = [tracks |-> s.tracks, tempo |-> s.tempo] /\ IsList(s.tracks)
<1>1. ASSUME NEW T, s.tracks \in Seq(T)  PROVE IsList(s.tracks)  BY <1>1, SeqList
<1>2. ASSUME IsList(s.tracks)  PROVE \E T : s.tracks \in Seq(T)  BY <1>2, ListSeq
<1> QED  BY <1>1, <1>2 DEF IsSong

\* The parts that hold notes.
KeepStep(p, acc, notes) == IF notes = <<>> THEN acc ELSE Append(acc, notes)
Keeping == INSTANCE Recursion WITH Op <- KeepStep, Inv <- IsAList

LEMMA PartsAreList ==
    ASSUME ImportInv
    PROVE  IsList(I!PartNotes)
<1> DEFINE read == IF I!UsePdfRhythm THEN [k \in DOMAIN box.parts |-> box.parts[k].notes]
                   ELSE <<I!ParseAsciiTab(box.text, I!Step)>>
           n == Len(read)
           f == Keeping!Fold(0, <<>>, read)
<1>1. I!PartNotes = f
  BY DEF I!PartNotes, KeepStep, I!FoldLeft, I!MapThenFoldSet, Keeping!Fold, Keeping!Last, I!Max
<1>2. DOMAIN read = 1..n /\ n \in Nat
  <2>1. CASE I!UsePdfRhythm
    <3> DEFINE m == Len(box.parts)
               g == [k \in DOMAIN box.parts |-> box.parts[k].notes]
    <3>1. DOMAIN box.parts = 1..m /\ m \in Nat  BY ListDomain DEF ImportInv
    <3>2. read = g  BY <2>1
    <3> HIDE DEF read, m
    <3>3. DOMAIN g = 1..m /\ Len(g) = m  BY <3>1
    <3> HIDE DEF g
    <3> QED  BY <3>1, <3>2, <3>3
  <2>2. CASE ~I!UsePdfRhythm
    <3> DEFINE x == I!ParseAsciiTab(box.text, I!Step)
    <3>1. read = <<x>>  BY <2>2
    <3> HIDE DEF read, x
    <3> QED  BY <3>1
  <2> QED  BY <2>1, <2>2
<1> HIDE DEF read, n
<1>3. \A i \in 1..n : \A a : IsAList(0, i - 1, a) => IsAList(0, i, KeepStep(0, a, read[i]))
  BY ListAppended DEF IsAList, KeepStep
<1>4. IsAList(0, 0, <<>>)  BY DEF IsAList, IsList
<1>5. IsAList(0, n, f)
  <2> HIDE DEF f
  <2> QED  BY <1>2, <1>3, <1>4, Keeping!FoldInv DEF f
<1> QED  BY <1>1, <1>5 DEF IsAList

\* The tracks are tagged and filled.
ImportKey     == IF I!UsePdfRhythm THEN box.key ELSE ""
ImportBase    == (head \div I!TicksPerBar(meter)) * I!TicksPerBar(meter)
ImportWork    == I!WithTargets(I!Begun, ImportKey, Len(I!PartNotes))
ImportTargets == ImportWork.targets
LabelStep(q, ts, p) == [ts EXCEPT ![ImportTargets[p]].key = ImportKey, ![ImportTargets[p]].part = p]
FillStep(q, ts, p)  ==
    [ts EXCEPT ![ImportTargets[p]] = I!Filled(@, I!PartNotes[p], ImportBase, ImportTargets[1])]
Labelling == INSTANCE Recursion WITH Op <- LabelStep, Inv <- IsAList
Filling   == INSTANCE Recursion WITH Op <- FillStep, Inv <- IsAList

LEMMA LabelledIsList ==
    ASSUME NEW ts, IsList(ts), NEW s, IsList(s)
    PROVE  IsList(Labelling!Fold(0, ts, [p \in DOMAIN s |-> p]))
<1> DEFINE n == Len(s)
           e == [p \in DOMAIN s |-> p]
           f == Labelling!Fold(0, ts, e)
<1>1. DOMAIN s = 1..n /\ n \in Nat  BY ListDomain
<1>2. DOMAIN e = 1..n  BY <1>1
<1> HIDE DEF n, e
<1>3. \A i \in 1..n : \A a : IsAList(0, i - 1, a) => IsAList(0, i, LabelStep(0, a, e[i]))
  <2> SUFFICES ASSUME NEW i \in 1..n, NEW a, IsList(a)  PROVE IsList(LabelStep(0, a, e[i]))
    BY DEF IsAList
  <2> DEFINE x == ImportTargets[e[i]]
             b == [a EXCEPT ![x] = [a[x] EXCEPT !.key = ImportKey]]
  <2>1. IsList(b)  BY ListExcept
  <2>2. LabelStep(0, a, e[i]) = [b EXCEPT ![x] = [b[x] EXCEPT !.part = e[i]]]  BY DEF LabelStep
  <2> HIDE DEF b
  <2> QED  BY <2>1, <2>2, ListExcept
<1>4. IsAList(0, 0, ts)  BY DEF IsAList
<1>5. IsAList(0, n, f)
  <2> HIDE DEF f
  <2> QED  BY <1>1, <1>2, <1>3, <1>4, Labelling!FoldInv DEF f
<1> QED  BY <1>5 DEF IsAList, e

LEMMA FilledIsList ==
    ASSUME NEW ts, IsList(ts), NEW s, IsList(s)
    PROVE  IsList(Filling!Fold(0, ts, [p \in DOMAIN s |-> p]))
<1> DEFINE n == Len(s)
           e == [p \in DOMAIN s |-> p]
           f == Filling!Fold(0, ts, e)
<1>1. DOMAIN s = 1..n /\ n \in Nat  BY ListDomain
<1>2. DOMAIN e = 1..n  BY <1>1
<1> HIDE DEF n, e
<1>3. \A i \in 1..n : \A a : IsAList(0, i - 1, a) => IsAList(0, i, FillStep(0, a, e[i]))
  BY ListExcept DEF IsAList, FillStep
<1>4. IsAList(0, 0, ts)  BY DEF IsAList
<1>5. IsAList(0, n, f)
  <2> HIDE DEF f
  <2> QED  BY <1>1, <1>2, <1>3, <1>4, Filling!FoldInv DEF f
<1> QED  BY <1>5 DEF IsAList, e

\* An import: the song before it is under the copies made for new tracks, which hold nothing yet.
LEMMA ImportKeeps ==
    ASSUME ImportInv, I!Import
    PROVE  ImportInv'
<1> DEFINE parts  == I!PartNotes
           work   == ImportWork
           tagged == IF ImportKey = "" THEN work.song.tracks
                     ELSE Labelling!Fold(0, work.song.tracks, [p \in DOMAIN ImportTargets |-> p])
           filled == Filling!Fold(0, tagged, [p \in DOMAIN parts |-> p])
<1>1. N!UndoHistoryAssumption /\ IsSong(practised) /\ IsStack(undone.undo) /\ IsStack(undone.redo)
  BY DEF ImportInv
<1>2. IsList(parts) /\ Len(parts) \in Nat  BY PartsAreList, ListDomain
<1>3. IsWork(practised, Len(parts), work)
  <2>1. I!Begun = [song |-> practised, history |-> N!Record(undone, practised), current |-> I!Current,
                   targets |-> <<>>]
    BY DEF I!Begun, I!Record, N!Record
  <2>2. /\ IsStack(N!Record(undone, practised).undo) /\ IsStack(N!Record(undone, practised).redo)
        /\ N!CanUndo(N!Record(undone, practised)) /\ N!Undone(N!Record(undone, practised)) = practised
    BY <1>1, RecordStack
  <2>3. Grown(practised, practised)  BY DEF Grown
  <2>4. IsList(<<>>)  BY DEF IsList
  <2>5. IsWork(practised, 0, I!Begun)  BY <1>1, <2>1, <2>2, <2>3, <2>4 DEF IsWork
  <2>6. work = I!WithTargets(I!Begun, ImportKey, Len(parts))  BY DEF ImportWork
  <2> HIDE DEF parts, work
  <2> QED  BY <1>1, <1>2, <2>5, <2>6, TargetsFound
<1>4. /\ practised' = [work.song EXCEPT !.tracks = filled] /\ undone' = work.history
      /\ box'.parts = <<>> /\ "parts" \in DOMAIN box' /\ imported'.was = practised
  <2>1. practised' = [work.song EXCEPT !.tracks = filled]
    BY DEF I!Import, ImportKey, ImportBase, ImportWork, ImportTargets, LabelStep, FillStep, I!FoldLeft,
           I!MapThenFoldSet, Labelling!Fold, Labelling!Last, Filling!Fold, Filling!Last, I!Max
  <2>2. undone' = work.history  BY DEF I!Import, ImportWork, ImportKey
  <2>3. imported'.was = practised  BY DEF I!Import
  <2>4. box' = [box EXCEPT !.text = <<>>, !.tab = <<>>, !.parts = <<>>, !.rhythm = FALSE]  BY DEF I!Import
  <2>5. box'.parts = <<>> /\ "parts" \in DOMAIN box'  BY <2>4 DEF ImportInv
  <2> QED  BY <2>1, <2>2, <2>3, <2>5
<1> HIDE DEF parts, work
<1>5. IsList(filled)
  <2>1. IsList(work.song.tracks) /\ IsList(ImportTargets)
    BY <1>3, SongLists DEF IsWork, ImportTargets, work
  <2>2. IsList(tagged)  BY <2>1, LabelledIsList
  <2> HIDE DEF tagged
  <2> QED  BY <1>2, <2>2, FilledIsList
<1> HIDE DEF filled
<1>6. IsSong(practised')
  <2>1. work.song = [tracks |-> work.song.tracks, tempo |-> work.song.tempo]
    BY <1>3 DEF IsWork, IsSong
  <2>2. practised' = [tracks |-> filled, tempo |-> work.song.tempo]  BY <1>4, <2>1
  <2> QED  BY <1>5, <2>2, SongLists
<1>7. /\ IsStack(undone'.undo) /\ IsStack(undone'.redo)
      /\ N!CanUndo(undone') /\ Grown(N!Undone(undone'), imported'.was)
  BY <1>3, <1>4 DEF IsWork
<1>8. IsList(box'.parts) /\ "parts" \in DOMAIN box'  BY <1>4 DEF IsList
<1> QED  BY <1>1, <1>6, <1>7, <1>8 DEF ImportInv, N!UndoHistoryAssumption

-----------------------------------------------------------------------------
(* The other steps import nothing. *)

LEMMA NoNewsKeeps ==
    ASSUME ImportInv, I!NoNews, IsSong(practised'), IsStack(undone'.undo), IsStack(undone'.redo),
           IsList(box'.parts), "parts" \in DOMAIN box'
    PROVE  ImportInv'
<1>1. imported'.targets = <<>>  BY DEF I!NoNews, I!NoImport
<1>2. ~I!Imported'  BY <1>1 DEF I!Imported
<1> QED  BY <1>2 DEF ImportInv, N!UndoHistoryAssumption

LEMMA SongKept ==
    ASSUME ImportInv, I!NoNews, UNCHANGED <<practised, undone>>, IsList(box'.parts), "parts" \in DOMAIN box'
    PROVE  ImportInv'
BY NoNewsKeeps DEF ImportInv

LEMMA BoxKept ==
    ASSUME ImportInv, I!NoNews, IsSong(practised'), IsStack(undone'.undo), IsStack(undone'.redo),
           UNCHANGED box
    PROVE  ImportInv'
BY NoNewsKeeps DEF ImportInv

LEMMA TracksPut ==
    ASSUME NEW s, IsSong(s), NEW l, IsList(l)
    PROVE  IsSong([s EXCEPT !.tracks = l])
<1> DEFINE r == [s EXCEPT !.tracks = l]
<1>1. s = [tracks |-> s.tracks, tempo |-> s.tempo]  BY DEF IsSong
<1>2. r = [tracks |-> l, tempo |-> s.tempo]  BY <1>1
<1> HIDE DEF r
<1>3. r.tracks = l /\ r.tempo = s.tempo  BY <1>2
<1>4. r = [tracks |-> r.tracks, tempo |-> r.tempo]  BY <1>2, <1>3
<1> QED  BY <1>3, <1>4, SongLists DEF r

LEMMA ListRemoved ==
    ASSUME NEW s, IsList(s), NEW i \in DOMAIN s
    PROVE  IsList(RemoveAt(s, i))
<1>1. PICK T : s \in Seq(T) /\ i \in T  BY ListSeq
<1>2. i \in 1..Len(s) /\ Len(s) \in Nat  BY <1>1
<1>3. SubSeq(s, 1, i - 1) \in Seq(T) /\ SubSeq(s, i + 1, Len(s)) \in Seq(T)  BY <1>1, <1>2
<1>4. RemoveAt(s, i) \in Seq(T)  BY <1>3 DEF RemoveAt
<1> QED  BY <1>4, SeqList

LEMMA DeletedKeeps ==
    ASSUME ImportInv, I!NoNews, NEW i \in DOMAIN practised.tracks, I!Deleted(i)
    PROVE  ImportInv'
<1>1. /\ practised' = [practised EXCEPT !.tracks = RemoveAt(@, i)]
      /\ undone' = N!Record(undone, practised) /\ UNCHANGED box
  BY DEF I!Deleted, I!RemoveAt, RemoveAt, I!Record, N!Record
<1>2. IsSong(practised) /\ IsList(practised.tracks)  BY SongLists DEF ImportInv
<1>3. IsSong(practised')  BY <1>1, <1>2, ListRemoved, TracksPut
<1>4. IsStack(undone'.undo) /\ IsStack(undone'.redo)  BY <1>1, <1>2, RecordStack DEF ImportInv
<1> QED  BY <1>1, <1>3, <1>4, BoxKept

\* The track in view is one of the song's, or none.
LEMMA CurrentIsOne ==
    ASSUME ImportInv, I!Current # 0
    PROVE  I!Current \in DOMAIN practised.tracks
<1>1. PICK T : practised.tracks \in Seq(T)  BY DEF ImportInv, IsSong
<1>2. I!PracticeOnes \subseteq DOMAIN practised.tracks /\ I!PracticeOnes \subseteq Nat
  BY <1>1 DEF I!PracticeOnes, I!Tracks
<1>3. I!PracticeOnes # {} => I!Min(I!PracticeOnes) \in I!PracticeOnes
  BY <1>2, Targeting!LeastNatural DEF I!Min
<1>4. CASE practiceTrack \in I!PracticeOnes  BY <1>2, <1>4 DEF I!Current
<1>5. CASE practiceTrack \notin I!PracticeOnes
  <2>1. I!PracticeOnes # {}  BY <1>5 DEF I!Current
  <2>2. I!Current = I!Min(I!PracticeOnes)  BY <1>5, <2>1 DEF I!Current
  <2> QED  BY <1>2, <1>3, <2>1, <2>2
<1> QED  BY <1>4, <1>5

LEMMA AddingKeeps ==
    ASSUME ImportInv, I!AddPracticeTrack
    PROVE  ImportInv'
<1> DEFINE w == [song |-> practised, history |-> undone, current |-> 0]
<1>1. /\ practised' = I!Added(w).song /\ undone' = I!Added(w).history /\ I!NoNews /\ UNCHANGED box
  BY DEF I!AddPracticeTrack
<1>2. /\ I!Added(w).song = [practised EXCEPT !.tracks = Append(@, AddedTrack)]
      /\ I!Added(w).history = N!Record(undone, practised)
  BY DEF I!Added, AddedTrack, I!Record, N!Record
<1> HIDE DEF w
<1>3. IsSong(practised) /\ IsList(practised.tracks)  BY SongLists DEF ImportInv
<1>4. IsSong(practised')
  <2> DEFINE l == Append(practised.tracks, AddedTrack)
  <2>1. practised' = [practised EXCEPT !.tracks = l]  BY <1>1, <1>2
  <2>2. IsList(l)  BY <1>3, ListAppended
  <2> HIDE DEF l
  <2> QED  BY <1>3, <2>1, <2>2, TracksPut
<1>5. IsStack(undone'.undo) /\ IsStack(undone'.redo)  BY <1>1, <1>2, <1>3, RecordStack DEF ImportInv
<1> QED  BY <1>1, <1>4, <1>5, BoxKept

LEMMA TravelKeeps ==
    ASSUME ImportInv, I!Undo \/ I!Redo
    PROVE  ImportInv'
<1>1. CASE I!Undo
  <2>1. /\ N!CanUndo(undone) /\ practised' = N!Undone(undone) /\ undone' = N!AfterUndo(undone, practised)
        /\ I!NoNews /\ UNCHANGED box
    BY <1>1 DEF I!Undo, I!CanUndo, N!CanUndo, I!Undone, N!Undone, I!AfterUndo, N!AfterUndo
  <2> QED  BY <2>1, StacksMove, BoxKept DEF ImportInv
<1>2. CASE I!Redo
  <2>1. /\ N!CanRedo(undone) /\ practised' = N!Redone(undone) /\ undone' = N!AfterRedo(undone, practised)
        /\ I!NoNews /\ UNCHANGED box
    BY <1>2 DEF I!Redo, I!CanRedo, N!CanRedo, I!Redone, N!Redone, I!AfterRedo, N!AfterRedo
  <2> QED  BY <2>1, StacksMove, BoxKept DEF ImportInv
<1> QED  BY <1>1, <1>2

\* The project is opened again, or the program is.
LEMMA ReopenedKeeps ==
    ASSUME ImportInv
    PROVE  /\ \A i, n : I!Reload(i, n) => ImportInv'
           /\ I!Restart => ImportInv'
<1>1. IsSong(practised) /\ IsList(practised.tracks) /\ N!UndoHistoryAssumption  BY SongLists DEF ImportInv
<1>2. ASSUME NEW i, NEW n, I!Reload(i, n)  PROVE ImportInv'
  <2> DEFINE l == [practised.tracks EXCEPT ![i] = I!SortEvents(I!AddNote(@, n.tick, n.dur, n.note, n.vel))]
  <2>1. /\ practised' = [practised EXCEPT !.tracks = l] /\ undone' = N!Record(undone, practised)
        /\ I!NoNews /\ UNCHANGED box
    BY <1>2 DEF I!Reload, I!Record, N!Record
  <2>2. IsList(l)  BY <1>1, ListExcept
  <2> HIDE DEF l
  <2>3. IsSong(practised')  BY <1>1, <2>1, <2>2, TracksPut
  <2>4. IsStack(undone'.undo) /\ IsStack(undone'.redo)  BY <1>1, <2>1, RecordStack DEF ImportInv
  <2> QED  BY <2>1, <2>3, <2>4, BoxKept
<1>3. ASSUME I!Restart  PROVE ImportInv'
  <2> DEFINE x == [tracks |-> <<>>, tempo |-> 120]
  <2>1. practised' = practised /\ undone' = N!Record(N!Empty, x) /\ I!NoNews /\ box' = I!NoBox
    BY <1>3 DEF I!Restart, I!Record, N!Record, I!Empty, N!Empty
  <2>2. IsSong(x)
    <3>1. x.tracks = <<>> /\ x.tempo = 120  OBVIOUS
    <3>2. IsList(<<>>)  BY DEF IsList
    <3> QED  BY <3>1, <3>2, SongLists
  <2> HIDE DEF x
  <2>3. IsStack(N!Empty.undo)
    <3>1. N!Empty.undo \in Seq({})  BY DEF N!Empty
    <3> QED  BY <3>1 DEF IsStack
  <2>4. IsStack(undone'.undo) /\ IsStack(undone'.redo)  BY <1>1, <2>1, <2>2, <2>3, RecordStack
  <2>5. IsList(box'.parts) /\ "parts" \in DOMAIN box'  
    <3>1. I!NoBox.parts = <<>> /\ "parts" \in DOMAIN I!NoBox  BY Zenon DEF I!NoBox
    <3>2. IsList(<<>>)  BY DEF IsList
    <3> QED  BY <2>1, <3>1, <3>2
  <2> QED  BY <1>1, <2>1, <2>4, <2>5, NoNewsKeeps
<1> QED  BY <1>2, <1>3

\* The commands of the import window leave song and undo alone, but for a PDF's tempo.
LEMMA BoxActionsKeep ==
    ASSUME ImportInv
    PROVE  /\ I!OpenFails \/ I!ClearBox \/ I!NothingFound \/ I!Frame => ImportInv'
           /\ \A i : I!SelectTrack(i) \/ I!ToggleTabTrack(i) => ImportInv'
           /\ \A tick : I!Seek(tick) => ImportInv'
           /\ \A k : I!PreviewPart(k) => ImportInv'
           /\ \A tab : I!Paste(tab) => ImportInv'
           /\ \A div : I!SetStep(div) => ImportInv'
<1>1. /\ IsSong(practised) /\ IsStack(undone.undo) /\ IsStack(undone.redo)
      /\ IsList(box.parts) /\ "parts" \in DOMAIN box
  BY DEF ImportInv
<1>2. IsList(<<>>)  BY DEF IsList
<1>3. ASSUME I!NoNews, UNCHANGED <<practised, undone, box>>  PROVE ImportInv'
  BY <1>1, <1>3, SongKept
<1>4. ASSUME NEW t, NEW u, I!NoNews, UNCHANGED <<practised, undone>>,
             box' = [box EXCEPT !.text = t, !.tab = u]
      PROVE  ImportInv'
  <2>1. box'.parts = box.parts /\ "parts" \in DOMAIN box'  BY <1>1, <1>4
  <2> QED  BY <1>1, <1>4, <2>1, SongKept
<1>5. ASSUME NEW r, I!NoNews, UNCHANGED <<practised, undone>>,
             box' = [box EXCEPT !.parts = <<>>, !.rhythm = r]
      PROVE  ImportInv'
  <2>1. box'.parts = <<>> /\ "parts" \in DOMAIN box'  BY <1>1, <1>5
  <2> QED  BY <1>2, <1>5, <2>1, SongKept
<1>6. ASSUME NEW t, NEW u, NEW r, I!NoNews, UNCHANGED <<practised, undone>>,
             box' = [box EXCEPT !.text = t, !.tab = u, !.parts = <<>>, !.rhythm = r]
      PROVE  ImportInv'
  <2>1. box'.parts = <<>> /\ "parts" \in DOMAIN box'  BY <1>1, <1>6
  <2> QED  BY <1>2, <1>6, <2>1, SongKept
<1>7. ASSUME NEW d, I!NoNews, UNCHANGED <<practised, undone>>, box' = [box EXCEPT !.div = d]
      PROVE  ImportInv'
  <2>1. box'.parts = box.parts /\ "parts" \in DOMAIN box'  BY <1>1, <1>7
  <2> QED  BY <1>1, <1>7, <2>1, SongKept
<1>8. I!OpenFails \/ I!ClearBox \/ I!NothingFound \/ I!Frame => ImportInv'
  BY <1>3, <1>5, <1>6 DEF I!OpenFails, I!ClearBox, I!NothingFound, I!Frame
<1>9. \A i : I!SelectTrack(i) \/ I!ToggleTabTrack(i) => ImportInv'
  BY <1>3 DEF I!SelectTrack, I!ToggleTabTrack
<1>10. \A tick : I!Seek(tick) => ImportInv'  BY <1>3 DEF I!Seek
<1>11. \A k : I!PreviewPart(k) => ImportInv'  BY <1>4 DEF I!PreviewPart, I!Show
<1>12. \A tab : I!Paste(tab) => ImportInv'  BY <1>4 DEF I!Paste, I!Show
<1>13. \A div : I!SetStep(div) => ImportInv'  BY <1>7 DEF I!SetStep
<1> QED  BY <1>8, <1>9, <1>10, <1>11, <1>12, <1>13

LEMMA OpenedKeeps ==
    ASSUME I!TabImportAssumption, ImportInv, NEW score \in Scores, I!OpenPdf(score)
    PROVE  ImportInv'
<1>1. IsList(score.parts)  BY SeqList DEF I!TabImportAssumption
<1> DEFINE b == [text |-> I!Drawn(score.parts[1].tab), tab |-> score.parts[1].tab,
                 parts |-> score.parts, key |-> score.key, rhythm |-> score.rhythm, div |-> 2]
<1>2. /\ box' = b /\ I!NoNews /\ undone' = undone
      /\ practised' = IF score.tempo > 0 THEN [practised EXCEPT !.tempo = score.tempo] ELSE practised
  BY DEF I!OpenPdf
<1>3. b.parts = score.parts /\ "parts" \in DOMAIN b  OBVIOUS
<1> HIDE DEF b
<1>4. IsSong(practised')
  <2>1. IsSong(practised) /\ practised = [tracks |-> practised.tracks, tempo |-> practised.tempo]
    BY DEF ImportInv, IsSong
  <2> DEFINE r == [practised EXCEPT !.tempo = score.tempo]
  <2>2. r = [tracks |-> practised.tracks, tempo |-> score.tempo]  BY <2>1
  <2> HIDE DEF r
  <2>3. r.tracks = practised.tracks /\ r.tempo = score.tempo  BY <2>2
  <2>4. IsSong(r)  BY <2>1, <2>2, <2>3 DEF IsSong
  <2> QED  BY <1>2, <2>1, <2>4 DEF r
<1>5. IsStack(undone'.undo) /\ IsStack(undone'.redo)  BY <1>2 DEF ImportInv
<1> QED  BY <1>1, <1>2, <1>3, <1>4, <1>5, NoNewsKeeps

LEMMA ImportInit == I!TabImportAssumption /\ I!Init => ImportInv
<1> SUFFICES ASSUME I!TabImportAssumption, I!Init  PROVE ImportInv  OBVIOUS
<1>1. N!UndoHistoryAssumption
  BY DEF I!TabImportAssumption, I!UndoHistoryAssumption, N!UndoHistoryAssumption
<1>2. IsSong(practised)
  <2>1. PICK s \in [tracks : InitialSongs, tempo : {120}] : practised = s  BY DEF I!Init
  <2>2. s.tracks \in InitialSongs /\ s = [tracks |-> s.tracks, tempo |-> s.tempo]  BY <2>1
  <2>3. s.tracks \in Seq(I!ToSet(s.tracks))  BY <2>2 DEF I!TabImportAssumption
  <2> QED  BY <2>1, <2>2, <2>3 DEF IsSong
<1>3. IsStack(undone.undo) /\ IsStack(undone.redo)
  <2>1. undone.undo = <<>> /\ undone.redo = <<>>  BY DEF I!Init, I!Empty
  <2>2. undone.undo \in Seq({}) /\ undone.redo \in Seq({})  BY <2>1
  <2>3. IsStack(undone.undo)  BY <2>2 DEF IsStack
  <2>4. IsStack(undone.redo)  BY <2>2 DEF IsStack
  <2> QED  BY <2>3, <2>4
<1>4. IsList(box.parts) /\ "parts" \in DOMAIN box
  <2>1. I!NoBox.parts = <<>> /\ "parts" \in DOMAIN I!NoBox  BY Zenon DEF I!NoBox
  <2>2. IsList(<<>>)  BY DEF IsList
  <2> QED  BY <2>1, <2>2 DEF I!Init
<1>5. ~I!Imported  BY DEF I!Init, I!NoImport, I!Imported
<1> QED  BY <1>1, <1>2, <1>3, <1>4, <1>5 DEF ImportInv

LEMMA ImportNext == I!TabImportAssumption /\ ImportInv /\ I!Next => ImportInv'
<1> SUFFICES ASSUME I!TabImportAssumption, ImportInv, I!Next  PROVE ImportInv'  OBVIOUS
<1>1. CASE I!AddPracticeTrack  BY <1>1, AddingKeeps
<1>2. CASE I!DeletePractice
  <2>1. I!Current \in DOMAIN practised.tracks /\ I!NoNews /\ I!Deleted(I!Current)
    BY <1>2, CurrentIsOne DEF I!DeletePractice
  <2> QED  BY <2>1, DeletedKeeps
<1>3. CASE I!Undo \/ I!Redo  BY <1>3, TravelKeeps
<1>4. CASE I!Restart \/ \E i \in 1..MaxScoreTracks, n \in HandNotes : I!Reload(i, n)
  BY <1>4, ReopenedKeeps
<1>5. CASE I!Import  BY <1>5, ImportKeeps
<1>6. CASE I!OpenFails \/ I!ClearBox \/ I!NothingFound \/ I!Frame  BY <1>6, BoxActionsKeep
<1>7. CASE \E i \in 1..MaxScoreTracks : I!SelectTrack(i) \/ I!ToggleTabTrack(i)
  BY <1>7, BoxActionsKeep
<1>8. CASE \E i \in 1..MaxScoreTracks : I!DeleteSongTrack(i)
  <2>1. PICK i \in 1..MaxScoreTracks : I!DeleteSongTrack(i)  BY <1>8
  <2>2. i \in DOMAIN practised.tracks /\ I!NoNews /\ I!Deleted(i)
    BY <2>1 DEF I!DeleteSongTrack, I!Tracks
  <2> QED  BY <2>2, DeletedKeeps
<1>9. CASE \/ \E tick \in ScorePlaces : I!Seek(tick)
           \/ \E k \in 1..3 : I!PreviewPart(k)
           \/ \E tab \in Tabs : I!Paste(tab)
           \/ \E div \in 0..2 : I!SetStep(div)
  BY <1>9, BoxActionsKeep
<1>10. CASE \E score \in Scores : I!OpenPdf(score)  BY <1>10, OpenedKeeps
<1> QED  BY <1>1, <1>2, <1>3, <1>4, <1>5, <1>6, <1>7, <1>8, <1>9, <1>10 DEF I!Next

LEMMA ImportStutter == ImportInv /\ UNCHANGED I!vars => ImportInv'
BY DEF ImportInv, I!vars, I!Imported, N!UndoHistoryAssumption

\* What one undo brings back is the song from before the import, with empty tracks behind.
LEMMA ImportUndone ==
    ImportInv /\ I!Imported /\ I!Undo =>
        \A i \in DOMAIN practised'.tracks :
          IF i \in DOMAIN imported.was.tracks THEN practised'.tracks[i] = imported.was.tracks[i]
                                              ELSE practised'.tracks[i].events = <<>>
<1> SUFFICES ASSUME ImportInv, I!Imported, I!Undo  PROVE Grown(practised', imported.was)  BY DEF Grown
<1>1. practised' = N!Undone(undone)  BY DEF I!Undo, I!Undone, N!Undone
<1> QED  BY <1>1 DEF ImportInv

\* For any scores, texts, tracks and bounds: one undo takes an import back, the new tracks for
\* its parts included, each of which had taken a copy of its own on the way.
THEOREM ImportIsTakenBack == I!TabImportAssumption /\ I!Spec => I!UndoTakesBackTheImport
<1>1. I!TabImportAssumption /\ ImportInv /\ [I!Next]_I!vars => (I!TabImportAssumption /\ ImportInv)'
  <2>1. I!TabImportAssumption => I!TabImportAssumption'
    BY DEF I!TabImportAssumption, I!UndoHistoryAssumption
  <2> QED  BY <2>1, ImportNext, ImportStutter
<1>2. ImportInv /\ [I!Next]_I!vars =>
        [ I!Imported /\ I!Undo =>
            \A i \in DOMAIN practised'.tracks :
              IF i \in DOMAIN imported.was.tracks THEN practised'.tracks[i] = imported.was.tracks[i]
                                                  ELSE practised'.tracks[i].events = <<>> ]_I!vars
  BY ImportUndone
<1> QED  BY <1>1, <1>2, ImportInit, PTL DEF I!Spec, I!UndoTakesBackTheImport

\* The two side by side: whatever was done with the mouse, recorded or imported, one undo
\* takes it back.
THEOREM GesturesAreTakenBack == EditorSpec => UndoTakesBackTheGesture
<1>1. EditorInit => N!Init /\ I!Init  BY DEF EditorInit
<1>2. [EditorNext]_<<part, nVars, vars, iVars>> => [N!Next]_N!vars
  BY DEF EditorNext, nVars, N!vars
<1>3. [EditorNext]_<<part, nVars, vars, iVars>> => [I!Next]_I!vars
  BY DEF EditorNext, iVars, I!vars
<1>4. EditorSpec => N!Spec  BY <1>1, <1>2, PTL DEF EditorSpec, N!Spec
<1>5. EditorSpec => I!Spec  BY <1>1, <1>3, PTL DEF EditorSpec, I!Spec
<1>6. N!UndoHistoryAssumption /\ I!TabImportAssumption  BY InstancesAreFit
<1> QED  BY <1>4, <1>5, <1>6, UndoIsWhole, ImportIsTakenBack DEF UndoTakesBackTheGesture
==============================================================================
