------------------------------ MODULE Transport ------------------------------
(***************************************************************************)
(* What the user's transport commands do to the three clocks they have to   *)
(* keep together: the playback thread (Player), the audio clips in the      *)
(* engine and the capture of an audio take.  The GUI thread gives orders to *)
(* all three, follows the player's position once per frame                  *)
(* (applyTransportState) and learns of a lap or the end of a count-in only  *)
(* then; between two frames the player and the clips each go on by a tick.  *)
(*                                                                         *)
(* The player is the one module Player details, reduced to what the GUI     *)
(* reads of it.  Handlers call one another, so each is an operator from the *)
(* transport before it to the transport after it.                           *)
(***************************************************************************)
EXTENDS Naturals, SequencesExt

CONSTANTS MaxTick,      \* the positions are 0..MaxTick
          Jump,         \* a quarter of a bar: a smaller jump back is no lap
          Spots,        \* where the user seeks to
          Loops,        \* the regions the user loops
          CountIns,     \* lengths of a count-in, 0 when it is off
          BarTicks,     \* the length of a bar
          MaxTakes,     \* takes recorded
          MaxCommands   \* commands given in one behaviour

\* A frame is a tick here, so a lap is seen as one only if it is longer than the jump.
TransportAssumption ==
    /\ MaxTick \in Nat /\ Jump \in Nat /\ BarTicks \in Nat \ {0} /\ MaxTakes \in Nat /\ MaxCommands \in Nat
    /\ Spots \subseteq 0..MaxTick /\ CountIns \subseteq Nat
    /\ Loops \subseteq (0..MaxTick) \X Nat /\ \A l \in Loops : l[1] + Jump + 1 < l[2]

VARIABLES
    t,       \* the transport, see Init
    seen,    \* history: the last step was a frame
    commands \* history: commands given

vars == <<t, seen, commands>>

NoLoop == <<0, 0>>
NoTake == MaxTick + 1

Init ==
    /\ seen = FALSE /\ commands = 0
    /\ t = [playing |-> FALSE, left |-> 0, tick |-> 0,   \* the player: m_playing, the count-in left, m_currentTick
            lap |-> NoLoop, lapCount |-> 0,              \* the player's m_loopStart/End and m_loopPreRoll
            pos |-> 0, prev |-> 0,                       \* playPosTick, prevPlayPosTick
            loop |-> NoLoop, countIn |-> 0,              \* what the panel shows
            recording |-> FALSE,                         \* MIDI recording
            startPending |-> FALSE,                      \* audioStartPending
            drag |-> "none",                             \* a scrubber held, and seekWasPlaying
            clipsOn |-> FALSE, clipsAt |-> 0,            \* m_audioPlaying, m_audioSample as a tick
            armed |-> FALSE, pending |-> FALSE,          \* audioRecTrack >= 0, audioRecPending
            recAt |-> 0,                                 \* audioRecStartTick
            capture |-> NoTake,                          \* where in the song the capture began
            takes |-> <<>>,                              \* the clips that recording has placed
            seam |-> FALSE,      \* history: an edit, a drag or a failed start parted clips and player
            disturbed |-> FALSE] \* history: the count-in of a recording was seeked or stopped

Looping(l) == l # NoLoop

------------------------------------------------------------------------------
(* The orders to the player and to the clips.                               *)

Play(w, start, preRoll) == [w EXCEPT !.playing = TRUE, !.tick = start, !.left = preRoll]
StopPlayer(w) == [w EXCEPT !.playing = FALSE, !.left = 0]

StartAudio(w, tick) == [w EXCEPT !.clipsOn = TRUE, !.clipsAt = tick, !.seam = FALSE]
SeekAudio(w, tick)  == [w EXCEPT !.clipsAt = tick]
StopAudio(w)        == [w EXCEPT !.clipsOn = FALSE]

\* A recording whose count-in is cut short.
Disturbed(w) == [w EXCEPT !.disturbed = @ \/ (w.armed /\ w.pending)]

\* stopTransport; finalizeRecording's notes are NoteEditor's.
StopTransport(w) ==
    StopAudio(StopPlayer([Disturbed(w) EXCEPT !.recording = FALSE, !.startPending = FALSE]))

Start(w) == IF Looping(w.loop) THEN w.loop[1] ELSE w.pos

\* Without a count-in the clips start with the player; else they wait for its end.
StartPlayback(w) ==
    LET p == Play(w, Start(w), w.countIn)
    IN  IF w.countIn > 0 THEN [StopAudio(SeekAudio(p, Start(w))) EXCEPT !.startPending = TRUE]
                         ELSE StartAudio(p, Start(w))

\* The player starts again where the last frame saw it, with the edited song.
RefreshPlayback(w) ==
    IF w.playing /\ ~w.recording
    THEN [Play(Disturbed(w), w.pos, 0) EXCEPT !.seam = @ \/ (w.clipsOn /\ w.pos # w.tick)]
    ELSE w

SeekTo(w, tick) ==
    LET moved == SeekAudio([Disturbed(w) EXCEPT !.pos = tick], tick)
    IN  IF w.playing /\ ~w.recording THEN StartAudio(Play(moved, tick, 0), tick) ELSE moved

TogglePlayback(w) == IF w.playing THEN StopTransport(w) ELSE StartPlayback(w)

------------------------------------------------------------------------------
(* Audio takes.                                                             *)

\* stopRecording hands the take over; it is placed where the recording was asked for.
PlaceTake(w) ==
    IF w.capture = NoTake THEN w
    ELSE [w EXCEPT !.capture = NoTake,
                   !.takes = Append(@, [at |-> w.recAt, from |-> w.capture,
                                        disturbed |-> w.disturbed])]

Disarmed(w) == [w EXCEPT !.armed = FALSE, !.pending = FALSE]

Armed(w) == [w EXCEPT !.armed = TRUE, !.disturbed = FALSE,
                        !.recAt = Start(w), !.pos = Start(w)]

\* startAudioRecording: a recording under way is finished first; then the ASIO
\* stream has to be open or to open.
StartAudioRecording(w, ready) ==
    LET f == IF w.armed THEN Disarmed(PlaceTake(w)) ELSE w
        a == Armed(f)
    IN  IF ~ready THEN [f EXCEPT !.seam = @ \/ w.pending]
        ELSE IF w.countIn > 0
             THEN [Play(SeekAudio(StopAudio(a), a.pos), a.pos, w.countIn) EXCEPT !.pending = TRUE]
             ELSE StartPlayback([a EXCEPT !.capture = a.pos])

StopAudioRecording(w, alsoStop) ==
    IF ~w.armed THEN w
    ELSE IF w.pending THEN StopTransport([w EXCEPT !.armed = FALSE, !.pending = FALSE])
    ELSE IF alsoStop THEN StopTransport(PlaceTake([w EXCEPT !.armed = FALSE]))
    ELSE RefreshPlayback(PlaceTake([w EXCEPT !.armed = FALSE]))

------------------------------------------------------------------------------
(* The frame: applyTransportState.                                          *)

\* The settings go to the player, its position comes back.
Followed(w) == [w EXCEPT !.lap = w.loop, !.lapCount = w.countIn,
                         !.pos = IF w.playing THEN w.tick ELSE @]

CountedIn(w) == w.playing /\ w.left = 0

\* The count-in of a recording is over: capture, and let the clips run from its start.
Captured(w) ==
    IF w.pending /\ CountedIn(w)
    THEN [StartAudio([w EXCEPT !.pending = FALSE, !.capture = w.tick], w.recAt)
            EXCEPT !.seam = w.disturbed]
    ELSE w

\* The count-in of playback or of a lap is over.
Resumed(w) ==
    IF w.startPending /\ CountedIn(w)
    THEN StartAudio([w EXCEPT !.startPending = FALSE], w.pos)
    ELSE w

Rewound(w) == w.playing /\ ~w.pending /\ w.pos + Jump < w.prev

\* (defect: the clips run on through the count-in of a lap)
RunningOn(w) == [SeekAudio(w, w.pos) EXCEPT !.seam = @ /\ ~w.clipsOn]

\* The clips follow the player back, or wait at the start of the lap for its count-in.
FollowedBack(w) ==
    IF w.left > 0 THEN [StopAudio(SeekAudio(w, w.pos)) EXCEPT !.startPending = TRUE]
                  ELSE [SeekAudio(w, w.pos) EXCEPT !.seam = @ /\ ~w.clipsOn]

\* A lap ends: the clips follow, and a looped recording is over after its first lap.
LapEnded(w) ==
    LET b == FollowedBack(w)
    IN  IF ~Rewound(w) THEN w
        ELSE IF b.armed /\ Looping(b.loop) THEN StopAudioRecording(b, FALSE) ELSE b

Applied(w) == LET e == LapEnded(Resumed(Captured(Followed(w)))) IN [e EXCEPT !.prev = e.pos]

Frame == t' = Applied(t) /\ seen' = TRUE /\ UNCHANGED commands

------------------------------------------------------------------------------
(* The playback thread and the audio callback, a tick between two frames.   *)

Ahead(w) ==
    IF ~w.playing THEN w
    ELSE IF w.left > 0 THEN [w EXCEPT !.left = @ - 1]
    ELSE IF Looping(w.lap) /\ w.tick + 1 >= w.lap[2]
         THEN [w EXCEPT !.tick = w.lap[1], !.left = w.lapCount]
         ELSE [w EXCEPT !.tick = @ + 1]

Time == /\ seen /\ t.tick < MaxTick /\ t.clipsAt < MaxTick
        /\ t' = [Ahead(t) EXCEPT !.clipsAt = IF t.clipsOn THEN @ + 1 ELSE @]
        /\ seen' = FALSE /\ UNCHANGED commands

------------------------------------------------------------------------------
(* The user and the control channel.                                        *)

Command(w) == commands < MaxCommands /\ commands' = commands + 1 /\ t' = w /\ seen' = FALSE

\* While a scrubber is held no button or key answers.
Free == t.drag = "none"

SpaceKey       == Free /\ Command(IF t.armed THEN StopAudioRecording(t, TRUE) ELSE TogglePlayback(t))
StopButton     == Free /\ t.playing /\ Command(StopTransport(t))
RewindButton   == Free /\ Command(SeekTo(StopTransport(t), 0))
BarStart       == (t.pos \div BarTicks) * BarTicks
PlayFromBar    == Free /\ Command(StartPlayback(SeekTo(StopTransport(t), BarStart)))
Seek(tick)     == Free /\ Command(SeekTo(t, tick))
PreviousBar    == Free /\ Command(SeekTo(t, IF t.pos > BarStart THEN BarStart
                                           ELSE IF BarStart >= BarTicks THEN BarStart - BarTicks ELSE 0))
Edit           == Free /\ t.playing /\ Command(RefreshPlayback(t))
SetLoop(l)     == Free /\ Command([t EXCEPT !.loop = l])
SetCountIn(n)  == Free /\ Command([t EXCEPT !.countIn = n])

\* MIDI recording starts at the beginning of the song and leaves the clips alone.
RecordButton ==
    Free /\ Command(IF t.recording THEN StopTransport(t)
                    ELSE Play([Disturbed(t) EXCEPT !.recording = TRUE], 0, t.countIn))

Fits == Len(t.takes) < MaxTakes

\* The R key stops a recording, the button of another track takes over.
RecordKey(ready)   == Free /\ Fits /\ Command(IF t.armed THEN StopAudioRecording(t, TRUE)
                                                        ELSE StartAudioRecording(t, ready))
RecordTrack(ready) == Free /\ Fits /\ Command(StartAudioRecording(t, ready))

\* The scrubber, the ruler of the piano roll and the play head of the track view.
Grab == /\ Free /\ ~t.recording
        /\ Command(IF t.playing THEN [StopAudio(StopPlayer(Disturbed(t))) EXCEPT !.drag = "playing"]
                                ELSE [t EXCEPT !.drag = "stopped"])
Drag(tick) == /\ ~Free
              /\ Command([SeekAudio(Disturbed(t), tick) EXCEPT !.pos = tick, !.seam = @ \/ t.playing])
Drop == /\ ~Free
        /\ LET d == [t EXCEPT !.drag = "none"]
           IN  Command(IF t.drag = "playing" THEN StartPlayback(d) ELSE d)

\* The commands of the control channel come whatever the mouse does.
RemotePlay       == ~t.playing /\ Command(StartPlayback(t))
RemoteStop       == Command(StopTransport(t))
RemoteSeek(tick) == Command(SeekTo(t, tick))

Next ==
    \/ Frame \/ Time
    \/ SpaceKey \/ StopButton \/ RewindButton \/ PlayFromBar \/ PreviousBar \/ Edit \/ RecordButton
    \/ \E tick \in Spots : Seek(tick) \/ Drag(tick) \/ RemoteSeek(tick)
    \/ \E l \in Loops \cup {NoLoop} : SetLoop(l)
    \/ \E n \in CountIns : SetCountIn(n)
    \/ \E ready \in BOOLEAN : RecordKey(ready) \/ RecordTrack(ready)
    \/ Grab \/ Drop \/ RemotePlay \/ RemoteStop

Spec == Init /\ [][Next]_vars

------------------------------------------------------------------------------
(* Properties *)

TransportTypeOK ==
    /\ t.playing \in BOOLEAN /\ t.left \in Nat /\ t.tick \in 0..MaxTick /\ t.clipsAt \in 0..MaxTick
    /\ t.pos \in 0..MaxTick /\ t.loop \in Loops \cup {NoLoop} /\ t.capture \in 0..NoTake
    /\ t.pending => t.countIn \in CountIns
    /\ Len(t.takes) <= MaxTakes + 1

\* After a frame the audio clips run exactly when the player is past its count-in,
\* and where it is: through laps, count-ins of laps, seeks and recordings (the two
\* pending starts and the lap detection of applyTransportState).  MIDI recording
\* takes the player elsewhere on purpose, and an edit or a drag may part them.
ClipsFollowThePlayer ==
    seen /\ t.playing /\ ~t.recording /\ ~t.seam =>
        /\ t.clipsOn <=> (t.left = 0 /\ ~t.startPending)
        /\ t.clipsOn => t.clipsAt = t.tick

\* A take lies where its first sample was played, loop and count-in included, unless
\* the count-in was disturbed (audioRecStartTick is set when the recording is asked
\* for, the capture starts a count-in later).
UndisturbedTakesLieRight ==
    \A k \in DOMAIN t.takes : t.takes[k].disturbed \/ t.takes[k].at = t.takes[k].from

==============================================================================
