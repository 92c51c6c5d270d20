-------------------------------- MODULE Player --------------------------------
(***************************************************************************)
(* sequencer/Player: the playback thread.  play() takes a snapshot of the  *)
(* song and starts the thread; the thread advances its position with the   *)
(* clock, sends the events it has reached and the metronome's clicks,      *)
(* counts in before the start, and wraps at the end of a loop.  The UI     *)
(* thread talks to it through separate atomics, which it may change at any *)
(* moment, and stop() waits for the thread to end.                         *)
(*                                                                         *)
(* One iteration of run() is Tick, the loads of the loop's two ends, Wrap  *)
(* or Pass, and the events one by one.  The time between two iterations is *)
(* any of Steps, in ticks: the thread sleeps a millisecond or more.        *)
(***************************************************************************)
EXTENDS Integers, Sequences

CONSTANTS Songs,        \* snapshots: what play() makes of a song
          Notes,        \* notes of the songs
          Programs,     \* instruments of the songs
          Starts, PreRolls, KeepAlives,   \* the arguments play() is called with
          Loops,        \* <<first, end>>: the loop regions the user sets
          Metros,       \* [on, countInOnly, signature, loud]: the metronome's settings
          Ppqn,         \* ticks of a quarter note
          Steps,        \* ticks an iteration may take
          MaxTick       \* bound on the position

Events == [tick : Nat, kind : {"on", "off"}, data : Notes]
          \cup [tick : Nat, kind : {"program"}, data : Programs]

ASSUME SongsAssumption ==
    \A s \in Songs : /\ s \in Seq(Events)
                     /\ \A i, j \in 1 .. Len(s) : i < j => s[i].tick =< s[j].tick
ASSUME TimesAssumption ==
    /\ Starts \subseteq 0 .. MaxTick /\ PreRolls \subseteq Nat /\ KeepAlives \subseteq BOOLEAN
    /\ Loops \subseteq (0 .. MaxTick) \X Nat
    /\ Steps \subseteq Nat /\ MaxTick \in Nat /\ Ppqn \in Nat \ {0, 1}
ASSUME MetronomeAssumption ==
    Metros \subseteq [on : BOOLEAN, countInOnly : BOOLEAN,
                      signature : [beats : Nat \ {0}, unit : {4, 8}],
                      loud : [BOOLEAN -> BOOLEAN]]    \* loud[TRUE]: in a count-in

VARIABLES
    gpc,           \* the UI thread: "idle", in setLoop, or in stop's join
    region,        \* setLoop's arguments
    pc,            \* the playback thread: "none" when there is none to join
    m_snapshot, m_keepAlive,
    m_playing, m_stopRequested, m_countingIn, m_currentTick,
    m_loopStart, m_loopEnd, m_loopEnabled, m_loopPreRoll,
    metro,         \* m_metronome, m_metroCountInOnly, the signature
    pos,           \* accumTicks
    preRollEnd, index,
    loopStart, loopEnd, looping,   \* run's locals of these names
    click,         \* run's lastBeat, metroNote, metroPending and metroOffTick
    sounding,      \* song notes that sound
    clicking,      \* clicks that sound
    program,       \* the instrument last sent, or None
    lap            \* history: see Lap

None == "none"
flags == <<m_playing, m_stopRequested>>
head == <<m_countingIn, m_currentTick>>
snapshot == <<m_snapshot, m_keepAlive>>
loop == <<m_loopStart, m_loopEnd, m_loopEnabled, m_loopPreRoll>>
locals == <<loopStart, loopEnd, looping>>
output == <<sounding, clicking, program>>
ui == <<gpc, region>>
vars == <<ui, pc, snapshot, flags, head, loop, metro, pos, preRollEnd, index, locals,
          click, output, lap>>

\* (defect: the first beat of a count-in of one beat is equal to it)
BeatBeforeStart == -1

\* The beat no first beat of a count-in or of the song is equal to.
NoBeat == -(MaxTick + 2)

\* A click's note: the user chooses one for each of the four kinds.
ClickNotes == [countIn : BOOLEAN, accent : BOOLEAN]

Silent == [beat |-> NoBeat, note |-> [countIn |-> FALSE, accent |-> FALSE],
           pending |-> FALSE, offTick |-> 0]

\* History of the lap since the start or the last wrap: its first position, the
\* accents of its count-in clicks, and whether they are on and were left alone.
Lap(from, on) == [from |-> from, counted |-> << >>, steady |-> on]

NonNegative(t) == IF t < 0 THEN 0 ELSE t

-----------------------------------------------------------------------------
(* The metronome. *)

\* clickTicksNow
ClickTicks == IF metro.signature.unit = 8 THEN Ppqn \div 2 ELSE Ppqn

\* Count-in clicks are counted from the start, the others from tick 0.
Beat(t, countIn) == (IF countIn THEN t - preRollEnd ELSE t) \div ClickTicks

\* The last click of a count-in is accented, and the first of a bar.
Accent(beat, countIn) ==
    IF countIn THEN beat = -1 ELSE beat % metro.signature.beats = 0

MetroOn(countIn) == metro.on /\ (countIn \/ ~metro.countInOnly)

\* The click of an iteration that reaches tick t: a new one if a beat began, which
\* is not sent at volume 0.
Strike(t, countIn) ==
    LET beat == Beat(t, countIn)
        loud == metro.loud[countIn]
    IN  IF MetroOn(countIn) /\ beat # click.beat
        THEN [beat |-> beat,
              note |-> [countIn |-> countIn, accent |-> Accent(beat, countIn)],
              pending |-> click.pending \/ loud,
              offTick |-> IF loud THEN t + ClickTicks \div 8 ELSE click.offTick]
        ELSE click

\* Its Note On is sent.
Struck(new) == new.beat # click.beat /\ metro.loud[new.note.countIn]

\* The Note Off of the pending click is due at tick t.
OffDue(new, t) == new.pending /\ t >= new.offTick

-----------------------------------------------------------------------------
(* seekTo: event i is the first to send from tick t, and the program changes  *)
(* before it are sent, of which the last one stays.                           *)

\* (defect: the events of tick t are passed over)
IsFirstAfter(s, i, t) ==
    /\ \A j \in 1 .. i - 1 : s[j].tick =< t
    /\ i =< Len(s) => s[i].tick > t

IsFirstFrom(s, i, t) ==
    /\ \A j \in 1 .. i - 1 : s[j].tick < t
    /\ i =< Len(s) => s[i].tick >= t

ProgramsBefore(s, i) == {j \in 1 .. i - 1 : s[j].kind = "program"}

LastPrograms(s, i) ==
    {s[j].data : j \in {k \in ProgramsBefore(s, i) : \A l \in ProgramsBefore(s, i) : l =< k}}

\* (defect: only the position is sought)
SeekNoProgram(s, i) == {program}

SeekProgram(s, i) ==
    IF ProgramsBefore(s, i) = {} THEN {program} ELSE LastPrograms(s, i)

SeekTo(s, t) ==
    \E i \in 1 .. Len(s) + 1 :
        /\ IsFirstFrom(s, i, t)
        /\ index' = i
        /\ program' \in SeekProgram(s, i)

-----------------------------------------------------------------------------
Init ==
    /\ gpc = "idle" /\ region = [enabled |-> FALSE, first |-> 0, end |-> 0]
    /\ pc = "none"
    /\ m_snapshot = << >> /\ m_keepAlive = FALSE
    /\ m_playing = FALSE /\ m_stopRequested = FALSE
    /\ m_countingIn = FALSE /\ m_currentTick = 0
    /\ m_loopStart = 0 /\ m_loopEnd = 0 /\ m_loopEnabled = FALSE /\ m_loopPreRoll = 0
    /\ metro \in Metros
    /\ pos = 0 /\ preRollEnd = 0 /\ index = 1
    /\ loopStart = 0 /\ loopEnd = 0 /\ looping = FALSE
    /\ click = Silent
    /\ sounding = {} /\ clicking = {} /\ program = None
    /\ lap = Lap(0, FALSE)

-----------------------------------------------------------------------------
(* The UI thread. *)

\* The last part of play(), when there is no thread: a snapshot, and a new thread,
\* whose first lines seek the start.
Play(song, start, preRoll, keepAlive) ==
    /\ gpc = "idle" /\ pc = "none"
    /\ m_snapshot' = song /\ m_keepAlive' = keepAlive
    /\ m_currentTick' = start /\ m_countingIn' = (preRoll > 0)
    /\ m_stopRequested' = FALSE /\ m_playing' = TRUE
    /\ pc' = "tick"
    /\ pos' = start - preRoll /\ preRollEnd' = start
    /\ SeekTo(song, start)
    /\ click' = Silent
    /\ lap' = Lap(start - preRoll, metro.on /\ metro.loud[TRUE])
    /\ UNCHANGED <<ui, loop, metro, locals, sounding, clicking>>

\* stop(), with which play() begins too.
RequestStop ==
    /\ gpc = "idle" /\ pc # "none"
    /\ m_stopRequested' = TRUE
    /\ gpc' = "join"
    /\ UNCHANGED <<region, pc, snapshot, m_playing, head, loop, metro, pos, preRollEnd,
                   index, locals, click, output, lap>>

Join ==
    /\ gpc = "join" /\ pc = "done"
    /\ pc' = "none" /\ m_playing' = FALSE
    /\ gpc' = "idle"
    /\ UNCHANGED <<region, snapshot, m_stopRequested, head, loop, metro, pos,
                   preRollEnd, index, locals, click, output, lap>>

\* setLoop's three stores.
SetLoop(enabled, first, end) ==
    /\ gpc = "idle"
    /\ m_loopStart' = first
    /\ region' = [enabled |-> enabled, first |-> first, end |-> end]
    /\ gpc' = "end"
    /\ UNCHANGED <<pc, snapshot, flags, head, m_loopEnd, m_loopEnabled, m_loopPreRoll,
                   metro, pos, preRollEnd, index, locals, click, output, lap>>

SetLoopEnd ==
    /\ gpc = "end"
    /\ m_loopEnd' = region.end
    /\ gpc' = "enabled"
    /\ UNCHANGED <<region, pc, snapshot, flags, head, m_loopStart, m_loopEnabled,
                   m_loopPreRoll, metro, pos, preRollEnd, index, locals, click, output, lap>>

SetLoopEnabled ==
    /\ gpc = "enabled"
    /\ m_loopEnabled' = region.enabled
    /\ gpc' = "idle"
    /\ UNCHANGED <<region, pc, snapshot, flags, head, m_loopStart, m_loopEnd,
                   m_loopPreRoll, metro, pos, preRollEnd, index, locals, click, output, lap>>

SetLoopCountIn(ticks) ==
    /\ gpc = "idle" /\ ticks # m_loopPreRoll
    /\ m_loopPreRoll' = ticks
    /\ UNCHANGED <<ui, pc, snapshot, flags, head, m_loopStart, m_loopEnd,
                   m_loopEnabled, metro, pos, preRollEnd, index, locals, click, output, lap>>

\* setMetronome, setMetronomeCountInOnly, setMetroSignature, setClickVolumes.
\* Each is one store.
SetMetro(field, settings) ==
    /\ gpc = "idle"
    /\ metro' = [metro EXCEPT ![field] = settings[field]]
    /\ metro' = settings /\ metro' # metro
    /\ lap' = [lap EXCEPT !.steady = FALSE]
    /\ UNCHANGED <<ui, pc, snapshot, flags, head, loop, pos, preRollEnd, index, locals,
                   click, output>>

-----------------------------------------------------------------------------
(* The playback thread. *)

\* The clock advances, the metronome clicks.
Tick(step) ==
    /\ pc = "tick" /\ ~m_stopRequested
    /\ LET t == IF pos + step < MaxTick THEN pos + step ELSE MaxTick
           countIn == t < preRollEnd
           new == Strike(t, countIn)
           on == IF Struck(new) THEN clicking \cup {new.note} ELSE clicking
       IN  /\ pos' = t
           /\ m_countingIn' = countIn
           /\ click' = [new EXCEPT !.pending = @ /\ ~OffDue(new, t)]
           /\ clicking' = IF OffDue(new, t) THEN on \ {new.note} ELSE on
           /\ lap' = IF Struck(new) /\ countIn
                     THEN [lap EXCEPT !.counted = Append(@, new.note.accent)] ELSE lap
    /\ pc' = "loopStart"
    /\ UNCHANGED <<ui, snapshot, flags, m_currentTick, loop, metro, preRollEnd, index,
                   locals, sounding, program>>

LoadLoopStart ==
    /\ pc = "loopStart"
    /\ loopStart' = m_loopStart
    /\ pc' = "loopEnd"
    /\ UNCHANGED <<ui, snapshot, flags, head, loop, metro, pos, preRollEnd, index,
                   loopEnd, looping, click, output, lap>>

LoadLoopEnd ==
    /\ pc = "loopEnd"
    /\ loopEnd' = m_loopEnd
    /\ pc' = "loop"
    /\ UNCHANGED <<ui, snapshot, flags, head, loop, metro, pos, preRollEnd, index,
                   loopStart, looping, click, output, lap>>

Looping == m_loopEnabled /\ loopEnd > loopStart
AtLoopEnd == Looping /\ pos >= 0 /\ pos >= loopEnd

\* The beat before the first of the next lap.
LapBeat == IF m_loopPreRoll > 0 THEN NoBeat ELSE (loopStart \div ClickTicks) - 1

\* (defect: notes are left on)
NotesKept(notes) == notes

\* allNotesOff
AllNotesOff(notes) == {}

\* The pending click's Note Off is sent before the position jumps back.
ClickAtWrap == [click EXCEPT !.beat = LapBeat, !.pending = FALSE]

\* (defect: the count-in is shown with the next iteration)
CountInLater == m_countingIn

LapCountsIn == m_loopPreRoll > 0

\* The pending click and all notes are turned off, and the next lap starts, with a
\* count-in if m_loopPreRoll says so.
Wrap ==
    /\ pc = "loop" /\ AtLoopEnd
    /\ sounding' = AllNotesOff(sounding) /\ clicking' = AllNotesOff(clicking)
    /\ click' = ClickAtWrap
    /\ pos' = loopStart - m_loopPreRoll /\ preRollEnd' = loopStart
    /\ SeekTo(m_snapshot, loopStart)
    /\ m_countingIn' = LapCountsIn
    /\ lap' = Lap(pos', metro.on /\ metro.loud[TRUE])
    /\ pc' = "rewind"
    /\ UNCHANGED <<ui, snapshot, flags, m_currentTick, loop, metro, locals>>

\* The rewound playhead is published after m_countingIn.
Rewind ==
    /\ pc = "rewind"
    /\ m_currentTick' = loopStart
    /\ pc' = "tick"
    /\ UNCHANGED <<ui, snapshot, flags, m_countingIn, loop, metro, pos, preRollEnd,
                   index, locals, click, output, lap>>

\* The playhead stays at the start while counting in.
Playhead == NonNegative(IF m_countingIn THEN preRollEnd ELSE pos)

Pass ==
    /\ pc = "loop" /\ ~AtLoopEnd
    /\ looping' = Looping
    /\ m_currentTick' = Playhead
    /\ pc' = "send"
    /\ UNCHANGED <<ui, snapshot, flags, m_countingIn, loop, metro, pos, preRollEnd,
                   index, loopStart, loopEnd, click, output, lap>>

Reached == index =< Len(m_snapshot) /\ m_snapshot[index].tick =< pos

\* An event the position has reached is sent.
Send ==
    /\ pc = "send" /\ Reached
    /\ LET e == m_snapshot[index]
       IN  /\ sounding' = CASE e.kind = "on"  -> sounding \cup {e.data}
                            [] e.kind = "off" -> sounding \ {e.data}
                            [] OTHER          -> sounding
           /\ program' = IF e.kind = "program" THEN e.data ELSE program
    /\ index' = index + 1
    /\ UNCHANGED <<ui, pc, snapshot, flags, head, loop, metro, pos, preRollEnd, locals,
                   click, clicking, lap>>

\* (defect: the song is never over)
AfterSong == index > Len(m_snapshot) + 1

SongOver == index > Len(m_snapshot)

\* The iteration ends, and with it the song, unless it is kept alive.
EndIteration ==
    /\ pc = "send" /\ ~Reached
    /\ pc' = IF SongOver /\ ~m_keepAlive /\ ~looping
             THEN "exit" ELSE "tick"
    /\ UNCHANGED <<ui, snapshot, flags, head, loop, metro, pos, preRollEnd, index,
                   locals, click, output, lap>>

\* The loop is left: all sound off.
Exit ==
    /\ pc = "exit" \/ (pc = "tick" /\ m_stopRequested)
    /\ sounding' = {} /\ clicking' = {}
    /\ m_countingIn' = FALSE /\ m_playing' = FALSE
    /\ pc' = "done"
    /\ UNCHANGED <<ui, snapshot, m_stopRequested, m_currentTick, loop, metro, pos,
                   preRollEnd, index, locals, click, program, lap>>

-----------------------------------------------------------------------------
Next ==
    \/ \E song \in Songs, start \in Starts, preRoll \in PreRolls, keepAlive \in KeepAlives :
          Play(song, start, preRoll, keepAlive)
    \/ RequestStop \/ Join
    \/ \E enabled \in BOOLEAN, l \in Loops : SetLoop(enabled, l[1], l[2])
    \/ SetLoopEnd \/ SetLoopEnabled
    \/ \E ticks \in PreRolls : SetLoopCountIn(ticks)
    \/ \E field \in DOMAIN metro, settings \in Metros : SetMetro(field, settings)
    \/ \E step \in Steps : Tick(step)
    \/ LoadLoopStart \/ LoadLoopEnd \/ Wrap \/ Rewind \/ Pass
    \/ Send \/ EndIteration \/ Exit

Spec == Init /\ [][Next]_vars

\* The playback thread is scheduled, the clock does not stand still, and the UI thread
\* leaves join when it may.
ThreadStep == \/ \E step \in Steps : Tick(step)
              \/ LoadLoopStart \/ LoadLoopEnd \/ Wrap \/ Rewind \/ Pass
              \/ Send \/ EndIteration \/ Exit

FairSpec == /\ Spec /\ WF_vars(ThreadStep) /\ WF_vars(Join)
            /\ SF_vars(\E step \in Steps \ {0} : Tick(step))

-----------------------------------------------------------------------------
(* Properties *)

TypeOK ==
    /\ gpc \in {"idle", "end", "enabled", "join"}
    /\ region \in [enabled : BOOLEAN, first : Nat, end : Nat]
    /\ pc \in {"none", "tick", "loopStart", "loopEnd", "loop", "rewind", "send", "exit",
               "done"}
    /\ m_snapshot \in Songs \cup {<< >>} /\ m_keepAlive \in BOOLEAN
    /\ m_playing \in BOOLEAN /\ m_stopRequested \in BOOLEAN
    /\ m_countingIn \in BOOLEAN /\ m_currentTick \in Nat
    /\ m_loopStart \in Nat /\ m_loopEnd \in Nat
    /\ m_loopEnabled \in BOOLEAN /\ m_loopPreRoll \in Nat
    /\ metro \in Metros
    /\ pos \in Int /\ preRollEnd \in Nat /\ index \in 1 .. Len(m_snapshot) + 1
    /\ loopStart \in Nat /\ loopEnd \in Nat /\ looping \in BOOLEAN
    /\ click \in [beat : Int, note : ClickNotes, pending : BOOLEAN, offTick : Int]
    /\ sounding \subseteq Notes /\ clicking \subseteq ClickNotes
    /\ program \in Programs \cup {None}
    /\ lap \in [from : Int, counted : Seq(BOOLEAN), steady : BOOLEAN]

Running == pc \notin {"none", "done"}

\* Notes begun in this lap, before event i, and not ended.
Held(i) ==
    {n \in Notes : \E j \in 1 .. i - 1 :
        /\ m_snapshot[j].kind = "on" /\ m_snapshot[j].data = n
        /\ m_snapshot[j].tick >= preRollEnd
        /\ \A k \in j + 1 .. i - 1 : ~(m_snapshot[k].kind = "off" /\ m_snapshot[k].data = n)}

\* What sounds is what the song holds at the head since the lap began: no note hangs
\* over a wrap, none is heard in a count-in, none outlives the thread.
SoundingIsHeld == TypeOK /\ sounding = IF Running THEN Held(index) ELSE {}

\* Between two iterations every event of this lap up to the position, and none
\* beyond it, has been sent.
CaughtUp ==
    \A i \in 1 .. Len(m_snapshot) :
        LET t == m_snapshot[i].tick
        IN  /\ i < index => t < preRollEnd \/ t =< pos
            /\ pc = "tick" /\ preRollEnd =< t /\ t < pos => i < index

\* Wherever playback starts or wraps to, the instrument is the one the song has
\* chosen by then, if it has chosen any (the comment of seekTo, Player.cpp lines 62-63).
InstrumentFits ==
    Running /\ ProgramsBefore(m_snapshot, index) # {} =>
        program \in LastPrograms(m_snapshot, index)

\* What sounds, and on which instrument, follows from the position and the lap.
SoundFitsPosition == SoundingIsHeld /\ InstrumentFits

\* A click never waits for its Note Off longer than an eighth of a beat, not even
\* across a wrap, where the position jumps back.
ClickOffIsNear == click.pending /\ Running => click.offTick - pos =< Ppqn \div 8

\* What that claim takes for granted: the thread never sleeps a whole beat of eighths, and a
\* count-in is not longer than the bound.
NoBeatSkipped == (\A step \in Steps : step < Ppqn \div 2) /\ \A ticks \in PreRolls : ticks =< MaxTick

\* The claim of Player.cpp lines 127-128: a count-in is exactly as many clicks as it
\* has beats, of which the last alone is accented; at the start and in every lap.
\* The UI has left the metronome on and alone, and no iteration skips a beat.
CountInHeard ==
    pc = "loopStart" /\ ~m_countingIn /\ lap.steady
        /\ (preRollEnd - lap.from) % ClickTicks = 0 =>
            LET beats == (preRollEnd - lap.from) \div ClickTicks
            IN  lap.counted = [n \in 1 .. beats |-> n = beats]

\* Each click of a count-in is struck, and each has its Note Off near.
ClicksAreHeard == CountInHeard /\ ClickOffIsNear

\* The UI that sees the head jump back to a lap with a count-in sees the count-in too
\* (the comment of Player.cpp line 200).
RewindShowsCountIn ==
    [][m_currentTick' < m_currentTick /\ Running /\ pos' < preRollEnd' => m_countingIn']_vars

\* stop() returns.
StopJoins == (gpc = "join") ~> (gpc = "idle")

\* Without keepAlive and loop, playback ends by itself.
SongEnds ==
    (m_playing /\ ~m_keepAlive) ~> (~m_playing \/ m_loopEnabled \/ looping)

\* Playback ends, by itself or when the UI thread joins it.
PlaybackEnds == StopJoins /\ SongEnds

===============================================================================
