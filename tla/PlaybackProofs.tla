---------------------------- MODULE PlaybackProofs ----------------------------
(***************************************************************************)
(* What a song is played with.  Player: for every song, loop, metronome and  *)
(* count-in, for every length of an iteration, and however the UI thread's    *)
(* stores fall between the playback thread's loads.  PluginChains: for all    *)
(* effects and instruments and any number of channels, tracks and places.    *)
(***************************************************************************)
EXTENDS Player, PluginChains, FiniteSetTheorems, SequenceTheorems, TLAPS

-----------------------------------------------------------------------------
(* What a song and a click are made of. *)

\* The kinds of events, and what each carries (MidiEvent).
LEMMA EventFacts ==
    ASSUME NEW e \in Events
    PROVE  /\ e.tick \in Nat /\ e.kind \in {"on", "off", "program"}
           /\ e.kind = "program" => e.data \in Programs
           /\ e.kind # "program" => e.data \in Notes
  BY DEF Events

\* A snapshot is a sorted list of events, also before the first start.
LEMMA SnapshotSorted ==
    ASSUME NEW s \in Songs \cup {<< >>}
    PROVE  /\ s \in Seq(Events)
           /\ \A i, j \in 1 .. Len(s) : i < j => s[i].tick =< s[j].tick
<1>1. CASE s \in Songs
  BY <1>1, SongsAssumption
<1>2. CASE s = << >>
  BY <1>2
<1> QED BY <1>1, <1>2

\* seekTo finds an index of the song or the one behind it, and leaves an instrument.
LEMMA SeekTypes ==
    ASSUME NEW s \in Songs \cup {<< >>}, program \in Programs \cup {None},
           NEW t, SeekTo(s, t)
    PROVE  index' \in 1 .. Len(s) + 1 /\ program' \in Programs \cup {None}
<1>1. PICK i \in 1 .. Len(s) + 1 : index' = i /\ program' \in SeekProgram(s, i)
  BY DEF SeekTo
<1>2. s \in Seq(Events)
  BY SnapshotSorted
<1>3. \A j \in ProgramsBefore(s, i) : s[j].data \in Programs
  <2> SUFFICES ASSUME NEW j \in ProgramsBefore(s, i)
               PROVE  s[j].data \in Programs
    OBVIOUS
  <2>1. j \in 1 .. Len(s) /\ s[j].kind = "program"
    BY <1>1, <1>2 DEF ProgramsBefore
  <2>2. s[j] \in Events
    BY <2>1, <1>2
  <2> QED BY <2>1, <2>2, EventFacts
<1>4. LastPrograms(s, i) \subseteq Programs
  BY <1>3 DEF LastPrograms
<1> QED BY <1>1, <1>4 DEF SeekProgram

\* A click lasts at least no time, and at most a quarter note.
LEMMA ClickTicksFacts ==
    ASSUME metro \in Metros
    PROVE  ClickTicks \in Nat \ {0} /\ ClickTicks =< Ppqn
  BY TimesAssumption, MetronomeAssumption DEF ClickTicks

LEMMA StrikeTypes ==
    ASSUME metro \in Metros, preRollEnd \in Nat, NEW t \in Int, NEW countIn \in BOOLEAN,
           click \in [beat : Int, note : ClickNotes, pending : BOOLEAN, offTick : Int]
    PROVE  Strike(t, countIn) \in [beat : Int, note : ClickNotes, pending : BOOLEAN, offTick : Int]
<1> DEFINE beat == Beat(t, countIn)
<1>1. beat \in Int
  BY ClickTicksFacts DEF Beat
<1>2. metro.loud[countIn] \in BOOLEAN /\ metro.signature.beats \in Nat \ {0}
  BY MetronomeAssumption
<1>3. Accent(beat, countIn) \in BOOLEAN
  BY <1>1, <1>2 DEF Accent
<1>4. t + ClickTicks \div 8 \in Int
  BY ClickTicksFacts
<1> HIDE DEF beat
<1>5. Strike(t, countIn) = IF MetroOn(countIn) /\ beat # click.beat
        THEN [beat |-> beat, note |-> [countIn |-> countIn, accent |-> Accent(beat, countIn)],
              pending |-> click.pending \/ metro.loud[countIn],
              offTick |-> IF metro.loud[countIn] THEN t + ClickTicks \div 8 ELSE click.offTick]
        ELSE click
  BY DEF Strike, beat
<1> QED BY <1>1, <1>2, <1>3, <1>4, <1>5 DEF ClickNotes
-----------------------------------------------------------------------------
(* Types. *)

LEMMA TypeInit == Init => TypeOK
<1> SUFFICES ASSUME Init
             PROVE  TypeOK
  OBVIOUS
<1>1. click \in [beat : Int, note : ClickNotes, pending : BOOLEAN, offTick : Int]
  BY TimesAssumption DEF Init, Silent, ClickNotes, NoBeat
<1>2. lap \in [from : Int, counted : Seq(BOOLEAN), steady : BOOLEAN]
  BY DEF Init, Lap
<1>3. region \in [enabled : BOOLEAN, first : Nat, end : Nat]
  BY DEF Init
<1>4. index \in 1 .. Len(m_snapshot) + 1
  BY DEF Init
<1>5. /\ gpc = "idle" /\ pc = "none" /\ m_snapshot = << >>
      /\ m_keepAlive = FALSE /\ m_playing = FALSE /\ m_stopRequested = FALSE
      /\ m_countingIn = FALSE /\ m_currentTick = 0 /\ metro \in Metros
  BY DEF Init
<1>6. /\ m_loopStart \in Nat /\ m_loopEnd \in Nat /\ m_loopPreRoll \in Nat
      /\ pos \in Int /\ preRollEnd \in Nat /\ loopStart \in Nat /\ loopEnd \in Nat
  BY DEF Init
<1>7. m_loopEnabled \in BOOLEAN /\ looping \in BOOLEAN
  BY DEF Init
<1>8. sounding \subseteq Notes /\ clicking \subseteq ClickNotes /\ program \in Programs \cup {None}
  BY DEF Init
<1> QED BY <1>1, <1>2, <1>3, <1>4, <1>5, <1>6, <1>7, <1>8 DEF TypeOK

LEMMA TypeNext == TypeOK /\ [Next]_vars => TypeOK'
<1> SUFFICES ASSUME TypeOK, [Next]_vars
             PROVE  TypeOK'
  OBVIOUS
<1> USE DEF TypeOK
<1> DEFINE Clicks == [beat : Int, note : ClickNotes, pending : BOOLEAN, offTick : Int]
<1>1. ASSUME NEW song \in Songs, NEW start \in Starts, NEW preRoll \in PreRolls,
             NEW keepAlive \in KeepAlives, Play(song, start, preRoll, keepAlive)
      PROVE  TypeOK'
  <2>1. index' \in 1 .. Len(song) + 1 /\ program' \in Programs \cup {None}
    BY <1>1, SeekTypes DEF Play
  <2>2. click' \in Clicks
    BY <1>1, TimesAssumption DEF Play, Silent, NoBeat, ClickNotes
  <2>3. lap' \in [from : Int, counted : Seq(BOOLEAN), steady : BOOLEAN]
    <3>1. start - preRoll \in Int /\ (metro.on /\ metro.loud[TRUE]) \in BOOLEAN
      BY <1>1, TimesAssumption, MetronomeAssumption
    <3> QED BY <1>1, <3>1 DEF Play, Lap
  <2>4. /\ m_snapshot' = song /\ m_currentTick' \in Nat /\ m_countingIn' \in BOOLEAN
        /\ pos' \in Int /\ preRollEnd' \in Nat /\ m_keepAlive' \in BOOLEAN
    BY <1>1, TimesAssumption DEF Play
  <2> QED BY <1>1, <2>1, <2>2, <2>3, <2>4 DEF Play, ui, loop, locals
<1>2. CASE RequestStop
  BY <1>2 DEF RequestStop, snapshot, head, loop, locals, output
<1>3. CASE Join
  BY <1>3 DEF Join, snapshot, head, loop, locals, output
<1>4. ASSUME NEW enabled \in BOOLEAN, NEW l \in Loops, SetLoop(enabled, l[1], l[2])
      PROVE  TypeOK'
  BY <1>4, TimesAssumption DEF SetLoop, snapshot, flags, head, locals, output
<1>5. CASE SetLoopEnd
  BY <1>5 DEF SetLoopEnd, snapshot, flags, head, locals, output
<1>6. CASE SetLoopEnabled
  BY <1>6 DEF SetLoopEnabled, snapshot, flags, head, locals, output
<1>7. ASSUME NEW ticks \in PreRolls, SetLoopCountIn(ticks)
      PROVE  TypeOK'
  BY <1>7, TimesAssumption DEF SetLoopCountIn, ui, snapshot, flags, head, locals, output
<1>8. ASSUME NEW field \in DOMAIN metro, NEW settings \in Metros, SetMetro(field, settings)
      PROVE  TypeOK'
  <2>1. metro' \in Metros /\ lap' \in [from : Int, counted : Seq(BOOLEAN), steady : BOOLEAN]
    BY <1>8 DEF SetMetro
  <2> QED BY <1>8, <2>1 DEF SetMetro, ui, snapshot, flags, head, loop, locals, output
<1>9. ASSUME NEW step \in Steps, Tick(step)
      PROVE  TypeOK'
  <2> DEFINE t == IF pos + step < MaxTick THEN pos + step ELSE MaxTick
             countIn == t < preRollEnd
             new == Strike(t, countIn)
  <2>1. t \in Int /\ countIn \in BOOLEAN
    BY TimesAssumption
  <2>2. new \in Clicks
    BY <2>1, StrikeTypes
  <2> HIDE DEF t, countIn, new
  <2>3. /\ pos' = t /\ m_countingIn' = countIn
        /\ click' = [new EXCEPT !.pending = @ /\ ~OffDue(new, t)]
        /\ clicking' \subseteq clicking \cup {new.note}
        /\ lap' \in {lap, [lap EXCEPT !.counted = Append(@, new.note.accent)]}
        /\ pc' = "loopStart"
    BY <1>9 DEF Tick, t, countIn, new
  <2>4. click' \in Clicks
    BY <2>2, <2>3
  <2>5. lap' \in [from : Int, counted : Seq(BOOLEAN), steady : BOOLEAN]
    <3>1. new.note.accent \in BOOLEAN
      BY <2>2 DEF ClickNotes
    <3>2. Append(lap.counted, new.note.accent) \in Seq(BOOLEAN)
      BY <3>1
    <3> QED BY <2>3, <3>2
  <2> QED BY <1>9, <2>1, <2>2, <2>3, <2>4, <2>5
       DEF Tick, ui, snapshot, flags, loop, locals
<1>10. CASE LoadLoopStart
  BY <1>10 DEF LoadLoopStart, ui, snapshot, flags, head, loop, output
<1>11. CASE LoadLoopEnd
  BY <1>11 DEF LoadLoopEnd, ui, snapshot, flags, head, loop, output
<1>12. CASE Wrap
  <2>1. index' \in 1 .. Len(m_snapshot) + 1 /\ program' \in Programs \cup {None}
    BY <1>12, SeekTypes DEF Wrap
  <2>2. LapBeat \in Int
    BY ClickTicksFacts, TimesAssumption DEF LapBeat, NoBeat
  <2>3. click' \in Clicks
    BY <1>12, <2>2 DEF Wrap, ClickAtWrap
  <2>4. pos' \in Int /\ preRollEnd' \in Nat /\ m_countingIn' \in BOOLEAN
    BY <1>12 DEF Wrap, LapCountsIn
  <2>5. lap' \in [from : Int, counted : Seq(BOOLEAN), steady : BOOLEAN]
    BY <1>12, <2>4, MetronomeAssumption DEF Wrap, Lap
  <2> QED BY <1>12, <2>1, <2>3, <2>4, <2>5 DEF Wrap, AllNotesOff, ui, snapshot, flags, loop, locals
<1>13. CASE Rewind
  BY <1>13 DEF Rewind, ui, snapshot, flags, loop, locals, output
<1>14. CASE Pass
  <2>1. Playhead \in Nat /\ Looping \in BOOLEAN
    BY DEF Playhead, NonNegative, Looping
  <2> QED BY <1>14, <2>1 DEF Pass, ui, snapshot, flags, loop, output
<1>15. CASE Send
  <2>1. index \in 1 .. Len(m_snapshot) /\ m_snapshot \in Seq(Events)
    BY <1>15, SnapshotSorted DEF Send, Reached
  <2>2. m_snapshot[index] \in Events
    BY <2>1
  <2>3. sounding' \subseteq Notes /\ program' \in Programs \cup {None}
    BY <1>15, <2>2, EventFacts DEF Send
  <2>4. index' \in 1 .. Len(m_snapshot) + 1
    <3>1. index' = index + 1 /\ Len(m_snapshot) \in Nat
      BY <1>15, <2>1 DEF Send
    <3> QED BY <2>1, <3>1
  <2> QED BY <1>15, <2>3, <2>4 DEF Send, ui, snapshot, flags, head, loop, locals
<1>16. CASE EndIteration
  BY <1>16 DEF EndIteration, ui, snapshot, flags, head, loop, locals, output
<1>17. CASE Exit
  BY <1>17 DEF Exit, ui, snapshot, loop, locals
<1>18. CASE UNCHANGED vars
  BY <1>18 DEF vars, ui, snapshot, flags, head, loop, locals, output
<1> QED BY <1>1, <1>2, <1>3, <1>4, <1>5, <1>6, <1>7, <1>8, <1>9, <1>10, <1>11, <1>12,
           <1>13, <1>14, <1>15, <1>16, <1>17, <1>18 DEF Next

\* Every variable keeps its shape: the position stays a number, the index within the
\* song, the instrument one of the song's (run's locals in Player.cpp).
THEOREM TypeCorrect == Spec => []TypeOK
<1> QED BY TypeInit, TypeNext, PTL DEF Spec

-----------------------------------------------------------------------------
(* The inductive invariant.  What is heard depends on how the position, the   *)
(* lap's start and the index were left by the step before: seekTo leaves no   *)
(* event of the lap behind the index and none before the lap ahead of it, and *)
(* the position never runs back but by a wrap.                                *)

\* No start of a lap lies beyond the bound, where the clock would stand still.
WithinBound ==
    /\ pos =< MaxTick /\ preRollEnd =< MaxTick /\ loopStart =< MaxTick
    /\ m_loopStart =< MaxTick /\ region.first =< MaxTick

\* All that is still to be sent belongs to the lap.
AheadIsOfLap ==
    Running => \A i \in index .. Len(m_snapshot) : m_snapshot[i].tick >= preRollEnd

\* A wrap goes back to the lap's start, or to the count-in before it.
RewoundToStart == pc = "rewind" => pos =< preRollEnd

\* From the clock's step on to the end of the iteration the count-in is shown as it is.
CountInShown ==
    pc \in {"loopStart", "loopEnd", "loop", "rewind", "send"} =>
        m_countingIn = (pos < preRollEnd)

PlayerInv ==
    /\ WithinBound /\ AheadIsOfLap /\ RewoundToStart /\ CountInShown
    /\ SoundingIsHeld /\ InstrumentFits /\ CaughtUp /\ ClickOffIsNear

-----------------------------------------------------------------------------
(* Which steps change what is heard. *)

heard == <<m_snapshot, pos, preRollEnd, index, sounding, program, click, m_countingIn>>

\* A step of the UI thread, or of the playback thread on its way through an iteration.
Still ==
    /\ UNCHANGED heard
    /\ \/ pc' = pc
       \/ pc = "done" /\ pc' = "none"
       \/ pc \in {"loopStart", "loopEnd", "loop"} /\ pc' \in {"loopEnd", "loop", "send"}

Begin == \E song \in Songs, start \in Starts, preRoll \in PreRolls, keepAlive \in KeepAlives :
            Play(song, start, preRoll, keepAlive)
Clock == \E step \in Steps : Tick(step)

LEMMA StepsHeard ==
    ASSUME [Next]_vars
    PROVE  Begin \/ Clock \/ Wrap \/ Rewind \/ Send \/ EndIteration \/ Exit \/ Still
<1> USE DEF Still, heard
<1>1. CASE RequestStop
  BY <1>1 DEF RequestStop, snapshot, head, output
<1>2. CASE Join
  BY <1>2 DEF Join, snapshot, head, output
<1>3. ASSUME NEW enabled \in BOOLEAN, NEW l \in Loops, SetLoop(enabled, l[1], l[2])
      PROVE  Still
  BY <1>3 DEF SetLoop, snapshot, head, output
<1>4. CASE SetLoopEnd
  BY <1>4 DEF SetLoopEnd, snapshot, head, output
<1>5. CASE SetLoopEnabled
  BY <1>5 DEF SetLoopEnabled, snapshot, head, output
<1>6. ASSUME NEW ticks \in PreRolls, SetLoopCountIn(ticks)
      PROVE  Still
  BY <1>6 DEF SetLoopCountIn, snapshot, head, output
<1>7. ASSUME NEW field \in DOMAIN metro, NEW settings \in Metros, SetMetro(field, settings)
      PROVE  Still
  BY <1>7 DEF SetMetro, snapshot, head, output
<1>8. CASE LoadLoopStart
  BY <1>8 DEF LoadLoopStart, snapshot, head, output
<1>9. CASE LoadLoopEnd
  BY <1>9 DEF LoadLoopEnd, snapshot, head, output
<1>10. CASE Pass
  BY <1>10 DEF Pass, snapshot, output
<1>11. CASE UNCHANGED vars
  BY <1>11 DEF vars, snapshot, head, output
<1> QED BY <1>1, <1>2, <1>3, <1>4, <1>5, <1>6, <1>7, <1>8, <1>9, <1>10, <1>11
     DEF Next, Begin, Clock

\* What the clock's step leaves and how far it goes: never back.
LEMMA ClockFacts ==
    ASSUME TypeOK, WithinBound, Clock
    PROVE  /\ pc = "tick" /\ pc' = "loopStart"
           /\ pos' >= pos /\ pos' =< MaxTick
           /\ m_countingIn' = (pos' < preRollEnd)
           /\ UNCHANGED <<m_snapshot, preRollEnd, index, sounding, program>>
<1>1. PICK step \in Steps : Tick(step)
  BY DEF Clock
<1>2. /\ pc = "tick" /\ pc' = "loopStart"
      /\ pos' = IF pos + step < MaxTick THEN pos + step ELSE MaxTick
      /\ m_countingIn' = (pos' < preRollEnd)
      /\ UNCHANGED <<m_snapshot, preRollEnd, index, sounding, program>>
  BY <1>1 DEF Tick, snapshot
<1>3. step \in Nat /\ MaxTick \in Nat /\ pos \in Int /\ pos =< MaxTick
  BY TimesAssumption DEF TypeOK, WithinBound
<1> QED BY <1>2, <1>3

\* seekTo parts the song at t: what lies before has its instrument in force.
LEMMA SeekFacts ==
    ASSUME NEW s \in Songs \cup {<< >>}, NEW t \in Nat, SeekTo(s, t)
    PROVE  /\ index' \in 1 .. Len(s) + 1
           /\ \A j \in 1 .. Len(s) : j < index' => s[j].tick < t
           /\ \A j \in 1 .. Len(s) : j >= index' => s[j].tick >= t
           /\ ProgramsBefore(s, index') # {} => program' \in LastPrograms(s, index')
<1>1. PICK i \in 1 .. Len(s) + 1 :
        IsFirstFrom(s, i, t) /\ index' = i /\ program' \in SeekProgram(s, i)
  BY DEF SeekTo
<1>2. /\ s \in Seq(Events)
      /\ \A j, k \in 1 .. Len(s) : j < k => s[j].tick =< s[k].tick
  BY SnapshotSorted
<1>3. \A j \in 1 .. Len(s) : j < i => s[j].tick < t
  BY <1>1, <1>2 DEF IsFirstFrom
<1>4. \A j \in 1 .. Len(s) : j >= i => s[j].tick >= t
  <2> SUFFICES ASSUME NEW j \in 1 .. Len(s), j >= i
               PROVE  s[j].tick >= t
    OBVIOUS
  <2>1. i \in 1 .. Len(s) /\ s[i].tick >= t
    BY <1>1, <1>2 DEF IsFirstFrom
  <2>2. s[i].tick \in Nat /\ s[j].tick \in Nat
    BY <1>2, <2>1, EventFacts
  <2>3. s[i].tick =< s[j].tick
    BY <1>2, <2>1, <2>2
  <2> QED BY <2>1, <2>2, <2>3
<1>5. ProgramsBefore(s, i) # {} => program' \in LastPrograms(s, i)
  BY <1>1 DEF SeekProgram
<1> QED BY <1>1, <1>3, <1>4, <1>5

\* Both the start and a wrap seek the lap's first tick, in silence.
LEMMA LapBegins ==
    ASSUME TypeOK, SoundingIsHeld, Begin \/ Wrap
    PROVE  /\ m_snapshot' \in Songs \cup {<< >>} /\ preRollEnd' \in Nat
           /\ SeekTo(m_snapshot', preRollEnd')
           /\ pos' \in Int /\ pos' =< preRollEnd'
           /\ m_countingIn' = (pos' < preRollEnd')
           /\ sounding' = {} /\ click'.pending = FALSE
           /\ pc' \in {"tick", "rewind"}
<1>1. CASE Begin
  <2>1. PICK song \in Songs, start \in Starts, preRoll \in PreRolls, keepAlive \in KeepAlives :
            Play(song, start, preRoll, keepAlive)
    BY <1>1 DEF Begin
  <2>2. start \in Nat /\ preRoll \in Nat
    BY TimesAssumption
  <2>3. /\ m_snapshot' = song /\ preRollEnd' = start /\ SeekTo(song, start)
        /\ pos' = start - preRoll /\ m_countingIn' = (preRoll > 0)
        /\ click' = Silent /\ sounding' = sounding /\ pc = "none" /\ pc' = "tick"
    BY <2>1 DEF Play
  <2>4. sounding = {}
    BY <2>3 DEF SoundingIsHeld, Running
  <2>5. click'.pending = FALSE
    BY <2>3 DEF Silent
  <2> QED BY <2>2, <2>3, <2>4, <2>5
<1>2. CASE Wrap
  <2>1. /\ m_snapshot' = m_snapshot /\ preRollEnd' = loopStart
        /\ SeekTo(m_snapshot, loopStart) /\ pos' = loopStart - m_loopPreRoll
        /\ m_countingIn' = (m_loopPreRoll > 0) /\ sounding' = {} /\ pc' = "rewind"
    BY <1>2 DEF Wrap, snapshot, AllNotesOff, LapCountsIn
  <2>2. /\ m_snapshot \in Songs \cup {<< >>} /\ loopStart \in Nat /\ m_loopPreRoll \in Nat
        /\ click \in [beat : Int, note : ClickNotes, pending : BOOLEAN, offTick : Int]
    BY DEF TypeOK
  <2>3. click'.pending = FALSE
    BY <1>2, <2>2 DEF Wrap, ClickAtWrap
  <2> QED BY <2>1, <2>2, <2>3
<1> QED BY <1>1, <1>2

\* What remains of the step when the lap goes on.
LEMMA LapGoesOn ==
    ASSUME TypeOK, Rewind \/ EndIteration \/ Exit
    PROVE  /\ UNCHANGED <<m_snapshot, pos, preRollEnd, index, program, click>>
           /\ Exit => sounding' = {} /\ pc' = "done"
           /\ ~Exit => UNCHANGED <<sounding, m_countingIn>>
  BY DEF Rewind, EndIteration, Exit, snapshot, head, output

LEMMA SendFacts ==
    ASSUME TypeOK, Send
    PROVE  /\ index \in 1 .. Len(m_snapshot) /\ index' = index + 1
           /\ m_snapshot \in Seq(Events)
           /\ m_snapshot[index] \in Events /\ m_snapshot[index].tick =< pos
           /\ pc = "send" /\ pc' = "send"
           /\ UNCHANGED <<m_snapshot, pos, preRollEnd, click, m_countingIn>>
<1>1. index \in 1 .. Len(m_snapshot) /\ m_snapshot \in Seq(Events)
  BY SnapshotSorted DEF TypeOK, Send, Reached
<1>2. m_snapshot[index] \in Events
  BY <1>1
<1> QED BY <1>1, <1>2 DEF Send, Reached, snapshot, head

-----------------------------------------------------------------------------
(* The parts of the invariant, one lemma each. *)

LEMMA BoundNext == TypeOK /\ WithinBound /\ [Next]_vars => WithinBound'
<1> SUFFICES ASSUME TypeOK, WithinBound, [Next]_vars
             PROVE  WithinBound'
  OBVIOUS
<1>0. /\ pos \in Int /\ preRollEnd \in Nat /\ loopStart \in Nat /\ m_loopStart \in Nat
      /\ m_loopPreRoll \in Nat /\ region.first \in Nat /\ MaxTick \in Nat
  BY TimesAssumption DEF TypeOK
<1> USE DEF WithinBound
<1>1. CASE Begin
  <2>1. PICK song \in Songs, start \in Starts, preRoll \in PreRolls, keepAlive \in KeepAlives :
            Play(song, start, preRoll, keepAlive)
    BY <1>1 DEF Begin
  <2>2. start \in 0 .. MaxTick /\ preRoll \in Nat
    BY TimesAssumption
  <2> QED BY <1>0, <2>1, <2>2 DEF Play, ui, loop, locals
<1>2. ASSUME NEW enabled \in BOOLEAN, NEW l \in Loops, SetLoop(enabled, l[1], l[2])
      PROVE  WithinBound'
  <2>1. l[1] \in 0 .. MaxTick
    BY TimesAssumption
  <2> QED BY <1>0, <1>2, <2>1 DEF SetLoop, locals
<1>3. CASE Clock
  <2>1. pos' =< MaxTick /\ preRollEnd' = preRollEnd
    BY <1>3, ClockFacts
  <2>2. UNCHANGED <<loopStart, m_loopStart, region>>
    BY <1>3 DEF Clock, Tick, ui, loop, locals
  <2> QED BY <1>0, <2>1, <2>2
<1>4. CASE LoadLoopStart
  BY <1>0, <1>4 DEF LoadLoopStart, ui, loop
<1>5. CASE Wrap
  <2>1. /\ pos' = loopStart - m_loopPreRoll /\ preRollEnd' = loopStart
        /\ UNCHANGED <<loopStart, m_loopStart, region>>
    BY <1>5 DEF Wrap, ui, loop, locals
  <2> QED BY <1>0, <2>1
<1>6. ASSUME \/ RequestStop \/ Join \/ SetLoopEnd \/ SetLoopEnabled
             \/ \E ticks \in PreRolls : SetLoopCountIn(ticks)
             \/ \E field \in DOMAIN metro, settings \in Metros : SetMetro(field, settings)
      PROVE  UNCHANGED <<pos, preRollEnd, loopStart, m_loopStart, region>>
  BY <1>6 DEF RequestStop, Join, SetLoopEnd, SetLoopEnabled, SetLoopCountIn, SetMetro,
              ui, loop, locals
<1>7. ASSUME LoadLoopEnd \/ Rewind \/ Pass \/ Send \/ EndIteration \/ Exit \/ UNCHANGED vars
      PROVE  UNCHANGED <<pos, preRollEnd, loopStart, m_loopStart, region>>
  BY <1>7 DEF LoadLoopEnd, Rewind, Pass, Send, EndIteration, Exit, vars, ui, loop, locals
<1> QED BY <1>1, <1>2, <1>3, <1>4, <1>5, <1>6, <1>7 DEF Next, Begin, Clock

LEMMA AheadNext ==
    ASSUME TypeOK, SoundingIsHeld, WithinBound, AheadIsOfLap, [Next]_vars
    PROVE  AheadIsOfLap'
<1> USE DEF AheadIsOfLap, Running
<1>1. CASE Begin \/ Wrap
  <2>1. /\ index' \in 1 .. Len(m_snapshot') + 1
        /\ \A j \in 1 .. Len(m_snapshot') : j >= index' => m_snapshot'[j].tick >= preRollEnd'
    BY <1>1, LapBegins, SeekFacts
  <2>2. Len(m_snapshot') \in Nat
    BY <1>1, LapBegins, SnapshotSorted
  <2> QED BY <2>1, <2>2
<1>2. CASE Clock
  BY <1>2, ClockFacts
<1>3. CASE Send
  <2>1. /\ index' = index + 1 /\ index \in Nat /\ Len(m_snapshot) \in Nat
        /\ UNCHANGED <<m_snapshot, preRollEnd>> /\ pc = "send"
    BY <1>3, SendFacts DEF TypeOK
  <2> QED BY <2>1
<1>4. CASE Rewind \/ EndIteration \/ Exit
  <2>1. pc \notin {"none", "done"}
    BY <1>4 DEF Rewind, EndIteration, Exit
  <2> QED BY <1>4, <2>1, LapGoesOn
<1>5. CASE Still
  BY <1>5 DEF Still, heard
<1> QED BY <1>1, <1>2, <1>3, <1>4, <1>5, StepsHeard

LEMMA RewoundNext ==
    ASSUME TypeOK, SoundingIsHeld, RewoundToStart, [Next]_vars
    PROVE  RewoundToStart'
<1> USE DEF RewoundToStart
<1>1. CASE Begin \/ Wrap
  BY <1>1, LapBegins
<1>2. CASE Clock
  BY <1>2 DEF Clock, Tick
<1>3. CASE Rewind \/ Send \/ EndIteration \/ Exit
  BY <1>3 DEF Rewind, Send, EndIteration, Exit
<1>4. CASE Still
  BY <1>4 DEF Still, heard
<1> QED BY <1>1, <1>2, <1>3, <1>4, StepsHeard

LEMMA CountInNext ==
    ASSUME TypeOK, SoundingIsHeld, WithinBound, CountInShown, [Next]_vars
    PROVE  CountInShown'
<1> USE DEF CountInShown
<1>1. CASE Begin \/ Wrap
  BY <1>1, LapBegins
<1>2. CASE Clock
  BY <1>2, ClockFacts
<1>3. CASE Rewind \/ EndIteration \/ Exit
  BY <1>3 DEF Rewind, EndIteration, Exit
<1>4. CASE Send
  BY <1>4, SendFacts
<1>5. CASE Still
  BY <1>5 DEF Still, heard
<1> QED BY <1>1, <1>2, <1>3, <1>4, <1>5, StepsHeard

-----------------------------------------------------------------------------
(* What sounds. *)

LEMMA PlacesBefore ==
    ASSUME NEW n \in Nat, NEW i \in 1 .. n + 1, NEW j \in 1 .. i - 1
    PROVE  j \in 1 .. n /\ j < i
OBVIOUS

\* Nothing is held where no event of the lap has been sent.
LEMMA NothingHeld ==
    ASSUME TypeOK', \A j \in 1 .. Len(m_snapshot') : j < index' => m_snapshot'[j].tick < preRollEnd'
    PROVE  Held(index)' = {}
<1>1. /\ index' \in 1 .. Len(m_snapshot') + 1 /\ m_snapshot' \in Songs \cup {<< >>}
      /\ preRollEnd' \in Nat
  BY DEF TypeOK
<1>2. m_snapshot' \in Seq(Events)
  BY <1>1, SnapshotSorted
<1>3. ASSUME NEW j \in 1 .. index' - 1
      PROVE  ~(m_snapshot'[j].tick >= preRollEnd')
  <2>1. j \in 1 .. Len(m_snapshot') /\ j < index'
    <3>1. Len(m_snapshot') \in Nat
      BY <1>2
    <3> QED BY Zenon, <1>1, <3>1, PlacesBefore
  <2>2. m_snapshot'[j].tick \in Nat
    BY <1>2, <2>1, EventFacts
  <2> QED BY <1>1, <2>1, <2>2
<1> QED BY <1>3 DEF Held

\* What is held after one more event of the lap.
LEMMA HeldNext ==
    ASSUME NEW i \in 1 .. Len(m_snapshot), m_snapshot \in Seq(Events), preRollEnd \in Nat,
           m_snapshot[i].tick >= preRollEnd
    PROVE  Held(i + 1) = CASE m_snapshot[i].kind = "on"  -> Held(i) \cup {m_snapshot[i].data}
                           [] m_snapshot[i].kind = "off" -> Held(i) \ {m_snapshot[i].data}
                           [] OTHER                      -> Held(i)
<1> DEFINE e == m_snapshot[i]
           Begun(n, j) == m_snapshot[j].kind = "on" /\ m_snapshot[j].data = n
                          /\ m_snapshot[j].tick >= preRollEnd
           Ended(n, k) == m_snapshot[k].kind = "off" /\ m_snapshot[k].data = n
<1>1. /\ e \in Events /\ (e.kind = "on" => e.data \in Notes)
      /\ e.kind \in {"on", "off", "program"}
  BY EventFacts
<1>2. ASSUME NEW h \in {i, i + 1}
      PROVE  Held(h) = {n \in Notes : \E j \in 1 .. h - 1 :
                            Begun(n, j) /\ \A k \in j + 1 .. h - 1 : ~Ended(n, k)}
  BY DEF Held
<1>3. i \in Nat \ {0} /\ 1 .. i = 1 .. i - 1 \cup {i} /\ i + 1 - 1 = i
  OBVIOUS
<1>4. \A j \in 1 .. i - 1 : j + 1 .. i = j + 1 .. i - 1 \cup {i}
  BY <1>3
<1>5. i + 1 .. i = {}
  BY <1>3
<1> HIDE DEF Begun, Ended
<1>6. ASSUME NEW n \in Notes
      PROVE  n \in Held(i + 1) <=> (n \in Held(i) /\ ~Ended(n, i)) \/ Begun(n, i)
  <2>1. n \in Held(i + 1) <=> \E j \in 1 .. i : Begun(n, j) /\ \A k \in j + 1 .. i : ~Ended(n, k)
    BY <1>2, <1>3
  <2>2. n \in Held(i) <=>
            \E j \in 1 .. i - 1 : Begun(n, j) /\ \A k \in j + 1 .. i - 1 : ~Ended(n, k)
    BY <1>2
  <2> QED BY <1>3, <1>4, <1>5, <2>1, <2>2
<1>7. Held(i) \subseteq Notes /\ Held(i + 1) \subseteq Notes
  BY DEF Held
<1> QED BY <1>1, <1>6, <1>7 DEF Begun, Ended

LEMMA SoundingNext ==
    ASSUME TypeOK, TypeOK', SoundingIsHeld, AheadIsOfLap, WithinBound, [Next]_vars
    PROVE  SoundingIsHeld'
<1> USE DEF SoundingIsHeld, Running
<1>1. CASE Begin \/ Wrap
  <2>1. Held(index)' = {}
    BY <1>1, LapBegins, SeekFacts, NothingHeld
  <2> QED BY <1>1, <2>1, LapBegins
<1>2. CASE Clock
  <2>1. UNCHANGED <<m_snapshot, preRollEnd, index, sounding>> /\ pc = "tick" /\ pc' = "loopStart"
    BY <1>2, ClockFacts
  <2>2. Held(index)' = Held(index)
    BY <2>1 DEF Held
  <2> QED BY <2>1, <2>2
<1>3. CASE Send
  <2>1. /\ index \in 1 .. Len(m_snapshot) /\ m_snapshot \in Seq(Events) /\ preRollEnd \in Nat
        /\ UNCHANGED <<m_snapshot, preRollEnd>> /\ index' = index + 1
        /\ pc = "send" /\ pc' = "send"
    BY <1>3, SendFacts DEF TypeOK
  <2>2. m_snapshot[index].tick >= preRollEnd
    BY <2>1 DEF AheadIsOfLap
  <2>3. Held(index)' = Held(index + 1)
    BY <2>1 DEF Held
  <2>4. sounding = Held(index)
    BY <2>1
  <2>5. sounding' = CASE m_snapshot[index].kind = "on"  -> sounding \cup {m_snapshot[index].data}
                      [] m_snapshot[index].kind = "off" -> sounding \ {m_snapshot[index].data}
                      [] OTHER                          -> sounding
    BY <1>3 DEF Send
  <2>6. sounding' = Held(index + 1)
    BY <2>1, <2>2, <2>4, <2>5, HeldNext
  <2> QED BY <2>1, <2>3, <2>6
<1>4. CASE Exit
  BY <1>4, LapGoesOn
<1>5. CASE Rewind \/ EndIteration
  <2>1. /\ pc \notin {"none", "done"} /\ pc' \notin {"none", "done"}
        /\ UNCHANGED <<m_snapshot, preRollEnd, index, sounding>>
    BY <1>5 DEF Rewind, EndIteration, snapshot, output
  <2>2. Held(index)' = Held(index)
    BY <2>1 DEF Held
  <2> QED BY <2>1, <2>2
<1>6. CASE Still
  <2>1. UNCHANGED <<m_snapshot, preRollEnd, index, sounding>>
    BY <1>6 DEF Still, heard
  <2>2. Held(index)' = Held(index)
    BY <2>1 DEF Held
  <2> QED BY <1>6, <2>1, <2>2 DEF Still
<1> QED BY <1>1, <1>2, <1>3, <1>4, <1>5, <1>6, StepsHeard

\* The instrument before event i follows from the programs among the events before it.
LEMMA ProgramNext ==
    ASSUME NEW i \in 1 .. Len(m_snapshot), m_snapshot \in Seq(Events)
    PROVE  /\ m_snapshot[i].kind = "program" =>
                 LastPrograms(m_snapshot, i + 1) = {m_snapshot[i].data}
           /\ m_snapshot[i].kind # "program" =>
                 /\ LastPrograms(m_snapshot, i + 1) = LastPrograms(m_snapshot, i)
                 /\ ProgramsBefore(m_snapshot, i + 1) = ProgramsBefore(m_snapshot, i)
<1> DEFINE P(h) == ProgramsBefore(m_snapshot, h)
<1>1. i \in Nat \ {0} /\ 1 .. i = 1 .. i - 1 \cup {i} /\ i + 1 - 1 = i
  OBVIOUS
<1>2. CASE m_snapshot[i].kind = "program"
  <2>1. P(i + 1) = P(i) \cup {i} /\ P(i) \subseteq 1 .. i - 1
    BY <1>1, <1>2 DEF ProgramsBefore
  <2>2. {k \in P(i + 1) : \A l \in P(i + 1) : l =< k} = {i}
    <3> HIDE DEF P
    <3> QED BY <1>1, <2>1
  <2> QED BY <1>2, <2>2 DEF LastPrograms
<1>3. CASE m_snapshot[i].kind # "program"
  <2>1. P(i + 1) = P(i)
    BY <1>1, <1>3 DEF ProgramsBefore
  <2>2. LastPrograms(m_snapshot, i + 1) = LastPrograms(m_snapshot, i)
    BY <2>1, Zenon DEF LastPrograms
  <2> QED BY <1>3, <2>1, <2>2
<1> QED BY <1>2, <1>3

LEMMA InstrumentNext ==
    ASSUME TypeOK, SoundingIsHeld, WithinBound, InstrumentFits, [Next]_vars
    PROVE  InstrumentFits'
<1> USE DEF InstrumentFits, Running
<1>1. CASE Begin \/ Wrap
  <2>1. ProgramsBefore(m_snapshot', index') # {} => program' \in LastPrograms(m_snapshot', index')
    BY <1>1, LapBegins, SeekFacts
  <2> QED BY <2>1
<1>2. CASE Clock
  BY <1>2, ClockFacts
<1>3. CASE Send
  <2>1. /\ index \in 1 .. Len(m_snapshot) /\ m_snapshot \in Seq(Events)
        /\ m_snapshot' = m_snapshot /\ index' = index + 1
        /\ pc = "send" /\ pc' = "send"
    BY <1>3, SendFacts
  <2>2. program' = IF m_snapshot[index].kind = "program" THEN m_snapshot[index].data ELSE program
    BY <1>3 DEF Send
  <2> QED BY <2>1, <2>2, ProgramNext
<1>4. CASE Rewind \/ EndIteration \/ Exit
  <2>1. pc \notin {"none", "done"}
    BY <1>4 DEF Rewind, EndIteration, Exit
  <2> QED BY <1>4, <2>1, LapGoesOn
<1>5. CASE Still
  BY <1>5 DEF Still, heard
<1> QED BY <1>1, <1>2, <1>3, <1>4, <1>5, StepsHeard

-----------------------------------------------------------------------------
(* What has been sent. *)

LEMMA CaughtUpNext ==
    ASSUME TypeOK, SoundingIsHeld, WithinBound, RewoundToStart, CaughtUp, [Next]_vars
    PROVE  CaughtUp'
<1>0. /\ m_snapshot \in Seq(Events) /\ pos \in Int /\ preRollEnd \in Nat
      /\ index \in 1 .. Len(m_snapshot) + 1
      /\ \A i \in 1 .. Len(m_snapshot) : m_snapshot[i].tick \in Nat
  <2>1. m_snapshot \in Seq(Events)
    BY SnapshotSorted DEF TypeOK
  <2>2. \A i \in 1 .. Len(m_snapshot) : m_snapshot[i] \in Events
    BY <2>1
  <2> QED BY <2>1, <2>2, EventFacts DEF TypeOK
<1> USE DEF CaughtUp
<1>1. CASE Begin \/ Wrap
  <2>1. /\ m_snapshot' \in Songs \cup {<< >>} /\ preRollEnd' \in Nat
        /\ pos' \in Int /\ pos' =< preRollEnd'
    BY <1>1, LapBegins
  <2>2. \A j \in 1 .. Len(m_snapshot') : j < index' => m_snapshot'[j].tick < preRollEnd'
    BY <1>1, LapBegins, SeekFacts
  <2>3. ASSUME NEW j \in 1 .. Len(m_snapshot')
        PROVE  m_snapshot'[j].tick \in Nat
    <3>1. m_snapshot' \in Seq(Events)
      BY <2>1, SnapshotSorted
    <3>2. m_snapshot'[j] \in Events
      BY <3>1
    <3> QED BY <3>2, EventFacts
  <2> QED BY <2>1, <2>2, <2>3
<1>2. CASE Clock
  <2>1. /\ UNCHANGED <<m_snapshot, preRollEnd, index>> /\ pos' \in Int
        /\ pos' >= pos /\ pc' = "loopStart"
    BY <1>2, ClockFacts, TypeNext DEF TypeOK
  <2> QED BY <1>0, <2>1
<1>3. CASE Send
  <2>1. /\ index' = index + 1 /\ m_snapshot[index].tick =< pos
        /\ UNCHANGED <<m_snapshot, pos, preRollEnd>> /\ pc' = "send"
    BY <1>3, SendFacts
  <2> QED BY <1>0, <2>1
<1>4. CASE Rewind
  <2>1. /\ UNCHANGED <<m_snapshot, pos, preRollEnd, index>> /\ pos =< preRollEnd
    BY <1>4, LapGoesOn DEF Rewind, RewoundToStart
  <2> QED BY <1>0, <2>1
<1>5. CASE EndIteration
  <2>1. /\ UNCHANGED <<m_snapshot, pos, preRollEnd, index>> /\ ~Reached
    BY <1>5, LapGoesOn DEF EndIteration
  <2>2. \A i, j \in 1 .. Len(m_snapshot) : i < j => m_snapshot[i].tick =< m_snapshot[j].tick
    BY SnapshotSorted DEF TypeOK
  <2>3. ASSUME NEW i \in 1 .. Len(m_snapshot), i >= index
        PROVE  m_snapshot[i].tick > pos
    <3>1. index \in 1 .. Len(m_snapshot) /\ m_snapshot[index].tick > pos
      BY <1>0, <2>1, <2>3 DEF Reached
    <3>2. m_snapshot[index].tick =< m_snapshot[i].tick
      BY <1>0, <2>2, <2>3, <3>1
    <3> QED BY <1>0, <3>1, <3>2
  <2> QED BY <1>0, <2>1, <2>3
<1>6. CASE Exit
  BY <1>0, <1>6, LapGoesOn
<1>7. CASE Still
  BY <1>0, <1>7 DEF Still, heard
<1> QED BY <1>1, <1>2, <1>3, <1>4, <1>5, <1>6, <1>7, StepsHeard

LEMMA ClickNext ==
    ASSUME TypeOK, SoundingIsHeld, WithinBound, ClickOffIsNear, [Next]_vars
    PROVE  ClickOffIsNear'
<1> USE DEF ClickOffIsNear, Running
<1>0. /\ click \in [beat : Int, note : ClickNotes, pending : BOOLEAN, offTick : Int]
      /\ pos \in Int /\ preRollEnd \in Nat /\ metro \in Metros
  BY DEF TypeOK
<1>1. CASE Begin \/ Wrap
  BY <1>1, LapBegins
<1>2. CASE Clock
  <2>1. PICK step \in Steps : Tick(step)
    BY <1>2 DEF Clock
  <2> DEFINE t == pos'
             countIn == t < preRollEnd
             new == Strike(t, countIn)
  <2>2. t \in Int /\ t >= pos /\ pc = "tick" /\ countIn \in BOOLEAN
    BY <1>2, ClockFacts, TypeNext DEF TypeOK
  <2>3. click' = [new EXCEPT !.pending = @ /\ ~OffDue(new, t)]
    BY <2>1 DEF Tick
  <2>4. new \in [beat : Int, note : ClickNotes, pending : BOOLEAN, offTick : Int]
    BY <1>0, <2>2, StrikeTypes
  <2>5. ClickTicks \in Nat /\ ClickTicks \div 8 \in Nat /\ ClickTicks \div 8 =< Ppqn \div 8
    BY <1>0, ClickTicksFacts, TimesAssumption
  <2>6. new.pending => \/ new.offTick = t + ClickTicks \div 8
                       \/ click.pending /\ new.offTick = click.offTick
    <3>1. CASE new = click
      BY <3>1
    <3>2. CASE new # click
      BY <1>0, <3>2 DEF Strike
    <3> QED BY <3>1, <3>2
  <2> HIDE DEF t, countIn, new
  <2>7. (click'.pending => new.pending) /\ click'.offTick = new.offTick
    BY <2>3, <2>4
  <2>8. new.offTick \in Int /\ click.offTick \in Int /\ Ppqn \div 8 \in Int
    BY <1>0, <2>4, TimesAssumption
  <2>9. new.pending => new.offTick - t =< Ppqn \div 8
    BY <1>0, <2>2, <2>5, <2>6, <2>8
  <2> QED BY <2>7, <2>9 DEF t
<1>3. CASE Send
  BY <1>3, SendFacts
<1>4. CASE Rewind \/ EndIteration \/ Exit
  <2>1. pc \notin {"none", "done"}
    BY <1>4 DEF Rewind, EndIteration, Exit
  <2> QED BY <1>4, <2>1, LapGoesOn
<1>5. CASE Still
  BY <1>5 DEF Still, heard
<1> QED BY <1>1, <1>2, <1>3, <1>4, <1>5, StepsHeard

-----------------------------------------------------------------------------
LEMMA PlayerInit == Init => PlayerInv
<1> SUFFICES ASSUME Init
             PROVE  PlayerInv
  OBVIOUS
<1>1. TypeOK
  BY TypeInit
<1>2. WithinBound /\ MaxTick \in Nat
  BY TimesAssumption DEF Init, WithinBound
<1>3. AheadIsOfLap /\ RewoundToStart /\ CountInShown /\ InstrumentFits /\ ClickOffIsNear
  BY DEF Init, AheadIsOfLap, RewoundToStart, CountInShown, InstrumentFits, ClickOffIsNear,
         Running
<1>4. SoundingIsHeld
  BY <1>1 DEF Init, SoundingIsHeld, Running
<1>5. CaughtUp
  <2>1. Len(m_snapshot) = 0
    BY DEF Init
  <2> QED BY <2>1 DEF CaughtUp
<1> QED BY <1>2, <1>3, <1>4, <1>5 DEF PlayerInv

LEMMA PlayerNext == PlayerInv /\ [Next]_vars => PlayerInv'
<1> SUFFICES ASSUME PlayerInv, [Next]_vars
             PROVE  PlayerInv'
  OBVIOUS
<1>1. TypeOK /\ TypeOK'
  BY TypeNext DEF PlayerInv, SoundingIsHeld
<1> QED BY <1>1, BoundNext, AheadNext, RewoundNext, CountInNext, SoundingNext, InstrumentNext,
           CaughtUpNext, ClickNext DEF PlayerInv

LEMMA PlayerInvHolds == Spec => []PlayerInv
<1> QED BY PlayerInit, PlayerNext, PTL DEF Spec

\* What sounds, and on which instrument, is what the song says for the position and the
\* lap: no note hangs over the loop's end, sounds in a count-in or outlives the thread,
\* whichever events the iterations fall between (run and seekTo).
THEOREM SoundAlwaysFits == Spec => []SoundFitsPosition
<1>1. PlayerInv => SoundFitsPosition
  BY DEF PlayerInv, SoundFitsPosition
<1> QED BY <1>1, PlayerInvHolds, PTL

\* Each event of the lap is sent when the position has reached it and not before, also
\* when an iteration took longer than the time between events.
THEOREM AlwaysCaughtUp == Spec => []CaughtUp
<1>1. PlayerInv => CaughtUp
  BY DEF PlayerInv
<1> QED BY <1>1, PlayerInvHolds, PTL

\* A click's Note Off is never further off than an eighth of a beat, whatever the UI does
\* to the signature, and across the wraps of a loop.
THEOREM ClickOffStaysNear == Spec => []ClickOffIsNear
<1>1. PlayerInv => ClickOffIsNear
  BY DEF PlayerInv
<1> QED BY <1>1, PlayerInvHolds, PTL

\* Whoever sees the head jump back to a lap with a count-in sees the count-in too: it is
\* shown before the head is (the order of the two stores at the end of a loop).
THEOREM RewindIsShown == Spec => RewindShowsCountIn
<1>1. PlayerInv /\ [Next]_vars =>
        [m_currentTick' < m_currentTick /\ Running /\ pos' < preRollEnd' => m_countingIn']_vars
  <2> SUFFICES ASSUME PlayerInv, [Next]_vars,
                      m_currentTick' < m_currentTick, Running, pos' < preRollEnd'
               PROVE  m_countingIn'
    OBVIOUS
  <2>1. TypeOK /\ CountInShown
    BY DEF PlayerInv, SoundingIsHeld
  <2>2. m_currentTick' # m_currentTick
    BY <2>1 DEF TypeOK
  <2>3. CASE Rewind \/ Pass
    <3>1. /\ pc \in {"rewind", "loop"} /\ UNCHANGED <<m_countingIn, pos, preRollEnd>>
      BY <2>3 DEF Rewind, Pass
    <3>2. m_countingIn = (pos < preRollEnd)
      BY <2>1, <3>1 DEF CountInShown
    <3>3. pos < preRollEnd
      BY <3>1
    <3> QED BY <3>1, <3>2, <3>3, Zenon
  <2>4. CASE Begin
    BY <2>4 DEF Begin, Play, Running
  <2>5. ASSUME \/ RequestStop \/ Join \/ SetLoopEnd \/ SetLoopEnabled
               \/ \E enabled \in BOOLEAN, l \in Loops : SetLoop(enabled, l[1], l[2])
               \/ \E ticks \in PreRolls : SetLoopCountIn(ticks)
               \/ \E field \in DOMAIN metro, settings \in Metros : SetMetro(field, settings)
        PROVE  m_currentTick' = m_currentTick
    BY <2>5 DEF RequestStop, Join, SetLoopEnd, SetLoopEnabled, SetLoop, SetLoopCountIn, SetMetro, head
  <2>6. ASSUME \/ Clock \/ LoadLoopStart \/ LoadLoopEnd \/ Wrap \/ Send \/ EndIteration
               \/ Exit \/ UNCHANGED vars
        PROVE  m_currentTick' = m_currentTick
    BY <2>6 DEF Clock, Tick, LoadLoopStart, LoadLoopEnd, Wrap, Send, EndIteration, Exit, vars, head
  <2> QED BY <2>2, <2>3, <2>4, <2>5, <2>6 DEF Next, Begin, Clock
<1> QED BY <1>1, PlayerInvHolds, PTL DEF Spec, RewindShowsCountIn

-----------------------------------------------------------------------------
(* The clicks of a count-in.  Their number is that of the beats the position  *)
(* has reached since the lap began, as long as no iteration skips one: the    *)
(* last beat struck is the position's own, and the next is one more.          *)

CountInTicks == preRollEnd - lap.from

\* The clicks so far: the last of all the beats alone is accented.
AccentsRight ==
    \A n \in 1 .. Len(lap.counted) : lap.counted[n] <=> n = CountInTicks \div ClickTicks

\* The last beat struck is the position's, or none yet at the lap's first tick.
BeatsStruck ==
    LET k == Len(lap.counted)
        beats == CountInTicks \div ClickTicks
    IN  /\ pos < preRollEnd => \/ k = 0 /\ pos = lap.from /\ click.beat = NoBeat
                               \/ k > 0 /\ click.beat = k - 1 - beats /\ Beat(pos, TRUE) = click.beat
        /\ pos >= preRollEnd => k = beats

CountsInv ==
    /\ m_loopPreRoll =< MaxTick
    /\ Running => lap.from =< pos /\ CountInTicks \in 0 .. MaxTick
    /\ Running /\ lap.steady => metro.on /\ metro.loud[TRUE]
    /\ Running /\ lap.steady /\ CountInTicks % ClickTicks = 0 => AccentsRight /\ BeatsStruck

\* Whole division by the ticks of a click.
LEMMA BeatFacts ==
    ASSUME NEW c \in Nat \ {0}, NEW x \in Int, NEW y \in Int, x =< y, y - x < c
    PROVE  /\ x \div c \in Int /\ y \div c \in {x \div c, x \div c + 1}
           /\ x < 0 <=> x \div c < 0
<1> DEFINE q == x \div c
           r == y \div c
<1>1. q \in Int /\ c * q =< x /\ x < c * q + c
  OBVIOUS
<1>2. r \in Int /\ c * r =< y /\ y < c * r + c
  OBVIOUS
<1> HIDE DEF q, r
<1>3. r >= q
  <2>1. SUFFICES ASSUME r + 1 =< q  PROVE FALSE
    BY <1>1, <1>2
  <2>2. c * (r + 1) =< c * q
    BY <1>1, <1>2, <2>1
  <2> QED BY <1>1, <1>2, <2>2
<1>4. r =< q + 1
  <2>1. SUFFICES ASSUME q + 2 =< r  PROVE FALSE
    BY <1>1, <1>2
  <2>2. c * (q + 2) =< c * r
    BY <1>1, <1>2, <2>1
  <2> QED BY <1>1, <1>2, <2>2
<1>5. x < 0 <=> q < 0
  <2>1. q < 0 => c * q + c =< 0
    BY <1>1
  <2>2. q >= 0 => c * q >= 0
    BY <1>1
  <2> QED BY <1>1, <2>1, <2>2
<1> QED BY <1>1, <1>2, <1>3, <1>4, <1>5 DEF q, r

\* A count-in of whole beats: its first click is as many beats before the start.
LEMMA FirstBeat ==
    ASSUME NEW c \in Nat \ {0}, NEW d \in Nat, d % c = 0, NEW y \in Int, 0 - d =< y, y < c - d
    PROVE  y \div c = 0 - (d \div c) /\ d \div c \in Nat /\ d \div c =< d /\ (d > 0 <=> d \div c > 0)
<1> DEFINE n == d \div c
           m == y \div c
<1>1. n \in Nat /\ d = c * n + (d % c)
  OBVIOUS
<1>2. m \in Int /\ c * m =< y /\ y < c * m + c
  OBVIOUS
<1>3. d = c * n
  BY <1>1
<1> HIDE DEF n, m
<1>4. m = 0 - n
  <2>1. c * (m + n) < c /\ 0 < c * (m + n + 1)
    BY <1>1, <1>2, <1>3
  <2>2. ~(m + n >= 1) /\ ~(m + n =< -1)
    BY <1>1, <1>2, <2>1
  <2> QED BY <1>1, <1>2, <2>2
<1>5. n =< d /\ (d > 0 <=> n > 0)
  BY <1>1, <1>3
<1> QED BY <1>1, <1>4, <1>5 DEF n, m

\* The steps that neither begin a lap nor move the clock leave the count-in as it is; the
\* settings they may change end the lap's claim on it.
Quiet ==
    /\ UNCHANGED <<pos, preRollEnd, click>>
    /\ Running' => Running
    /\ UNCHANGED <<metro, lap>> \/ (lap'.steady = FALSE /\ lap'.from = lap.from)
    /\ m_loopPreRoll' \in PreRolls \cup {m_loopPreRoll}

LEMMA StepsCounted ==
    ASSUME TypeOK, [Next]_vars
    PROVE  Begin \/ Clock \/ Wrap \/ Quiet
<1> USE DEF Quiet, Running
<1>1. CASE RequestStop
  BY <1>1 DEF RequestStop, loop
<1>2. CASE Join
  BY <1>2 DEF Join, loop
<1>3. ASSUME NEW enabled \in BOOLEAN, NEW l \in Loops, SetLoop(enabled, l[1], l[2])
      PROVE  Quiet
  BY <1>3 DEF SetLoop
<1>4. CASE SetLoopEnd
  BY <1>4 DEF SetLoopEnd
<1>5. CASE SetLoopEnabled
  BY <1>5 DEF SetLoopEnabled
<1>6. ASSUME NEW ticks \in PreRolls, SetLoopCountIn(ticks)
      PROVE  Quiet
  BY <1>6 DEF SetLoopCountIn
<1>7. ASSUME NEW field \in DOMAIN metro, NEW settings \in Metros, SetMetro(field, settings)
      PROVE  Quiet
  <2>1. lap \in [from : Int, counted : Seq(BOOLEAN), steady : BOOLEAN]
    BY DEF TypeOK
  <2>2. lap' = [lap EXCEPT !.steady = FALSE]
    BY <1>7 DEF SetMetro
  <2>3. lap'.steady = FALSE /\ lap'.from = lap.from
    BY <2>1, <2>2
  <2> QED BY <1>7, <2>3 DEF SetMetro, loop
<1>8. CASE LoadLoopStart
  BY <1>8 DEF LoadLoopStart, loop
<1>9. CASE LoadLoopEnd
  BY <1>9 DEF LoadLoopEnd, loop
<1>10. CASE Rewind
  BY <1>10 DEF Rewind, loop
<1>11. CASE Pass
  BY <1>11 DEF Pass, loop
<1>12. CASE Send
  BY <1>12 DEF Send, loop
<1>13. CASE EndIteration
  BY <1>13 DEF EndIteration, loop
<1>14. CASE Exit
  BY <1>14 DEF Exit, loop
<1>15. CASE UNCHANGED vars
  BY <1>15 DEF vars, loop
<1> QED BY <1>1, <1>2, <1>3, <1>4, <1>5, <1>6, <1>7, <1>8, <1>9, <1>10, <1>11, <1>12, <1>13,
           <1>14, <1>15 DEF Next, Begin, Clock

\* A lap begins before its first beat, if it has a count-in.
LEMMA LapUncounted ==
    ASSUME NoBeatSkipped, TypeOK, TypeOK', WithinBound', m_loopPreRoll =< MaxTick, Begin \/ Wrap
    PROVE  /\ m_loopPreRoll' = m_loopPreRoll
           /\ lap' = Lap(pos', metro.on /\ metro.loud[TRUE]) /\ metro' = metro
           /\ preRollEnd' - pos' \in 0 .. MaxTick
           /\ pos' < preRollEnd' => click'.beat = NoBeat
<1>1. CASE Begin
  <2>1. PICK song \in Songs, start \in Starts, preRoll \in PreRolls, keepAlive \in KeepAlives :
            Play(song, start, preRoll, keepAlive)
    BY <1>1 DEF Begin
  <2>2. start \in Nat /\ preRoll \in 0 .. MaxTick
    BY TimesAssumption DEF NoBeatSkipped
  <2>3. /\ preRollEnd' = start /\ pos' = start - preRoll /\ click' = Silent
        /\ lap' = Lap(start - preRoll, metro.on /\ metro.loud[TRUE])
        /\ metro' = metro /\ m_loopPreRoll' = m_loopPreRoll
    BY <2>1 DEF Play, loop
  <2> QED BY <2>2, <2>3 DEF Silent
<1>2. CASE Wrap
  <2>1. /\ preRollEnd' = loopStart /\ pos' = loopStart - m_loopPreRoll
        /\ click' = [click EXCEPT !.beat = LapBeat, !.pending = FALSE]
        /\ lap' = Lap(pos', metro.on /\ metro.loud[TRUE])
        /\ metro' = metro /\ m_loopPreRoll' = m_loopPreRoll
    BY <1>2 DEF Wrap, ClickAtWrap, loop
  <2>2. /\ loopStart \in Nat /\ m_loopPreRoll \in 0 .. MaxTick
        /\ click \in [beat : Int, note : ClickNotes, pending : BOOLEAN, offTick : Int]
    BY TimesAssumption DEF TypeOK
  <2>3. click'.beat = LapBeat
    BY <2>1, <2>2
  <2> QED BY <2>1, <2>2, <2>3 DEF LapBeat
<1> QED BY <1>1, <1>2

\* An iteration of the clock reaches the next beat or stays in the one before, so every beat
\* of the count-in is struck, and once.
LEMMA ClockCounts ==
    ASSUME NoBeatSkipped, TypeOK, TypeOK', WithinBound, CountsInv, Clock
    PROVE  CountsInv'
<1>1. PICK step \in Steps : Tick(step)
  BY DEF Clock
<1> DEFINE t == pos'
           y == t - preRollEnd
           countIn == t < preRollEnd
           new == Strike(t, countIn)
           c == ClickTicks
           d == CountInTicks
           beats == d \div c
           k == Len(lap.counted)
           hit == Struck(new) /\ countIn
<1>2. /\ pos \in Int /\ t \in Int /\ preRollEnd \in Nat /\ metro \in Metros
      /\ click \in [beat : Int, note : ClickNotes, pending : BOOLEAN, offTick : Int]
      /\ lap \in [from : Int, counted : Seq(BOOLEAN), steady : BOOLEAN] /\ MaxTick \in Nat
  BY TimesAssumption DEF TypeOK
<1>10. pos \in Int /\ t \in Int /\ preRollEnd \in Nat /\ MaxTick \in Nat
  BY <1>2
<1>3. c \in Nat \ {0} /\ pos =< t /\ t - pos < c
  <2>1. c \in Nat \ {0} /\ Ppqn \div 2 =< c
    BY <1>2, ClickTicksFacts, TimesAssumption, MetronomeAssumption DEF ClickTicks
  <2>2. step \in Nat /\ step < Ppqn \div 2 /\ Ppqn \div 2 \in Nat
    BY TimesAssumption DEF NoBeatSkipped
  <2>3. t = IF pos + step < MaxTick THEN pos + step ELSE MaxTick
    BY <1>1 DEF Tick
  <2> QED BY <1>2, <2>1, <2>2, <2>3 DEF WithinBound
<1>4. /\ pc = "tick" /\ UNCHANGED <<metro, preRollEnd, m_loopPreRoll>>
      /\ click' = [new EXCEPT !.pending = @ /\ ~OffDue(new, t)]
      /\ lap' = IF hit THEN [lap EXCEPT !.counted = Append(@, new.note.accent)] ELSE lap
  BY <1>1 DEF Tick, loop
<1>5. new \in [beat : Int, note : ClickNotes, pending : BOOLEAN, offTick : Int] /\ countIn \in BOOLEAN
  <2>1. countIn \in BOOLEAN
    OBVIOUS
  <2> HIDE DEF countIn
  <2> QED BY <1>2, <2>1, StrikeTypes
<1> HIDE DEF new, t
<1>6. /\ click'.beat = new.beat /\ lap'.from = lap.from /\ lap'.steady = lap.steady
      /\ lap'.counted = IF hit THEN Append(lap.counted, new.note.accent) ELSE lap.counted
  <2> HIDE DEF hit
  <2> QED BY <1>2, <1>4, <1>5
<1>7. CountInTicks' = d /\ ClickTicks' = c /\ Running
  BY <1>4, <1>6 DEF CountInTicks, ClickTicks, Running
<1>8. /\ m_loopPreRoll' =< MaxTick /\ lap'.from =< t /\ CountInTicks' \in 0 .. MaxTick
      /\ lap'.steady => metro'.on /\ metro'.loud[TRUE]
  <2>1. /\ m_loopPreRoll =< MaxTick /\ lap.from =< pos /\ CountInTicks \in 0 .. MaxTick
        /\ lap.steady => metro.on /\ metro.loud[TRUE]
    BY <1>7 DEF CountsInv
  <2>2. lap.from \in Int
    BY <1>2
  <2> DEFINE f == lap.from
  <2>5. f \in Int /\ f =< pos
    BY <2>1, <2>2
  <2> HIDE DEF f, c
  <2>3. f =< t
    BY ONLY <1>3, <1>10, <2>5
  <2>4. lap'.from = lap.from /\ lap'.steady = lap.steady
    BY <1>6
  <2>6. lap'.from =< t
    BY <2>3, <2>4 DEF f
  <2>7. m_loopPreRoll' = m_loopPreRoll /\ metro' = metro
    BY <1>4
  <2> QED BY <1>7, <2>1, <2>4, <2>6, <2>7
<1>9. ASSUME lap'.steady, CountInTicks' % ClickTicks' = 0
      PROVE  AccentsRight' /\ BeatsStruck'
  <2>1. /\ metro.on /\ metro.loud[TRUE] /\ AccentsRight /\ BeatsStruck
        /\ lap.from =< pos /\ d \in Nat /\ d =< MaxTick /\ d % c = 0
    <3>1. lap.steady /\ CountInTicks % ClickTicks = 0 /\ Running
      BY <1>6, <1>7, <1>9
    <3>2. /\ metro.on /\ metro.loud[TRUE] /\ AccentsRight /\ BeatsStruck
          /\ lap.from =< pos /\ CountInTicks \in 0 .. MaxTick
      BY <3>1, Zenon DEF CountsInv
    <3>3. CountInTicks \in Nat /\ CountInTicks =< MaxTick
      BY <1>10, <3>2
    <3> QED BY <3>1, <3>2, <3>3
  <2>2. k \in Nat /\ beats \in Int /\ y \in Int /\ pos - preRollEnd \in Int
    BY <1>2, <1>3, <2>1
  <2> DEFINE x == pos - preRollEnd
  <2>3. /\ x \div c \in Int /\ y \div c \in {x \div c, x \div c + 1}
        /\ x < 0 <=> x \div c < 0
    <3>1. x =< y /\ y - x < c
      BY ONLY <1>3, <1>10
    <3> HIDE DEF x, y, c
    <3> QED BY <1>3, <2>2, <3>1, BeatFacts DEF x
  <2>4. y < 0 <=> y \div c < 0
    <3>1. y =< y /\ y - y < c
      BY ONLY <1>3, <1>10
    <3> HIDE DEF y, c
    <3> QED BY <1>3, <2>2, <3>1, BeatFacts
  <2>5. pos = lap.from => y \div c = 0 - beats
    <3> SUFFICES ASSUME pos = lap.from  PROVE y \div c = 0 - beats
      OBVIOUS
    <3>1. 0 - d =< y /\ y < c - d
      BY <1>2, <1>3 DEF CountInTicks
    <3> HIDE DEF y, c, d
    <3> QED BY <1>3, <2>1, <2>2, <3>1, FirstBeat
  <2>6. beats \in Nat /\ beats =< d /\ (d > 0 <=> beats > 0)
    <3>1. 0 - d \in Int /\ 0 - d =< 0 - d /\ 0 - d < c - d
      BY <1>3, <2>1
    <3> HIDE DEF c, d
    <3> QED BY <1>3, <2>1, <3>1, FirstBeat
  <2>7. /\ pos < preRollEnd => \/ k = 0 /\ pos = lap.from /\ click.beat = NoBeat
                               \/ k > 0 /\ click.beat = k - 1 - beats /\ x \div c = click.beat
        /\ pos >= preRollEnd => k = beats
    BY <2>1 DEF BeatsStruck, Beat
  <2>8. y \div c = (t - preRollEnd') \div ClickTicks'
    BY <1>4, <1>7
  <2>9. CASE ~countIn
    <3>1. lap'.counted = lap.counted
      BY <1>6, <2>9
    <3>2. k = beats
      <4>1. CASE pos >= preRollEnd
        BY <2>7, <4>1
      <4>2. CASE pos < preRollEnd
        <5>1. y >= 0 /\ x < 0
          BY ONLY <1>10, <2>9, <4>2
        <5> HIDE DEF x, y, c, d, beats, k
        <5>2. y \div c >= 0 /\ x \div c < 0
          BY <2>2, <2>3, <2>4, <5>1
        <5>3. ~(pos = lap.from /\ k = 0)
          <6>1. d > 0
            BY <1>2, <4>2, <2>1 DEF d, CountInTicks
          <6>2. beats > 0
            BY <2>6, <6>1
          <6> QED BY <2>5, <2>6, <5>2, <6>2
        <5> QED BY <2>2, <2>3, <2>6, <2>7, <4>2, <5>2, <5>3
      <4> QED BY <1>2, <4>1, <4>2
    <3>3. AccentsRight'
      BY <1>7, <2>1, <3>1 DEF AccentsRight
    <3>4. BeatsStruck'
      BY <1>2, <1>4, <1>7, <2>9, <3>1, <3>2 DEF BeatsStruck, t
    <3> QED BY <3>3, <3>4
  <2>10. CASE countIn
    <3> DEFINE b == y \div c
    <3>1. /\ new = IF b # click.beat
                   THEN [beat |-> b, note |-> [countIn |-> TRUE, accent |-> b = -1],
                         pending |-> click.pending \/ metro.loud[TRUE],
                         offTick |-> IF metro.loud[TRUE] THEN t + c \div 8 ELSE click.offTick]
                   ELSE click
      BY <2>1, <2>10 DEF new, Strike, MetroOn, Beat, Accent
    <3>2. y < 0 /\ x < 0 /\ pos < preRollEnd
      BY ONLY <1>3, <1>10, <2>10
    <3> HIDE DEF b, x, y, c, d, beats, k
    <3>3. b \in Int /\ b < 0
      BY <2>2, <2>3, <2>4, <3>2 DEF b
    <3>4. b = k - beats \/ (k > 0 /\ b = k - 1 - beats /\ click.beat = b)
      BY <2>2, <2>3, <2>5, <2>6, <2>7, <3>2 DEF b
    <3>5. CASE b = click.beat
      <4>1. k > 0 /\ b = k - 1 - beats
        BY <2>1, <2>2, <2>6, <2>7, <3>2, <3>4, <3>5, <1>2 DEF NoBeat
      <4>2. new = click
        BY <3>1, <3>5
      <4>3. ~Struck(new)
        BY <4>2 DEF Struck
      <4>4. lap'.counted = lap.counted
        BY <1>6, <4>3
      <4>5. AccentsRight'
        BY <1>7, <2>1, <4>4 DEF AccentsRight, d, c
      <4>6. Len(lap'.counted) = k /\ CountInTicks' \div ClickTicks' = beats /\ click'.beat = b
        BY <1>6, <1>7, <3>5, <4>2, <4>4 DEF k, beats, d, c
      <4>7. Beat(pos, TRUE)' = b /\ t < preRollEnd'
        BY <1>4, <2>8, <2>10 DEF Beat, b, t
      <4>8. BeatsStruck'
        <5>1. ~(t >= preRollEnd')
          BY <1>4, <1>10, <4>7
        <5>2. /\ Len(lap'.counted) > 0 /\ Beat(pos, TRUE)' = click'.beat
              /\ click'.beat = Len(lap'.counted) - 1 - (CountInTicks' \div ClickTicks')
          BY <4>1, <4>6, <4>7
        <5> QED BY <5>1, <5>2, Zenon DEF BeatsStruck, t
      <4> QED BY <4>5, <4>8
    <3>6. CASE b # click.beat
      <4>1. b = k - beats
        BY <3>4, <3>6
      <4>2. new.beat = b /\ new.note.countIn = TRUE /\ (new.note.accent <=> b = -1)
        BY <3>1, <3>6
      <4>3. Struck(new)
        BY <2>1, <3>6, <4>2 DEF Struck
      <4>4. new.note.accent \in BOOLEAN
        BY <1>5 DEF ClickNotes
      <4> DEFINE a == new.note.accent
      <4>5. lap'.counted = Append(lap.counted, a)
        BY <1>6, <2>10, <4>3
      <4> HIDE DEF a
      <4>6. /\ Len(lap'.counted) = k + 1 /\ lap'.counted[k + 1] = a
            /\ \A n \in 1 .. k : lap'.counted[n] = lap.counted[n]
        BY <1>2, <2>2, <4>5 DEF k
      <4>7. CountInTicks' \div ClickTicks' = beats /\ click'.beat = b
        BY <1>6, <1>7, <4>2 DEF beats, d, c
      <4>8. AccentsRight'
        <5> SUFFICES ASSUME NEW n \in 1 .. k + 1
                     PROVE  lap'.counted[n] <=> n = beats
          BY <4>6, <4>7 DEF AccentsRight
        <5>1. CASE n = k + 1
          BY <2>2, <2>6, <4>1, <4>2, <4>6, <5>1 DEF a
        <5>2. CASE n \in 1 .. k
          BY <2>1, <4>6, <5>2 DEF AccentsRight, k, beats, d, c
        <5> QED BY <2>2, <5>1, <5>2
      <4>9. Beat(pos, TRUE)' = b /\ t < preRollEnd'
        BY <1>4, <2>8, <2>10 DEF Beat, b, t
      <4>10. BeatsStruck'
        <5>1. ~(t >= preRollEnd')
          BY <1>4, <1>10, <4>9
        <5>2. /\ Len(lap'.counted) > 0 /\ Beat(pos, TRUE)' = click'.beat
              /\ click'.beat = Len(lap'.counted) - 1 - (CountInTicks' \div ClickTicks')
          <6>1. k + 1 > 0 /\ k + 1 - 1 - beats = k - beats
            BY <2>2, <2>6
          <6>2. Len(lap'.counted) = k + 1 /\ click'.beat = k - beats
            BY <4>1, <4>6, <4>7
          <6>3. Beat(pos, TRUE)' = click'.beat
            BY <4>7, <4>9
          <6> DEFINE m == Len(lap'.counted)
                     v == CountInTicks' \div ClickTicks'
          <6>4. m = k + 1 /\ v = beats /\ click'.beat = k - beats
            BY <4>7, <6>2
          <6> HIDE DEF m, v
          <6>5. m > 0 /\ click'.beat = m - 1 - v
            BY <2>2, <2>6, <6>4
          <6> QED BY <6>3, <6>5 DEF m, v
        <5> QED BY <5>1, <5>2, Zenon DEF BeatsStruck, t
      <4> QED BY <4>8, <4>10
    <3> QED BY <3>5, <3>6
  <2> QED BY <2>9, <2>10
<1> QED BY <1>8, <1>9 DEF CountsInv, t

\* A lap that begins has heard no click yet.
LEMMA LapCounts ==
    ASSUME NoBeatSkipped, TypeOK, TypeOK', WithinBound', CountsInv, Begin \/ Wrap
    PROVE  CountsInv'
<1>1. /\ m_loopPreRoll' = m_loopPreRoll
      /\ lap' = Lap(pos', metro.on /\ metro.loud[TRUE]) /\ metro' = metro
      /\ preRollEnd' - pos' \in 0 .. MaxTick
      /\ pos' < preRollEnd' => click'.beat = NoBeat
  <2>1. m_loopPreRoll =< MaxTick
    BY DEF CountsInv
  <2> QED BY <2>1, LapUncounted
<1> DEFINE none == << >>
           u == pos'
           p == preRollEnd'
<1>2. lap'.from = u /\ lap'.counted = none /\ (lap'.steady => metro.on /\ metro.loud[TRUE])
  BY <1>1 DEF Lap
<1>3. Len(none) = 0
  OBVIOUS
<1>4. u \in Int /\ p \in Nat /\ metro' \in Metros
  BY DEF TypeOK
<1> HIDE DEF none, u, p
<1>5. CountInTicks' = p - u /\ p - u \in 0 .. MaxTick
  BY <1>1, <1>2 DEF CountInTicks, u, p
<1>6. ClickTicks' \in Nat \ {0}
  <2>1. metro \in Metros /\ ClickTicks' = ClickTicks
    BY <1>1 DEF TypeOK, ClickTicks
  <2> QED BY <2>1, ClickTicksFacts
<1>7. Len(lap'.counted) = 0
  BY <1>2, <1>3
<1>8. AccentsRight'
  BY <1>7 DEF AccentsRight
<1>9. u =< u
  BY <1>4
<1>10. BeatsStruck'
  <2>1. u >= p => CountInTicks' \div ClickTicks' = 0
    <3> SUFFICES ASSUME u >= p  PROVE CountInTicks' \div ClickTicks' = 0
      OBVIOUS
    <3>1. CountInTicks' = 0
      <4>1. p - u \in Nat /\ p - u =< 0
        BY <1>4, <1>5
      <4> QED BY <1>5, <4>1
    <3>2. \A c \in Nat \ {0} : 0 \div c = 0
      OBVIOUS
    <3> QED BY <1>6, <3>1, <3>2
  <2>2. u < p => click'.beat = NoBeat
    BY <1>1 DEF u, p
  <2> QED BY <1>2, <1>7, <2>1, <2>2 DEF BeatsStruck, NoBeat, u, p
<1> QED BY <1>1, <1>2, <1>5, <1>8, <1>9, <1>10 DEF CountsInv, u

LEMMA CountsNext ==
    ASSUME NoBeatSkipped, TypeOK, TypeOK', WithinBound, WithinBound', CountsInv, [Next]_vars
    PROVE  CountsInv'
<1>1. CASE Begin \/ Wrap
  BY <1>1, LapCounts
<1>2. CASE Clock
  BY <1>2, ClockCounts
<1>3. CASE Quiet
  <2>1. m_loopPreRoll' =< MaxTick
    <3>1. CASE m_loopPreRoll' \in PreRolls
      BY <3>1 DEF NoBeatSkipped
    <3>2. CASE m_loopPreRoll' = m_loopPreRoll
      BY <3>2 DEF CountsInv
    <3> QED BY <1>3, <3>1, <3>2 DEF Quiet
  <2>2. pos' = pos /\ preRollEnd' = preRollEnd /\ click' = click /\ (Running' => Running)
        /\ lap'.from = lap.from
    BY <1>3 DEF Quiet
  <2>3. CountInTicks' = CountInTicks
    BY <2>2 DEF CountInTicks
  <2>4. Running' => lap'.from =< pos' /\ CountInTicks' \in 0 .. MaxTick
    BY <2>2, <2>3 DEF CountsInv
  <2>5. CASE lap'.steady = FALSE
    BY <2>1, <2>4, <2>5 DEF CountsInv
  <2>6. CASE UNCHANGED <<metro, lap>>
    <3>1. metro' = metro /\ lap' = lap /\ ClickTicks' = ClickTicks
      BY <2>6 DEF ClickTicks
    <3>2. AccentsRight => AccentsRight'
      BY <2>3, <3>1 DEF AccentsRight
    <3>3. Beat(pos, TRUE)' = Beat(pos, TRUE)
      BY <2>2, <3>1 DEF Beat
    <3>4. BeatsStruck => BeatsStruck'
      BY <2>2, <2>3, <3>1, <3>3 DEF BeatsStruck, NoBeat
    <3> QED BY <2>1, <2>2, <2>3, <2>4, <3>1, <3>2, <3>4 DEF CountsInv
  <2> QED BY <1>3, <2>5, <2>6 DEF Quiet
<1> QED BY <1>1, <1>2, <1>3, StepsCounted

LEMMA CountsInit == Init => CountsInv
<1> SUFFICES ASSUME Init  PROVE CountsInv
  OBVIOUS
<1>1. ~Running /\ m_loopPreRoll = 0 /\ MaxTick \in Nat
  BY TimesAssumption DEF Init, Running
<1>2. m_loopPreRoll =< MaxTick
  BY <1>1
<1> QED BY <1>1, <1>2, Zenon DEF CountsInv

\* The invariant has the clicks that were heard as the property words them.
LEMMA CountsAreHeard == PlayerInv /\ CountsInv => ClicksAreHeard
<1> SUFFICES ASSUME PlayerInv, CountsInv
             PROVE  CountInHeard
  BY DEF ClicksAreHeard, PlayerInv
<1> SUFFICES ASSUME pc = "loopStart", ~m_countingIn, lap.steady, CountInTicks % ClickTicks = 0
             PROVE  lap.counted = [n \in 1 .. CountInTicks \div ClickTicks |-> n = CountInTicks \div ClickTicks]
  BY DEF CountInHeard, CountInTicks
<1>1. TypeOK /\ m_countingIn = (pos < preRollEnd)
  BY DEF PlayerInv, SoundingIsHeld, CountInShown
<1>2. pos >= preRollEnd
  BY <1>1 DEF TypeOK
<1>3. AccentsRight /\ Len(lap.counted) = CountInTicks \div ClickTicks
  BY <1>2 DEF CountsInv, BeatsStruck, Running
<1>4. lap.counted \in Seq(BOOLEAN)
  BY <1>1 DEF TypeOK
<1> DEFINE heardClicks == lap.counted
           beats == CountInTicks \div ClickTicks
<1>5. /\ heardClicks \in [1 .. beats -> BOOLEAN]
      /\ \A n \in 1 .. beats : heardClicks[n] <=> n = beats
  BY <1>3, <1>4 DEF AccentsRight
<1> HIDE DEF heardClicks, beats
<1>6. \A n \in 1 .. beats : heardClicks[n] = (n = beats)
  BY <1>5, Zenon
<1>7. heardClicks = [n \in 1 .. beats |-> n = beats]
  BY <1>5, <1>6, Zenon
<1> QED BY <1>7 DEF heardClicks, beats

\* The claim of Player.cpp lines 127-128, for every signature, length of a count-in and way
\* the UI's stores fall, as long as the thread sleeps less than a beat: a count-in is exactly
\* as many clicks as it has beats, of which the last alone is accented, at the start and in
\* every lap; and each click has its Note Off near.
THEOREM ClicksAlwaysHeard == NoBeatSkipped /\ Spec => []ClicksAreHeard
<1> DEFINE Inv == NoBeatSkipped /\ PlayerInv /\ CountsInv
<1>1. NoBeatSkipped /\ Init => Inv
  BY PlayerInit, CountsInit
<1>2. Inv /\ [Next]_vars => Inv'
  <2> SUFFICES ASSUME NoBeatSkipped, PlayerInv, CountsInv, [Next]_vars
               PROVE  PlayerInv' /\ CountsInv'
    BY DEF NoBeatSkipped
  <2>1. PlayerInv'
    BY PlayerNext
  <2>2. TypeOK /\ TypeOK' /\ WithinBound /\ WithinBound'
    BY <2>1 DEF PlayerInv, SoundingIsHeld
  <2> QED BY <2>1, <2>2, CountsNext
<1>3. Inv => ClicksAreHeard
  BY CountsAreHeard
<1> HIDE DEF Inv
<1> QED BY <1>1, <1>2, <1>3, PTL DEF Spec

-----------------------------------------------------------------------------
(* Plug-in lists and chains: counting through a set of places.                *)

Rank(S, i) == Cardinality({j \in S : j <= i})

LEMMA RankGrows ==
    ASSUME NEW S, S \subseteq Nat, IsFiniteSet(S), NEW i \in S, NEW j \in S, i < j
    PROVE  Rank(S, i) < Rank(S, j) /\ Rank(S, i) \in Nat /\ Rank(S, j) \in Nat
<1> DEFINE A == {x \in S : x <= i}
           B == {x \in S : x <= j}
<1>0. i \in Nat /\ j \in Nat /\ \A x \in S : x \in Nat  OBVIOUS
<1>1. A \in SUBSET B /\ B \in SUBSET S /\ j \in B /\ j \notin A
  <2>1. \A x \in Nat : x <= i => x <= j  BY <1>0
  <2>2. \A x \in A : x \in B  BY <1>0, <2>1
  <2>3. j \in B /\ j \notin A  BY <1>0
  <2> QED  BY <2>2, <2>3
<1>2. IsFiniteSet(B)  BY <1>1, FS_Subset
<1>3. IsFiniteSet(A) /\ Cardinality(A) <= Cardinality(B) /\ Cardinality(A) # Cardinality(B)
  <2> HIDE DEF A, B
  <2> QED  BY <1>1, <1>2, FS_Subset
<1>4. Cardinality(A) \in Nat /\ Cardinality(B) \in Nat  BY <1>2, <1>3, FS_CardinalityType
<1>5. Rank(S, i) = Cardinality(A) /\ Rank(S, j) = Cardinality(B)  BY DEF Rank
<1> HIDE DEF A, B
<1> QED  BY <1>3, <1>4, <1>5

LEMMA RankInRange ==
    ASSUME NEW S, S \subseteq Nat, IsFiniteSet(S), NEW i \in S
    PROVE  Rank(S, i) \in 1..Cardinality(S)
<1> DEFINE A == {x \in S : x <= i}
<1>1. A \in SUBSET S /\ A # {}  OBVIOUS
<1>2. IsFiniteSet(A) /\ Cardinality(A) <= Cardinality(S)
  <2> HIDE DEF A
  <2> QED  BY <1>1, FS_Subset
<1>3. Cardinality(A) \in Nat /\ Cardinality(S) \in Nat /\ Cardinality(A) # 0
  <2> HIDE DEF A
  <2> QED  BY <1>1, <1>2, FS_CardinalityType, FS_EmptySet
<1>4. Rank(S, i) = Cardinality(A)  BY DEF Rank
<1> HIDE DEF A
<1> QED  BY <1>2, <1>3, <1>4

\* The k-th place is one, and there is no other.
LEMMA NthIs ==
    ASSUME NEW S, S \subseteq Nat, IsFiniteSet(S), NEW k \in 1..Cardinality(S)
    PROVE  Nth(S, k) \in S /\ Rank(S, Nth(S, k)) = k
<1> DEFINE n == Cardinality(S)
           f == [i \in S |-> Rank(S, i)]
<1>1. n \in Nat /\ IsFiniteSet(1..n) /\ Cardinality(1..n) = n
  BY FS_CardinalityType, FS_Interval
<1>2. f \in [S -> 1..n]  BY RankInRange
<1>3. ASSUME NEW i \in S, NEW j \in S, f[i] = f[j]  PROVE i = j
  <2>1. i \in Nat /\ j \in Nat  OBVIOUS
  <2>2. i < j \/ j < i \/ i = j  BY <2>1
  <2>3. i < j => Rank(S, i) < Rank(S, j) /\ Rank(S, i) \in Nat /\ Rank(S, j) \in Nat
    BY RankGrows
  <2>4. j < i => Rank(S, j) < Rank(S, i) /\ Rank(S, i) \in Nat /\ Rank(S, j) \in Nat
    BY RankGrows
  <2>5. Rank(S, i) = Rank(S, j)  BY <1>3
  <2> QED  BY <2>2, <2>3, <2>4, <2>5
<1>4. f \in Injection(S, 1..n)  BY <1>2, <1>3 DEF Injection, IsInjective
<1>5. f \in Surjection(S, 1..n)
  <2> HIDE DEF f
  <2> QED  BY <1>1, <1>4, FS_Injection
<1>6. \E i \in S : f[i] = k
  <2> HIDE DEF f
  <2> QED  BY <1>5 DEF Surjection
<1>7. \E i \in S : Cardinality({j \in S : j <= i}) = k  BY <1>6 DEF Rank
<1> QED  BY <1>7 DEF Nth, Rank

LEMMA SameRank ==
    ASSUME NEW S, S \subseteq Nat, IsFiniteSet(S), NEW i \in S, NEW j \in S, Rank(S, i) = Rank(S, j)
    PROVE  i = j
<1>1. i \in Nat /\ j \in Nat  OBVIOUS
<1>2. i < j \/ j < i \/ i = j  BY <1>1
<1>3. i < j => Rank(S, i) < Rank(S, j) /\ Rank(S, i) \in Nat /\ Rank(S, j) \in Nat
  BY RankGrows
<1>4. j < i => Rank(S, j) < Rank(S, i) /\ Rank(S, i) \in Nat /\ Rank(S, j) \in Nat
  BY RankGrows
<1> QED  BY <1>2, <1>3, <1>4

\* n names the places of S, from the first to the last.
Names(n, m, S) ==
    /\ n = [k \in 1..m |-> n[k]] /\ \A k \in 1..m : n[k] \in S
    /\ \A k, l \in 1..m : k < l => n[k] < n[l]
    /\ \A i \in S : \E k \in 1..m : n[k] = i

LEMMA NthNames ==
    ASSUME NEW S, S \subseteq Nat, IsFiniteSet(S)
    PROVE  Names([k \in 1..Cardinality(S) |-> Nth(S, k)], Cardinality(S), S)
<1> DEFINE m == Cardinality(S)
<1>1. m \in Nat  BY FS_CardinalityType
<1>2. \A k \in 1..m : Nth(S, k) \in S /\ Rank(S, Nth(S, k)) = k  BY NthIs
<1>3. ASSUME NEW k \in 1..m, NEW l \in 1..m, k < l  PROVE Nth(S, k) < Nth(S, l)
  <2>1. Nth(S, k) \in Nat /\ Nth(S, l) \in Nat  BY <1>2
  <2>2. Nth(S, l) < Nth(S, k) => Rank(S, Nth(S, l)) < Rank(S, Nth(S, k))  BY <1>2, RankGrows
  <2>3. Nth(S, l) # Nth(S, k)  BY <1>2, <1>3
  <2>4. ~(Nth(S, l) < Nth(S, k))  BY <1>1, <1>2, <1>3, <2>2
  <2> QED  BY <2>1, <2>3, <2>4
<1>4. ASSUME NEW i \in S  PROVE \E k \in 1..m : Nth(S, k) = i
  <2>1. Rank(S, i) \in 1..m  BY RankInRange
  <2>2. Nth(S, Rank(S, i)) = i  BY <1>2, <2>1, SameRank
  <2> QED  BY <2>1, <2>2
<1> QED  BY <1>2, <1>3, <1>4 DEF Names

LEMMA NamesAreNth ==
    ASSUME NEW S, S \subseteq Nat, NEW m \in Nat, NEW n, Names(n, m, S)
    PROVE  IsFiniteSet(S) /\ Cardinality(S) = m /\ \A k \in 1..m : Nth(S, k) = n[k]
<1>1. n \in [1..m -> S] /\ \A k \in 1..m : n[k] \in Nat  BY DEF Names
<1>2. ASSUME NEW k \in 1..m, NEW l \in 1..m, n[k] = n[l]  PROVE k = l
  <2>1. k < l \/ l < k \/ k = l  OBVIOUS
  <2>2. ~(k < l) /\ ~(l < k)  BY <1>1, <1>2 DEF Names
  <2> QED  BY <2>1, <2>2
<1>3. n \in Bijection(1..m, S)
  BY <1>1, <1>2 DEF Names, Bijection, Injection, Surjection, IsInjective
<1>4. IsFiniteSet(S) /\ Cardinality(S) = m
  <2>1. IsFiniteSet(1..m) /\ Cardinality(1..m) = m  BY FS_Interval
  <2> QED  BY <1>3, <2>1, FS_Bijection DEF ExistsBijection
<1>5. ASSUME NEW k \in 1..m  PROVE Rank(S, n[k]) = k
  <2> DEFINE A == {j \in S : j <= n[k]}
             g == [i \in 1..k |-> n[i]]
  <2>1. ASSUME NEW i \in 1..k  PROVE n[i] \in A
    <3>1. i = k \/ i < k  OBVIOUS
    <3>2. i \in 1..m  OBVIOUS
    <3> QED  BY <1>1, <3>1, <3>2 DEF Names
  <2>2. ASSUME NEW j \in A  PROVE \E i \in 1..k : n[i] = j
    <3>1. PICK i \in 1..m : n[i] = j  BY DEF Names
    <3>2. ~(k < i)  BY <1>1, <3>1 DEF Names
    <3> QED  BY <3>1, <3>2
  <2> HIDE DEF A
  <2>3. g \in Bijection(1..k, A)
    BY <1>2, <2>1, <2>2 DEF Bijection, Injection, Surjection, IsInjective
  <2>4. IsFiniteSet(1..k) /\ Cardinality(1..k) = k  BY FS_Interval
  <2>5. Cardinality(A) = k  BY <2>3, <2>4, FS_Bijection DEF ExistsBijection
  <2> QED  BY <2>5 DEF A, Rank
<1>6. ASSUME NEW k \in 1..m  PROVE Nth(S, k) = n[k]
  <2>1. Nth(S, k) \in S /\ Rank(S, Nth(S, k)) = k  BY <1>4, NthIs
  <2> QED  BY <1>1, <1>4, <1>5, <2>1, SameRank
<1> QED  BY <1>4, <1>6

-----------------------------------------------------------------------------
(* What runs, and the items it is listed by.                                  *)

Named   == Plugins \cup {Eq}
Items   == [plugin : Named, on : BOOLEAN, v : Int]
Patch   == [of : Named, v : Int]
Hosts   == {h \in [plugin : Named, on : BOOLEAN, patch : Patch] : h.plugin = Eq => h.patch.of = Eq}
\* An item and a plug-in of the chain that belong together.
Match(it, h) == it.plugin = h.plugin /\ it.on = h.on /\ (it.plugin = Eq => it.v = h.patch.v)
InstFits(list, slot) ==
    /\ Cardinality(InstPlaces(list)) = Len(slot)
    /\ \A i \in InstPlaces(list) : list[i].plugin = slot[1].plugin

LEMMA PlacesFinite ==
    ASSUME NEW n \in Nat, NEW list, DOMAIN list = 1..n
    PROVE  /\ EffectPlaces(list) \subseteq Nat /\ IsFiniteSet(EffectPlaces(list))
           /\ InstPlaces(list) \subseteq Nat /\ IsFiniteSet(InstPlaces(list))
<1>1. IsFiniteSet(1..n)  BY FS_Interval
<1>2. EffectPlaces(list) \in SUBSET (1..n) /\ InstPlaces(list) \in SUBSET (1..n)
  BY DEF EffectPlaces, InstPlaces
<1> QED  BY <1>1, <1>2, FS_Subset

\* A list fits a chain if its effects can be named in the order of the chain.
LEMMA RunsBy ==
    ASSUME NEW d \in Nat, NEW list, DOMAIN list = 1..d, NEW m \in Nat, NEW row, Len(row) = m,
           NEW n, Names(n, m, EffectPlaces(list)),
           \A k \in 1..m : Match(list[n[k]], row[k]), NEW slot, InstFits(list, slot)
    PROVE  Runs(list, row, slot)
<1> DEFINE S == EffectPlaces(list)
           fx == EffectsIn(list)
<1>1. S \subseteq Nat  BY PlacesFinite
<1>2. Cardinality(S) = m /\ \A k \in 1..m : Nth(S, k) = n[k]
  <2> HIDE DEF S
  <2> QED  BY <1>1, NamesAreNth DEF S
<1>3. fx = [k \in 1..m |-> list[n[k]]]  BY <1>2 DEF EffectsIn, Picked
<1>4. Len(fx) = m /\ DOMAIN fx = 1..m  BY <1>3
<1>5. ASSUME NEW k \in 1..m  PROVE Match(fx[k], row[k])  BY <1>3
<1> HIDE DEF fx
<1>6. \A k \in DOMAIN fx : Match(fx[k], row[k])  BY <1>4, <1>5
<1> QED  BY <1>4, <1>6 DEF Runs, Match, InstFits, fx

LEMMA RunsNames ==
    ASSUME NEW d \in Nat, NEW list, DOMAIN list = 1..d, NEW row, NEW slot, Runs(list, row, slot)
    PROVE  LET n == [k \in 1..Len(row) |-> Nth(EffectPlaces(list), k)]
           IN  /\ Len(row) \in Nat /\ Cardinality(EffectPlaces(list)) = Len(row)
               /\ Names(n, Len(row), EffectPlaces(list)) /\ InstFits(list, slot)
               /\ \A k \in 1..Len(row) : /\ Match(list[n[k]], row[k]) /\ n[k] \in 1..d
                                         /\ n[k] = FxIndex(list, k) /\ n[k] # 0
                                         /\ IsEffect(list[n[k]])
<1> DEFINE S == EffectPlaces(list)
           m == Cardinality(S)
           n == [k \in 1..m |-> Nth(S, k)]
           fx == EffectsIn(list)
<1>1. S \subseteq Nat /\ IsFiniteSet(S)  BY PlacesFinite
<1>2. m \in Nat /\ Names(n, m, S)
  <2> HIDE DEF S
  <2> QED  BY <1>1, FS_CardinalityType, NthNames
<1>3. fx = [k \in 1..m |-> list[Nth(S, k)]]  BY DEF EffectsIn, Picked
<1>4. Len(fx) = m /\ DOMAIN fx = 1..m
  <2> HIDE DEF m
  <2> QED  BY <1>2, <1>3
<1>5. Len(row) = m  BY <1>4 DEF Runs
<1>6. ASSUME NEW k \in 1..m
      PROVE  /\ Match(list[n[k]], row[k]) /\ n[k] \in 1..d
             /\ n[k] = FxIndex(list, k) /\ n[k] # 0 /\ IsEffect(list[n[k]])
  <2>1. n[k] = Nth(S, k) /\ n[k] \in S  BY <1>2 DEF Names
  <2>2. n[k] \in 1..d /\ IsEffect(list[n[k]])  BY <2>1 DEF EffectPlaces
  <2>3. n[k] = FxIndex(list, k)
    <3>1. ~(m < k)  BY <1>2
    <3> QED  BY <2>1, <3>1 DEF FxIndex
  <2>4. fx[k] = list[n[k]]  BY <1>3, <2>1
  <2>5. k \in DOMAIN fx  BY <1>4
  <2> HIDE DEF n, fx
  <2>6. Match(fx[k], row[k])  BY <2>5 DEF Runs, Match, fx
  <2> QED  BY <2>2, <2>3, <2>4, <2>6
<1>7. InstFits(list, slot)  BY DEF Runs, InstFits
<1>8. n = [k \in 1..Len(row) |-> Nth(EffectPlaces(list), k)]  BY <1>5
<1> HIDE DEF m, n, fx
<1> QED  BY <1>2, <1>5, <1>6, <1>7, <1>8 DEF m

\* An item changed in place, and its plug-in in the chain.
LEMMA RowChanged ==
    ASSUME NEW d \in Nat, NEW list, DOMAIN list = 1..d, NEW row, NEW slot, Runs(list, row, slot),
           NEW k \in 1..Len(row), NEW it, NEW h, Match(it, h), it.plugin = row[k].plugin,
           NEW list2, list2 = [list EXCEPT ![FxIndex(list, k)] = it],
           NEW row2, DOMAIN row = 1..Len(row), row2 = [row EXCEPT ![k] = h]
    PROVE  Runs(list2, row2, slot)
<1> DEFINE m == Len(row)
           n == [j \in 1..m |-> Nth(EffectPlaces(list), j)]
           i == FxIndex(list, k)
<1>1. /\ m \in Nat /\ Names(n, m, EffectPlaces(list)) /\ InstFits(list, slot)
      /\ \A j \in 1..m : /\ Match(list[n[j]], row[j]) /\ n[j] \in 1..d
                         /\ n[j] = FxIndex(list, j) /\ n[j] # 0 /\ IsEffect(list[n[j]])
  BY RunsNames
<1> HIDE DEF n, m
<1>2. i = n[k] /\ i \in 1..d /\ IsEffect(list[i]) /\ Match(list[i], row[k])  BY <1>1 DEF m
<1>3. IsEffect(it)  BY <1>2 DEF IsEffect, Match
<1>4. DOMAIN list2 = 1..d /\ list2[i] = it /\ \A j \in 1..d : j # i => list2[j] = list[j]
  BY <1>2
<1>5. EffectPlaces(list2) = EffectPlaces(list) /\ InstPlaces(list2) = InstPlaces(list)
  BY <1>2, <1>3, <1>4 DEF EffectPlaces, InstPlaces
<1>6. Len(row2) = m  BY <1>1 DEF m
<1>7. ASSUME NEW j \in 1..m  PROVE Match(list2[n[j]], row2[j])
  <2>1. CASE j = k  BY <1>2, <1>4, <2>1 DEF m
  <2>2. CASE j # k
    <3>1. n[j] # n[k]
      <4>1. j < k \/ k < j  BY <1>1, <2>2 DEF m
      <4>2. n[j] < n[k] \/ n[k] < n[j]  BY <4>1 , <1>1 DEF Names, m
      <4> QED  BY <1>1, <4>2 DEF m
    <3>2. list2[n[j]] = list[n[j]]  BY <1>1, <1>2, <1>4, <3>1
    <3>3. row2[j] = row[j]  BY <2>2 DEF m
    <3> QED  BY <1>1, <3>2, <3>3
  <2> QED  BY <2>1, <2>2
<1>8. InstFits(list2, slot)
  <2>1. \A j \in InstPlaces(list) : list2[j] = list[j]  BY <1>2, <1>4 DEF InstPlaces
  <2> QED  BY <1>1, <1>5, <2>1 DEF InstFits
<1>9. Names(n, m, EffectPlaces(list2))  BY <1>1, <1>5
<1> QED  BY <1>1, <1>4, <1>6, <1>7, <1>8, <1>9, RunsBy

\* A knob of a plug-in that keeps its own patch.
LEMMA KnobTurned ==
    ASSUME NEW list, NEW row, NEW slot, Runs(list, row, slot), DOMAIN row = 1..Len(row),
           NEW k \in 1..Len(row), NEW h, h.plugin = row[k].plugin, h.on = row[k].on, h.plugin # Eq
    PROVE  Runs(list, [row EXCEPT ![k] = h], slot)
<1> DEFINE row2 == [row EXCEPT ![k] = h]
           fx == EffectsIn(list)
<1>1. Len(row2) = Len(row)
  <2>1. DOMAIN row2 = DOMAIN row  OBVIOUS
  <2> QED  BY <2>1
<1>2. \A j \in DOMAIN fx : Match(fx[j], row[j])  BY DEF Runs, Match
<1>3. ASSUME NEW j \in DOMAIN fx  PROVE Match(fx[j], row2[j])
  <2>1. CASE j = k
    <3>1. row2[j] = h  BY <2>1
    <3> QED  BY <1>2, <2>1, <3>1 DEF Match
  <2>2. CASE j # k
    <3>1. row2[j] = row[j]  BY <2>2
    <3> QED  BY <1>2, <3>1
  <2> QED  BY <2>1, <2>2
<1> HIDE DEF row2
<1> QED  BY <1>1, <1>3 DEF Runs, Match, row2

\* An effect at the end of both.
LEMMA EffectAdded ==
    ASSUME NEW list \in Seq(Items), NEW row \in Seq(Hosts), NEW slot, Runs(list, row, slot),
           NEW it \in Items, IsEffect(it), NEW h \in Hosts, Match(it, h)
    PROVE  Runs(Append(list, it), Append(row, h), slot)
<1> DEFINE d == Len(list)
           m == Len(row)
           S == EffectPlaces(list)
           n == [j \in 1..m |-> Nth(S, j)]
           l2 == Append(list, it)
           r2 == Append(row, h)
           n2 == [j \in 1..m + 1 |-> IF j = m + 1 THEN d + 1 ELSE n[j]]
<1>1. DOMAIN list = 1..d /\ d \in Nat /\ m \in Nat  OBVIOUS
<1>2. /\ Names(n, m, S) /\ InstFits(list, slot)
      /\ \A j \in 1..m : Match(list[n[j]], row[j]) /\ n[j] \in 1..d
  BY <1>1, RunsNames
<1> HIDE DEF n
<1>3. /\ l2 \in Seq(Items) /\ Len(l2) = d + 1 /\ DOMAIN l2 = 1..d + 1 /\ l2[d + 1] = it
      /\ \A j \in 1..d : l2[j] = list[j]
  OBVIOUS
<1>4. /\ Len(r2) = m + 1 /\ r2[m + 1] = h /\ \A j \in 1..m : r2[j] = row[j]
  OBVIOUS
<1> HIDE DEF d, m, l2, r2
<1>5. EffectPlaces(l2) = S \cup {d + 1} /\ InstPlaces(l2) = InstPlaces(list)
  BY <1>1, <1>3 DEF EffectPlaces, InstPlaces
<1>6. Names(n2, m + 1, EffectPlaces(l2))
  <2>1. \A j \in 1..m + 1 : n2[j] \in EffectPlaces(l2)  BY <1>1, <1>2, <1>5 DEF Names
  <2>2. ASSUME NEW j \in 1..m + 1, NEW k \in 1..m + 1, j < k  PROVE n2[j] < n2[k]
    <3>1. j \in 1..m /\ n2[j] = n[j]  BY <1>1, <2>2
    <3>2. CASE k = m + 1  BY <1>1, <1>2, <3>1, <3>2
    <3>3. CASE k # m + 1
      <4>1. k \in 1..m /\ n2[k] = n[k]  BY <1>1, <3>3
      <4> QED  BY <1>2, <2>2, <3>1, <4>1 DEF Names
    <3> QED  BY <3>2, <3>3
  <2>3. ASSUME NEW i \in EffectPlaces(l2)  PROVE \E j \in 1..m + 1 : n2[j] = i
    <3>1. CASE i = d + 1
      <4>1. m + 1 \in 1..m + 1 /\ n2[m + 1] = d + 1  BY <1>1
      <4> QED  BY <3>1, <4>1
    <3>2. CASE i \in S
      <4>1. PICK j \in 1..m : n[j] = i  BY <1>2, <3>2 DEF Names
      <4>2. j \in 1..m + 1 /\ n2[j] = i  BY <1>1, <4>1
      <4> QED  BY <4>2
    <3> QED  BY <1>5, <3>1, <3>2
  <2> QED  BY <2>1, <2>2, <2>3 DEF Names
<1>7. ASSUME NEW j \in 1..m + 1  PROVE Match(l2[n2[j]], r2[j])
  <2>1. CASE j = m + 1  BY <1>3, <1>4, <2>1
  <2>2. CASE j # m + 1
    <3>1. j \in 1..m /\ n2[j] = n[j]  BY <1>1, <2>2
    <3> QED  BY <1>2, <1>3, <1>4, <3>1
  <2> QED  BY <2>1, <2>2
<1>8. InstFits(l2, slot)
  <2>1. \A i \in InstPlaces(list) : l2[i] = list[i]  BY <1>1, <1>3 DEF InstPlaces
  <2> QED  BY <1>2, <1>5, <2>1 DEF InstFits
<1> HIDE DEF n2
<1>9. d + 1 \in Nat /\ m + 1 \in Nat  BY <1>1
<1>10. Runs(l2, r2, slot)  BY <1>3, <1>4, <1>6, <1>7, <1>8, <1>9, RunsBy
<1> QED  BY <1>10 DEF l2, r2

\* The effects alone, and with an instrument behind them.
LEMMA EffectsAre ==
    ASSUME NEW list \in Seq(Items)
    PROVE  /\ EffectsIn(list) \in Seq(Items)
           /\ \A k \in DOMAIN EffectsIn(list) : IsEffect(EffectsIn(list)[k])
<1> DEFINE S == EffectPlaces(list)
           m == Cardinality(S)
<1>1. Len(list) \in Nat /\ DOMAIN list = 1..Len(list)  OBVIOUS
<1>2. S \subseteq Nat /\ IsFiniteSet(S)  BY <1>1, PlacesFinite
<1>3. m \in Nat /\ \A k \in 1..m : Nth(S, k) \in S
  <2> HIDE DEF S
  <2> QED  BY <1>2, FS_CardinalityType, NthIs
<1>4. \A k \in 1..m : list[Nth(S, k)] \in Items /\ IsEffect(list[Nth(S, k)])
  BY <1>3 DEF EffectPlaces
<1>5. EffectsIn(list) = [k \in 1..m |-> list[Nth(S, k)]]  BY DEF EffectsIn, Picked
<1> HIDE DEF m, S
<1>6. [k \in 1..m |-> list[Nth(S, k)]] \in Seq(Items)  BY <1>3, <1>4
<1> QED  BY <1>4, <1>5, <1>6

LEMMA EffectsRun ==
    ASSUME NEW list \in Seq(Items), NEW row, NEW slot, Runs(list, row, slot)
    PROVE  Runs(EffectsIn(list), row, <<>>) /\ InstPlaces(EffectsIn(list)) = {}
<1> DEFINE fx == EffectsIn(list)
           m == Len(fx)
           n == [k \in 1..m |-> k]
<1>1. fx \in Seq(Items) /\ \A k \in DOMAIN fx : IsEffect(fx[k])  BY EffectsAre
<1>2. m \in Nat /\ DOMAIN fx = 1..m  BY <1>1
<1>3. Len(row) = m /\ \A k \in 1..m : Match(fx[k], row[k])  BY <1>2 DEF Runs, Match
<1> HIDE DEF fx
<1>4. EffectPlaces(fx) = 1..m /\ InstPlaces(fx) = {}
  BY <1>1, <1>2 DEF EffectPlaces, InstPlaces
<1>5. Names(n, m, 1..m)  BY <1>2 DEF Names
<1>6. \A k \in 1..m : Match(fx[n[k]], row[k])  BY <1>3
<1>7. InstFits(fx, <<>>)  BY <1>4, FS_EmptySet DEF InstFits
<1> HIDE DEF m, n
<1>8. Runs(fx, row, <<>>)  BY <1>2, <1>3, <1>4, <1>5, <1>6, <1>7, RunsBy
<1> QED  BY <1>4, <1>8 DEF fx

LEMMA InstrumentAdded ==
    ASSUME NEW list \in Seq(Items), NEW row, NEW slot, Runs(list, row, slot), InstPlaces(list) = {},
           NEW it \in Items, ~IsEffect(it), NEW h, h.plugin = it.plugin
    PROVE  Runs(Append(list, it), row, <<h>>)
<1> DEFINE d == Len(list)
           m == Len(row)
           S == EffectPlaces(list)
           n == [j \in 1..m |-> Nth(S, j)]
           l2 == Append(list, it)
<1>1. DOMAIN list = 1..d /\ d \in Nat  OBVIOUS
<1>2. m \in Nat /\ Names(n, m, S) /\ \A j \in 1..m : Match(list[n[j]], row[j]) /\ n[j] \in 1..d
  BY <1>1, RunsNames
<1> HIDE DEF n, m
<1>3. /\ l2 \in Seq(Items) /\ DOMAIN l2 = 1..d + 1 /\ l2[d + 1] = it
      /\ \A j \in 1..d : l2[j] = list[j]
  OBVIOUS
<1> HIDE DEF d, l2
<1>4. EffectPlaces(l2) = S /\ InstPlaces(l2) = {d + 1}
  <2>1. \A i \in 1..d : IsEffect(list[i])  BY <1>1 DEF InstPlaces
  <2> QED  BY <1>1, <1>3, <2>1 DEF EffectPlaces, InstPlaces
<1>5. InstFits(l2, <<h>>)
  <2>1. Cardinality({d + 1}) = 1  BY FS_Singleton
  <2> QED  BY <1>3, <1>4, <2>1 DEF InstFits
<1>6. \A j \in 1..m : Match(l2[n[j]], row[j])  BY <1>2, <1>3
<1>7. Names(n, m, EffectPlaces(l2))  BY <1>2, <1>4
<1>8. d + 1 \in Nat /\ Len(row) = m  BY <1>1 DEF m
<1>9. Runs(l2, row, <<h>>)
  BY <1>2, <1>3, <1>5, <1>6, <1>7, <1>8, RunsBy
<1> QED  BY <1>9 DEF l2

LEMMA WithoutOne ==
    ASSUME NEW X, NEW s \in Seq(X), NEW i \in 1..Len(s)
    PROVE  /\ RemoveAt(s, i) \in Seq(X) /\ Len(RemoveAt(s, i)) = Len(s) - 1
           /\ DOMAIN RemoveAt(s, i) = 1..Len(s) - 1
           /\ \A k \in 1..Len(s) - 1 : RemoveAt(s, i)[k] = IF k < i THEN s[k] ELSE s[k + 1]
<1> DEFINE p == SubSeq(s, 1, i - 1)
           q == SubSeq(s, i + 1, Len(s))
<1>0. Len(s) \in Nat /\ i \in Nat /\ i # 0 /\ i =< Len(s)  OBVIOUS
<1>1. p \in Seq(X) /\ q \in Seq(X)  OBVIOUS
<1>2. Len(p) = i - 1 /\ Len(q) = Len(s) - i  OBVIOUS
<1>3. \A k \in 1..i - 1 : p[k] = s[k]  OBVIOUS
<1>4. \A k \in 1..Len(s) - i : q[k] = s[k + i]  OBVIOUS
<1> HIDE DEF p, q
<1>5. p \o q \in Seq(X) /\ Len(p \o q) = Len(s) - 1  BY <1>1, <1>2
<1>6. ASSUME NEW k \in 1..Len(s) - 1  PROVE (p \o q)[k] = IF k < i THEN s[k] ELSE s[k + 1]
  <2>1. CASE k < i  BY <1>1, <1>2, <1>3, <2>1
  <2>2. CASE k >= i
    <3>1. (p \o q)[k] = q[k - (i - 1)]  BY <1>1, <1>2, <2>2
    <3>2. k - (i - 1) \in 1..Len(s) - i /\ (k - (i - 1)) + i = k + 1  BY <2>2
    <3> QED  BY <1>4, <2>2, <3>1, <3>2
  <2>3. k < i \/ k >= i  BY <1>0
  <2> QED  BY <2>1, <2>2, <2>3
<1>7. DOMAIN (p \o q) = 1..Len(s) - 1  BY <1>5
<1> QED  BY <1>5, <1>6, <1>7 DEF RemoveAt, p, q

\* An effect taken out of both.
LEMMA EffectRemoved ==
    ASSUME NEW list \in Seq(Items), NEW row \in Seq(Hosts), NEW slot, Runs(list, row, slot),
           NEW k \in 1..Len(row)
    PROVE  /\ FxIndex(list, k) \in 1..Len(list)
           /\ Runs(RemoveAt(list, FxIndex(list, k)), RemoveAt(row, k), slot)
<1> DEFINE d == Len(list)
           m == Len(row)
           S == EffectPlaces(list)
           n == [j \in 1..m |-> Nth(S, j)]
           i == n[k]
           l2 == RemoveAt(list, i)
           r2 == RemoveAt(row, k)
           n2 == [j \in 1..m - 1 |-> IF j < k THEN n[j] ELSE n[j + 1] - 1]
<1>1. DOMAIN list = 1..d /\ d \in Nat /\ m \in Nat  OBVIOUS
<1>2. /\ Names(n, m, S) /\ InstFits(list, slot)
      /\ \A j \in 1..m : /\ Match(list[n[j]], row[j]) /\ n[j] \in 1..d
                         /\ n[j] = FxIndex(list, j) /\ IsEffect(list[n[j]])
  BY <1>1, RunsNames
<1> HIDE DEF n
<1>3. i \in 1..d /\ IsEffect(list[i])  BY <1>2
<1>4. /\ l2 \in Seq(Items) /\ DOMAIN l2 = 1..d - 1
      /\ \A j \in 1..d - 1 : l2[j] = IF j < i THEN list[j] ELSE list[j + 1]
  BY <1>3, WithoutOne
<1>5. Len(r2) = m - 1 /\ \A j \in 1..m - 1 : r2[j] = IF j < k THEN row[j] ELSE row[j + 1]
  BY WithoutOne
<1> HIDE DEF d, m, l2, r2
<1>6. \A j \in 1..m : (j < k => n[j] < i) /\ (k < j => i < n[j])  BY <1>2 DEF Names, m
<1>7. ASSUME NEW j \in 1..m - 1
      PROVE  n2[j] \in 1..d - 1 /\ l2[n2[j]] = list[IF j < k THEN n[j] ELSE n[j + 1]]
  <2>1. CASE j < k
    <3>1. j \in 1..m /\ n2[j] = n[j] /\ n[j] \in 1..d /\ n[j] < i  BY <1>1, <1>2, <1>6, <2>1
    <3>2. n2[j] \in 1..d - 1 /\ n2[j] < i  BY <1>1, <1>3, <3>1
    <3> QED  BY <1>4, <2>1, <3>1, <3>2
  <2>2. CASE ~(j < k)
    <3>1. j + 1 \in 1..m /\ k < j + 1 /\ n2[j] = n[j + 1] - 1  BY <1>1, <2>2
    <3>2. n[j + 1] \in 1..d /\ i < n[j + 1]  BY <1>2, <1>6, <3>1
    <3>3. n2[j] \in 1..d - 1 /\ ~(n2[j] < i) /\ n2[j] + 1 = n[j + 1]  BY <1>1, <1>3, <3>1, <3>2
    <3> QED  BY <1>4, <2>2, <3>3
  <2> QED  BY <2>1, <2>2
<1>8. Names(n2, m - 1, EffectPlaces(l2))
  <2>1. ASSUME NEW j \in 1..m - 1  PROVE n2[j] \in EffectPlaces(l2)
    <3>1. j \in 1..m /\ j + 1 \in 1..m  BY <1>1
    <3>2. IsEffect(l2[n2[j]])  BY <1>2, <1>7, <3>1
    <3> QED  BY <1>4, <1>7, <3>2 DEF EffectPlaces
  <2>2. ASSUME NEW j \in 1..m - 1, NEW l \in 1..m - 1, j < l  PROVE n2[j] < n2[l]
    <3>1. j \in 1..m /\ l \in 1..m /\ j + 1 \in 1..m /\ l + 1 \in 1..m  BY <1>1
    <3>2. n[j] \in Nat /\ n[l] \in Nat /\ n[j + 1] \in Nat /\ n[l + 1] \in Nat  BY <1>2, <3>1
    <3>3. n[j] < n[l] /\ n[j + 1] < n[l + 1]  BY <1>2, <2>2, <3>1 DEF Names
    <3>4. CASE l < k
      <4>1. j < k  BY <2>2, <3>4
      <4> QED  BY <3>3, <3>4, <4>1
    <3>5. CASE ~(l < k) /\ j < k
      <4>1. n[j] < i /\ k < l + 1  BY <1>6, <3>1, <3>5
      <4>2. i < n[l + 1]  BY <1>6, <3>1, <4>1
      <4>3. n[j] < n[l + 1] - 1  BY <1>3, <3>2, <4>1, <4>2
      <4>4. n2[j] = n[j] /\ n2[l] = n[l + 1] - 1  BY <3>5
      <4> QED  BY <4>3, <4>4
    <3>6. CASE ~(l < k) /\ ~(j < k)
      <4>1. n2[j] = n[j + 1] - 1 /\ n2[l] = n[l + 1] - 1  BY <3>6
      <4> QED  BY <3>2, <3>3, <4>1
    <3> QED  BY <3>4, <3>5, <3>6
  <2>3. ASSUME NEW x \in EffectPlaces(l2)  PROVE \E j \in 1..m - 1 : n2[j] = x
    <3>1. x \in 1..d - 1 /\ IsEffect(l2[x])  BY <1>4 DEF EffectPlaces
    <3>2. CASE x < i
      <4>1. x \in 1..d /\ IsEffect(list[x])  BY <1>1, <1>4, <3>1, <3>2
      <4>2. PICK j \in 1..m : n[j] = x  BY <1>1, <1>2, <4>1 DEF Names, EffectPlaces
      <4>3. j < k  BY <1>2, <1>3, <1>6, <3>2, <4>2 DEF m
      <4>4. j \in 1..m - 1 /\ n2[j] = x  BY <1>1, <4>2, <4>3 DEF m
      <4> QED  BY <4>4
    <3>3. CASE ~(x < i)
      <4>1. x + 1 \in 1..d /\ IsEffect(list[x + 1])  BY <1>1, <1>4, <3>1, <3>3
      <4>2. PICK j \in 1..m : n[j] = x + 1  BY <1>1, <1>2, <4>1 DEF Names, EffectPlaces
      <4>3. k < j
        <5>1. i < n[j]  BY <1>3, <3>1, <3>3, <4>2
        <5>2. j # k /\ ~(j < k)  BY <1>2, <1>3, <1>6, <5>1
        <5> QED  BY <4>2, <5>2 DEF m
      <4>4. j - 1 \in 1..m - 1 /\ ~(j - 1 < k) /\ j - 1 + 1 = j  BY <1>1, <4>2, <4>3 DEF m
      <4>5. n2[j - 1] = x  BY <3>1, <4>2, <4>4
      <4> QED  BY <4>4, <4>5
    <3> QED  BY <3>2, <3>3
  <2> QED  BY <2>1, <2>2, <2>3 DEF Names
<1>9. ASSUME NEW j \in 1..m - 1  PROVE Match(l2[n2[j]], r2[j])
  <2>1. j \in 1..m /\ j + 1 \in 1..m  BY <1>1
  <2>2. CASE j < k  BY <1>2, <1>5, <1>7, <2>1, <2>2
  <2>3. CASE ~(j < k)  BY <1>2, <1>5, <1>7, <2>1, <2>3
  <2> QED  BY <2>2, <2>3
<1>10. InstFits(l2, slot)
  <2> DEFINE g == [x \in InstPlaces(list) |-> IF x < i THEN x ELSE x - 1]
  <2>1. ASSUME NEW x \in InstPlaces(list)
        PROVE  g[x] \in InstPlaces(l2) /\ l2[g[x]] = list[x] /\ x \in 1..d /\ x # i
    <3>1. x \in 1..d /\ x # i /\ ~IsEffect(list[x])  BY <1>1, <1>3 DEF InstPlaces
    <3>2. CASE x < i
      <4>1. g[x] = x /\ x \in 1..d - 1  BY <1>1, <1>3, <3>1, <3>2
      <4> QED  BY <1>4, <3>1, <3>2, <4>1 DEF InstPlaces
    <3>3. CASE ~(x < i)
      <4>1. g[x] = x - 1 /\ x - 1 \in 1..d - 1 /\ ~(x - 1 < i) /\ x - 1 + 1 = x
        BY <1>1, <1>3, <3>1, <3>3
      <4> QED  BY <1>4, <3>1, <4>1 DEF InstPlaces
    <3> QED  BY <3>2, <3>3
  <2>2. ASSUME NEW x \in InstPlaces(list), NEW y \in InstPlaces(list), g[x] = g[y]
        PROVE  x = y
    <3>1. x \in 1..d /\ x # i /\ y \in 1..d /\ y # i  BY <2>1
    <3>2. g[x] = (IF x < i THEN x ELSE x - 1) /\ g[y] = (IF y < i THEN y ELSE y - 1)  OBVIOUS
    <3> QED  BY <1>1, <1>3, <2>2, <3>1, <3>2
  <2>3. ASSUME NEW y \in InstPlaces(l2)  PROVE \E x \in InstPlaces(list) : g[x] = y
    <3>1. y \in 1..d - 1 /\ ~IsEffect(l2[y])  BY <1>4 DEF InstPlaces
    <3>2. CASE y < i
      <4>1. y \in 1..d /\ ~IsEffect(list[y])  BY <1>1, <1>4, <3>1, <3>2
      <4>2. y \in InstPlaces(list)  BY <1>1, <4>1 DEF InstPlaces
      <4> QED  BY <3>2, <4>2
    <3>3. CASE ~(y < i)
      <4>1. y + 1 \in 1..d /\ ~IsEffect(list[y + 1]) /\ ~(y + 1 < i) /\ y + 1 - 1 = y
        BY <1>1, <1>3, <1>4, <3>1, <3>3
      <4>2. y + 1 \in InstPlaces(list)  BY <1>1, <4>1 DEF InstPlaces
      <4>3. PICK z \in InstPlaces(list) : z = y + 1  BY <4>2
      <4>4. ~(z < i) /\ z - 1 = y  BY <4>1, <4>3
      <4>5. g[z] = z - 1  BY <4>4
      <4> QED  BY <4>4, <4>5
    <3> QED  BY <3>2, <3>3
  <2>4. g \in Bijection(InstPlaces(list), InstPlaces(l2))
    <3>1. g \in [InstPlaces(list) -> InstPlaces(l2)]  BY <2>1
    <3> HIDE DEF g
    <3> QED  BY <2>2, <2>3, <3>1 DEF Bijection, Injection, Surjection, IsInjective
  <2>5. IsFiniteSet(InstPlaces(list))  BY <1>1, PlacesFinite
  <2>6. Cardinality(InstPlaces(l2)) = Cardinality(InstPlaces(list))
    BY <2>4, <2>5, FS_Bijection DEF ExistsBijection
  <2>7. ASSUME NEW y \in InstPlaces(l2)  PROVE l2[y].plugin = slot[1].plugin
    <3>1. PICK x \in InstPlaces(list) : g[x] = y  BY <2>3
    <3>2. l2[y] = list[x]  BY <2>1, <3>1
    <3> QED  BY <1>2, <3>2 DEF InstFits
  <2> QED  BY <1>2, <2>6, <2>7 DEF InstFits
<1>11. d - 1 \in Nat /\ m - 1 \in Nat  BY <1>1, <1>3 DEF m
<1> HIDE DEF n2
<1>12. Runs(l2, r2, slot)  BY <1>4, <1>5, <1>8, <1>9, <1>10, <1>11, RunsBy
<1>13. i = FxIndex(list, k)  BY <1>2 DEF m
<1> QED  BY <1>3, <1>12, <1>13 DEF l2, r2, d

\* Two neighbours that change places.
LEMMA EffectsSwapped ==
    ASSUME NEW list \in Seq(Items), NEW row \in Seq(Hosts), NEW slot, Runs(list, row, slot),
           NEW k \in 1..Len(row), k + 1 \in 1..Len(row),
           NEW a, a = FxIndex(list, k), NEW b, b = FxIndex(list, k + 1)
    PROVE  /\ a \in 1..Len(list) /\ b \in 1..Len(list) /\ a # 0 /\ b # 0
           /\ Runs(Swapped(list, a, b), Swapped(row, k, k + 1), slot)
<1> DEFINE d == Len(list)
           m == Len(row)
           S == EffectPlaces(list)
           n == [j \in 1..m |-> Nth(S, j)]
           l2 == Swapped(list, a, b)
           r2 == Swapped(row, k, k + 1)
<1>1. DOMAIN list = 1..d /\ DOMAIN row = 1..m /\ d \in Nat /\ m \in Nat  OBVIOUS
<1>2. /\ Names(n, m, S) /\ InstFits(list, slot)
      /\ \A j \in 1..m : /\ Match(list[n[j]], row[j]) /\ n[j] \in 1..d /\ n[j] # 0
                         /\ n[j] = FxIndex(list, j) /\ IsEffect(list[n[j]])
  BY <1>1, RunsNames
<1> HIDE DEF n
<1>3. /\ a = n[k] /\ b = n[k + 1] /\ a \in 1..d /\ b \in 1..d /\ a < b
      /\ IsEffect(list[a]) /\ IsEffect(list[b])
  BY <1>2 DEF Names
<1>4. /\ DOMAIN l2 = 1..d /\ l2[a] = list[b] /\ l2[b] = list[a]
      /\ \A j \in 1..d : j # a /\ j # b => l2[j] = list[j]
  BY <1>1, <1>3 DEF Swapped
<1>5. /\ DOMAIN r2 = 1..m /\ r2[k] = row[k + 1] /\ r2[k + 1] = row[k]
      /\ \A j \in 1..m : j # k /\ j # k + 1 => r2[j] = row[j]
  BY <1>1 DEF Swapped
<1>6. Len(r2) = m  BY <1>1, <1>5
<1> HIDE DEF d, m, l2, r2
<1>7. EffectPlaces(l2) = S /\ InstPlaces(l2) = InstPlaces(list)
  BY <1>1, <1>3, <1>4 DEF EffectPlaces, InstPlaces
<1>8. ASSUME NEW j \in 1..m  PROVE Match(l2[n[j]], r2[j])
  <2>1. CASE j = k  BY <1>2, <1>3, <1>4, <1>5, <2>1 DEF m
  <2>2. CASE j = k + 1  BY <1>2, <1>3, <1>4, <1>5, <2>2 DEF m
  <2>3. CASE j # k /\ j # k + 1
    <3>1. n[j] # a /\ n[j] # b
      <4>1. k \in 1..m /\ k + 1 \in 1..m  BY DEF m
      <4>2. (j < k \/ k < j) /\ (j < k + 1 \/ k + 1 < j)  BY <1>1, <2>3, <4>1
      <4>3. (n[j] < n[k] \/ n[k] < n[j]) /\ (n[j] < n[k + 1] \/ n[k + 1] < n[j])
        BY <1>2, <4>1, <4>2 DEF Names
      <4>4. n[j] \in Nat /\ a \in Nat /\ b \in Nat  BY <1>2, <1>3
      <4> QED  BY <1>3, <4>3, <4>4
    <3> QED  BY <1>2, <1>4, <1>5, <2>3, <3>1
  <2> QED  BY <2>1, <2>2, <2>3
<1>9. InstFits(l2, slot)
  <2>1. \A j \in InstPlaces(list) : l2[j] = list[j]  BY <1>1, <1>3, <1>4 DEF InstPlaces
  <2> QED  BY <1>2, <1>7, <2>1 DEF InstFits
<1>10. Names(n, m, EffectPlaces(l2))  BY <1>2, <1>7
<1>11. Runs(l2, r2, slot)  BY <1>1, <1>4, <1>6, <1>8, <1>9, <1>10, RunsBy
<1> QED  BY <1>1, <1>3, <1>11 DEF l2, r2, d

-----------------------------------------------------------------------------
(* The lists of the tracks. *)

AtMostOne(list) == \A i, j \in InstPlaces(list) : i = j
Lists  == {list \in Seq(Items) : AtMostOne(list)}
Tracks == [channel : Channels, plugins : Lists]

\* What stays of a list keeps at most one instrument.
LEMMA FoundType ==
    ASSUME NEW list \in Lists
    PROVE  Found(list) \in Lists
<1> DEFINE S == {i \in DOMAIN list : Loads(list[i])}
           m == Cardinality(S)
           n == [k \in 1..m |-> Nth(S, k)]
           found == Found(list)
<1>1. Len(list) \in Nat /\ DOMAIN list = 1..Len(list) /\ list \in Seq(Items)  BY DEF Lists
<1>2. S \subseteq Nat /\ IsFiniteSet(S)
  <2>1. S \in SUBSET (1..Len(list)) /\ IsFiniteSet(1..Len(list))  BY <1>1, FS_Interval
  <2> QED  BY <2>1, FS_Subset
<1>3. m \in Nat /\ Names(n, m, S)
  <2> HIDE DEF S
  <2> QED  BY <1>2, FS_CardinalityType, NthNames
<1>4. \A k \in 1..m : n[k] \in DOMAIN list /\ list[n[k]] \in Items
  <2>1. \A k \in 1..m : n[k] \in S  BY <1>3 DEF Names
  <2> HIDE DEF n, m
  <2> QED  BY <1>1, <2>1
<1>5. found = [k \in 1..m |-> list[n[k]]]  BY DEF Found, Picked
<1> HIDE DEF m, n, found, S
<1>6. found \in Seq(Items) /\ DOMAIN found = 1..m  BY <1>3, <1>4, <1>5
<1>7. ASSUME NEW i \in InstPlaces(found), NEW j \in InstPlaces(found)  PROVE i = j
  <2>1. i \in 1..m /\ j \in 1..m /\ ~IsEffect(list[n[i]]) /\ ~IsEffect(list[n[j]])
    BY <1>5, <1>6 DEF InstPlaces
  <2>2. n[i] = n[j]  BY <1>4, <2>1 DEF Lists, AtMostOne, InstPlaces
  <2>3. n[i] \in Nat  BY <1>1, <1>4, <2>1
  <2>4. ~(i < j) /\ ~(j < i)  BY <1>3, <2>1, <2>2, <2>3 DEF Names
  <2> QED  BY <1>3, <2>1, <2>4
<1>8. found \in Lists  BY <1>6, <1>7 DEF Lists, AtMostOne
<1> QED  BY <1>8 DEF found

\* At most one track is on the channel.
Alone(ts, c) == \A t, u \in DOMAIN ts : ts[t].channel = c /\ ts[u].channel = c => t = u

LEMMA UnsharedIsAlone ==
    ASSUME NEW ts \in Seq(Tracks), NEW c \in Channels
    PROVE  c \notin Shared(ts) <=> Alone(ts, c)
<1> DEFINE O == Of(ts, c)
<1>1. O \in SUBSET (1..Len(ts)) /\ Len(ts) \in Nat  BY DEF Of
<1>2. IsFiniteSet(O)
  <2>1. IsFiniteSet(1..Len(ts))  BY <1>1, FS_Interval
  <2> HIDE DEF O
  <2> QED  BY <1>1, <2>1, FS_Subset
<1>3. Cardinality(O) \in Nat  BY <1>2, FS_CardinalityType
<1>4. c \in Shared(ts) <=> Cardinality(O) > 1  BY DEF Shared
<1>5. Alone(ts, c) <=> \A t, u \in O : t = u  BY DEF Alone, Of
<1> HIDE DEF O
<1>6. ASSUME Cardinality(O) > 1, \A t, u \in O : t = u  PROVE FALSE
  <2>1. O # {}  BY <1>2, <1>6, FS_EmptySet
  <2>2. PICK t \in O : TRUE  BY <2>1
  <2>3. O = {t}  BY <1>6, <2>2
  <2>4. Cardinality(O) = 1  BY <2>3, FS_Singleton
  <2> QED  BY <1>6, <2>4
<1>7. ASSUME ~(Cardinality(O) > 1)  PROVE \A t, u \in O : t = u
  <2>1. Cardinality(O) = 0 \/ Cardinality(O) = 1  BY <1>3, <1>7
  <2>2. CASE Cardinality(O) = 0  BY <1>2, <2>2, FS_EmptySet
  <2>3. CASE Cardinality(O) = 1
    <3>1. \E x : O = {x}  BY <1>2, <2>3, FS_Singleton
    <3> QED  BY <3>1
  <2> QED  BY <2>1, <2>2, <2>3
<1> QED  BY <1>4, <1>5, <1>6, <1>7

ListStep(c, list, t) == IF t.channel = c THEN list \o t.plugins ELSE list
ListedSoFar(q, i, a) ==
    /\ a \in Seq(Items)
    /\ Alone(q.ts, q.c) => \A t \in 1..i : q.ts[t].channel = q.c => a = q.ts[t].plugins
    /\ (\A t \in 1..i : q.ts[t].channel # q.c) => a = <<>>
Listing == INSTANCE Recursion WITH Op <- ListStep, Inv <- ListedSoFar

LEMMA ListedIs ==
    ASSUME NEW ts \in Seq(Tracks), NEW c
    PROVE  /\ Listed(ts, c) \in Seq(Items)
           /\ Alone(ts, c) => \A t \in DOMAIN ts : ts[t].channel = c => Listed(ts, c) = ts[t].plugins
           /\ (\A t \in DOMAIN ts : ts[t].channel # c) => Listed(ts, c) = <<>>
<1> DEFINE q == [ts |-> ts, c |-> c]
           n == Len(ts)
<1>1. n \in Nat /\ DOMAIN ts = 1..n /\ q.ts = ts /\ q.c = c  OBVIOUS
<1> HIDE DEF q, n
<1>2. ListedSoFar(q, 0, <<>>)  BY DEF ListedSoFar
<1>3. ASSUME NEW i \in 1..n, NEW a, ListedSoFar(q, i - 1, a)
      PROVE  ListedSoFar(q, i, ListStep(c, a, ts[i]))
  <2> DEFINE b == ListStep(c, a, ts[i])
  <2>1. ts[i].plugins \in Seq(Items) /\ a \in Seq(Items)
    <3>1. ts[i] \in Tracks  BY <1>1
    <3> QED  BY <1>3, <3>1 DEF Tracks, Lists, ListedSoFar
  <2>2. b \in Seq(Items)  BY <2>1 DEF ListStep
  <2>3. ASSUME Alone(ts, c), NEW t \in 1..i, ts[t].channel = c  PROVE b = ts[t].plugins
    <3>1. CASE t = i
      <4>1. \A u \in 1..i - 1 : ts[u].channel # c
        <5>1. \A u \in 1..i - 1 : u \in DOMAIN ts /\ u # i  BY <1>1
        <5> QED  BY <1>1, <2>3, <3>1, <5>1 DEF Alone
      <4>2. a = <<>>  BY <1>1, <1>3, <4>1 DEF ListedSoFar
      <4>3. b = <<>> \o ts[i].plugins  BY <2>3, <3>1, <4>2 DEF ListStep
      <4> QED  BY <2>1, <3>1, <4>3
    <3>2. CASE t # i
      <4>1. t \in 1..i - 1 /\ t \in DOMAIN ts /\ i \in DOMAIN ts  BY <1>1, <3>2
      <4>2. ts[i].channel # c  BY <2>3, <3>2, <4>1 DEF Alone
      <4> QED  BY <1>1, <1>3, <2>3, <4>1, <4>2 DEF ListedSoFar, ListStep
    <3> QED  BY <3>1, <3>2
  <2>4. ASSUME \A t \in 1..i : ts[t].channel # c  PROVE b = <<>>
    <3>1. (\A t \in 1..i - 1 : ts[t].channel # c) /\ ts[i].channel # c  BY <1>1, <2>4
    <3> QED  BY <1>1, <1>3, <3>1 DEF ListedSoFar, ListStep
  <2> HIDE DEF b
  <2>5. ListedSoFar(q, i, b)  BY <1>1, <2>2, <2>3, <2>4 DEF ListedSoFar
  <2> QED  BY <2>5 DEF b
<1>4. ListedSoFar(q, n, Listing!Fold(c, <<>>, ts))  BY <1>1, <1>2, <1>3, Listing!FoldInvOf
<1>5. Listed(ts, c) = Listing!Fold(c, <<>>, ts)
  BY DEF Listed, ListStep, FoldLeft, MapThenFoldSet, Listing!Fold, Listing!Last, Max
<1> QED  BY <1>1, <1>4, <1>5 DEF ListedSoFar

\* A channel whose tracks stay as they are lists what it did.
Carried(ts, us, c) ==
    /\ \A t \in DOMAIN ts : ts[t].channel = c =>
           \E u \in DOMAIN us : us[u].channel = c /\ us[u].plugins = ts[t].plugins
    /\ \A u \in DOMAIN us : us[u].channel = c => \E t \in DOMAIN ts : ts[t].channel = c

LEMMA SameListed ==
    ASSUME NEW ts \in Seq(Tracks), NEW us \in Seq(Tracks), NEW c,
           Alone(ts, c), Alone(us, c), Carried(ts, us, c)
    PROVE  Listed(us, c) = Listed(ts, c)
<1>1. CASE \E t \in DOMAIN ts : ts[t].channel = c
  <2>1. PICK t \in DOMAIN ts : ts[t].channel = c  BY <1>1
  <2>2. PICK u \in DOMAIN us : us[u].channel = c /\ us[u].plugins = ts[t].plugins
    BY <2>1 DEF Carried
  <2> QED  BY <2>1, <2>2, ListedIs
<1>2. CASE \A t \in DOMAIN ts : ts[t].channel # c
  <2>1. \A u \in DOMAIN us : us[u].channel # c  BY <1>2 DEF Carried
  <2> QED  BY <1>2, <2>1, ListedIs
<1> QED  BY <1>1, <1>2

-----------------------------------------------------------------------------
(* The invariant.                                                             *)

\* A file that was saved whole: each channel's chain, as the file's lists name it, and the
\* patch files of its plug-ins.
Keeps(f, c) ==
    LET fx == EffectsIn(Listed(f.lists, c))
    IN  /\ f.kept[c] = [k \in 1..Len(fx) |-> f.kept[c][k]]
        /\ \A k \in 1..Len(fx) :
             /\ f.kept[c][k] = <<fx[k].plugin, fx[k].on, f.kept[c][k][3]>>
             /\ fx[k].plugin = Eq => f.kept[c][k][3] = [of |-> Eq, v |-> fx[k].v]
             /\ fx[k].plugin # Eq =>
                    {p \in f.patches : p[1] = c /\ p[2] = k} = {<<c, k, f.kept[c][k][3]>>}

FileFits(f) ==
    /\ f.lists \in Seq(Tracks) /\ f.patches \subseteq Channels \X (Nat \ {0}) \X Patch
    /\ f.whole => /\ f.kept = [c \in Channels |-> f.kept[c]]
                  /\ \A c \in Channels : Keeps(f, c)

Typed ==
    /\ tracks \in Seq(Tracks) /\ undo \in Seq(Seq(Tracks))
    /\ chain \in [Channels -> Seq(Hosts)] /\ inst \in [Channels -> Seq(Hosts)]
    /\ shown = NoWindow \/ shown \in Channels \X (Nat \ {0})
    /\ usable \subseteq Plugins

ChainInv ==
    /\ Typed /\ FileFits(file)
    /\ Shared(tracks) \subseteq parted
    /\ ListsMatchChains

LEMMA ChannelsAre ==
    ASSUME PluginChainsAssumption
    PROVE  /\ IsFiniteSet(Channels) /\ Cardinality(Channels) \in Nat \ {0} /\ 0 \in Channels
           /\ Channels = 0..Cardinality(Channels) - 1 /\ -1 \notin Channels
<1>1. PICK n \in Nat : Channels = 0..n  BY DEF PluginChainsAssumption
<1>2. IsFiniteSet(0..n) /\ Cardinality(0..n) = n + 1  BY FS_Interval
<1> QED  BY <1>1, <1>2

LEMMA ItemTypes ==
    ASSUME PluginChainsAssumption
    PROVE  /\ \A p \in Named, on \in BOOLEAN, v \in Int : Item(p, on, v) \in Items
           /\ \A p \in Named : Host(p) \in Hosts
           /\ ~(Eq \in Instruments) /\ Eq \notin Plugins
           /\ \A it \in Items : IsEffect(it) <=> it.plugin \notin Instruments
BY DEF Item, Items, Host, Hosts, Factory, Patch, Named, IsEffect, PluginChainsAssumption, Plugins

LEMMA EmptyRuns == Runs(<<>>, <<>>, <<>>)
<1>1. EffectPlaces(<<>>) = {} /\ InstPlaces(<<>>) = {}  BY DEF EffectPlaces, InstPlaces
<1>2. Names(<<>>, 0, {})  BY DEF Names
<1>3. InstFits(<<>>, <<>>)  BY <1>1, FS_EmptySet DEF InstFits
<1>4. DOMAIN <<>> = 1..0 /\ Len(<<>>) = 0  OBVIOUS
<1>5. \A k \in 1..0 : Match(<<>>[<<>>[k]], <<>>[k])  OBVIOUS
<1> QED  BY <1>1, <1>2, <1>3, <1>4, <1>5, RunsBy

\* The EQ alone, as a new track has it.
LEMMA EqRuns ==
    ASSUME PluginChainsAssumption
    PROVE  /\ <<Item(Eq, TRUE, 0)>> \in Lists /\ <<Host(Eq)>> \in Seq(Hosts)
           /\ Runs(<<Item(Eq, TRUE, 0)>>, <<Host(Eq)>>, <<>>)
<1> DEFINE it == Item(Eq, TRUE, 0)
           h == Host(Eq)
<1>1. it \in Items /\ h \in Hosts /\ IsEffect(it)
  <2>1. Eq \in Named /\ TRUE \in BOOLEAN /\ 0 \in Int  BY DEF Named
  <2>2. it \in Items /\ h \in Hosts  BY <2>1, ItemTypes
  <2>3. it.plugin = Eq  BY DEF Item
  <2> QED  BY <2>2, <2>3, ItemTypes DEF IsEffect
<1>2. Match(it, h)  BY DEF Match, Item, Host, Factory
<1> HIDE DEF it, h
<1>3. Runs(Append(<<>>, it), Append(<<>>, h), <<>>)
  <2>1. <<>> \in Seq(Items) /\ <<>> \in Seq(Hosts)  OBVIOUS
  <2> QED  BY <1>1, <1>2, <2>1, EmptyRuns, EffectAdded
<1>4. Append(<<>>, it) = <<it>> /\ Append(<<>>, h) = <<h>>  OBVIOUS
<1>5. <<it>> \in Seq(Items) /\ <<h>> \in Seq(Hosts)  BY <1>1
<1>6. InstPlaces(<<it>>) = {}  BY <1>1 DEF InstPlaces
<1> QED  BY <1>3, <1>4, <1>5, <1>6 DEF Lists, AtMostOne, it, h

LEMMA ChainsStart ==
    ASSUME PluginChainsAssumption, ChainsInit
    PROVE  ChainInv
<1> DEFINE l == <<Item(Eq, TRUE, 0)>>
           h == <<Host(Eq)>>
<1>1. l \in Lists /\ h \in Seq(Hosts) /\ Runs(l, h, <<>>)  BY EqRuns
<1>2. /\ tracks = <<[channel |-> 0, plugins |-> l]>>
      /\ chain = [c \in Channels |-> IF c = 0 THEN h ELSE <<>>]
      /\ inst = [c \in Channels |-> <<>>] /\ undo = <<>> /\ file = NoFile /\ usable = Plugins
      /\ shown = NoWindow /\ parted = {}
  BY DEF ChainsInit
<1> HIDE DEF l, h
<1>3. tracks \in Seq(Tracks) /\ Len(tracks) = 1 /\ tracks[1] = [channel |-> 0, plugins |-> l]
  BY <1>1, <1>2, ChannelsAre DEF Tracks
<1>4. Typed  BY <1>1, <1>2, <1>3 DEF Typed
<1>5. FileFits(file)  BY <1>2 DEF FileFits, NoFile
<1>6. \A c \in Channels : Alone(tracks, c)  BY <1>3 DEF Alone
<1>7. Shared(tracks) = {}
  <2>1. \A c \in Channels : c \notin Shared(tracks)  BY <1>3, <1>6, UnsharedIsAlone
  <2> QED  BY <2>1 DEF Shared
<1>8. ASSUME NEW c \in Channels  PROVE Runs(Listed(tracks, c), chain[c], inst[c])
  <2>1. CASE c = 0
    <3>1. Listed(tracks, c) = l  BY <1>3, <1>6, <2>1, ListedIs
    <3> QED  BY <1>1, <1>2, <2>1, <3>1
  <2>2. CASE c # 0
    <3>1. Listed(tracks, c) = <<>>
      <4>1. \A t \in DOMAIN tracks : tracks[t].channel # c  BY <1>3, <2>2
      <4> QED  BY <1>3, <4>1, ListedIs
    <3> QED  BY <1>2, <2>2, <3>1, EmptyRuns
  <2> QED  BY <2>1, <2>2
<1> QED  BY <1>2, <1>4, <1>5, <1>7, <1>8 DEF ChainInv, ListsMatchChains

\* A channel no other track shares: what the track lists is what runs.
LEMMA AloneRuns ==
    ASSUME ChainInv, NEW t \in DOMAIN tracks, tracks[t].channel \notin parted
    PROVE  /\ tracks[t].channel \in Channels /\ Alone(tracks, tracks[t].channel)
           /\ Listed(tracks, tracks[t].channel) = tracks[t].plugins
           /\ Runs(tracks[t].plugins, chain[tracks[t].channel], inst[tracks[t].channel])
<1> DEFINE c == tracks[t].channel
<1>1. tracks \in Seq(Tracks) /\ tracks[t] \in Tracks  BY DEF ChainInv, Typed
<1>2. c \in Channels  BY <1>1 DEF Tracks
<1>3. c \notin Shared(tracks)  BY DEF ChainInv
<1>4. Alone(tracks, c)  BY <1>1, <1>2, <1>3, UnsharedIsAlone
<1>5. Listed(tracks, c) = tracks[t].plugins  BY <1>1, <1>4, ListedIs
<1>6. Runs(Listed(tracks, c), chain[c], inst[c])  BY <1>2 DEF ChainInv, ListsMatchChains
<1> QED  BY <1>2, <1>4, <1>5, <1>6

\* The typing of a track whose list is exchanged.
LEMMA ListExchanged ==
    ASSUME NEW ts \in Seq(Tracks), NEW t \in DOMAIN ts, NEW list \in Lists,
           NEW us, us = [ts EXCEPT ![t].plugins = list]
    PROVE  /\ us \in Seq(Tracks) /\ DOMAIN us = DOMAIN ts
           /\ us[t].plugins = list /\ \A u \in DOMAIN ts : us[u].channel = ts[u].channel
           /\ \A u \in DOMAIN ts : u # t => us[u] = ts[u]
<1> DEFINE x == [ts[t] EXCEPT !.plugins = list]
<1>1. us = [ts EXCEPT ![t] = x]  OBVIOUS
<1>2. ts[t] \in Tracks  OBVIOUS
<1>3. x \in Tracks /\ x.plugins = list /\ x.channel = ts[t].channel  BY <1>2 DEF Tracks
<1> HIDE DEF x
<1> QED  BY <1>1, <1>3

\* A channel is shared by its tracks' channels only.
LEMMA SharedByChannels ==
    ASSUME NEW ts \in Seq(Tracks), NEW us \in Seq(Tracks), DOMAIN us = DOMAIN ts,
           \A u \in DOMAIN ts : us[u].channel = ts[u].channel
    PROVE  Shared(us) = Shared(ts) /\ \A c : Alone(us, c) <=> Alone(ts, c)
<1>1. \A c : Of(us, c) = Of(ts, c)  BY DEF Of
<1> QED  BY <1>1 DEF Shared, Alone

\* An edit of one track's list, and of what runs on its channel.
LEMMA TrackEdited ==
    ASSUME ChainInv, NEW t \in DOMAIN tracks, NEW list \in Lists,
           tracks' = [tracks EXCEPT ![t].plugins = list], Typed', UNCHANGED file,
           parted \subseteq parted',
           \A c \in Channels : c # Ch(t) => chain'[c] = chain[c] /\ inst'[c] = inst[c],
           ASSUME Ch(t) \notin parted'
           PROVE  Runs(list, chain'[Ch(t)], inst'[Ch(t)])
    PROVE  ChainInv'
<1>1. tracks \in Seq(Tracks) /\ tracks' \in Seq(Tracks)  BY DEF ChainInv, Typed
<1>2. /\ DOMAIN tracks' = DOMAIN tracks /\ tracks'[t].plugins = list
      /\ \A u \in DOMAIN tracks : tracks'[u].channel = tracks[u].channel
      /\ \A u \in DOMAIN tracks : u # t => tracks'[u] = tracks[u]
  BY <1>1, ListExchanged
<1>3. Shared(tracks') = Shared(tracks) /\ \A c : Alone(tracks', c) <=> Alone(tracks, c)
  BY <1>1, <1>2, SharedByChannels
<1>4. ASSUME NEW c \in Channels, c \notin parted'
      PROVE  Runs(Listed(tracks', c), chain'[c], inst'[c])
  <2>1. c \notin parted /\ c \notin Shared(tracks)  BY <1>4 DEF ChainInv
  <2>2. Alone(tracks, c) /\ Alone(tracks', c)  BY <1>1, <1>3, <2>1, UnsharedIsAlone
  <2>3. CASE c = Ch(t)
    <3>1. tracks'[t].channel = c  BY <1>2, <2>3 DEF Ch
    <3>2. Listed(tracks', c) = list  BY <1>1, <1>2, <2>2, <3>1, ListedIs
    <3> QED  BY <1>4, <2>3, <3>2
  <2>4. CASE c # Ch(t)
    <3>1. \A u \in DOMAIN tracks : tracks[u].channel = c => tracks'[u] = tracks[u]
      BY <1>2, <2>4 DEF Ch
    <3>2. Listed(tracks', c) = Listed(tracks, c)
      <4>1. Carried(tracks, tracks', c)  BY <1>2, <3>1 DEF Carried
      <4> QED  BY <1>1, <2>2, <4>1, SameListed
    <3>3. Runs(Listed(tracks, c), chain[c], inst[c])  BY <2>1 DEF ChainInv, ListsMatchChains
    <3> QED  BY <2>4, <3>2, <3>3
  <2> QED  BY <2>3, <2>4
<1>5. Shared(tracks') \subseteq parted'  BY <1>3 DEF ChainInv
<1>6. FileFits(file')  BY DEF ChainInv
<1>7. ListsMatchChains'  BY <1>4 DEF ListsMatchChains
<1> QED  BY <1>5, <1>6, <1>7 DEF ChainInv

LEMMA EffectOf ==
    ASSUME PluginChainsAssumption, NEW p \in Effects \cup {Eq}
    PROVE  /\ Item(p, TRUE, 0) \in Items /\ Host(p) \in Hosts
           /\ IsEffect(Item(p, TRUE, 0)) /\ Match(Item(p, TRUE, 0), Host(p))
<1>1. p \in Named /\ p \notin Instruments  BY DEF Named, Plugins, PluginChainsAssumption
<1>2. Item(p, TRUE, 0).plugin = p  BY DEF Item
<1>3. TRUE \in BOOLEAN /\ 0 \in Int  OBVIOUS
<1>4. Match(Item(p, TRUE, 0), Host(p))  BY DEF Match, Item, Host, Factory
<1> QED  BY <1>1, <1>2, <1>3, <1>4, ItemTypes DEF IsEffect

LEMMA InstrumentOf ==
    ASSUME PluginChainsAssumption, NEW p \in Instruments
    PROVE  /\ Item(p, TRUE, 0) \in Items /\ Host(p) \in Hosts
           /\ ~IsEffect(Item(p, TRUE, 0)) /\ Host(p).plugin = Item(p, TRUE, 0).plugin
<1>1. p \in Named  BY DEF Named, Plugins
<1>2. Item(p, TRUE, 0).plugin = p /\ Host(p).plugin = p  BY DEF Item, Host
<1>3. TRUE \in BOOLEAN /\ 0 \in Int  OBVIOUS
<1> QED  BY <1>1, <1>2, <1>3, ItemTypes DEF IsEffect

\* A list with one more item.
LEMMA ItemAppended ==
    ASSUME NEW list \in Seq(Items), NEW it \in Items,
           (IsEffect(it) /\ AtMostOne(list)) \/ InstPlaces(list) = {}
    PROVE  Append(list, it) \in Lists
<1> DEFINE d == Len(list)
           l2 == Append(list, it)
<1>1. d \in Nat /\ DOMAIN list = 1..d  OBVIOUS
<1>2. /\ l2 \in Seq(Items) /\ DOMAIN l2 = 1..d + 1 /\ l2[d + 1] = it
      /\ \A j \in 1..d : l2[j] = list[j]
  OBVIOUS
<1> HIDE DEF l2, d
<1>3. CASE IsEffect(it) /\ AtMostOne(list)
  <2>1. InstPlaces(l2) \subseteq InstPlaces(list)  BY <1>1, <1>2, <1>3 DEF InstPlaces
  <2> QED  BY <1>2, <1>3, <2>1 DEF AtMostOne, Lists, l2
<1>4. CASE InstPlaces(list) = {}
  <2>1. InstPlaces(l2) \subseteq {d + 1}  BY <1>1, <1>2, <1>4 DEF InstPlaces
  <2> QED  BY <1>2, <2>1 DEF AtMostOne, Lists, l2
<1> QED  BY <1>3, <1>4

\* The item a panel finds for the k-th effect.
LEMMA IndexIs ==
    ASSUME NEW list \in Seq(Items), NEW k \in Nat \ {0}
    PROVE  \/ FxIndex(list, k) = 0
           \/ /\ FxIndex(list, k) \in 1..Len(list) /\ FxIndex(list, k) # 0
              /\ IsEffect(list[FxIndex(list, k)])
<1> DEFINE S == EffectPlaces(list)
           m == Cardinality(S)
<1>1. Len(list) \in Nat /\ DOMAIN list = 1..Len(list)  OBVIOUS
<1>2. S \subseteq Nat /\ IsFiniteSet(S)  BY <1>1, PlacesFinite
<1>3. m \in Nat /\ \A j \in 1..m : Nth(S, j) \in S
  <2> HIDE DEF S
  <2> QED  BY <1>2, FS_CardinalityType, NthIs
<1>4. CASE m < k  BY <1>4 DEF FxIndex
<1>5. CASE ~(m < k)
  <2>1. k \in 1..m
    <3> HIDE DEF m
    <3> QED  BY <1>3, <1>5
  <2>2. FxIndex(list, k) = Nth(S, k)  BY <1>5 DEF FxIndex
  <2>3. FxIndex(list, k) \in S  BY <1>3, <2>1, <2>2
  <2> QED  BY <1>1, <2>3 DEF EffectPlaces
<1> QED  BY <1>4, <1>5

\* A list with an effect's item changed, taken out or exchanged.
LEMMA ItemChanged ==
    ASSUME NEW list \in Lists, NEW i \in 1..Len(list), NEW it \in Items,
           IsEffect(it), IsEffect(list[i])
    PROVE  [list EXCEPT ![i] = it] \in Lists
<1> DEFINE l2 == [list EXCEPT ![i] = it]
<1>1. list \in Seq(Items) /\ AtMostOne(list)  BY DEF Lists
<1>2. /\ l2 \in Seq(Items) /\ DOMAIN l2 = DOMAIN list /\ DOMAIN list = 1..Len(list)
      /\ \A j \in DOMAIN list : j # i => l2[j] = list[j]
  BY <1>1
<1>3. l2[i] = it  BY <1>1
<1> HIDE DEF l2
<1>4. InstPlaces(l2) \subseteq InstPlaces(list)  BY <1>2, <1>3 DEF InstPlaces
<1>5. l2 \in Lists  BY <1>1, <1>2, <1>4 DEF Lists, AtMostOne
<1> QED  BY <1>5 DEF l2

LEMMA ItemRemoved ==
    ASSUME NEW list \in Lists, NEW i \in 1..Len(list)
    PROVE  RemoveAt(list, i) \in Lists
<1> DEFINE l2 == RemoveAt(list, i)
           d == Len(list)
<1>1. list \in Seq(Items) /\ AtMostOne(list) /\ d \in Nat /\ DOMAIN list = 1..d  BY DEF Lists
<1>2. /\ l2 \in Seq(Items) /\ DOMAIN l2 = 1..d - 1
      /\ \A k \in 1..d - 1 : l2[k] = IF k < i THEN list[k] ELSE list[k + 1]
  BY <1>1, WithoutOne
<1> HIDE DEF l2, d
<1>3. ASSUME NEW j \in InstPlaces(l2)
      PROVE  j \in 1..d - 1 /\ (IF j < i THEN j ELSE j + 1) \in InstPlaces(list)
  <2>1. j \in 1..d - 1 /\ ~IsEffect(l2[j])  BY <1>2 DEF InstPlaces
  <2>2. CASE j < i
    <3>1. j \in 1..d /\ l2[j] = list[j]  BY <1>1, <1>2, <2>1, <2>2
    <3> QED  BY <1>1, <2>1, <2>2, <3>1 DEF InstPlaces
  <2>3. CASE ~(j < i)
    <3>1. j + 1 \in 1..d /\ l2[j] = list[j + 1]  BY <1>1, <1>2, <2>1, <2>3
    <3> QED  BY <1>1, <2>1, <2>3, <3>1 DEF InstPlaces
  <2> QED  BY <2>2, <2>3
<1>4. ASSUME NEW j \in InstPlaces(l2), NEW k \in InstPlaces(l2)  PROVE j = k
  <2>1. j \in 1..d - 1 /\ k \in 1..d - 1  BY <1>3
  <2>2. (IF j < i THEN j ELSE j + 1) = (IF k < i THEN k ELSE k + 1)
    BY <1>1, <1>3 DEF AtMostOne
  <2> QED  BY <1>1, <2>1, <2>2
<1>5. l2 \in Lists  BY <1>2, <1>4 DEF Lists, AtMostOne
<1> QED  BY <1>5 DEF l2

LEMMA ItemsSwapped ==
    ASSUME NEW list \in Lists, NEW a \in 1..Len(list), NEW b \in 1..Len(list),
           IsEffect(list[a]), IsEffect(list[b])
    PROVE  Swapped(list, a, b) \in Lists
<1> DEFINE l1 == [list EXCEPT ![a] = list[b]]
<1>1. list \in Seq(Items) /\ list[a] \in Items /\ list[b] \in Items  BY DEF Lists
<1>2. l1 \in Lists  BY <1>1, ItemChanged
<1>3. Len(l1) = Len(list) /\ IsEffect(l1[b])  BY <1>1
<1> HIDE DEF l1
<1>4. [l1 EXCEPT ![b] = list[a]] \in Lists  BY <1>1, <1>2, <1>3, ItemChanged
<1> QED  BY <1>4 DEF Swapped, l1

LEMMA EffectsKept ==
    ASSUME NEW list \in Lists
    PROVE  EffectsIn(list) \in Lists /\ InstPlaces(EffectsIn(list)) = {}
<1> DEFINE fx == EffectsIn(list)
<1>1. fx \in Seq(Items) /\ \A k \in DOMAIN fx : IsEffect(fx[k])  BY EffectsAre DEF Lists
<1> HIDE DEF fx
<1>2. InstPlaces(fx) = {}  BY <1>1 DEF InstPlaces
<1> QED  BY <1>1, <1>2 DEF Lists, AtMostOne, fx

\* The types of one track and of its channel.
LEMMA TrackTypes ==
    ASSUME ChainInv, NEW t \in DOMAIN tracks
    PROVE  /\ Ch(t) \in Channels /\ Ch(t) = tracks[t].channel /\ tracks[t] \in Tracks
           /\ tracks[t].plugins \in Lists /\ tracks[t].plugins \in Seq(Items)
           /\ chain[Ch(t)] \in Seq(Hosts) /\ inst[Ch(t)] \in Seq(Hosts)
           /\ tracks = [tracks EXCEPT ![t].plugins = tracks[t].plugins]
           /\ DOMAIN chain = Channels /\ DOMAIN inst = Channels
<1>1. tracks \in Seq(Tracks) /\ tracks[t] \in Tracks  BY DEF ChainInv, Typed
<1>2. Ch(t) \in Channels /\ Ch(t) = tracks[t].channel  BY <1>1 DEF Ch, Tracks
<1>3. chain \in [Channels -> Seq(Hosts)] /\ inst \in [Channels -> Seq(Hosts)]
  BY DEF ChainInv, Typed
<1>4. [tracks[t] EXCEPT !.plugins = tracks[t].plugins] = tracks[t]  BY <1>1 DEF Tracks
<1>5. tracks = [tracks EXCEPT ![t].plugins = tracks[t].plugins]
  BY <1>1, <1>4
<1> QED  BY <1>1, <1>2, <1>3, <1>5 DEF Tracks, Lists

LEMMA RunsIndex ==
    ASSUME NEW d \in Nat, NEW list, DOMAIN list = 1..d, NEW row, NEW slot, Runs(list, row, slot),
           NEW k \in 1..Len(row)
    PROVE  /\ FxIndex(list, k) \in 1..d /\ FxIndex(list, k) # 0
           /\ Match(list[FxIndex(list, k)], row[k])
<1> DEFINE n == [j \in 1..Len(row) |-> Nth(EffectPlaces(list), j)]
<1>1. \A j \in 1..Len(row) : /\ Match(list[n[j]], row[j]) /\ n[j] \in 1..d
                             /\ n[j] = FxIndex(list, j) /\ n[j] # 0
  BY RunsNames
<1> HIDE DEF n
<1> QED  BY <1>1

-----------------------------------------------------------------------------
(* The panels keep the invariant.                                             *)

LEMMA AddEffectKeeps ==
    ASSUME PluginChainsAssumption, ChainInv, NEW t \in DOMAIN tracks, NEW p \in Effects \cup {Eq},
           AddEffect(t, p)
    PROVE  ChainInv'
<1> DEFINE c == Ch(t)
           it == Item(p, TRUE, 0)
           list == Append(tracks[t].plugins, it)
<1>1. /\ c \in Channels /\ c = tracks[t].channel /\ tracks[t].plugins \in Lists
      /\ tracks[t].plugins \in Seq(Items) /\ chain[c] \in Seq(Hosts)
      /\ DOMAIN chain = Channels
  BY TrackTypes
<1>2. /\ it \in Items /\ Host(p) \in Hosts /\ IsEffect(it) /\ Match(it, Host(p))
  BY EffectOf
<1> HIDE DEF it
<1>3. list \in Lists  BY <1>1, <1>2, ItemAppended DEF Lists
<1>4. tracks' = [tracks EXCEPT ![t].plugins = list]  BY DEF AddEffect, it
<1>5. chain' = [chain EXCEPT ![c] = Append(chain[c], Host(p))] /\ inst' = inst
  BY DEF AddEffect
<1>6. chain' \in [Channels -> Seq(Hosts)] /\ chain'[c] = Append(chain[c], Host(p))
  <2>1. Append(chain[c], Host(p)) \in Seq(Hosts)  BY <1>1, <1>2
  <2>2. chain \in [Channels -> Seq(Hosts)]  BY DEF ChainInv, Typed
  <2> HIDE DEF c
  <2> QED  BY <1>1, <1>5, <2>1, <2>2
<1>7. shown' = NoWindow \/ shown' \in Channels \X (Nat \ {0})
  <2>1. Len(chain[c]) \in Nat  BY <1>1
  <2>2. shown' = <<c, Len(chain[c]) + 1>> \/ shown' = shown  BY DEF AddEffect
  <2> HIDE DEF c
  <2> QED  BY <1>1, <2>1, <2>2 DEF ChainInv, Typed
<1>8. tracks' \in Seq(Tracks)
  <2>1. tracks \in Seq(Tracks)  BY DEF ChainInv, Typed
  <2> HIDE DEF list
  <2> QED  BY <1>3, <1>4, <2>1, ListExchanged
<1>9. Typed'  BY <1>5, <1>6, <1>7, <1>8 DEF Typed, ChainInv, AddEffect
<1>10. ASSUME c \notin parted'  PROVE Runs(list, chain'[c], inst'[c])
  <2>1. tracks[t].channel \notin parted  BY <1>1, <1>10 DEF AddEffect, Part
  <2>2. Runs(tracks[t].plugins, chain[c], inst[c])  BY <1>1, <2>1, AloneRuns
  <2> QED  BY <1>1, <1>2, <1>5, <1>6, <2>2, EffectAdded
<1>11. parted \subseteq parted' /\ UNCHANGED file  BY DEF AddEffect, Part
<1>12. \A d \in Channels : d # c => chain'[d] = chain[d] /\ inst'[d] = inst[d]
  BY <1>1, <1>5
<1> HIDE DEF list
<1> QED  BY <1>3, <1>4, <1>9, <1>10, <1>11, <1>12, TrackEdited DEF c

LEMMA BrowserKeeps ==
    ASSUME PluginChainsAssumption, ChainInv, NEW t \in DOMAIN tracks, BrowserEffect(t)
    PROVE  ChainInv'
<1> DEFINE c == Ch(t)
           list == tracks[t].plugins
<1>1. /\ c \in Channels /\ list \in Lists /\ tracks = [tracks EXCEPT ![t].plugins = list]
      /\ chain[c] \in Seq(Hosts) /\ DOMAIN chain = Channels
  BY TrackTypes
<1>2. Host(Eq) \in Hosts  BY EffectOf
<1>3. chain' = [chain EXCEPT ![c] = Append(chain[c], Host(Eq))] /\ inst' = inst
  BY DEF BrowserEffect
<1>4. chain' \in [Channels -> Seq(Hosts)]
  <2>1. Append(chain[c], Host(Eq)) \in Seq(Hosts)  BY <1>1, <1>2
  <2>2. chain \in [Channels -> Seq(Hosts)]  BY DEF ChainInv, Typed
  <2> HIDE DEF c
  <2> QED  BY <1>1, <1>3, <2>1, <2>2
<1>5. Typed'  BY <1>3, <1>4 DEF Typed, ChainInv, BrowserEffect
<1>6. c \in parted' /\ parted \subseteq parted' /\ UNCHANGED <<tracks, file>>
  BY DEF BrowserEffect, Part
<1>7. \A d \in Channels : d # c => chain'[d] = chain[d] /\ inst'[d] = inst[d]
  BY <1>1, <1>3
<1>8. tracks' = [tracks EXCEPT ![t].plugins = list]  BY <1>1, <1>6
<1> HIDE DEF list
<1> QED  BY <1>1, <1>5, <1>6, <1>7, <1>8, TrackEdited DEF c

LEMMA AddInstrumentKeeps ==
    ASSUME PluginChainsAssumption, ChainInv, NEW t \in DOMAIN tracks, NEW p \in Instruments,
           AddInstrument(t, p)
    PROVE  ChainInv'
<1> DEFINE c == Ch(t)
           old == tracks[t].plugins
           it == Item(p, TRUE, 0)
           list == IF p \in usable THEN Append(EffectsIn(old), it) ELSE old
           slot == IF p \in usable THEN <<Host(p)>> ELSE <<>>
<1>1. /\ c \in Channels /\ c = tracks[t].channel /\ old \in Lists /\ old \in Seq(Items)
      /\ chain[c] \in Seq(Hosts) /\ DOMAIN inst = Channels
      /\ tracks = [tracks EXCEPT ![t].plugins = old]
  BY TrackTypes
<1>2. it \in Items /\ Host(p) \in Hosts /\ ~IsEffect(it) /\ Host(p).plugin = it.plugin
  BY InstrumentOf
<1> HIDE DEF it
<1>3. /\ EffectsIn(old) \in Seq(Items) /\ InstPlaces(EffectsIn(old)) = {}
  BY <1>1, EffectsAre, EffectsKept
<1>4. list \in Lists
  <2>1. Append(EffectsIn(old), it) \in Lists  BY <1>2, <1>3, ItemAppended
  <2> QED  BY <1>1, <2>1
<1>5. tracks' = [tracks EXCEPT ![t].plugins = list]
  <2>1. CASE p \in usable
    <3>1. tracks' = [tracks EXCEPT ![t].plugins = Append(EffectsIn(old), it)]
      BY <2>1 DEF AddInstrument, it
    <3> QED  BY <2>1, <3>1
  <2>2. CASE p \notin usable
    <3>1. tracks' = tracks /\ list = old  BY <2>2 DEF AddInstrument
    <3> QED  BY <1>1, <3>1
  <2> QED  BY <2>1, <2>2
<1>6. chain' = chain /\ inst' = [inst EXCEPT ![c] = slot]  BY DEF AddInstrument
<1>7. inst' \in [Channels -> Seq(Hosts)] /\ inst'[c] = slot
  <2>1. slot \in Seq(Hosts)
    <3>1. <<Host(p)>> \in Seq(Hosts) /\ <<>> \in Seq(Hosts)  BY <1>2
    <3> QED  BY <3>1
  <2>2. inst \in [Channels -> Seq(Hosts)]  BY DEF ChainInv, Typed
  <2> HIDE DEF c, slot
  <2> QED  BY <1>1, <1>6, <2>1, <2>2
<1>8. tracks' \in Seq(Tracks)
  <2>1. tracks \in Seq(Tracks)  BY DEF ChainInv, Typed
  <2> HIDE DEF list
  <2> QED  BY <1>4, <1>5, <2>1, ListExchanged
<1>9. Typed'  BY <1>6, <1>7, <1>8 DEF Typed, ChainInv, AddInstrument
<1>10. ASSUME c \notin parted'  PROVE Runs(list, chain'[c], inst'[c])
  <2>1. c \notin parted /\ (p \in usable \/ inst[c] = <<>>)
    BY <1>10 DEF AddInstrument, Part
  <2>2. Runs(old, chain[c], inst[c])  BY <1>1, <2>1, AloneRuns
  <2>3. CASE p \in usable
    <3>1. Runs(EffectsIn(old), chain[c], <<>>)  BY <1>1, <2>2, EffectsRun
    <3>2. Runs(Append(EffectsIn(old), it), chain[c], <<Host(p)>>)
      BY <1>2, <1>3, <3>1, InstrumentAdded
    <3> QED  BY <1>6, <1>7, <2>3, <3>2
  <2>4. CASE p \notin usable
    <3>1. list = old /\ slot = inst[c]  BY <2>1, <2>4
    <3> HIDE DEF list, slot
    <3> QED  BY <1>6, <1>7, <2>2, <3>1
  <2> QED  BY <2>3, <2>4
<1>11. parted \subseteq parted' /\ UNCHANGED file  BY DEF AddInstrument, Part
<1>12. \A d \in Channels : d # c => chain'[d] = chain[d] /\ inst'[d] = inst[d]
  BY <1>1, <1>6
<1> HIDE DEF list
<1> QED  BY <1>4, <1>5, <1>9, <1>10, <1>11, <1>12, TrackEdited DEF c

LEMMA RemoveInstrumentKeeps ==
    ASSUME PluginChainsAssumption, ChainInv, NEW t \in DOMAIN tracks, RemoveInstrument(t)
    PROVE  ChainInv'
<1> DEFINE c == Ch(t)
           old == tracks[t].plugins
           list == EffectsIn(old)
<1>1. /\ c \in Channels /\ c = tracks[t].channel /\ old \in Lists /\ old \in Seq(Items)
      /\ DOMAIN inst = Channels
  BY TrackTypes
<1>2. list \in Lists  BY <1>1, EffectsKept
<1>3. tracks' = [tracks EXCEPT ![t].plugins = list]  BY DEF RemoveInstrument
<1>4. chain' = chain /\ inst' = [inst EXCEPT ![c] = <<>>]  BY DEF RemoveInstrument
<1>5. inst' \in [Channels -> Seq(Hosts)] /\ inst'[c] = <<>>
  <2>1. <<>> \in Seq(Hosts)  OBVIOUS
  <2>2. inst \in [Channels -> Seq(Hosts)]  BY DEF ChainInv, Typed
  <2> HIDE DEF c
  <2> QED  BY <1>1, <1>4, <2>1, <2>2
<1>6. tracks' \in Seq(Tracks)
  <2>1. tracks \in Seq(Tracks)  BY DEF ChainInv, Typed
  <2> HIDE DEF list
  <2> QED  BY <1>2, <1>3, <2>1, ListExchanged
<1>7. Typed'  BY <1>4, <1>5, <1>6 DEF Typed, ChainInv, RemoveInstrument
<1>8. ASSUME c \notin parted'  PROVE Runs(list, chain'[c], inst'[c])
  <2>1. c \notin parted  BY <1>8 DEF RemoveInstrument, Part
  <2>2. Runs(old, chain[c], inst[c])  BY <1>1, <2>1, AloneRuns
  <2> QED  BY <1>1, <1>4, <1>5, <2>2, EffectsRun
<1>9. parted \subseteq parted' /\ UNCHANGED file  BY DEF RemoveInstrument, Part
<1>10. \A d \in Channels : d # c => chain'[d] = chain[d] /\ inst'[d] = inst[d]
  BY <1>1, <1>4
<1> HIDE DEF list
<1> QED  BY <1>2, <1>3, <1>7, <1>8, <1>9, <1>10, TrackEdited DEF c

\* A row of the chain given another state.
LEMMA RowTypes ==
    ASSUME ChainInv, NEW c \in Channels, NEW row \in Seq(Hosts),
           chain' = [chain EXCEPT ![c] = row]
    PROVE  /\ chain' \in [Channels -> Seq(Hosts)] /\ chain'[c] = row
           /\ \A d \in Channels : d # c => chain'[d] = chain[d]
<1>1. chain \in [Channels -> Seq(Hosts)]  BY DEF ChainInv, Typed
<1> QED  BY <1>1

LEMMA ToggleKeeps ==
    ASSUME PluginChainsAssumption, ChainInv, NEW t \in DOMAIN tracks, NEW k, Toggle(t, k)
    PROVE  ChainInv'
<1> DEFINE c == Ch(t)
           old == tracks[t].plugins
           row == chain[c]
           i == FxIndex(old, k)
           on == ~row[k].on
           h == [row[k] EXCEPT !.on = on]
           it == [old[i] EXCEPT !.on = on]
           row2 == [row EXCEPT ![k] = h]
           list == IF i = 0 THEN old ELSE [old EXCEPT ![i] = it]
<1>1. /\ c \in Channels /\ c = tracks[t].channel /\ old \in Lists /\ old \in Seq(Items)
      /\ row \in Seq(Hosts) /\ DOMAIN chain = Channels
      /\ tracks = [tracks EXCEPT ![t].plugins = old]
  BY TrackTypes
<1>2. k \in 1..Len(row) /\ DOMAIN row = 1..Len(row) /\ k \in Nat \ {0}
  BY <1>1 DEF Toggle
<1>3. row[k] \in Hosts  BY <1>1, <1>2
<1>4. h \in Hosts /\ h.plugin = row[k].plugin /\ h.on = on /\ h.patch = row[k].patch
  BY <1>3 DEF Hosts
<1>5. \/ i = 0
      \/ i \in 1..Len(old) /\ i # 0 /\ IsEffect(old[i])
  BY <1>1, <1>2, IndexIs
<1>6. ASSUME i # 0
      PROVE  it \in Items /\ IsEffect(it) /\ it.plugin = old[i].plugin /\ it.on = on
             /\ it.v = old[i].v
  <2>1. old[i] \in Items  BY <1>1, <1>5, <1>6
  <2>2. on \in BOOLEAN  BY <1>3 DEF Hosts
  <2> HIDE DEF on
  <2> QED  BY <1>5, <1>6, <2>1, <2>2 DEF Items, IsEffect
<1>7. list \in Lists
  <2>1. CASE i = 0  BY <1>1, <2>1
  <2>2. CASE i # 0
    <3>1. it \in Items /\ IsEffect(it) /\ IsEffect(old[i]) /\ i \in 1..Len(old)
      BY <1>5, <1>6, <2>2
    <3> HIDE DEF it
    <3>2. [old EXCEPT ![i] = it] \in Lists  BY <1>1, <3>1, ItemChanged
    <3> QED  BY <2>2, <3>2
  <2> QED  BY <2>1, <2>2
<1>8. tracks' = [tracks EXCEPT ![t].plugins = list]
  <2>1. CASE i = 0  BY <1>1, <2>1 DEF Toggle
  <2>2. CASE i # 0  BY <2>2 DEF Toggle
  <2> QED  BY <2>1, <2>2
<1>9. chain' = [chain EXCEPT ![c] = row2] /\ inst' = inst  BY DEF Toggle
<1>10. row2 \in Seq(Hosts)
  <2> HIDE DEF h
  <2> QED  BY <1>1, <1>2, <1>4
<1>11. /\ chain' \in [Channels -> Seq(Hosts)] /\ chain'[c] = row2
       /\ \A d \in Channels : d # c => chain'[d] = chain[d]
  <2> HIDE DEF row2, c
  <2> QED  BY <1>1, <1>9, <1>10, RowTypes
<1>12. tracks' \in Seq(Tracks)
  <2>1. tracks \in Seq(Tracks)  BY DEF ChainInv, Typed
  <2> HIDE DEF list
  <2> QED  BY <1>7, <1>8, <2>1, ListExchanged
<1>13. Typed'  BY <1>9, <1>11, <1>12 DEF Typed, ChainInv, Toggle
<1>14. ASSUME c \notin parted'  PROVE Runs(list, chain'[c], inst'[c])
  <2>1. c \notin parted  BY <1>14 DEF Toggle, Part
  <2>2. Runs(old, row, inst[c])  BY <1>1, <2>1, AloneRuns
  <2>3. Len(old) \in Nat /\ DOMAIN old = 1..Len(old)  BY <1>1
  <2>4. i # 0 /\ Match(old[i], row[k])  BY <1>2, <2>2, <2>3, RunsIndex
  <2>5. Match(it, h) /\ it.plugin = row[k].plugin  BY <1>4, <1>6, <2>4 DEF Match
  <2>6. list = [old EXCEPT ![FxIndex(old, k)] = it]  BY <2>4
  <2> HIDE DEF list, it, h
  <2>7. Runs(list, row2, inst[c])  BY <1>2, <2>2, <2>3, <2>5, <2>6, RowChanged
  <2> QED  BY <1>9, <1>11, <2>7
<1>15. parted \subseteq parted' /\ UNCHANGED file  BY DEF Toggle, Part
<1>16. \A d \in Channels : d # c => chain'[d] = chain[d] /\ inst'[d] = inst[d]
  BY <1>9, <1>11
<1> HIDE DEF list
<1> QED  BY <1>7, <1>8, <1>13, <1>14, <1>15, <1>16, TrackEdited DEF c

LEMMA RemoveEffectKeeps ==
    ASSUME PluginChainsAssumption, ChainInv, NEW t \in DOMAIN tracks, NEW k, RemoveEffect(t, k)
    PROVE  ChainInv'
<1> DEFINE c == Ch(t)
           old == tracks[t].plugins
           row == chain[c]
           i == FxIndex(old, k)
           row2 == RemoveAt(row, k)
           list == IF i = 0 THEN old ELSE RemoveAt(old, i)
<1>1. /\ c \in Channels /\ c = tracks[t].channel /\ old \in Lists /\ old \in Seq(Items)
      /\ row \in Seq(Hosts) /\ DOMAIN chain = Channels
      /\ tracks = [tracks EXCEPT ![t].plugins = old]
  BY TrackTypes
<1>2. k \in 1..Len(row) /\ DOMAIN row = 1..Len(row) /\ k \in Nat \ {0}
  BY <1>1 DEF RemoveEffect
<1>3. i = 0 \/ i \in 1..Len(old)  BY <1>1, <1>2, IndexIs
<1>4. list \in Lists
  <2>1. i \in 1..Len(old) => RemoveAt(old, i) \in Lists  BY <1>1, ItemRemoved
  <2> QED  BY <1>1, <1>3, <2>1
<1>5. tracks' = [tracks EXCEPT ![t].plugins = list]
  <2>1. CASE i = 0  BY <1>1, <2>1 DEF RemoveEffect
  <2>2. CASE i # 0  BY <2>2 DEF RemoveEffect
  <2> QED  BY <2>1, <2>2
<1>6. chain' = [chain EXCEPT ![c] = row2] /\ inst' = inst  BY DEF RemoveEffect
<1>7. row2 \in Seq(Hosts)  BY <1>1, <1>2, WithoutOne
<1>8. /\ chain' \in [Channels -> Seq(Hosts)] /\ chain'[c] = row2
      /\ \A d \in Channels : d # c => chain'[d] = chain[d]
  <2> HIDE DEF row2, c
  <2> QED  BY <1>1, <1>6, <1>7, RowTypes
<1>9. tracks' \in Seq(Tracks)
  <2>1. tracks \in Seq(Tracks)  BY DEF ChainInv, Typed
  <2> HIDE DEF list
  <2> QED  BY <1>4, <1>5, <2>1, ListExchanged
<1>10. Typed'  BY <1>6, <1>8, <1>9 DEF Typed, ChainInv, RemoveEffect
<1>11. ASSUME c \notin parted'  PROVE Runs(list, chain'[c], inst'[c])
  <2>1. c \notin parted  BY <1>11 DEF RemoveEffect, Part
  <2>2. Runs(old, row, inst[c])  BY <1>1, <2>1, AloneRuns
  <2>3. i \in 1..Len(old) /\ Runs(RemoveAt(old, i), row2, inst[c])
    BY <1>1, <1>2, <2>2, EffectRemoved
  <2>4. list = RemoveAt(old, i)  BY <2>3
  <2> HIDE DEF list, row2
  <2> QED  BY <1>6, <1>8, <2>3, <2>4
<1>12. parted \subseteq parted' /\ UNCHANGED file  BY DEF RemoveEffect, Part
<1>13. \A d \in Channels : d # c => chain'[d] = chain[d] /\ inst'[d] = inst[d]
  BY <1>6, <1>8
<1> HIDE DEF list
<1> QED  BY <1>4, <1>5, <1>10, <1>11, <1>12, <1>13, TrackEdited DEF c

LEMMA MoveEffectKeeps ==
    ASSUME PluginChainsAssumption, ChainInv, NEW t \in DOMAIN tracks, NEW k, MoveEffect(t, k)
    PROVE  ChainInv'
<1> DEFINE c == Ch(t)
           old == tracks[t].plugins
           row == chain[c]
           a == FxIndex(old, k)
           b == FxIndex(old, k + 1)
           row2 == Swapped(row, k, k + 1)
           list == IF 0 \in {a, b} THEN old ELSE Swapped(old, a, b)
<1>1. /\ c \in Channels /\ c = tracks[t].channel /\ old \in Lists /\ old \in Seq(Items)
      /\ row \in Seq(Hosts) /\ DOMAIN chain = Channels
      /\ tracks = [tracks EXCEPT ![t].plugins = old]
  BY TrackTypes
<1>2. /\ k \in 1..Len(row) /\ k + 1 \in 1..Len(row) /\ DOMAIN row = 1..Len(row)
      /\ k \in Nat \ {0} /\ k + 1 \in Nat \ {0}
  BY <1>1 DEF MoveEffect
<1>3. /\ a = 0 \/ (a \in 1..Len(old) /\ IsEffect(old[a]))
      /\ b = 0 \/ (b \in 1..Len(old) /\ IsEffect(old[b]))
  BY <1>1, <1>2, IndexIs
<1>4. list \in Lists
  <2>1. 0 \notin {a, b} => Swapped(old, a, b) \in Lists  BY <1>1, <1>3, ItemsSwapped
  <2> QED  BY <1>1, <2>1
<1>5. tracks' = [tracks EXCEPT ![t].plugins = list]
  <2>1. CASE 0 \in {a, b}  BY <1>1, <2>1 DEF MoveEffect
  <2>2. CASE 0 \notin {a, b}  BY <2>2 DEF MoveEffect
  <2> QED  BY <2>1, <2>2
<1>6. chain' = [chain EXCEPT ![c] = row2] /\ inst' = inst  BY DEF MoveEffect
<1>7. row2 \in Seq(Hosts)  BY <1>1, <1>2 DEF Swapped
<1>8. /\ chain' \in [Channels -> Seq(Hosts)] /\ chain'[c] = row2
      /\ \A d \in Channels : d # c => chain'[d] = chain[d]
  <2> HIDE DEF row2, c
  <2> QED  BY <1>1, <1>6, <1>7, RowTypes
<1>9. tracks' \in Seq(Tracks) /\ undo' \in Seq(Seq(Tracks))
  <2>1. tracks \in Seq(Tracks) /\ undo \in Seq(Seq(Tracks))  BY DEF ChainInv, Typed
  <2>2. undo' = Append(undo, tracks)  BY DEF MoveEffect, Snapshot
  <2> HIDE DEF list
  <2>3. tracks' \in Seq(Tracks)  BY <1>4, <1>5, <2>1, ListExchanged
  <2> QED  BY <2>1, <2>2, <2>3
<1>10. Typed'  BY <1>6, <1>8, <1>9 DEF Typed, ChainInv, MoveEffect
<1>11. ASSUME c \notin parted'  PROVE Runs(list, chain'[c], inst'[c])
  <2>1. c \notin parted  BY <1>11 DEF MoveEffect, Part
  <2>2. Runs(old, row, inst[c])  BY <1>1, <2>1, AloneRuns
  <2>3. a # 0 /\ b # 0 /\ Runs(Swapped(old, a, b), row2, inst[c])
    BY <1>1, <1>2, <2>2, EffectsSwapped
  <2>4. list = Swapped(old, a, b)  BY <2>3
  <2> HIDE DEF list, row2
  <2> QED  BY <1>6, <1>8, <2>3, <2>4
<1>12. parted \subseteq parted' /\ UNCHANGED file  BY DEF MoveEffect, Part
<1>13. \A d \in Channels : d # c => chain'[d] = chain[d] /\ inst'[d] = inst[d]
  BY <1>6, <1>8
<1> HIDE DEF list
<1> QED  BY <1>4, <1>5, <1>10, <1>11, <1>12, <1>13, TrackEdited DEF c

LEMMA OpenWindowKeeps ==
    ASSUME PluginChainsAssumption, ChainInv, NEW t \in DOMAIN tracks, NEW k, OpenWindow(t, k)
    PROVE  ChainInv'
<1>1. Ch(t) \in Channels /\ chain[Ch(t)] \in Seq(Hosts)  BY TrackTypes
<1>2. k \in Nat \ {0}  BY <1>1 DEF OpenWindow
<1>3. shown' \in Channels \X (Nat \ {0})  BY <1>1, <1>2 DEF OpenWindow
<1>4. Typed'  BY <1>3 DEF Typed, ChainInv, OpenWindow
<1>5. ListsMatchChains' /\ Shared(tracks') \subseteq parted' /\ FileFits(file')
  BY DEF ChainInv, ListsMatchChains, OpenWindow
<1> QED  BY <1>4, <1>5 DEF ChainInv

LEMMA TurnKnobKeeps ==
    ASSUME PluginChainsAssumption, ChainInv, NEW c \in Channels, NEW k, TurnKnob(c, k)
    PROVE  ChainInv'
<1> DEFINE row == chain[c]
           p2 == [row[k].patch EXCEPT !.v = 1]
           h == [row[k] EXCEPT !.patch = p2]
           row2 == [row EXCEPT ![k] = h]
<1>1. row \in Seq(Hosts) /\ k \in 1..Len(row) /\ DOMAIN row = 1..Len(row)
  <2>1. row \in Seq(Hosts)  BY DEF ChainInv, Typed
  <2> QED  BY <2>1 DEF TurnKnob
<1>2. row[k] \in Hosts /\ row[k].plugin # Eq  BY <1>1 DEF TurnKnob
<1>3. h \in Hosts /\ h.plugin = row[k].plugin /\ h.on = row[k].on
  <2>1. p2 \in Patch  BY <1>2 DEF Hosts, Patch
  <2> HIDE DEF p2
  <2> QED  BY <1>2, <2>1 DEF Hosts
<1>4. chain' = [chain EXCEPT ![c] = row2]  BY DEF TurnKnob
<1>5. row2 \in Seq(Hosts)
  <2> HIDE DEF h
  <2> QED  BY <1>1, <1>3
<1>6. /\ chain' \in [Channels -> Seq(Hosts)] /\ chain'[c] = row2
      /\ \A d \in Channels : d # c => chain'[d] = chain[d]
  <2> HIDE DEF row2
  <2> QED  BY <1>4, <1>5, RowTypes
<1>7. Typed'  BY <1>6 DEF Typed, ChainInv, TurnKnob
<1>8. ASSUME NEW d \in Channels, d \notin parted
      PROVE  Runs(Listed(tracks, d), chain'[d], inst[d])
  <2>1. Runs(Listed(tracks, d), chain[d], inst[d])  BY <1>8 DEF ChainInv, ListsMatchChains
  <2>2. CASE d = c
    <3> HIDE DEF h
    <3>1. Runs(Listed(tracks, c), row2, inst[c])
      BY <1>1, <1>2, <1>3, <2>1, <2>2, KnobTurned
    <3> QED  BY <1>6, <2>2, <3>1
  <2>3. CASE d # c  BY <1>6, <2>1, <2>3
  <2> QED  BY <2>2, <2>3
<1>9. ListsMatchChains'  BY <1>8 DEF ListsMatchChains, TurnKnob
<1> QED  BY <1>7, <1>9 DEF ChainInv, TurnKnob

\* What trackFxPlugin finds in the tracks before the t-th: of a channel's only track,
\* nothing.
LEMMA NoneBefore ==
    ASSUME NEW ts \in Seq(Tracks), NEW t \in DOMAIN ts, NEW c
    PROVE  /\ Len(EffectsIn(Listed(SubSeq(ts, 1, t - 1), c))) \in Nat
           /\ Alone(ts, c) /\ ts[t].channel = c =>
                  Len(EffectsIn(Listed(SubSeq(ts, 1, t - 1), c))) = 0
<1> DEFINE us == SubSeq(ts, 1, t - 1)
<1>1. us \in Seq(Tracks) /\ DOMAIN us = 1..t - 1 /\ \A u \in 1..t - 1 : us[u] = ts[u]
  OBVIOUS
<1>2. \A u \in 1..t - 1 : u \in DOMAIN ts /\ u # t  OBVIOUS
<1> HIDE DEF us
<1>3. Listed(us, c) \in Seq(Items)  BY <1>1, ListedIs
<1>4. EffectsIn(Listed(us, c)) \in Seq(Items)  BY <1>3, EffectsAre
<1>5. ASSUME Alone(ts, c), ts[t].channel = c  PROVE Len(EffectsIn(Listed(us, c))) = 0
  <2>1. \A u \in DOMAIN us : us[u].channel # c  BY <1>1, <1>2, <1>5 DEF Alone
  <2>2. Listed(us, c) = <<>>  BY <1>1, <2>1, ListedIs
  <2>3. Len(EffectsIn(<<>>)) = 0  BY EmptyRuns DEF Runs
  <2> QED  BY <2>2, <2>3
<1> QED  BY <1>4, <1>5 DEF us

\* A parameter set in the tracks of a channel, and in the item of its only one.
ParamSet(ts, us, c, k, v) ==
    /\ us \in Seq(Tracks) /\ DOMAIN us = DOMAIN ts
    /\ \A t \in DOMAIN ts : /\ us[t].channel = ts[t].channel
                            /\ ts[t].channel # c => us[t] = ts[t]
    /\ Alone(ts, c) => \A t \in DOMAIN ts : \A i \in Nat \ {0} :
           ts[t].channel = c /\ i = FxIndex(ts[t].plugins, k) =>
               us[t].plugins = [ts[t].plugins EXCEPT ![i] = [ts[t].plugins[i] EXCEPT !.v = v]]

LEMMA ParamTypes ==
    ASSUME PluginChainsAssumption, NEW ts \in Seq(Tracks), NEW c, NEW k \in Nat \ {0}, NEW v
    PROVE  v \in Int => ParamSet(ts, WithParam(ts, c, k, v), c, k, v)
<1> SUFFICES ASSUME v \in Int  PROVE ParamSet(ts, WithParam(ts, c, k, v), c, k, v)  OBVIOUS
<1> DEFINE us == WithParam(ts, c, k, v)
           earlier(t) == Len(EffectsIn(Listed(SubSeq(ts, 1, t - 1), c)))
           at(t) == IF k > earlier(t) THEN FxIndex(ts[t].plugins, k - earlier(t)) ELSE 0
           it(t) == [ts[t].plugins[at(t)] EXCEPT !.v = v]
           list(t) == [ts[t].plugins EXCEPT ![at(t)] = it(t)]
<1>1. us = [t \in DOMAIN ts |-> IF ts[t].channel # c \/ at(t) = 0 THEN ts[t]
                                ELSE [ts[t] EXCEPT !.plugins = list(t)]]
  BY DEF WithParam
<1>2. \A t \in DOMAIN ts : /\ earlier(t) \in Nat
                           /\ Alone(ts, c) /\ ts[t].channel = c => earlier(t) = 0
  BY NoneBefore
<1> HIDE DEF us, earlier
<1>3. ASSUME NEW t \in DOMAIN ts  PROVE us[t] \in Tracks /\ us[t].channel = ts[t].channel
  <2>1. ts[t] \in Tracks /\ ts[t].plugins \in Lists /\ ts[t].plugins \in Seq(Items)
    <3>1. ts[t] \in Tracks  OBVIOUS
    <3> QED  BY <3>1 DEF Tracks, Lists
  <2>2. CASE at(t) = 0  BY <1>1, <2>1, <2>2
  <2>3. CASE at(t) # 0
    <3>1. at(t) \in 1..Len(ts[t].plugins) /\ IsEffect(ts[t].plugins[at(t)])
      <4>1. k > earlier(t) /\ at(t) = FxIndex(ts[t].plugins, k - earlier(t))  BY <2>3
      <4>2. k - earlier(t) \in Nat \ {0}  BY <1>2, <4>1
      <4> QED  BY <2>1, <2>3, <4>1, <4>2, IndexIs
    <3> HIDE DEF at
    <3>2. it(t) \in Items /\ IsEffect(it(t))
      <4>1. ts[t].plugins[at(t)] \in Items  BY <2>1, <3>1
      <4> QED  BY <3>1, <4>1 DEF Items, IsEffect
    <3> HIDE DEF it
    <3>3. list(t) \in Lists  BY <2>1, <3>1, <3>2, ItemChanged
    <3> HIDE DEF list
    <3> QED  BY <1>1, <2>1, <3>3 DEF Tracks
  <2> QED  BY <2>2, <2>3
<1>4. ASSUME NEW t \in DOMAIN ts, ts[t].channel # c  PROVE us[t] = ts[t]
  BY <1>1, <1>4
<1>5. ASSUME Alone(ts, c), NEW t \in DOMAIN ts, ts[t].channel = c,
             NEW i \in Nat \ {0}, i = FxIndex(ts[t].plugins, k)
      PROVE  us[t].plugins = [ts[t].plugins EXCEPT ![i] = [ts[t].plugins[i] EXCEPT !.v = v]]
  <2>1. earlier(t) = 0  BY <1>2, <1>5
  <2>2. at(t) = i  BY <1>5, <2>1
  <2>3. us[t] = [ts[t] EXCEPT !.plugins = list(t)]
    <3> HIDE DEF list
    <3> QED  BY <1>1, <1>5, <2>2
  <2>4. ts[t] \in Tracks  OBVIOUS
  <2>5. us[t].plugins = list(t)
    <3> HIDE DEF list
    <3> QED  BY <2>3, <2>4 DEF Tracks
  <2> QED  BY <2>2, <2>5
<1>6. DOMAIN us = DOMAIN ts /\ us \in Seq(Tracks)
  <2> HIDE DEF at, list
  <2>1. DOMAIN us = 1..Len(ts) /\ us = [t \in 1..Len(ts) |-> us[t]]  BY <1>1
  <2>2. Len(ts) \in Nat /\ DOMAIN ts = 1..Len(ts)  OBVIOUS
  <2>3. \A t \in 1..Len(ts) : us[t] \in Tracks  BY <1>3, <2>2
  <2>4. [t \in 1..Len(ts) |-> us[t]] \in Seq(Tracks)  BY <2>2, <2>3
  <2> QED  BY <2>1, <2>2, <2>4
<1>7. ParamSet(ts, us, c, k, v)  BY <1>3, <1>4, <1>5, <1>6 DEF ParamSet
<1> QED  BY <1>7 DEF us

\* A slider of the window: the effect at that place, and its item.
LEMMA SetParamKeeps ==
    ASSUME PluginChainsAssumption, ChainInv, NEW v \in Int, SetParam(v)
    PROVE  ChainInv'
<1> DEFINE c == shown[1]
           k == shown[2]
           row == chain[c]
           p2 == [row[k].patch EXCEPT !.v = v]
           h == [row[k] EXCEPT !.patch = p2]
           row2 == [row EXCEPT ![k] = h]
<1>1. c \in Channels /\ k \in Nat \ {0} /\ tracks \in Seq(Tracks) /\ row \in Seq(Hosts)
  <2>1. shown \in Channels \X (Nat \ {0})  BY DEF ChainInv, Typed, SetParam
  <2>2. c \in Channels /\ k \in Nat \ {0}  BY <2>1
  <2>3. chain \in [Channels -> Seq(Hosts)]  BY DEF ChainInv, Typed
  <2> HIDE DEF c, k
  <2> QED  BY <2>2, <2>3 DEF ChainInv, Typed
<1>2. UNCHANGED <<inst, undo, file, usable, parted>>  BY DEF SetParam
<1>3. CASE ~(k \in DOMAIN row /\ row[k].plugin = Eq)
  <2>1. shown' = NoWindow /\ UNCHANGED <<chain, tracks>>  BY <1>3 DEF SetParam
  <2>2. Typed'  BY <1>2, <2>1 DEF Typed, ChainInv
  <2> QED  BY <1>2, <2>1, <2>2 DEF ChainInv, ListsMatchChains
<1>4. CASE k \in DOMAIN row /\ row[k].plugin = Eq
  <2> DEFINE us == WithParam(tracks, c, k, v)
  <2>1. chain' = [chain EXCEPT ![c] = row2] /\ tracks' = us /\ shown' = shown
    BY <1>4 DEF SetParam
  <2>2. row[k] \in Hosts /\ DOMAIN row = 1..Len(row) /\ k \in 1..Len(row)
    <3> HIDE DEF k, row
    <3> QED  BY <1>1, <1>4
  <2>3. /\ h \in Hosts /\ h.plugin = row[k].plugin /\ h.on = row[k].on /\ h.patch.v = v
    <3>1. p2 \in Patch /\ p2.of = row[k].patch.of /\ p2.v = v  BY <2>2 DEF Hosts, Patch
    <3> HIDE DEF p2
    <3> QED  BY <2>2, <3>1 DEF Hosts
  <2>4. row2 \in Seq(Hosts)
    <3> HIDE DEF h, k, row
    <3> QED  BY <1>1, <2>2, <2>3
  <2>5. /\ chain' \in [Channels -> Seq(Hosts)] /\ chain'[c] = row2
        /\ \A d \in Channels : d # c => chain'[d] = chain[d]
    <3> HIDE DEF row2, c
    <3> QED  BY <1>1, <2>1, <2>4, RowTypes
  <2>6. ParamSet(tracks, us, c, k, v)
    <3> HIDE DEF c, k
    <3> QED  BY <1>1, ParamTypes
  <2> HIDE DEF us, c, k
  <2>7. Typed'  BY <1>2, <2>1, <2>5, <2>6 DEF Typed, ChainInv, ParamSet
  <2>8. Shared(us) = Shared(tracks) /\ \A d : Alone(us, d) <=> Alone(tracks, d)
    BY <1>1, <2>6, SharedByChannels DEF ParamSet
  <2>9. ASSUME NEW d \in Channels, d \notin parted
        PROVE  Runs(Listed(us, d), chain'[d], inst[d])
    <3>1. d \notin Shared(tracks)  BY <2>9 DEF ChainInv
    <3>2. Alone(tracks, d) /\ Alone(us, d)  BY <1>1, <2>8, <3>1, UnsharedIsAlone
    <3>3. Runs(Listed(tracks, d), chain[d], inst[d])  BY <2>9 DEF ChainInv, ListsMatchChains
    <3>4. CASE d # c
      <4>1. Carried(tracks, us, d)  BY <2>6, <3>4 DEF Carried, ParamSet
      <4>2. Listed(us, d) = Listed(tracks, d)  BY <1>1, <2>6, <3>2, <4>1, SameListed DEF ParamSet
      <4> QED  BY <2>5, <3>3, <3>4, <4>2
    <3>5. CASE d = c /\ \E t \in DOMAIN tracks : tracks[t].channel = c
      <4>1. PICK t \in DOMAIN tracks : tracks[t].channel = c  BY <3>5
      <4> DEFINE old == tracks[t].plugins
                 i == FxIndex(old, k)
                 it == [old[i] EXCEPT !.v = v]
      <4>2. Listed(tracks, c) = old /\ Listed(us, c) = us[t].plugins
        <5>1. us \in Seq(Tracks) /\ t \in DOMAIN us /\ us[t].channel = c
          BY <2>6, <4>1 DEF ParamSet
        <5>2. Alone(tracks, c) /\ Alone(us, c)  BY <3>2, <3>5
        <5>3. Listed(tracks, c) = old  BY <1>1, <4>1, <5>2, ListedIs
        <5>4. Listed(us, c) = us[t].plugins  BY <5>1, <5>2, ListedIs
        <5> QED  BY <5>3, <5>4
      <4>3. old \in Seq(Items) /\ Len(old) \in Nat /\ DOMAIN old = 1..Len(old)
        <5>1. tracks[t] \in Tracks  BY <1>1
        <5>2. old \in Seq(Items)  BY <5>1 DEF Tracks, Lists
        <5> HIDE DEF old
        <5> QED  BY <5>2
      <4> HIDE DEF old
      <4>4. Runs(old, row, inst[c])  BY <3>3, <3>5, <4>2
      <4>5. i \in 1..Len(old) /\ i # 0 /\ Match(old[i], row[k])
        BY <2>2, <4>3, <4>4, RunsIndex
      <4>6. us[t].plugins = [old EXCEPT ![i] = it]
        <5>1. i \in Nat \ {0}  BY <4>3, <4>5
        <5> HIDE DEF i
        <5>2. us[t].plugins = [tracks[t].plugins EXCEPT ![i] = [tracks[t].plugins[i] EXCEPT !.v = v]]
          BY <2>6, <3>2, <3>5, <4>1, <5>1 DEF ParamSet, i, old
        <5> QED  BY <5>2 DEF old
      <4>7. Match(it, h) /\ it.plugin = row[k].plugin
        <5>1. old[i] \in Items  BY <4>3, <4>5
        <5>2. it.plugin = old[i].plugin /\ it.on = old[i].on /\ it.v = v  BY <5>1 DEF Items
        <5> HIDE DEF it, h
        <5> QED  BY <2>3, <4>5, <5>2 DEF Match
      <4> HIDE DEF it, h, row
      <4>8. Runs(us[t].plugins, row2, inst[c])
        BY <2>2, <4>3, <4>4, <4>6, <4>7, RowChanged
      <4> QED  BY <2>5, <3>5, <4>2, <4>8
    <3>6. CASE d = c /\ \A t \in DOMAIN tracks : tracks[t].channel # c
      <4>1. Listed(tracks, c) = <<>>  BY <1>1, <3>6, ListedIs
      <4>2. Len(EffectsIn(<<>>)) = 0  BY EmptyRuns DEF Runs
      <4>3. Len(row) = 0  BY <3>3, <3>6, <4>1, <4>2 DEF Runs
      <4> QED  BY <2>2, <4>3
    <3> QED  BY <3>4, <3>5, <3>6
  <2>10. ListsMatchChains'  BY <1>2, <2>1, <2>9 DEF ListsMatchChains
  <2> QED  BY <1>2, <2>1, <2>7, <2>8, <2>10 DEF ChainInv
<1> QED  BY <1>3, <1>4

-----------------------------------------------------------------------------
(* Tracks come and go.                                                        *)

LEMMA TracksExchanged ==
    ASSUME Typed', FileFits(file'),
           \A c \in Channels : c \notin parted' =>
               Alone(tracks', c) /\ Runs(Listed(tracks', c), chain'[c], inst'[c])
    PROVE  ChainInv'
<1>1. tracks' \in Seq(Tracks)  BY DEF Typed
<1>2. Shared(tracks') \subseteq parted'
  <2>1. \A c \in Channels : c \notin parted' => c \notin Shared(tracks')
    BY <1>1, UnsharedIsAlone
  <2> QED  BY <2>1 DEF Shared
<1>3. ListsMatchChains'  BY DEF ListsMatchChains
<1> QED  BY <1>2, <1>3 DEF ChainInv

LEMMA RunsOn ==
    ASSUME ChainInv, NEW c \in Channels, c \notin parted, tracks' \in Seq(Tracks),
           Alone(tracks', c), Carried(tracks, tracks', c),
           chain'[c] = chain[c], inst'[c] = inst[c]
    PROVE  Runs(Listed(tracks', c), chain'[c], inst'[c])
<1>1. tracks \in Seq(Tracks) /\ Alone(tracks, c)
  BY UnsharedIsAlone DEF ChainInv, Typed
<1>2. Listed(tracks', c) = Listed(tracks, c)  BY <1>1, SameListed
<1> QED  BY <1>2 DEF ChainInv, ListsMatchChains

LEMMA AddTrackKeeps ==
    ASSUME PluginChainsAssumption, ChainInv, AddTrack
    PROVE  ChainInv'
<1> DEFINE n == Len(tracks)
           c == n % Cardinality(Channels)
           l == <<Item(Eq, TRUE, 0)>>
           row == IF HasEq(c) THEN chain[c] ELSE Append(chain[c], Host(Eq))
           x == [channel |-> c, plugins |-> IF HasEq(c) THEN <<>> ELSE l]
<1>1. tracks \in Seq(Tracks) /\ undo \in Seq(Seq(Tracks)) /\ n \in Nat /\ DOMAIN tracks = 1..n
  BY DEF ChainInv, Typed
<1>2. c \in Channels
  <2>1. /\ Cardinality(Channels) \in Nat \ {0} /\ Channels = 0..Cardinality(Channels) - 1
    BY ChannelsAre
  <2>2. \A m \in Nat \ {0} : n % m \in 0..m - 1  BY <1>1
  <2> QED  BY <2>1, <2>2
<1>3. l \in Lists /\ <<Host(Eq)>> \in Seq(Hosts) /\ Host(Eq) \in Hosts
      /\ Runs(l, <<Host(Eq)>>, <<>>)
  BY EqRuns, EffectOf
<1>4. x \in Tracks /\ x.channel = c
  <2>1. <<>> \in Lists
    <3>1. <<>> \in Seq(Items) /\ InstPlaces(<<>>) = {}  BY DEF InstPlaces
    <3> QED  BY <3>1 DEF Lists, AtMostOne
  <2> HIDE DEF l, c
  <2> QED  BY <1>2, <1>3, <2>1 DEF Tracks
<1>5. /\ tracks' = Append(tracks, x) /\ inst' = inst /\ UNCHANGED <<file, usable, shown>>
      /\ undo' = Append(undo, tracks)
  BY DEF AddTrack, Snapshot
<1>6. /\ tracks' \in Seq(Tracks) /\ DOMAIN tracks' = 1..n + 1 /\ tracks'[n + 1] = x
      /\ \A t \in 1..n : tracks'[t] = tracks[t]
  <2> HIDE DEF x
  <2> QED  BY <1>1, <1>4, <1>5
<1>7. undo' \in Seq(Seq(Tracks))  BY <1>1, <1>5
<1>8. chain[c] \in Seq(Hosts) /\ chain \in [Channels -> Seq(Hosts)]
  <2>1. chain \in [Channels -> Seq(Hosts)]  BY DEF ChainInv, Typed
  <2> HIDE DEF c
  <2> QED  BY <1>2, <2>1
<1>9. chain' = [chain EXCEPT ![c] = row]
  <2>1. CASE HasEq(c)
    <3>1. chain' = chain /\ row = chain[c]  BY <2>1 DEF AddTrack
    <3> HIDE DEF c, row
    <3> QED  BY <1>2, <1>8, <3>1
  <2>2. CASE ~HasEq(c)
    <3>1. chain' = [chain EXCEPT ![c] = Append(chain[c], Host(Eq))]  BY <2>2 DEF AddTrack
    <3>2. row = Append(chain[c], Host(Eq))  BY <2>2
    <3> HIDE DEF c, row
    <3> QED  BY <3>1, <3>2
  <2> QED  BY <2>1, <2>2
<1>10. parted' = parted \cup (IF Of(tracks, c) # {} \/ chain[c] # <<>> \/ inst[c] # <<>>
                              THEN {c} ELSE {})
  BY DEF AddTrack, Part
<1>11. /\ chain' \in [Channels -> Seq(Hosts)] /\ chain'[c] = row
       /\ \A d \in Channels : d # c => chain'[d] = chain[d]
  <2>1. row \in Seq(Hosts)
    <3>1. Append(chain[c], Host(Eq)) \in Seq(Hosts)  BY <1>3, <1>8
    <3> QED  BY <1>8, <3>1
  <2> HIDE DEF row, c
  <2> QED  BY <1>2, <1>9, <2>1, RowTypes
<1>12. Typed'  BY <1>5, <1>6, <1>7, <1>11 DEF Typed, ChainInv
<1>13. ASSUME NEW d \in Channels, d \notin parted'
       PROVE  Alone(tracks', d) /\ Runs(Listed(tracks', d), chain'[d], inst'[d])
  <2>1. d \notin parted  BY <1>13, <1>10
  <2>2. Alone(tracks, d)  BY <1>1, <2>1, UnsharedIsAlone DEF ChainInv
  <2>3. CASE d # c
    <3>1. Alone(tracks', d)
      <4>1. \A t \in DOMAIN tracks' : tracks'[t].channel = d =>
               t \in DOMAIN tracks /\ tracks[t].channel = d
        <5> HIDE DEF x, c
        <5> QED  BY <1>1, <1>4, <1>6, <2>3
      <4> QED  BY <2>2, <4>1 DEF Alone
    <3>2. Carried(tracks, tracks', d)
      <4> HIDE DEF x, c, n
      <4>1. ASSUME NEW t \in DOMAIN tracks  PROVE t \in DOMAIN tracks' /\ tracks'[t] = tracks[t]
        BY <1>1, <1>6
      <4>2. ASSUME NEW t \in DOMAIN tracks', tracks'[t].channel = d
            PROVE  t \in DOMAIN tracks /\ tracks[t].channel = d
        BY <1>1, <1>4, <1>6, <2>3, <4>2
      <4> QED  BY <4>1, <4>2 DEF Carried
    <3> QED  BY <1>5, <1>6, <1>11, <2>1, <2>3, <3>1, <3>2, RunsOn
  <2>4. CASE d = c
    <3>1. Of(tracks, c) = {} /\ chain[c] = <<>> /\ inst[c] = <<>>
      <4> HIDE DEF c
      <4> QED  BY <1>10, <1>13, <2>4
    <3>2. \A t \in DOMAIN tracks : tracks[t].channel # c  BY <3>1 DEF Of
    <3>3. ~HasEq(c)  BY <3>1 DEF HasEq
    <3>4. row = <<Host(Eq)>> /\ x.plugins = l
      <4>1. row = Append(<<>>, Host(Eq)) /\ x.plugins = l  BY <3>1, <3>3
      <4>2. \A h : Append(<<>>, h) = <<h>>  OBVIOUS
      <4> HIDE DEF row, x, l
      <4> QED  BY <4>1, <4>2
    <3> HIDE DEF c, x, row, l, n
    <3>5. \A t \in DOMAIN tracks' : tracks'[t].channel = c => t = n + 1
      BY <1>1, <1>6, <3>2
    <3>6. Alone(tracks', c)  BY <3>5 DEF Alone
    <3>7. n + 1 \in DOMAIN tracks' /\ tracks'[n + 1].channel = c  BY <1>1, <1>4, <1>6
    <3>8. Listed(tracks', c) = l  BY <1>6, <3>4, <3>6, <3>7, ListedIs
    <3> QED  BY <1>3, <1>5, <1>11, <2>4, <3>1, <3>4, <3>6, <3>8
  <2> QED  BY <2>3, <2>4
<1>14. FileFits(file')  BY <1>5 DEF ChainInv
<1> QED  BY <1>12, <1>13, <1>14, TracksExchanged

LEMMA DeleteTrackKeeps ==
    ASSUME PluginChainsAssumption, ChainInv, NEW t \in DOMAIN tracks, DeleteTrack(t)
    PROVE  ChainInv'
<1> DEFINE n == Len(tracks)
           from(u) == IF u < t THEN u ELSE u + 1
<1>1. /\ tracks \in Seq(Tracks) /\ undo \in Seq(Seq(Tracks)) /\ n \in Nat /\ t \in 1..n
      /\ DOMAIN tracks = 1..n /\ Ch(t) \in Channels /\ Ch(t) = tracks[t].channel
  BY TrackTypes DEF ChainInv, Typed
<1>2. /\ tracks' \in Seq(Tracks) /\ DOMAIN tracks' = 1..n - 1
      /\ \A u \in 1..n - 1 : tracks'[u] = tracks[from(u)]
  BY <1>1, WithoutOne DEF DeleteTrack
<1>3. undo' \in Seq(Seq(Tracks)) /\ UNCHANGED <<file, usable, shown>>
  BY <1>1 DEF DeleteTrack, Snapshot
<1>4. PICK left : /\ left = IF Of(tracks, Ch(t)) = {t} THEN {Ch(t)} ELSE {}
                  /\ chain' = [c \in Channels |-> IF c \in left THEN <<>> ELSE chain[c]]
                  /\ inst' = [c \in Channels |-> IF c \in left THEN <<>> ELSE inst[c]]
                  /\ parted' = parted \ left
  BY DEF DeleteTrack
<1>5. Typed'
  <2>1. \A c \in Channels : chain[c] \in Seq(Hosts) /\ inst[c] \in Seq(Hosts)
    BY DEF ChainInv, Typed
  <2>2. <<>> \in Seq(Hosts)  OBVIOUS
  <2>3. chain' \in [Channels -> Seq(Hosts)] /\ inst' \in [Channels -> Seq(Hosts)]
    BY <1>4, <2>1, <2>2
  <2> QED  BY <1>2, <1>3, <2>3 DEF Typed, ChainInv
<1>6. \A u \in 1..n - 1 : from(u) \in 1..n /\ from(u) # t  BY <1>1
<1>7. \A u \in 1..n : u # t => \E w \in 1..n - 1 : from(w) = u
  <2>1. ASSUME NEW u \in 1..n, u # t  PROVE \E w \in 1..n - 1 : from(w) = u
    <3>1. CASE u < t
      <4>1. u \in 1..n - 1 /\ from(u) = u  BY <1>1, <3>1
      <4> QED  BY <4>1
    <3>2. CASE ~(u < t)
      <4>1. u - 1 \in 1..n - 1 /\ from(u - 1) = u  BY <1>1, <2>1, <3>2
      <4> QED  BY <4>1
    <3> QED  BY <3>1, <3>2
  <2> QED  BY <2>1
<1>8. \A u, w \in 1..n - 1 : from(u) = from(w) => u = w  BY <1>1
<1> HIDE DEF from, n
<1>9. ASSUME NEW c \in Channels, c \notin parted'
      PROVE  Alone(tracks', c) /\ Runs(Listed(tracks', c), chain'[c], inst'[c])
  <2>1. CASE c \in left
    <3>1. c = Ch(t) /\ Of(tracks, c) = {t}  BY <1>4, <2>1
    <3>2. \A u \in DOMAIN tracks' : tracks'[u].channel # c
      BY <1>1, <1>2, <1>6, <3>1 DEF Of
    <3>3. Alone(tracks', c)  BY <3>2 DEF Alone
    <3>4. Listed(tracks', c) = <<>>  BY <1>2, <3>2, ListedIs
    <3>5. chain'[c] = <<>> /\ inst'[c] = <<>>  BY <1>4, <2>1
    <3> QED  BY <3>3, <3>4, <3>5, EmptyRuns
  <2>2. CASE c \notin left
    <3>1. c \notin parted  BY <1>4, <1>9, <2>2
    <3>2. Alone(tracks, c)  BY <1>1, <3>1, UnsharedIsAlone DEF ChainInv
    <3>3. c # Ch(t)
      <4>1. ASSUME c = Ch(t)  PROVE FALSE
        <5>1. Of(tracks, c) = {t}  BY <1>1, <3>2, <4>1 DEF Of, Alone
        <5> QED  BY <1>4, <2>2, <4>1, <5>1
      <4> QED  BY <4>1
    <3>4. Alone(tracks', c)
      BY <1>1, <1>2, <1>6, <1>8, <3>2 DEF Alone
    <3>5. Carried(tracks, tracks', c)
      <4>1. ASSUME NEW u \in DOMAIN tracks, tracks[u].channel = c
            PROVE  \E w \in DOMAIN tracks' : tracks'[w].channel = c /\ tracks'[w].plugins = tracks[u].plugins
        <5>1. u # t  BY <1>1, <3>3, <4>1
        <5>2. PICK w \in 1..n - 1 : from(w) = u  BY <1>1, <1>7, <5>1
        <5>3. tracks'[w] = tracks[u] /\ w \in DOMAIN tracks'  BY <1>2, <5>2
        <5> QED  BY <4>1, <5>3
      <4>2. ASSUME NEW w \in DOMAIN tracks', tracks'[w].channel = c
            PROVE  \E u \in DOMAIN tracks : tracks[u].channel = c
        BY <1>1, <1>2, <1>6, <4>2
      <4> QED  BY <4>1, <4>2 DEF Carried
    <3>6. chain'[c] = chain[c] /\ inst'[c] = inst[c]  BY <1>4, <2>2
    <3> QED  BY <1>2, <3>1, <3>4, <3>5, <3>6, RunsOn
  <2> QED  BY <2>1, <2>2
<1> QED  BY <1>3, <1>5, <1>9, TracksExchanged DEF ChainInv

LEMMA UndoKeeps ==
    ASSUME PluginChainsAssumption, ChainInv, Undo
    PROVE  ChainInv'
<1>1. undo \in Seq(Seq(Tracks)) /\ undo # <<>> /\ tracks' = undo[Len(undo)]
      /\ undo' = SubSeq(undo, 1, Len(undo) - 1)
  BY DEF ChainInv, Typed, Undo, Last, Front
<1>2. tracks' \in Seq(Tracks) /\ undo' \in Seq(Seq(Tracks))
  <2>1. Len(undo) \in 1..Len(undo)  BY <1>1
  <2> QED  BY <1>1, <2>1
<1>3. /\ UNCHANGED <<chain, inst, file, usable, shown>>
      /\ parted' = parted \cup Shared(tracks') \cup
                       {c \in Channels : Listed(tracks, c) # Listed(tracks', c)}
  BY DEF Undo, Part
<1>4. Typed'  BY <1>2, <1>3 DEF Typed, ChainInv
<1>5. ASSUME NEW c \in Channels, c \notin parted'
      PROVE  Alone(tracks', c) /\ Runs(Listed(tracks', c), chain'[c], inst'[c])
  <2>1. c \notin parted /\ c \notin Shared(tracks') /\ Listed(tracks', c) = Listed(tracks, c)
    BY <1>3, <1>5
  <2>2. Alone(tracks', c)  BY <1>2, <2>1, UnsharedIsAlone
  <2> QED  BY <1>3, <2>1, <2>2 DEF ChainInv, ListsMatchChains
<1> QED  BY <1>3, <1>4, <1>5, TracksExchanged DEF ChainInv

LEMMA NewSongKeeps ==
    ASSUME PluginChainsAssumption, ChainInv, NewSong
    PROVE  ChainInv'
<1>1. /\ UNCHANGED <<chain, inst, file, usable, shown>> /\ tracks' = <<>>
      /\ undo' = Append(undo, tracks)
      /\ parted' = parted \cup {c \in Channels : chain[c] # <<>> \/ inst[c] # <<>>}
  BY DEF NewSong, Part, Snapshot
<1>2. tracks' \in Seq(Tracks) /\ undo' \in Seq(Seq(Tracks)) /\ DOMAIN tracks' = {}
  BY <1>1 DEF ChainInv, Typed
<1>3. Typed'  BY <1>1, <1>2 DEF Typed, ChainInv
<1>4. ASSUME NEW c \in Channels, c \notin parted'
      PROVE  Alone(tracks', c) /\ Runs(Listed(tracks', c), chain'[c], inst'[c])
  <2>1. chain'[c] = <<>> /\ inst'[c] = <<>>  BY <1>1, <1>4
  <2>2. Listed(tracks', c) = <<>>  BY <1>2, ListedIs
  <2>3. Alone(tracks', c)  BY <1>2 DEF Alone
  <2> QED  BY <2>1, <2>2, <2>3, EmptyRuns
<1> QED  BY <1>1, <1>3, <1>4, TracksExchanged DEF ChainInv

LEMMA GoneKeeps ==
    ASSUME PluginChainsAssumption, ChainInv, NEW p, Gone(p)
    PROVE  ChainInv'
<1>1. Typed'  BY DEF Typed, ChainInv, Gone
<1> QED  BY <1>1 DEF ChainInv, ListsMatchChains, Gone

-----------------------------------------------------------------------------
(* The project file.                                                          *)

LEMMA SaveKeeps ==
    ASSUME PluginChainsAssumption, ChainInv, Save
    PROVE  ChainInv'
<1> DEFINE kept == Patches(chain)
           f == [lists |-> tracks, patches |-> PatchFiles, kept |-> kept, whole |-> parted = {}]
<1>1. file' = f /\ UNCHANGED <<tracks, chain, inst, undo, usable, shown, parted>>
  BY DEF Save
<1>2. tracks \in Seq(Tracks) /\ \A c \in Channels : chain[c] \in Seq(Hosts)
  BY DEF ChainInv, Typed
<1>3. PatchFiles \subseteq Channels \X (Nat \ {0}) \X Patch
  <2>1. ASSUME NEW c \in Channels, NEW k \in DOMAIN chain[c]
        PROVE  <<c, k, chain[c][k].patch>> \in Channels \X (Nat \ {0}) \X Patch
    <3>1. chain[c] \in Seq(Hosts)  BY <1>2
    <3>2. k \in Nat \ {0} /\ chain[c][k] \in Hosts  BY <3>1
    <3> QED  BY <3>2 DEF Hosts
  <2> QED  BY <2>1 DEF PatchFiles
<1>4. ASSUME NEW c \in Channels, NEW k \in DOMAIN chain[c], chain[c][k].plugin # Eq
      PROVE  {p \in PatchFiles : p[1] = c /\ p[2] = k} = {<<c, k, chain[c][k].patch>>}
  <2>1. <<c, k, chain[c][k].patch>> \in PatchFiles  BY <1>4 DEF PatchFiles
  <2>2. ASSUME NEW p \in PatchFiles, p[1] = c, p[2] = k  PROVE p = <<c, k, chain[c][k].patch>>
    <3>1. PICK d \in Channels : \E j \in DOMAIN chain[d] : p = <<d, j, chain[d][j].patch>>
      BY DEF PatchFiles
    <3>2. PICK j \in DOMAIN chain[d] : p = <<d, j, chain[d][j].patch>>  BY <3>1
    <3> QED  BY <2>2, <3>2
  <2> QED  BY <2>1, <2>2
<1>5. ASSUME parted = {}, NEW c \in Channels  PROVE Keeps(f, c)
  <2> DEFINE list == Listed(tracks, c)
             fx == EffectsIn(list)
             row == chain[c]
  <2>1. Runs(list, row, inst[c])  BY <1>5 DEF ChainInv, ListsMatchChains
  <2>2. list \in Seq(Items)  BY <1>2, ListedIs
  <2>3. fx \in Seq(Items)  BY <2>2, EffectsAre
  <2>4. row \in Seq(Hosts)  BY <1>2
  <2>5. kept[c] = [k \in DOMAIN row |-> <<row[k].plugin, row[k].on, row[k].patch>>]
    BY DEF Patches
  <2>6. /\ Len(fx) = Len(row)
        /\ \A k \in DOMAIN fx : Match(fx[k], row[k])
    BY <2>1 DEF Runs, Match
  <2> HIDE DEF list, fx, row, kept
  <2>7. DOMAIN row = 1..Len(fx) /\ DOMAIN fx = 1..Len(fx) /\ Len(fx) \in Nat  BY <2>3, <2>4, <2>6
  <2>8. ASSUME NEW k \in 1..Len(fx)
        PROVE  /\ kept[c][k] = <<fx[k].plugin, fx[k].on, kept[c][k][3]>>
               /\ fx[k].plugin = Eq => kept[c][k][3] = [of |-> Eq, v |-> fx[k].v]
               /\ fx[k].plugin # Eq =>
                      {p \in PatchFiles : p[1] = c /\ p[2] = k} = {<<c, k, kept[c][k][3]>>}
    <3>1. row[k] \in Hosts /\ Match(fx[k], row[k])  BY <2>4, <2>6, <2>7
    <3>2. kept[c][k] = <<row[k].plugin, row[k].on, row[k].patch>>  BY <2>5, <2>7
    <3>3. kept[c][k] = <<fx[k].plugin, fx[k].on, row[k].patch>>  BY <3>1, <3>2 DEF Match
    <3>4. kept[c][k][3] = row[k].patch  BY <3>3
    <3>5. fx[k].plugin = Eq => row[k].patch = [of |-> Eq, v |-> fx[k].v]
      BY <3>1 DEF Match, Hosts, Patch
    <3>6. fx[k].plugin # Eq =>
              {p \in PatchFiles : p[1] = c /\ p[2] = k} = {<<c, k, row[k].patch>>}
      BY <1>4, <2>7, <3>1 DEF Match, row
    <3> QED  BY <3>3, <3>4, <3>5, <3>6
  <2>9. kept[c] = [k \in 1..Len(fx) |-> kept[c][k]]  BY <2>5, <2>7
  <2>10. f.lists = tracks /\ f.patches = PatchFiles /\ f.kept = kept  OBVIOUS
  <2> HIDE DEF f
  <2>11. Keeps(f, c)  BY <2>8, <2>9, <2>10 DEF Keeps, fx, list
  <2> QED  BY <2>11
<1>6. kept = [c \in Channels |-> kept[c]]  BY DEF Patches
<1>7. f.lists = tracks /\ f.patches = PatchFiles /\ f.kept = kept /\ f.whole = (parted = {})
  OBVIOUS
<1> HIDE DEF f, kept
<1>8. FileFits(f)  BY <1>2, <1>3, <1>5, <1>6, <1>7 DEF FileFits
<1>9. Typed'  BY <1>1 DEF Typed, ChainInv
<1>10. ListsMatchChains'  BY <1>1 DEF ChainInv, ListsMatchChains
<1> QED  BY <1>1, <1>8, <1>9, <1>10 DEF ChainInv

\* One track's list, or nothing: what an unshared channel lists.
LEMMA ListedAlone ==
    ASSUME NEW ts \in Seq(Tracks), NEW c, Alone(ts, c)
    PROVE  Listed(ts, c) \in Lists
<1>1. CASE \E t \in DOMAIN ts : ts[t].channel = c
  <2>1. PICK t \in DOMAIN ts : ts[t].channel = c  BY <1>1
  <2>2. ts[t] \in Tracks  OBVIOUS
  <2>3. Listed(ts, c) = ts[t].plugins  BY <2>1, ListedIs
  <2> QED  BY <2>2, <2>3 DEF Tracks
<1>2. CASE \A t \in DOMAIN ts : ts[t].channel # c
  <2>1. Listed(ts, c) = <<>>  BY <1>2, ListedIs
  <2>2. <<>> \in Lists
    <3>1. <<>> \in Seq(Items) /\ InstPlaces(<<>>) = {}  BY DEF InstPlaces
    <3> QED  BY <3>1 DEF Lists, AtMostOne
  <2> QED  BY <2>1, <2>2
<1> QED  BY <1>1, <1>2

\* What loadProjectFrom builds, before the patches and with them.
LEMMA RebuiltIs ==
    ASSUME PluginChainsAssumption, NEW ts \in Seq(Tracks), NEW c
    PROVE  LET fx  == EffectsIn(Listed(ts, c))
               row == Rebuilt(ts, c)
           IN  /\ fx \in Seq(Items) /\ row \in Seq(Hosts) /\ Len(row) = Len(fx)
               /\ \A k \in 1..Len(fx) :
                    /\ Match(fx[k], row[k])
                    /\ fx[k].plugin = Eq => row[k].patch = [of |-> Eq, v |-> fx[k].v]
<1> DEFINE fx == EffectsIn(Listed(ts, c))
           new(it) == [plugin |-> it.plugin, on |-> it.on,
                       patch |-> IF it.plugin = Eq THEN [of |-> Eq, v |-> it.v]
                                 ELSE Factory(it.plugin)]
           row == Rebuilt(ts, c)
<1>1. fx \in Seq(Items)  BY ListedIs, EffectsAre
<1>2. row = [k \in DOMAIN fx |-> new(fx[k])]  BY DEF Rebuilt
<1>3. ASSUME NEW it \in Items
      PROVE  /\ new(it) \in Hosts /\ Match(it, new(it))
             /\ it.plugin = Eq => new(it).patch = [of |-> Eq, v |-> it.v]
  <2>1. it.plugin \in Named /\ it.on \in BOOLEAN /\ it.v \in Int  BY DEF Items
  <2>2. Eq \in Named  BY DEF Named
  <2>3. 0 \in Int  OBVIOUS
  <2> QED  BY <2>1, <2>2, <2>3 DEF Hosts, Patch, Factory, Match
<1> HIDE DEF fx, row, new
<1>4. DOMAIN fx = 1..Len(fx) /\ Len(fx) \in Nat /\ \A k \in 1..Len(fx) : fx[k] \in Items  BY <1>1
<1>5. row = [k \in 1..Len(fx) |-> new(fx[k])]  BY <1>2, <1>4
<1>6. row \in Seq(Hosts) /\ Len(row) = Len(fx)
  <2>1. \A k \in 1..Len(fx) : new(fx[k]) \in Hosts  BY <1>3, <1>4
  <2> QED  BY <1>4, <1>5, <2>1
<1>7. \A k \in 1..Len(fx) : /\ Match(fx[k], row[k])
                            /\ fx[k].plugin = Eq => row[k].patch = [of |-> Eq, v |-> fx[k].v]
  BY <1>3, <1>4, <1>5
<1> QED  BY <1>1, <1>6, <1>7 DEF fx, row

PatchesGiven(row, row2, c) ==
    /\ row2 \in Seq(Hosts) /\ Len(row2) = Len(row)
    /\ \A k \in 1..Len(row) :
         /\ row2[k].plugin = row[k].plugin /\ row2[k].on = row[k].on
         /\ row[k].plugin = Eq => row2[k].patch = row[k].patch
         /\ \A p : row[k].plugin # Eq
                     /\ {f \in file.patches : f[1] = c /\ f[2] = k} = {<<c, k, p>>}
                   => row2[k].patch = p

LEMMA PatchedIs ==
    ASSUME FileFits(file), NEW row \in Seq(Hosts), NEW c
    PROVE  PatchesGiven(row, Patched(row, c), c)
<1> DEFINE m == Len(row)
           of(k) == {f \in file.patches : f[1] = c /\ f[2] = k}
           found(k) == (CHOOSE f \in of(k) : TRUE)[3]
           new(k) == IF row[k].plugin = Eq THEN row[k]
                     ELSE IF of(k) = {} THEN row[k] ELSE [row[k] EXCEPT !.patch = found(k)]
           row2 == Patched(row, c)
<1>1. m \in Nat /\ DOMAIN row = 1..m /\ \A k \in 1..m : row[k] \in Hosts  OBVIOUS
<1>2. row2 = [k \in 1..m |-> new(k)]  BY <1>1 DEF Patched
<1>3. ASSUME NEW k, of(k) # {}  PROVE found(k) \in Patch
  <2>1. (CHOOSE f \in of(k) : TRUE) \in of(k)  BY <1>3
  <2>2. (CHOOSE f \in of(k) : TRUE) \in Channels \X (Nat \ {0}) \X Patch
    BY <2>1 DEF FileFits
  <2> QED  BY <2>2
<1>4. ASSUME NEW k, NEW p, of(k) = {<<c, k, p>>}  PROVE of(k) # {} /\ found(k) = p
  <2>1. (CHOOSE f \in of(k) : TRUE) \in of(k)  BY <1>4
  <2>2. (CHOOSE f \in of(k) : TRUE) = <<c, k, p>>  BY <1>4, <2>1
  <2> QED  BY <1>4, <2>2
<1> HIDE DEF of, found
<1>5. ASSUME NEW k \in 1..m
      PROVE  /\ new(k) \in Hosts /\ new(k).plugin = row[k].plugin /\ new(k).on = row[k].on
             /\ row[k].plugin = Eq => new(k).patch = row[k].patch
             /\ row[k].plugin # Eq /\ of(k) # {} => new(k).patch = found(k)
  <2>1. row[k] \in Hosts  BY <1>1
  <2>2. CASE row[k].plugin = Eq  BY <2>1, <2>2
  <2>3. CASE row[k].plugin # Eq /\ of(k) = {}  BY <2>1, <2>3
  <2>4. CASE row[k].plugin # Eq /\ of(k) # {}
    <3>1. found(k) \in Patch  BY <1>3, <2>4
    <3> QED  BY <2>1, <2>4, <3>1 DEF Hosts
  <2> QED  BY <2>2, <2>3, <2>4
<1> HIDE DEF new, row2, m
<1>6. row2 \in Seq(Hosts) /\ Len(row2) = m  BY <1>1, <1>2, <1>5
<1>7. ASSUME NEW k \in 1..m
      PROVE  /\ row2[k].plugin = row[k].plugin /\ row2[k].on = row[k].on
             /\ row[k].plugin = Eq => row2[k].patch = row[k].patch
             /\ \A p : row[k].plugin # Eq /\ of(k) = {<<c, k, p>>} => row2[k].patch = p
  BY <1>2, <1>4, <1>5
<1> QED  BY <1>6, <1>7 DEF m, row2, of, PatchesGiven

\* The instrument of a list that is loaded: it stays on the list, or leaves it and the slot.
LEMMA LastInstIs ==
    ASSUME PluginChainsAssumption, NEW list \in Seq(Items)
    PROVE  /\ LastInst(list) \in Seq(Hosts)
           /\ list \in Lists => InstFits(Found(list), LastInst(list))
<1> DEFINE at == InstPlaces(list)
           last == Nth(at, Cardinality(at))
           slot == LastInst(list)
<1>1. Len(list) \in Nat /\ DOMAIN list = 1..Len(list)  OBVIOUS
<1>2. at \subseteq Nat /\ IsFiniteSet(at) /\ at \subseteq DOMAIN list
  <2>1. at \subseteq Nat /\ IsFiniteSet(at)  BY <1>1, PlacesFinite
  <2> QED  BY <2>1 DEF InstPlaces
<1>3. slot = IF at # {} /\ Loads(list[last]) THEN <<Host(list[last].plugin)>> ELSE <<>>
  BY DEF LastInst
<1>4. ASSUME at # {}  PROVE last \in at /\ Host(list[last].plugin) \in Hosts
  <2> HIDE DEF at
  <2>1. Cardinality(at) \in Nat /\ Cardinality(at) # 0
    BY <1>2, <1>4, FS_CardinalityType, FS_EmptySet
  <2>2. Cardinality(at) \in 1..Cardinality(at)  BY <2>1
  <2>3. last \in at  BY <1>2, <2>2, NthIs
  <2>4. list[last] \in Items
    <3> HIDE DEF last
    <3> QED  BY <1>1, <1>2, <2>3
  <2>5. list[last].plugin \in Named
    <3> HIDE DEF last
    <3> QED  BY <2>4 DEF Items
  <2> QED  BY <2>3, <2>5, ItemTypes
<1>5. slot \in Seq(Hosts)
  <2> DEFINE h == Host(list[last].plugin)
  <2>1. <<>> \in Seq(Hosts)  OBVIOUS
  <2>2. slot = <<>> \/ (h \in Hosts /\ slot = <<h>>)  BY <1>3, <1>4
  <2> HIDE DEF h, slot
  <2>3. CASE slot = <<>>  BY <2>1, <2>3
  <2>4. CASE h \in Hosts /\ slot = <<h>>
    <3>1. <<h>> \in Seq(Hosts)  BY <2>4
    <3> QED  BY <2>4, <3>1
  <2> QED  BY <2>2, <2>3, <2>4
<1> DEFINE S == {i \in DOMAIN list : Loads(list[i])}
           m == Cardinality(S)
           n == [k \in 1..m |-> Nth(S, k)]
           found == Found(list)
<1>6. S \subseteq Nat /\ IsFiniteSet(S)
  <2>1. S \in SUBSET (1..Len(list)) /\ IsFiniteSet(1..Len(list))  BY <1>1, FS_Interval
  <2> QED  BY <2>1, FS_Subset
<1>7. m \in Nat /\ Names(n, m, S)
  <2> HIDE DEF S
  <2> QED  BY <1>6, FS_CardinalityType, NthNames
<1>8. found = [k \in 1..m |-> list[n[k]]]  BY DEF Found, Picked
<1>9. \A k \in 1..m : n[k] \in DOMAIN list /\ Loads(list[n[k]])
  <2>1. \A k \in 1..m : n[k] \in S  BY <1>7 DEF Names
  <2> HIDE DEF n, m
  <2> QED  BY <2>1
<1>10. InstPlaces(found) = {k \in 1..m : n[k] \in at}
  <2>1. DOMAIN found = 1..m /\ \A k \in 1..m : found[k] = list[n[k]]  BY <1>8
  <2> HIDE DEF n, m, found
  <2> QED  BY <1>9, <2>1 DEF InstPlaces
<1>11. ASSUME list \in Lists  PROVE InstFits(found, slot)
  <2>1. \A i, j \in at : i = j  BY <1>11 DEF Lists, AtMostOne
  <2>2. CASE at # {} /\ Loads(list[last])
    <3> DEFINE i == last
               h == Host(list[i].plugin)
    <3>1. i \in at /\ i \in S /\ slot = <<h>>  BY <1>2, <1>3, <1>4, <2>2
    <3>2. PICK k \in 1..m : n[k] = i  BY <1>7, <3>1 DEF Names
    <3> HIDE DEF S
    <3>3. ASSUME NEW l \in 1..m, n[l] \in at  PROVE l = k
      <4>1. n[l] = n[k] /\ n[k] \in Nat  BY <1>2, <2>1, <3>1, <3>2, <3>3
      <4> HIDE DEF n, m
      <4>2. ~(l < k) /\ ~(k < l)  BY <1>7, <4>1 DEF Names
      <4> QED  BY <1>7, <4>2
    <3>4. InstPlaces(found) = {k}  BY <1>10, <3>1, <3>2, <3>3
    <3>5. Cardinality({k}) = 1  BY FS_Singleton
    <3>6. found[k] = list[i] /\ h.plugin = list[i].plugin  BY <1>8, <3>2 DEF Host
    <3> HIDE DEF found, slot, h, i
    <3>7. Len(slot) = 1 /\ slot[1] = h  BY <3>1
    <3> QED  BY <3>4, <3>5, <3>6, <3>7 DEF InstFits
  <2>3. CASE ~(at # {} /\ Loads(list[last]))
    <3>1. slot = <<>>  BY <1>3, <2>3
    <3>2. \A k \in 1..m : n[k] \notin at
      <4>1. SUFFICES ASSUME NEW k \in 1..m, n[k] \in at  PROVE FALSE  OBVIOUS
      <4>2. last \in at  BY <1>4, <4>1
      <4>3. n[k] = last  BY <2>1, <4>1, <4>2
      <4>4. Loads(list[last])  BY <1>9, <4>1, <4>3
      <4> QED  BY <2>3, <4>2, <4>4
    <3>3. InstPlaces(found) = {}  BY <1>10, <3>2
    <3>4. Cardinality({}) = 0 /\ Len(<<>>) = 0  BY FS_EmptySet
    <3> HIDE DEF found, slot
    <3> QED  BY <3>1, <3>3, <3>4 DEF InstFits
  <2> QED  BY <2>2, <2>3
<1> QED  BY <1>5, <1>11

\* An opened project: its chains are those of its lists, and of a file saved whole they
\* have the patches too.
LEMMA OpenGives ==
    ASSUME PluginChainsAssumption, ChainInv, Open, NEW c \in Channels
    PROVE  LET fx == EffectsIn(Listed(tracks', c))
           IN  /\ tracks' \in Seq(Tracks) /\ fx \in Seq(Items) /\ chain'[c] \in Seq(Hosts)
               /\ Len(chain'[c]) = Len(fx) /\ \A k \in 1..Len(fx) : Match(fx[k], chain'[c][k])
               /\ file.whole /\ tracks' = file.lists =>
                      \A k \in 1..Len(fx) : chain'[c][k].patch = file.kept[c][k][3]
<1> DEFINE ts == tracks'
           fx == EffectsIn(Listed(ts, c))
           old == Rebuilt(ts, c)
           row == Patched(old, c)
<1>1. FileFits(file)  BY DEF ChainInv
<1>2. ts \in Seq(Tracks)
  <2>1. ts = [t \in DOMAIN file.lists |-> [file.lists[t] EXCEPT !.plugins = Found(file.lists[t].plugins)]]
    BY DEF Open
  <2>2. file.lists \in Seq(Tracks)  BY <1>1 DEF FileFits
  <2>3. ASSUME NEW t \in DOMAIN file.lists
        PROVE  [file.lists[t] EXCEPT !.plugins = Found(file.lists[t].plugins)] \in Tracks
    <3>1. file.lists[t] \in Tracks  BY <2>2
    <3>2. file.lists[t].plugins \in Lists  BY <3>1 DEF Tracks
    <3>3. Found(file.lists[t].plugins) \in Lists  BY <3>2, FoundType
    <3> QED  BY <3>1, <3>3 DEF Tracks
  <2>4. DOMAIN file.lists = 1..Len(file.lists) /\ Len(file.lists) \in Nat  BY <2>2
  <2> QED  BY <2>1, <2>3, <2>4
<1>3. chain'[c] = row  BY DEF Open
<1> HIDE DEF ts
<1>4. /\ fx \in Seq(Items) /\ old \in Seq(Hosts) /\ Len(old) = Len(fx)
      /\ \A k \in 1..Len(fx) : /\ Match(fx[k], old[k])
                               /\ fx[k].plugin = Eq => old[k].patch = [of |-> Eq, v |-> fx[k].v]
  BY <1>2, RebuiltIs
<1> HIDE DEF old
<1>5. /\ row \in Seq(Hosts) /\ Len(row) = Len(old)
      /\ \A k \in 1..Len(old) :
           /\ row[k].plugin = old[k].plugin /\ row[k].on = old[k].on
           /\ old[k].plugin = Eq => row[k].patch = old[k].patch
           /\ \A p : old[k].plugin # Eq
                       /\ {f \in file.patches : f[1] = c /\ f[2] = k} = {<<c, k, p>>}
                     => row[k].patch = p
  <2>1. PatchesGiven(old, row, c)  BY <1>1, <1>4, PatchedIs
  <2> HIDE DEF row
  <2> QED  BY <2>1 DEF PatchesGiven
<1>6. ASSUME NEW k \in 1..Len(fx)  PROVE Match(fx[k], row[k])
  <2> HIDE DEF fx, row
  <2> QED  BY <1>4, <1>5 DEF Match
<1>7. ASSUME file.whole, ts = file.lists, NEW k \in 1..Len(fx)
      PROVE  row[k].patch = file.kept[c][k][3]
  <2>1. Keeps(file, c)  BY <1>1, <1>7 DEF FileFits
  <2>2. /\ fx[k].plugin = Eq => file.kept[c][k][3] = [of |-> Eq, v |-> fx[k].v]
        /\ fx[k].plugin # Eq =>
               {p \in file.patches : p[1] = c /\ p[2] = k} = {<<c, k, file.kept[c][k][3]>>}
    BY <1>7, <2>1 DEF Keeps
  <2>3. k \in 1..Len(old) /\ old[k].plugin = fx[k].plugin
    <3> HIDE DEF fx
    <3> QED  BY <1>4 DEF Match
  <2> HIDE DEF fx, row
  <2>4. CASE fx[k].plugin = Eq  BY <1>4, <1>5, <2>2, <2>3, <2>4
  <2>5. CASE fx[k].plugin # Eq  BY <1>5, <2>2, <2>3, <2>5
  <2> QED  BY <2>4, <2>5
<1> HIDE DEF row, fx
<1>8. Len(row) = Len(fx)  BY <1>4, <1>5
<1> QED  BY <1>2, <1>3, <1>4, <1>5, <1>6, <1>7, <1>8 DEF ts, fx

\* What an opened project lists is what its file lists and loads.
LEMMA OpenLists ==
    ASSUME Open, file.lists \in Seq(Tracks), tracks' \in Seq(Tracks), NEW c, Alone(tracks', c)
    PROVE  Alone(file.lists, c) /\ Listed(tracks', c) = Found(Listed(file.lists, c))
<1> DEFINE ts == file.lists
           us == tracks'
<1>1. DOMAIN us = DOMAIN ts /\ \A t \in DOMAIN ts : us[t].channel = ts[t].channel
                                                 /\ us[t].plugins = Found(ts[t].plugins)
  <2>1. us = [t \in DOMAIN ts |-> [ts[t] EXCEPT !.plugins = Found(ts[t].plugins)]]  BY DEF Open
  <2>2. \A t \in DOMAIN ts : ts[t] \in Tracks  OBVIOUS
  <2> QED  BY <2>1, <2>2 DEF Tracks
<1> HIDE DEF us, ts
<1>2. Alone(ts, c)
  <2>1. Alone(us, c)  BY DEF us
  <2> QED  BY <1>1, <2>1 DEF Alone
<1>3. CASE \E t \in DOMAIN ts : ts[t].channel = c
  <2>1. PICK t \in DOMAIN ts : ts[t].channel = c  BY <1>3
  <2>2. Listed(ts, c) = ts[t].plugins  BY <1>2, <2>1, ListedIs DEF ts
  <2>3. Listed(us, c) = us[t].plugins  BY <1>1, <2>1, ListedIs DEF us
  <2> QED  BY <1>1, <1>2, <2>1, <2>2, <2>3 DEF us, ts
<1>4. CASE \A t \in DOMAIN ts : ts[t].channel # c
  <2>1. Listed(ts, c) = <<>>  BY <1>4, ListedIs DEF ts
  <2>2. Listed(us, c) = <<>>  BY <1>1, <1>4, ListedIs DEF us
  <2>3. Found(<<>>) = <<>>
    <3>1. {i \in DOMAIN <<>> : Loads(<<>>[i])} = {}  OBVIOUS
    <3>2. Cardinality({}) = 0  BY FS_EmptySet
    <3> QED  BY <3>1, <3>2 DEF Found, Picked
  <2> QED  BY <1>2, <2>1, <2>2, <2>3 DEF us, ts
<1> QED  BY <1>3, <1>4

LEMMA OpenKeeps ==
    ASSUME PluginChainsAssumption, ChainInv, Open
    PROVE  ChainInv'
<1>0. file.lists \in Seq(Tracks)  BY DEF ChainInv, FileFits
<1>1. tracks' \in Seq(Tracks)  BY OpenGives, ChannelsAre
<1>2. /\ \A c \in Channels : chain'[c] = Patched(Rebuilt(tracks', c), c) /\ inst'[c] = LastInst(Listed(file.lists, c))
      /\ chain' = [c \in Channels |-> chain'[c]] /\ inst' = [c \in Channels |-> inst'[c]]
      /\ parted' = Shared(tracks') /\ UNCHANGED <<file, usable, shown>>
      /\ undo' = Append(undo, tracks)
  BY DEF Open, Snapshot
<1>3. undo' \in Seq(Seq(Tracks))  BY <1>2 DEF ChainInv, Typed
<1>4. chain' \in [Channels -> Seq(Hosts)]
  <2>1. \A c \in Channels : chain'[c] \in Seq(Hosts)  BY OpenGives
  <2> QED  BY <1>2, <2>1
<1>5. inst' \in [Channels -> Seq(Hosts)]
  <2>1. \A c \in Channels : inst'[c] \in Seq(Hosts)  BY <1>0, <1>2, ListedIs, LastInstIs
  <2> QED  BY <1>2, <2>1
<1>6. Typed'  BY <1>1, <1>2, <1>3, <1>4, <1>5 DEF Typed, ChainInv
<1>7. ASSUME NEW c \in Channels, c \notin parted'
      PROVE  Alone(tracks', c) /\ Runs(Listed(tracks', c), chain'[c], inst'[c])
  <2>1. Alone(tracks', c)  BY <1>1, <1>2, <1>7, UnsharedIsAlone
  <2> DEFINE list == Listed(tracks', c)
             fx == EffectsIn(list)
  <2>2. /\ fx \in Seq(Items) /\ Len(chain'[c]) = Len(fx)
        /\ \A k \in 1..Len(fx) : Match(fx[k], chain'[c][k])
    BY OpenGives
  <2>3. InstFits(list, inst'[c])
    <3> DEFINE old == Listed(file.lists, c)
    <3>1. Alone(file.lists, c) /\ list = Found(old)  BY <1>0, <1>1, <2>1, OpenLists
    <3>2. old \in Lists  BY <1>0, <3>1, ListedAlone
    <3>3. old \in Seq(Items)  BY <3>2 DEF Lists
    <3>4. inst'[c] = LastInst(old)  BY <1>2
    <3> HIDE DEF old, list
    <3> QED  BY <3>1, <3>2, <3>3, <3>4, LastInstIs
  <2> HIDE DEF fx
  <2>4. \A k \in DOMAIN fx : Match(fx[k], chain'[c][k])  BY <2>2
  <2> QED  BY <2>1, <2>2, <2>3, <2>4 DEF Runs, Match, InstFits, fx
<1> QED  BY <1>2, <1>6, <1>7, TracksExchanged DEF ChainInv

LEMMA ChainsKeep ==
    ASSUME PluginChainsAssumption, ChainInv, ChainsNext \/ UNCHANGED chainsVars
    PROVE  ChainInv'
<1>1. CASE UNCHANGED chainsVars
  BY <1>1 DEF chainsVars, ChainInv, Typed, ListsMatchChains
<1>2. CASE AddTrack  BY <1>2, AddTrackKeeps
<1>3. CASE Undo  BY <1>3, UndoKeeps
<1>4. CASE NewSong  BY <1>4, NewSongKeeps
<1>5. CASE Save  BY <1>5, SaveKeeps
<1>6. CASE Open  BY <1>6, OpenKeeps
<1>7. CASE \E t \in DOMAIN tracks :
               \/ DeleteTrack(t) \/ BrowserEffect(t) \/ RemoveInstrument(t)
               \/ \E p \in Effects \cup {Eq} : AddEffect(t, p)
               \/ \E p \in Instruments : AddInstrument(t, p)
               \/ \E k \in 1..MaxPlugins : \/ Toggle(t, k) \/ RemoveEffect(t, k)
                                           \/ MoveEffect(t, k) \/ OpenWindow(t, k)
  <2>1. PICK t \in DOMAIN tracks :
               \/ DeleteTrack(t) \/ BrowserEffect(t) \/ RemoveInstrument(t)
               \/ \E p \in Effects \cup {Eq} : AddEffect(t, p)
               \/ \E p \in Instruments : AddInstrument(t, p)
               \/ \E k \in 1..MaxPlugins : \/ Toggle(t, k) \/ RemoveEffect(t, k)
                                           \/ MoveEffect(t, k) \/ OpenWindow(t, k)
    BY <1>7
  <2>2. CASE DeleteTrack(t)  BY <2>2, DeleteTrackKeeps
  <2>3. CASE BrowserEffect(t)  BY <2>3, BrowserKeeps
  <2>4. CASE RemoveInstrument(t)  BY <2>4, RemoveInstrumentKeeps
  <2>5. CASE \E p \in Effects \cup {Eq} : AddEffect(t, p)  BY <2>5, AddEffectKeeps
  <2>6. CASE \E p \in Instruments : AddInstrument(t, p)  BY <2>6, AddInstrumentKeeps
  <2>7. CASE \E k \in 1..MaxPlugins : Toggle(t, k)  BY <2>7, ToggleKeeps
  <2>8. CASE \E k \in 1..MaxPlugins : RemoveEffect(t, k)  BY <2>8, RemoveEffectKeeps
  <2>9. CASE \E k \in 1..MaxPlugins : MoveEffect(t, k)  BY <2>9, MoveEffectKeeps
  <2>10. CASE \E k \in 1..MaxPlugins : OpenWindow(t, k)  BY <2>10, OpenWindowKeeps
  <2> QED  BY <2>1, <2>2, <2>3, <2>4, <2>5, <2>6, <2>7, <2>8, <2>9, <2>10
<1>8. CASE SetParam(1)
  <2>1. 1 \in Int  OBVIOUS
  <2> QED  BY <1>8, <2>1, SetParamKeeps
<1>9. CASE \E c \in Channels, k \in 1..MaxPlugins : TurnKnob(c, k)  BY <1>9, TurnKnobKeeps
<1>10. CASE \E p \in Plugins : Gone(p)  BY <1>10, GoneKeeps
<1> QED  BY <1>1, <1>2, <1>3, <1>4, <1>5, <1>6, <1>7, <1>8, <1>9, <1>10 DEF ChainsNext

\* Every patch is back.
LEMMA OpenedWhole ==
    ASSUME PluginChainsAssumption, ChainInv, Open, opened' = "whole"
    PROVE  Patches(chain') = file.kept
<1>1. file.whole /\ tracks' = file.lists
  <2>1. opened' = IF file.whole /\ Shared(tracks') = {} /\ tracks' = file.lists
                  THEN "whole" ELSE "part"
    BY DEF Open
  <2>2. "whole" # "part"  OBVIOUS
  <2> QED  BY <2>1, <2>2
<1>2. file.kept = [c \in Channels |-> file.kept[c]] /\ \A c \in Channels : Keeps(file, c)
  BY <1>1 DEF ChainInv, FileFits
<1>3. ASSUME NEW c \in Channels  PROVE Patches(chain')[c] = file.kept[c]
  <2> DEFINE fx == EffectsIn(Listed(file.lists, c))
             row == chain'[c]
             kept == file.kept[c]
  <2>1. /\ fx \in Seq(Items) /\ row \in Seq(Hosts) /\ Len(row) = Len(fx)
        /\ \A k \in 1..Len(fx) : Match(fx[k], row[k]) /\ row[k].patch = kept[k][3]
    BY <1>1, OpenGives
  <2>2. /\ kept = [k \in 1..Len(fx) |-> kept[k]]
        /\ \A k \in 1..Len(fx) : kept[k] = <<fx[k].plugin, fx[k].on, kept[k][3]>>
    BY <1>2 DEF Keeps
  <2>3. Patches(chain')[c] = [k \in DOMAIN row |-> <<row[k].plugin, row[k].on, row[k].patch>>]
    BY DEF Patches
  <2> HIDE DEF fx, row, kept
  <2>4. DOMAIN row = 1..Len(fx)  BY <2>1
  <2>5. ASSUME NEW k \in 1..Len(fx)
        PROVE  <<row[k].plugin, row[k].on, row[k].patch>> = kept[k]
    <3>1. fx[k].plugin = row[k].plugin /\ fx[k].on = row[k].on /\ row[k].patch = kept[k][3]
      BY <2>1 DEF Match
    <3>2. kept[k] = <<fx[k].plugin, fx[k].on, kept[k][3]>>  BY <2>2
    <3> QED  BY <3>1, <3>2
  <2>6. [k \in DOMAIN row |-> <<row[k].plugin, row[k].on, row[k].patch>>] = kept
    BY <2>2, <2>4, <2>5
  <2> QED  BY <2>3, <2>6 DEF kept
<1>4. Patches(chain') = [c \in Channels |-> Patches(chain')[c]]  BY DEF Patches
<1> QED  BY <1>2, <1>3, <1>4
==============================================================================
