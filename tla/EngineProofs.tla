----------------------------- MODULE EngineProofs -----------------------------
(***************************************************************************)
(* What the audio thread's state promises: the voice pool for every size of *)
(* the pool, every drum map and any number of notes and bends, the recorder *)
(* for every size of its chunks and of the driver's blocks, and the        *)
(* practice mode's ring for every size of the ring and of its counter; and  *)
(* what the other parts of the engine that MCEngine composes promise, for   *)
(* every value of their constants.                                          *)
(***************************************************************************)
EXTENDS MCEngine, Integers, FiniteSetTheorems, SequenceTheorems, TLAPS

-----------------------------------------------------------------------------
(* The inductive invariant.  A Note Off and a bend name a channel and a key,   *)
(* not a voice; that they reach the right one rests on the order numbers: each *)
(* note has one of its own, which no other active voice carries.               *)

OrdersAreUnique ==
    /\ \A v \in Pool : voices[v].active => voices[v].startOrder \in 1 .. m_orderCounter
    /\ \A v, w \in Pool :
          voices[v].active /\ voices[w].active
            /\ voices[v].startOrder = voices[w].startOrder => v = w
    /\ \A h \in held : h[1] \in 1 .. m_orderCounter

\* A melodic voice that plays is held or released, so that a Note Off finds it.
EnvelopeRuns ==
    \A v \in Pool : voices[v].active /\ ~voices[v].drum => voices[v].env # "idle"

VoicesInv == OrdersAreUnique /\ EnvelopeRuns /\ VoicesFollowKeys

-----------------------------------------------------------------------------
(* Types. *)

LEMMA TypeInit ==
    ASSUME VoicesAssumption, VoicesInit
    PROVE  VoicesTypeOK
<1>1. PICK c \in Channels, k \in Keys : voices = [v \in Pool |-> Unused(c, k)]
  BY DEF VoicesInit
<1>2. Unused(c, k) \in Voice
  BY DEF VoicesAssumption, Unused, Voice, Bend
<1> QED BY <1>1, <1>2 DEF VoicesInit, VoicesTypeOK, VoicesAssumption

LEMMA ReleasedType ==
    ASSUME NEW voice \in Voice
    PROVE  /\ Released(voice) \in Voice
           /\ Released(voice).env \in {"idle", "release"}
           /\ Released(voice).env = "idle" => voice.env = "idle"
           /\ Released(voice).active = voice.active /\ Released(voice).drum = voice.drum
           /\ Released(voice).startOrder = voice.startOrder
           /\ Released(voice).channel = voice.channel /\ Released(voice).note = voice.note
           /\ Released(voice).bendNorm = voice.bendNorm
  BY DEF Released, Voice

\* What a Note On leaves: one voice starts afresh under the next order number.
LEMMA NoteOnFacts ==
    ASSUME VoicesAssumption, VoicesTypeOK, NEW c \in Channels, NEW k \in Keys, noteOn(c, k)
    PROVE  /\ m_orderCounter' = m_orderCounter + 1 /\ m_orderCounter' \in 1 .. MaxNotes
           /\ held' = IF IsDrum(c, k) THEN held ELSE held \cup {<<m_orderCounter', c, k>>}
           /\ bends' = Append(bends, "neutral")
           /\ \E v \in Pool :
                /\ findFreeVoice(v)
                /\ voices' \in [Pool -> Voice]
                /\ \A w \in Pool : w # v => voices'[w] = voices[w]
                /\ voices'[v].active /\ voices'[v].channel = c /\ voices'[v].note = k
                /\ voices'[v].drum = IsDrum(c, k)
                /\ voices'[v].startOrder = m_orderCounter'
                /\ ~IsDrum(c, k) => voices'[v].env = "held"
                /\ voices'[v].bendNorm = "neutral"
<1>1. /\ m_orderCounter < MaxNotes /\ m_orderCounter' = m_orderCounter + 1
      /\ held' = IF IsDrum(c, k) THEN held ELSE held \cup {<<m_orderCounter', c, k>>}
      /\ bends' = Append(bends, "neutral")
  BY DEF noteOn
<1>2. m_orderCounter' \in 1 .. MaxNotes
  BY <1>1 DEF VoicesTypeOK, VoicesAssumption
<1>3. PICK v \in Pool :
        /\ findFreeVoice(v)
        /\ voices' = [voices EXCEPT ![v] =
              [active |-> TRUE, channel |-> c, note |-> k, drum |-> IsDrum(c, k),
               startOrder |-> m_orderCounter',
               env |-> IF IsDrum(c, k) THEN @.env ELSE "held",
               bendNorm |-> "neutral", perNoteBendNorm |-> "neutral"]]
  BY DEF noteOn
<1> DEFINE new == [active |-> TRUE, channel |-> c, note |-> k, drum |-> IsDrum(c, k),
                   startOrder |-> m_orderCounter',
                   env |-> IF IsDrum(c, k) THEN voices[v].env ELSE "held",
                   bendNorm |-> "neutral", perNoteBendNorm |-> "neutral"]
<1>4. voices \in [Pool -> Voice] /\ voices[v].env \in {"idle", "held", "release"}
  BY DEF VoicesTypeOK, Voice
<1>5. IsDrum(c, k) \in BOOLEAN
  BY DEF IsDrum
<1>6. new \in Voice
  BY <1>2, <1>4, <1>5 DEF Voice, Bend
<1>7. voices' = [voices EXCEPT ![v] = new]
  BY <1>3
<1>8. voices' \in [Pool -> Voice] /\ voices'[v] = new /\ \A w \in Pool : w # v => voices'[w] = voices[w]
  <2> HIDE DEF new
  <2> QED BY <1>4, <1>6, <1>7
<1> QED BY <1>1, <1>2, <1>3, <1>8

-----------------------------------------------------------------------------
(* A new note. *)

\* The pigeonhole behind stealing: were the oldest voice's note among the newest MaxVoices
\* with one more on its way, all voices would have to share fewer numbers than they are.
LEMMA OldestIsOld ==
    ASSUME VoicesAssumption, VoicesTypeOK, OrdersAreUnique, NEW v \in Pool,
           \A w \in Pool : voices[w].active /\ voices[v].startOrder =< voices[w].startOrder
    PROVE  m_orderCounter + 1 - voices[v].startOrder >= MaxVoices
<1> DEFINE order == [w \in Pool |-> voices[w].startOrder]
           T == voices[v].startOrder .. m_orderCounter
<1>1. /\ MaxVoices \in Nat /\ m_orderCounter \in Nat
      /\ \A w \in Pool : voices[w].startOrder \in Nat
  BY DEF VoicesAssumption, VoicesTypeOK, Voice
<1>2. \A w \in Pool : voices[w].startOrder \in T
  BY <1>1 DEF OrdersAreUnique
<1>3. order \in [Pool -> T]
  BY <1>2
<1>4. IsFiniteSet(T) /\ Cardinality(T) = m_orderCounter - voices[v].startOrder + 1
  <2>1. voices[v].startOrder \in Int /\ m_orderCounter \in Int /\ ~(voices[v].startOrder > m_orderCounter)
    BY <1>1, <1>2
  <2> QED BY <2>1, FS_Interval
<1>5. IsFiniteSet(Pool) /\ Cardinality(Pool) = MaxVoices
  BY <1>1, FS_Interval DEF Pool, VoicesAssumption
<1>6. ~(\E w, x \in Pool : w # x /\ order[w] = order[x])
  BY DEF OrdersAreUnique
<1> HIDE DEF order, T
<1>7. ~(Cardinality(T) < Cardinality(Pool))
  BY <1>3, <1>4, <1>5, <1>6, FS_PigeonHole
<1> QED BY <1>1, <1>4, <1>5, <1>7

LEMMA VoiceOnKeeps ==
    ASSUME VoicesAssumption, VoicesInv, NEW c \in Channels, NEW k \in Keys, noteOn(c, k)
    PROVE  VoicesInv'
<1> DEFINE n == m_orderCounter'
<1>1. /\ VoicesTypeOK /\ OrdersAreUnique /\ EnvelopeRuns /\ HeldVoiceHasItsKey
      /\ NewestKeysSound /\ BentSinceStart
  BY DEF VoicesInv, VoicesFollowKeys
<1>2. /\ n = m_orderCounter + 1 /\ n \in 1 .. MaxNotes
      /\ held' = IF IsDrum(c, k) THEN held ELSE held \cup {<<n, c, k>>}
      /\ bends' = Append(bends, "neutral")
  BY <1>1, NoteOnFacts
<1>3. PICK v \in Pool :
        /\ findFreeVoice(v)
        /\ voices' \in [Pool -> Voice]
        /\ \A w \in Pool : w # v => voices'[w] = voices[w]
        /\ voices'[v].active /\ voices'[v].channel = c /\ voices'[v].note = k
        /\ voices'[v].drum = IsDrum(c, k)
        /\ voices'[v].startOrder = n
        /\ ~IsDrum(c, k) => voices'[v].env = "held"
        /\ voices'[v].bendNorm = "neutral"
  BY <1>1, NoteOnFacts
<1> HIDE DEF n
<1>4. /\ m_orderCounter \in Nat /\ n \in Nat /\ MaxVoices \in Nat
      /\ held \subseteq (1 .. MaxNotes) \X Channels \X Keys
      /\ bends \in Seq(Bend) /\ Len(bends) = m_orderCounter
  BY <1>1, <1>2 DEF VoicesAssumption, VoicesTypeOK
<1>5. VoicesTypeOK'
  <2>1. bends' \in Seq(Bend) /\ Len(bends') = n
    BY <1>2, <1>4 DEF Bend
  <2>2. held' \subseteq (1 .. MaxNotes) \X Channels \X Keys
    BY <1>2, <1>4
  <2> QED BY <1>2, <1>3, <1>4, <2>1, <2>2 DEF VoicesTypeOK, n
<1>6. \A w \in Pool : w # v /\ voices[w].active => voices[w].startOrder < n
  BY <1>1, <1>2, <1>4 DEF OrdersAreUnique
<1>7. OrdersAreUnique'
  <2>1. \A w \in Pool : voices'[w].active => voices'[w].startOrder \in 1 .. n
    BY <1>1, <1>2, <1>3, <1>4 DEF OrdersAreUnique
  <2>2. \A w, x \in Pool :
            voices'[w].active /\ voices'[x].active
              /\ voices'[w].startOrder = voices'[x].startOrder => w = x
    BY <1>1, <1>2, <1>3, <1>4, <1>6 DEF OrdersAreUnique
  <2>3. \A h \in held' : h[1] \in 1 .. n
    BY <1>1, <1>2, <1>4 DEF OrdersAreUnique
  <2> QED BY <2>1, <2>2, <2>3 DEF OrdersAreUnique, n
<1>8. EnvelopeRuns'
  BY <1>1, <1>3 DEF EnvelopeRuns
<1>9. HeldVoiceHasItsKey'
  <2> SUFFICES ASSUME NEW w \in Pool,
                      voices'[w].active, ~voices'[w].drum, voices'[w].env # "release"
               PROVE  <<voices'[w].startOrder, voices'[w].channel, voices'[w].note>> \in held'
    BY DEF HeldVoiceHasItsKey
  <2>1. CASE w = v
    BY <1>2, <1>3, <2>1
  <2>2. CASE w # v
    BY <1>1, <1>2, <1>3, <2>2 DEF HeldVoiceHasItsKey
  <2> QED BY <2>1, <2>2
<1>10. NewestKeysSound'
  <2> SUFFICES ASSUME NEW h \in held', n - h[1] < MaxVoices
               PROVE  \E w \in Pool :
                        /\ voices'[w].active /\ ~voices'[w].drum /\ voices'[w].env = "held"
                        /\ voices'[w].startOrder = h[1]
                        /\ voices'[w].channel = h[2] /\ voices'[w].note = h[3]
    BY DEF NewestKeysSound, n
  <2>1. CASE h \notin held
    <3>1. ~IsDrum(c, k) /\ h = <<n, c, k>>
      BY <1>2, <2>1
    <3> QED BY <1>3, <3>1
  <2>2. CASE h \in held
    <3>1. h[1] \in Nat /\ m_orderCounter - h[1] < MaxVoices
      BY <1>2, <1>4, <2>2
    <3>2. PICK w \in Pool :
            /\ voices[w].active /\ ~voices[w].drum /\ voices[w].env = "held"
            /\ voices[w].startOrder = h[1]
            /\ voices[w].channel = h[2] /\ voices[w].note = h[3]
      BY <1>1, <2>2, <3>1 DEF NewestKeysSound
    <3>3. w # v
      <4> SUFFICES ASSUME w = v PROVE FALSE
        OBVIOUS
      <4>1. \A x \in Pool : voices[x].active /\ voices[v].startOrder =< voices[x].startOrder
        BY <1>3, <3>2 DEF findFreeVoice
      <4>2. m_orderCounter + 1 - voices[v].startOrder >= MaxVoices
        BY <1>1, <4>1, OldestIsOld
      <4> QED BY <1>2, <1>4, <3>1, <3>2, <4>2
    <3> QED BY <1>3, <3>2, <3>3
  <2> QED BY <2>1, <2>2
<1>11. BentSinceStart'
  <2> SUFFICES ASSUME NEW w \in Pool, voices'[w].active
               PROVE  voices'[w].bendNorm = bends'[voices'[w].startOrder]
    BY DEF BentSinceStart
  <2>1. CASE w = v
    <3>1. bends'[n] = "neutral"
      BY <1>2, <1>4 DEF Bend
    <3> QED BY <1>3, <2>1, <3>1
  <2>2. CASE w # v
    <3>1. voices'[w] = voices[w] /\ voices[w].startOrder \in 1 .. m_orderCounter
      BY <1>1, <1>3, <2>2 DEF OrdersAreUnique
    <3>2. bends'[voices[w].startOrder] = bends[voices[w].startOrder]
      BY <1>2, <1>4, <3>1 DEF Bend
    <3> QED BY <1>1, <3>1, <3>2 DEF BentSinceStart
  <2> QED BY <2>1, <2>2
<1> QED BY <1>5, <1>7, <1>8, <1>9, <1>10, <1>11 DEF VoicesInv, VoicesFollowKeys

-----------------------------------------------------------------------------
(* The end of notes. *)

\* Whatever only ends notes, or bends them, leaves the order numbers unique.
LEMMA OrdersKept ==
    ASSUME OrdersAreUnique, held' \subseteq held, m_orderCounter' = m_orderCounter,
           \A v \in Pool : voices'[v].active =>
                voices[v].active /\ voices'[v].startOrder = voices[v].startOrder
    PROVE  OrdersAreUnique'
  BY DEF OrdersAreUnique, Pool

\* A Note Off releases the voices of its key, and takes the key from those held down.
LEMMA VoiceOffKeeps ==
    ASSUME VoicesInv, NEW c \in Channels, NEW k \in Keys, noteOff(c, k)
    PROVE  VoicesInv'
<1>1. /\ VoicesTypeOK /\ OrdersAreUnique /\ EnvelopeRuns /\ HeldVoiceHasItsKey
      /\ NewestKeysSound /\ BentSinceStart
  BY DEF VoicesInv, VoicesFollowKeys
<1>2. /\ held' = {h \in held : h[2] # c \/ h[3] # k}
      /\ m_orderCounter' = m_orderCounter /\ bends' = bends
      /\ voices' = [v \in Pool |-> IF Matches(v, c, k) /\ ~voices[v].drum
                                   THEN Released(voices[v]) ELSE voices[v]]
  BY DEF noteOff
<1>3. \A v \in Pool : voices[v] \in Voice
  BY <1>1 DEF VoicesTypeOK
<1>4. ASSUME NEW v \in Pool
      PROVE  /\ voices'[v] \in Voice
             /\ voices'[v].active = voices[v].active /\ voices'[v].drum = voices[v].drum
             /\ voices'[v].startOrder = voices[v].startOrder
             /\ voices'[v].channel = voices[v].channel /\ voices'[v].note = voices[v].note
             /\ voices'[v].bendNorm = voices[v].bendNorm
             /\ voices'[v].env = "idle" => voices[v].env = "idle"
             /\ voices'[v].env = "held" => voices[v].env = "held"
             /\ ~voices[v].drum /\ Matches(v, c, k) => voices'[v].env \in {"idle", "release"}
             /\ ~Matches(v, c, k) => voices'[v] = voices[v]
  BY <1>2, <1>3, ReleasedType
<1>5. VoicesTypeOK'
  BY <1>1, <1>2, <1>4 DEF VoicesTypeOK
<1>6. OrdersAreUnique'
  BY <1>1, <1>2, <1>4, OrdersKept
<1>7. EnvelopeRuns'
  BY <1>1, <1>4 DEF EnvelopeRuns
<1>8. HeldVoiceHasItsKey'
  <2> SUFFICES ASSUME NEW v \in Pool,
                      voices'[v].active, ~voices'[v].drum, voices'[v].env # "release"
               PROVE  <<voices'[v].startOrder, voices'[v].channel, voices'[v].note>> \in held'
    BY DEF HeldVoiceHasItsKey
  <2>1. voices'[v].env # "idle"
    BY <1>7 DEF EnvelopeRuns
  <2>2. ~Matches(v, c, k) /\ voices'[v] = voices[v]
    BY <1>4, <2>1
  <2>3. <<voices[v].startOrder, voices[v].channel, voices[v].note>> \in held
    BY <1>1, <2>2 DEF HeldVoiceHasItsKey
  <2> QED BY <1>2, <2>2, <2>3 DEF Matches
<1>9. NewestKeysSound'
  <2> SUFFICES ASSUME NEW h \in held', m_orderCounter' - h[1] < MaxVoices
               PROVE  \E v \in Pool :
                        /\ voices'[v].active /\ ~voices'[v].drum /\ voices'[v].env = "held"
                        /\ voices'[v].startOrder = h[1]
                        /\ voices'[v].channel = h[2] /\ voices'[v].note = h[3]
    BY DEF NewestKeysSound
  <2>1. PICK v \in Pool :
          /\ voices[v].active /\ ~voices[v].drum /\ voices[v].env = "held"
          /\ voices[v].startOrder = h[1]
          /\ voices[v].channel = h[2] /\ voices[v].note = h[3]
    BY <1>1, <1>2 DEF NewestKeysSound
  <2>2. ~Matches(v, c, k)
    BY <1>2, <2>1 DEF Matches
  <2> QED BY <1>4, <2>1, <2>2
<1>10. BentSinceStart'
  BY <1>1, <1>2, <1>4 DEF BentSinceStart
<1> QED BY <1>5, <1>6, <1>7, <1>8, <1>9, <1>10 DEF VoicesInv, VoicesFollowKeys

\* All Notes Off releases every voice, and All Sound Off stops it: no key is held then.
LEMMA AllOffKeeps ==
    ASSUME VoicesInv, allNotesOff \/ allSoundOff
    PROVE  VoicesInv'
<1>1. /\ VoicesTypeOK /\ OrdersAreUnique /\ EnvelopeRuns /\ BentSinceStart
  BY DEF VoicesInv, VoicesFollowKeys
<1>2. held' = {} /\ m_orderCounter' = m_orderCounter /\ bends' = bends
  BY DEF allNotesOff, allSoundOff
<1>3. \A v \in Pool : voices[v] \in Voice
  BY <1>1 DEF VoicesTypeOK
<1>4. /\ voices' \in [Pool -> Voice]
      /\ \A v \in Pool :
            voices'[v].active =>
                /\ voices[v].active /\ voices'[v].drum = voices[v].drum
                /\ voices'[v].startOrder = voices[v].startOrder
                /\ voices'[v].bendNorm = voices[v].bendNorm
                /\ voices'[v].env \in {"idle", "release"}
                /\ voices'[v].env = "idle" => voices[v].env = "idle"
  <2>1. CASE allNotesOff
    BY <1>3, <2>1, ReleasedType DEF allNotesOff
  <2>2. CASE allSoundOff
    BY <1>3, <2>2 DEF allSoundOff, Voice
  <2> QED BY <2>1, <2>2
<1>5. VoicesTypeOK'
  BY <1>1, <1>2, <1>4 DEF VoicesTypeOK
<1>6. OrdersAreUnique'
  BY <1>1, <1>2, <1>4, OrdersKept
<1>7. EnvelopeRuns'
  BY <1>1, <1>4 DEF EnvelopeRuns
<1>8. HeldVoiceHasItsKey'
  BY <1>4, <1>7 DEF HeldVoiceHasItsKey, EnvelopeRuns
<1>9. NewestKeysSound'
  BY <1>2 DEF NewestKeysSound
<1>10. BentSinceStart'
  BY <1>1, <1>2, <1>4 DEF BentSinceStart
<1> QED BY <1>5, <1>6, <1>7, <1>8, <1>9, <1>10 DEF VoicesInv, VoicesFollowKeys

\* A voice that has died away is free, and no key is held that it played: it was released.
LEMMA VoiceEndsKeeps ==
    ASSUME VoicesInv, NEW u \in Pool, VoiceEnds(u)
    PROVE  VoicesInv'
<1>1. /\ VoicesTypeOK /\ OrdersAreUnique /\ EnvelopeRuns /\ HeldVoiceHasItsKey
      /\ NewestKeysSound /\ BentSinceStart
  BY DEF VoicesInv, VoicesFollowKeys
<1>2. UNCHANGED <<held, m_orderCounter, bends>> /\ (voices[u].drum \/ voices[u].env = "release")
  BY DEF VoiceEnds
<1>3. \A v \in Pool : voices[v] \in Voice
  BY <1>1 DEF VoicesTypeOK
<1>4. /\ voices' \in [Pool -> Voice] /\ ~voices'[u].active
      /\ \A v \in Pool : v # u => voices'[v] = voices[v]
  <2> DEFINE off == [voices[u] EXCEPT !.active = FALSE]
             idle == [off EXCEPT !.env = "idle"]
  <2>1. off \in Voice /\ ~off.active /\ idle \in Voice /\ ~idle.active
    BY <1>3 DEF Voice
  <2>2. voices \in [Pool -> Voice]
    BY <1>1 DEF VoicesTypeOK
  <2>3. CASE voices' = [voices EXCEPT ![u] = off]
    <3> HIDE DEF off
    <3> QED BY <2>1, <2>2, <2>3
  <2>4. CASE voices' = [voices EXCEPT ![u].active = FALSE, ![u].env = "idle"]
    <3>1. voices' = [[voices EXCEPT ![u] = off] EXCEPT ![u] = [[voices EXCEPT ![u] = off][u] EXCEPT !.env = "idle"]]
      BY <2>4
    <3>2. [voices EXCEPT ![u] = off][u] = off
      BY <2>2
    <3>3. voices' = [[voices EXCEPT ![u] = off] EXCEPT ![u] = idle]
      BY <3>1, <3>2
    <3> HIDE DEF off, idle
    <3> QED BY <2>1, <2>2, <3>3
  <2> QED BY <2>3, <2>4 DEF VoiceEnds
<1>5. VoicesTypeOK'
  BY <1>1, <1>2, <1>4 DEF VoicesTypeOK
<1>6. OrdersAreUnique'
  BY <1>1, <1>2, <1>4, OrdersKept
<1>7. EnvelopeRuns'
  BY <1>1, <1>4 DEF EnvelopeRuns
<1>8. HeldVoiceHasItsKey'
  BY <1>1, <1>2, <1>4 DEF HeldVoiceHasItsKey
<1>9. NewestKeysSound'
  <2> SUFFICES ASSUME NEW h \in held, m_orderCounter - h[1] < MaxVoices
               PROVE  \E v \in Pool :
                        /\ voices'[v].active /\ ~voices'[v].drum /\ voices'[v].env = "held"
                        /\ voices'[v].startOrder = h[1]
                        /\ voices'[v].channel = h[2] /\ voices'[v].note = h[3]
    BY <1>2 DEF NewestKeysSound
  <2>1. PICK v \in Pool :
          /\ voices[v].active /\ ~voices[v].drum /\ voices[v].env = "held"
          /\ voices[v].startOrder = h[1]
          /\ voices[v].channel = h[2] /\ voices[v].note = h[3]
    BY <1>1 DEF NewestKeysSound
  <2> QED BY <1>2, <1>4, <2>1
<1>10. BentSinceStart'
  BY <1>1, <1>2, <1>4 DEF BentSinceStart
<1> QED BY <1>5, <1>6, <1>7, <1>8, <1>9, <1>10 DEF VoicesInv, VoicesFollowKeys

-----------------------------------------------------------------------------
(* Bends. *)

\* A step that changes nothing of the voices but their bends keeps what is held.
LEMMA BendKeeps ==
    ASSUME VoicesInv, UNCHANGED <<m_orderCounter, held>>,
           voices' \in [Pool -> Voice], bends' \in Seq(Bend), Len(bends') = m_orderCounter,
           \A v \in Pool : /\ voices'[v].active = voices[v].active
                           /\ voices'[v].drum = voices[v].drum
                           /\ voices'[v].env = voices[v].env
                           /\ voices'[v].startOrder = voices[v].startOrder
                           /\ voices'[v].channel = voices[v].channel
                           /\ voices'[v].note = voices[v].note,
           BentSinceStart'
    PROVE  VoicesInv'
<1>1. /\ VoicesTypeOK /\ OrdersAreUnique /\ EnvelopeRuns /\ HeldVoiceHasItsKey
      /\ NewestKeysSound
  BY DEF VoicesInv, VoicesFollowKeys
<1>2. VoicesTypeOK'
  BY <1>1 DEF VoicesTypeOK
<1>3. OrdersAreUnique'
  BY <1>1, OrdersKept
<1>4. EnvelopeRuns' /\ HeldVoiceHasItsKey'
  BY <1>1 DEF EnvelopeRuns, HeldVoiceHasItsKey
<1>5. NewestKeysSound'
  BY <1>1 DEF NewestKeysSound
<1> QED BY <1>2, <1>3, <1>4, <1>5 DEF VoicesInv, VoicesFollowKeys

LEMMA PitchBendKeeps ==
    ASSUME VoicesInv, NEW c \in Channels, NEW b \in Bend, setPitchBend(c, b)
    PROVE  VoicesInv'
<1>1. VoicesTypeOK /\ OrdersAreUnique /\ BentSinceStart
  BY DEF VoicesInv, VoicesFollowKeys
<1>2. /\ UNCHANGED <<m_orderCounter, held>>
      /\ voices' = [v \in Pool |-> IF voices[v].active /\ voices[v].channel = c
                                   THEN [voices[v] EXCEPT !.bendNorm = b] ELSE voices[v]]
      /\ bends' = [i \in DOMAIN bends |->
                      IF Heard(i) /\ voices[VoiceOf(i)].channel = c THEN b ELSE bends[i]]
  BY DEF setPitchBend
<1>3. /\ \A v \in Pool : voices[v] \in Voice
      /\ bends \in Seq(Bend) /\ Len(bends) = m_orderCounter /\ m_orderCounter \in Nat
      /\ DOMAIN bends = 1 .. m_orderCounter
  BY <1>1 DEF VoicesTypeOK
<1>4. voices' \in [Pool -> Voice]
  BY <1>2, <1>3 DEF Voice
<1>5. bends' \in Seq(Bend) /\ Len(bends') = m_orderCounter
  <2>1. bends' \in [1 .. m_orderCounter -> Bend]
    BY <1>2, <1>3
  <2> QED BY <1>3, <2>1
<1>6. \A v \in Pool : /\ voices'[v].active = voices[v].active
                      /\ voices'[v].drum = voices[v].drum
                      /\ voices'[v].env = voices[v].env
                      /\ voices'[v].startOrder = voices[v].startOrder
                      /\ voices'[v].channel = voices[v].channel
                      /\ voices'[v].note = voices[v].note
  BY <1>2, <1>3 DEF Voice
<1>7. BentSinceStart'
  <2> SUFFICES ASSUME NEW v \in Pool, voices[v].active
               PROVE  voices'[v].bendNorm = bends'[voices[v].startOrder]
    BY <1>6 DEF BentSinceStart
  <2> DEFINE i == voices[v].startOrder
  <2>1. i \in DOMAIN bends /\ Heard(i)
    BY <1>1, <1>3 DEF OrdersAreUnique, Heard
  <2>2. VoiceOf(i) = v
    BY <1>1 DEF OrdersAreUnique, VoiceOf
  <2>3. bends'[i] = IF voices[v].channel = c THEN b ELSE bends[i]
    BY <1>2, <2>1, <2>2
  <2>4. voices'[v].bendNorm = IF voices[v].channel = c THEN b ELSE voices[v].bendNorm
    BY <1>2, <1>3 DEF Voice
  <2> QED BY <1>1, <2>3, <2>4 DEF BentSinceStart
<1> QED BY <1>2, <1>4, <1>5, <1>6, <1>7, BendKeeps

LEMMA PerNoteBendKeeps ==
    ASSUME VoicesInv, NEW c \in Channels, NEW k \in Keys, NEW b \in Bend,
           setPerNotePitchBend(c, k, b)
    PROVE  VoicesInv'
<1>1. VoicesTypeOK /\ BentSinceStart
  BY DEF VoicesInv, VoicesFollowKeys
<1>2. /\ UNCHANGED <<m_orderCounter, held, bends>>
      /\ voices' = [v \in Pool |-> IF Matches(v, c, k)
                                   THEN [voices[v] EXCEPT !.perNoteBendNorm = b] ELSE voices[v]]
  BY DEF setPerNotePitchBend
<1>3. \A v \in Pool : voices[v] \in Voice
  BY <1>1 DEF VoicesTypeOK
<1>4. voices' \in [Pool -> Voice]
  BY <1>2, <1>3 DEF Voice
<1>5. \A v \in Pool : /\ voices'[v].active = voices[v].active
                      /\ voices'[v].drum = voices[v].drum
                      /\ voices'[v].env = voices[v].env
                      /\ voices'[v].startOrder = voices[v].startOrder
                      /\ voices'[v].channel = voices[v].channel
                      /\ voices'[v].note = voices[v].note
                      /\ voices'[v].bendNorm = voices[v].bendNorm
  BY <1>2, <1>3 DEF Voice
<1>6. BentSinceStart'
  BY <1>1, <1>2, <1>5 DEF BentSinceStart
<1>7. bends' \in Seq(Bend) /\ Len(bends') = m_orderCounter
  BY <1>1, <1>2 DEF VoicesTypeOK
<1> QED BY <1>2, <1>4, <1>5, <1>6, <1>7, BendKeeps

-----------------------------------------------------------------------------
LEMMA InvInit ==
    ASSUME VoicesAssumption, VoicesInit
    PROVE  VoicesInv
<1>1. VoicesTypeOK
  BY TypeInit
<1>2. \A v \in Pool : ~voices[v].active
  BY DEF VoicesInit, Unused
<1>3. held = {}
  BY DEF VoicesInit
<1> QED BY <1>1, <1>2, <1>3 DEF VoicesInv, OrdersAreUnique, EnvelopeRuns, VoicesFollowKeys,
        HeldVoiceHasItsKey, NewestKeysSound, BentSinceStart

LEMMA InvNext ==
    ASSUME VoicesAssumption, VoicesInv, [VoicesNext]_voiceVars
    PROVE  VoicesInv'
<1>1. CASE UNCHANGED voiceVars
  BY <1>1 DEF voiceVars, VoicesInv, OrdersAreUnique, EnvelopeRuns, VoicesFollowKeys, VoicesTypeOK,
              HeldVoiceHasItsKey, NewestKeysSound, BentSinceStart
<1> QED BY <1>1, VoiceOnKeeps, VoiceOffKeeps, PitchBendKeeps, PerNoteBendKeeps, AllOffKeeps,
           VoiceEndsKeeps DEF VoicesNext

\* A voice at full level has a key that is down, the newest keys sound in spite of stealing
\* and of every Note Off, and a note is bent by what was sent since it began: for any pool,
\* drum map and history (noteOn, noteOff, findFreeVoice and setPitchBend of Synth).
THEOREM PoolFollowsKeys ==
    ASSUME VoicesAssumption
    PROVE  VoicesSpec => []VoicesFollowKeys
<1>1. VoicesInit => VoicesInv
  BY InvInit
<1>2. VoicesInv /\ [VoicesNext]_voiceVars => VoicesInv'
  BY InvNext
<1>3. VoicesInv => VoicesFollowKeys
  BY DEF VoicesInv
<1> QED BY <1>1, <1>2, <1>3, PTL DEF VoicesSpec

-----------------------------------------------------------------------------
(* The recorder's inductive invariant.  While a recording runs that no block   *)
(* of an earlier one disturbs, the chunks up to the count hold samples it was  *)
(* handed, in order; a block that has the flag is then always its own.         *)

BlockTypeOK ==
    /\ block \in [pc : {"out", "sample", "store"}, left : Nat, rec : BOOLEAN, n : Nat]
    /\ block.pc = "out" => ~block.rec
    /\ block.pc = "store" => block.rec
    /\ block.n =< MaxChunks * ChunkFrames

\* The block's samples fit below the bound.
ClockInBound ==
    /\ clock \in 0 .. MaxSamples
    /\ block.pc # "out" => block.left >= 1
    /\ block.pc = "sample" => clock + block.left =< MaxSamples
    /\ block.pc = "store" => clock + block.left =< MaxSamples + 1

RecorderTypeOK ==
    /\ m_recording \in BOOLEAN /\ torn \in BOOLEAN /\ dropped \in BOOLEAN
    /\ m_recCount \in 0 .. MaxChunks * ChunkFrames
    /\ m_recChunks \in [Chunks -> {Null} \cup [0 .. ChunkFrames - 1 -> 0 .. MaxSamples]]
    /\ captured \in Seq(Nat) /\ served \in Nat

Undisturbed == m_recording /\ ~torn

\* The i-th sample of the take, and how many samples the recorder has done with.
Sample(i) == m_recChunks[ChunkOf(i - 1)][(i - 1) % ChunkFrames]
Settled == IF block.pc = "store" THEN Len(captured) - 1 ELSE Len(captured)

\* A block of a recording that was stopped is known to be torn.
NoStrayBlock == ~m_recording /\ ~torn => ~block.rec

CapturedInOrder ==
    /\ \A i, j \in 1 .. Len(captured) : i < j => captured[i] < captured[j]
    /\ \A i \in 1 .. Len(captured) : captured[i] =< clock

\* The sample under way is the last that was handed over, and goes where it belongs.
UnderWay ==
    block.pc = "store" =>
        block.n = m_recCount /\ Len(captured) >= 1 /\ captured[Len(captured)] = clock

TakeSoFar ==
    /\ \A i \in 1 .. m_recCount : Ready(i - 1) /\ \E j \in 1 .. Settled : Sample(i) = captured[j]
    /\ \A i, j \in 1 .. m_recCount : i < j => Sample(i) < Sample(j)
    /\ ~dropped => m_recCount = Settled /\ \A i \in 1 .. m_recCount : Sample(i) = captured[i]

\* What the GUI thread has prepared when it last came in time.
HasChunk(k) == k < MaxChunks => m_recChunks[k] # Null
Prepared ==
    /\ served =< m_recCount
    /\ HasChunk(ChunkOf(served)) /\ HasChunk(ChunkOf(served) + 1)
    /\ served # 0 => HasChunk(ChunkOf(served) + 2)

RecorderInv ==
    /\ BlockTypeOK /\ ClockInBound /\ RecorderTypeOK /\ NoStrayBlock
    /\ Undisturbed => CapturedInOrder /\ UnderWay /\ TakeSoFar /\ Prepared

-----------------------------------------------------------------------------
(* Division, as chunks and ring slots use it. *)

LEMMA Division ==
    ASSUME NEW f \in Nat \ {0}, NEW n \in Nat
    PROVE  /\ n \div f \in Nat /\ n % f \in 0 .. f - 1
           /\ n = f * (n \div f) + (n % f)
  OBVIOUS

LEMMA QuotientBounds ==
    ASSUME NEW f \in Nat \ {0}, NEW n \in Nat, NEW k \in Nat
    PROVE  /\ k =< n \div f <=> k * f =< n
           /\ n < f * (n \div f) + f
  BY Division

LEMMA SameQuotientAndRest ==
    ASSUME NEW f \in Nat \ {0}, NEW n \in Nat, NEW m \in Nat, n \div f = m \div f, n % f = m % f
    PROVE  n = m
  BY Division

LEMMA QuotientGrows ==
    ASSUME NEW f \in Nat \ {0}, NEW n \in Nat, NEW m \in Nat, n =< m
    PROVE  n \div f =< m \div f
  BY Division

LEMMA QuotientOfMultiple ==
    ASSUME NEW f \in Nat \ {0}, NEW k \in Nat
    PROVE  k * f \in Nat /\ (k * f) \div f = k
  BY Division

-----------------------------------------------------------------------------
(* Chunks. *)

LEMMA ChunkTypes ==
    ASSUME RecordingAssumption
    PROVE  /\ ChunkFrames \in Nat \ {0} /\ MaxChunks \in Nat \ {0}
           /\ MaxSamples \in Nat /\ MaxTakes \in Nat
           /\ MaxChunks * ChunkFrames \in Nat
           /\ \A n \in Nat : /\ ChunkOf(n) \in Nat /\ n % ChunkFrames \in 0 .. ChunkFrames - 1
                             /\ ChunkOf(n) < MaxChunks => ChunkOf(n) \in Chunks
                             /\ ChunkOf(n) < MaxChunks => n + 1 =< MaxChunks * ChunkFrames
<1>1. /\ ChunkFrames \in Nat \ {0} /\ MaxChunks \in Nat \ {0}
      /\ MaxSamples \in Nat /\ MaxTakes \in Nat
  BY DEF RecordingAssumption
<1>2. MaxChunks * ChunkFrames \in Nat
  BY <1>1
<1>3. ASSUME NEW n \in Nat
      PROVE  /\ ChunkOf(n) \in Nat /\ n % ChunkFrames \in 0 .. ChunkFrames - 1
             /\ ChunkOf(n) < MaxChunks => ChunkOf(n) \in Chunks
             /\ ChunkOf(n) < MaxChunks => n + 1 =< MaxChunks * ChunkFrames
  <2>1. n \div ChunkFrames \in Nat /\ n % ChunkFrames \in 0 .. ChunkFrames - 1
    BY <1>1, Division
  <2>2. MaxChunks =< n \div ChunkFrames <=> MaxChunks * ChunkFrames =< n
    BY <1>1, QuotientBounds
  <2> QED BY <1>1, <1>2, <2>1, <2>2 DEF ChunkOf, Chunks
<1> QED BY <1>1, <1>2, <1>3

LEMMA ChunkRange ==
    ASSUME RecordingAssumption
    PROVE  \A k \in Nat : k < MaxChunks <=> k \in Chunks
  BY DEF RecordingAssumption, Chunks

\* There is no chunk where there is Null.
LEMMA ChunkIsNotNull ==
    ASSUME RecordingAssumption, NEW c \in [0 .. ChunkFrames - 1 -> 0 .. MaxSamples]
    PROVE  c # Null
<1>1. 0 \in DOMAIN c
  BY ChunkTypes
<1>2. DOMAIN Null = {}
  BY DEF Null
<1> QED BY <1>1, <1>2

\* ensureRecChunk leaves the chunks there are and fills the places asked for.
LEMMA WithChunksFills ==
    ASSUME RecordingAssumption, NEW indices,
           NEW chunks \in [Chunks -> {Null} \cup [0 .. ChunkFrames - 1 -> 0 .. MaxSamples]]
    PROVE  /\ WithChunks(chunks, indices)
                 \in [Chunks -> {Null} \cup [0 .. ChunkFrames - 1 -> 0 .. MaxSamples]]
           /\ \A k \in Chunks : /\ chunks[k] # Null => WithChunks(chunks, indices)[k] = chunks[k]
                                /\ k \in indices => WithChunks(chunks, indices)[k] # Null
<1>1. Silence \in [0 .. ChunkFrames - 1 -> 0 .. MaxSamples]
  BY ChunkTypes DEF Silence
<1>2. Silence # Null
  BY <1>1, ChunkIsNotNull
<1>3. WithChunks(chunks, indices) =
        [k \in Chunks |-> IF k \in indices /\ chunks[k] = Null THEN Silence ELSE chunks[k]]
  BY DEF WithChunks
<1> QED BY <1>1, <1>2, <1>3

\* A stored sample is where it belongs, and no other has moved.
LEMMA StoredFacts ==
    ASSUME RecordingAssumption, RecorderTypeOK, clock \in 0 .. MaxSamples, NEW n \in Nat, Ready(n)
    PROVE  /\ Stored(n) \in [Chunks -> {Null} \cup [0 .. ChunkFrames - 1 -> 0 .. MaxSamples]]
           /\ Stored(n)[ChunkOf(n)][n % ChunkFrames] = clock
           /\ \A k \in Chunks : m_recChunks[k] # Null => Stored(n)[k] # Null
           /\ \A m \in Nat : Ready(m) /\ m # n =>
                 Stored(n)[ChunkOf(m)][m % ChunkFrames] = m_recChunks[ChunkOf(m)][m % ChunkFrames]
<1> DEFINE c == ChunkOf(n)
           new == [m_recChunks[c] EXCEPT ![n % ChunkFrames] = clock]
           F == [0 .. ChunkFrames - 1 -> 0 .. MaxSamples]
<1>1. c \in Chunks /\ m_recChunks[c] # Null /\ n % ChunkFrames \in 0 .. ChunkFrames - 1
  BY ChunkTypes DEF Ready
<1>2. m_recChunks \in [Chunks -> {Null} \cup F] /\ m_recChunks[c] \in F
  BY <1>1 DEF RecorderTypeOK
<1>3. new \in F /\ new[n % ChunkFrames] = clock
      /\ \A i \in 0 .. ChunkFrames - 1 : i # n % ChunkFrames => new[i] = m_recChunks[c][i]
  BY <1>1, <1>2
<1>4. new # Null
  BY <1>3, ChunkIsNotNull
<1>5. Stored(n) = [m_recChunks EXCEPT ![c] = new]
  BY DEF Stored
<1>6. Stored(n) \in [Chunks -> {Null} \cup F] /\ Stored(n)[c] = new
      /\ \A k \in Chunks : k # c => Stored(n)[k] = m_recChunks[k]
  <2> HIDE DEF new, F, c
  <2> QED BY <1>1, <1>2, <1>3, <1>5
<1>7. ASSUME NEW m \in Nat, Ready(m), m # n
      PROVE  Stored(n)[ChunkOf(m)][m % ChunkFrames] = m_recChunks[ChunkOf(m)][m % ChunkFrames]
  <2>1. ChunkOf(m) \in Chunks /\ m % ChunkFrames \in 0 .. ChunkFrames - 1
    BY <1>7, ChunkTypes DEF Ready
  <2>2. ~(ChunkOf(m) = c /\ m % ChunkFrames = n % ChunkFrames)
    BY <1>7, SameQuotientAndRest, ChunkTypes DEF ChunkOf
  <2> HIDE DEF new, F, c
  <2> QED BY <2>1, <2>2, <1>3, <1>6
<1> HIDE DEF new
<1> QED BY <1>3, <1>4, <1>6, <1>7

-----------------------------------------------------------------------------
(* The input callback. *)

LEMMA RecorderInit ==
    ASSUME RecordingAssumption, Init
    PROVE  RecorderInv
<1>1. BlockTypeOK /\ ClockInBound
  BY ChunkTypes DEF Init, NoBlock, BlockTypeOK, ClockInBound
<1>2. RecorderTypeOK
  <2>1. MaxChunks * ChunkFrames \in Nat
    BY ChunkTypes
  <2>2. m_recChunks \in [Chunks -> {Null} \cup [0 .. ChunkFrames - 1 -> 0 .. MaxSamples]]
    BY DEF Init
  <2>3. m_recCount \in 0 .. MaxChunks * ChunkFrames
    BY <2>1 DEF Init
  <2>4. captured = << >> /\ << >> \in Seq(Nat) /\ served = 0
    BY DEF Init
  <2>5. m_recording \in BOOLEAN /\ torn \in BOOLEAN /\ dropped \in BOOLEAN
    BY DEF Init
  <2> QED BY <2>2, <2>3, <2>4, <2>5 DEF RecorderTypeOK
<1> QED BY <1>1, <1>2 DEF Init, NoBlock, RecorderInv, NoStrayBlock, Undisturbed

LEMMA BlockBeginKeeps ==
    ASSUME RecordingAssumption, RecorderInv, BlockBegin
    PROVE  RecorderInv'
<1>1. PICK frames \in BlockSizes :
        /\ clock + frames =< MaxSamples
        /\ block' = [pc |-> "sample", left |-> frames, rec |-> m_recording, n |-> 0]
  BY DEF BlockBegin
<1>2. frames \in Nat \ {0}
  BY DEF RecordingAssumption
<1>3. block.pc = "out" /\ UNCHANGED <<m_recording, m_recCount, m_recChunks, clock, captured, torn, served, dropped>>
  BY DEF BlockBegin
<1>4. BlockTypeOK' /\ ClockInBound' /\ NoStrayBlock'
  BY <1>1, <1>2, <1>3, ChunkTypes DEF RecorderInv, BlockTypeOK, ClockInBound, RecorderTypeOK, NoStrayBlock
<1>5. RecorderTypeOK' /\ (Undisturbed' <=> Undisturbed) /\ (CapturedInOrder' <=> CapturedInOrder)
      /\ (Prepared' <=> Prepared)
  BY <1>3 DEF RecorderInv, RecorderTypeOK, Undisturbed, CapturedInOrder, Prepared, HasChunk
<1>6. UnderWay'
  BY <1>1 DEF UnderWay
<1>7. TakeSoFar => TakeSoFar'
  <2>1. Settled' = Settled
    BY <1>1, <1>3 DEF Settled
  <2> QED BY <1>3, <2>1 DEF TakeSoFar, Ready, Sample
<1> QED BY <1>4, <1>5, <1>6, <1>7 DEF RecorderInv

\* What the end of a sample's way leaves of the block.
LEMMA EndSampleFacts ==
    ASSUME BlockTypeOK, block.pc # "out", block.left >= 1, EndSample
    PROVE  /\ block' \in [pc : {"out", "sample", "store"}, left : Nat, rec : BOOLEAN, n : Nat]
           /\ block'.pc \in {"out", "sample"} /\ block'.n = 0
           /\ block'.pc = "out" => ~block'.rec
           /\ block'.pc = "sample" => block'.left = block.left - 1 /\ block'.left >= 1
           /\ block'.rec => block.rec
<1>1. CASE block.left = 1
  BY <1>1 DEF EndSample, NoBlock, BlockTypeOK
<1>2. CASE block.left # 1
  BY <1>2 DEF EndSample, BlockTypeOK
<1> QED BY <1>1, <1>2

LEMMA PassSampleKeeps ==
    ASSUME RecordingAssumption, RecorderInv, PassSample
    PROVE  RecorderInv'
<1>1. /\ block.pc = "sample" /\ ~block.rec /\ clock' = clock + 1 /\ EndSample
      /\ UNCHANGED <<m_recording, m_recCount, m_recChunks, captured, torn, served, dropped>>
  BY DEF PassSample
<1>2. BlockTypeOK /\ ClockInBound /\ block.left >= 1 /\ clock + block.left =< MaxSamples
      /\ clock \in Nat /\ block.left \in Nat
  BY <1>1 DEF RecorderInv, BlockTypeOK, ClockInBound
<1>3. /\ block' \in [pc : {"out", "sample", "store"}, left : Nat, rec : BOOLEAN, n : Nat]
      /\ block'.pc \in {"out", "sample"} /\ block'.n = 0
      /\ block'.pc = "out" => ~block'.rec
      /\ block'.pc = "sample" => block'.left = block.left - 1 /\ block'.left >= 1
      /\ ~block'.rec
  BY <1>1, <1>2, EndSampleFacts
<1>4. BlockTypeOK' /\ NoStrayBlock'
  BY <1>3, ChunkTypes DEF BlockTypeOK, NoStrayBlock
<1>5. ClockInBound'
  BY <1>1, <1>2, <1>3, ChunkTypes DEF ClockInBound
<1>6. RecorderTypeOK' /\ (Undisturbed' <=> Undisturbed) /\ (Prepared' <=> Prepared)
  BY <1>1 DEF RecorderInv, RecorderTypeOK, Undisturbed, Prepared, HasChunk
<1>7. CapturedInOrder => CapturedInOrder'
  <2>1. \A i \in 1 .. Len(captured) : captured[i] \in Nat
    BY ElementOfSeq DEF RecorderInv, RecorderTypeOK
  <2> QED BY <1>1, <1>2, <2>1 DEF CapturedInOrder
<1>8. UnderWay'
  BY <1>3 DEF UnderWay
<1>9. TakeSoFar => TakeSoFar'
  <2>1. Settled' = Settled
    BY <1>1, <1>3 DEF Settled
  <2> QED BY <1>1, <2>1 DEF TakeSoFar, Ready, Sample
<1> QED BY <1>4, <1>5, <1>6, <1>7, <1>8, <1>9 DEF RecorderInv

LEMMA LoadCountKeeps ==
    ASSUME RecordingAssumption, RecorderInv, LoadCount
    PROVE  RecorderInv'
<1>1. /\ block.pc = "sample" /\ block.rec /\ clock' = clock + 1
      /\ captured' = Append(captured, clock')
      /\ block' = [block EXCEPT !.pc = "store", !.n = m_recCount]
      /\ UNCHANGED <<m_recording, m_recCount, m_recChunks, torn, served, dropped>>
  BY DEF LoadCount
<1>2. /\ BlockTypeOK /\ block.left >= 1 /\ clock + block.left =< MaxSamples
      /\ clock \in Nat /\ block.left \in Nat
  BY <1>1 DEF RecorderInv, BlockTypeOK, ClockInBound
<1>3. m_recCount \in 0 .. MaxChunks * ChunkFrames /\ m_recCount \in Nat /\ captured \in Seq(Nat)
  BY ChunkTypes DEF RecorderInv, RecorderTypeOK
<1>4. /\ block' \in [pc : {"out", "sample", "store"}, left : Nat, rec : BOOLEAN, n : Nat]
      /\ block'.pc = "store" /\ block'.n = m_recCount /\ block'.left = block.left /\ block'.rec
  BY <1>1, <1>2, <1>3 DEF BlockTypeOK
<1>5. BlockTypeOK'
  BY <1>3, <1>4, ChunkTypes DEF BlockTypeOK
<1>6. ClockInBound'
  <2>1. MaxSamples \in Nat
    BY ChunkTypes
  <2>2. clock' = clock + 1 /\ clock' \in 0 .. MaxSamples
    BY <1>1, <1>2, <2>1
  <2>3. block'.left >= 1 /\ clock' + block'.left =< MaxSamples + 1
    BY <1>2, <1>4, <2>1, <2>2
  <2> QED BY <1>4, <2>2, <2>3 DEF ClockInBound
<1>7. /\ captured' \in Seq(Nat) /\ Len(captured') = Len(captured) + 1 /\ Len(captured) \in Nat
      /\ captured'[Len(captured')] = clock' /\ clock' \in Nat
      /\ \A i \in 1 .. Len(captured) : captured'[i] = captured[i] /\ captured[i] \in Nat
  BY <1>1, <1>2, <1>3
<1>8. RecorderTypeOK' /\ (Undisturbed' <=> Undisturbed) /\ (Prepared' <=> Prepared)
      /\ (NoStrayBlock => NoStrayBlock')
  BY <1>1, <1>4, <1>7 DEF RecorderInv, RecorderTypeOK, Undisturbed, Prepared, HasChunk, NoStrayBlock
<1>9. CapturedInOrder => CapturedInOrder'
  BY <1>1, <1>2, <1>7 DEF CapturedInOrder
<1>10. UnderWay'
  BY <1>1, <1>4, <1>7 DEF UnderWay
<1>11. TakeSoFar => TakeSoFar'
  <2>1. Settled = Len(captured) /\ Settled' = Settled
    BY <1>1, <1>4, <1>7 DEF Settled
  <2>2. \A i : Ready(i)' <=> Ready(i)
    BY <1>1 DEF Ready
  <2>3. \A i : Sample(i)' = Sample(i)
    BY <1>1 DEF Sample
  <2>4. SUFFICES ASSUME TakeSoFar PROVE TakeSoFar'
    OBVIOUS
  <2>5. \A i \in 1 .. m_recCount : Ready(i - 1)' /\ \E j \in 1 .. Settled' : Sample(i)' = captured'[j]
    BY <2>1, <2>2, <2>3, <2>4, <1>7 DEF TakeSoFar
  <2>6. \A i, j \in 1 .. m_recCount : i < j => Sample(i)' < Sample(j)'
    BY <2>3, <2>4 DEF TakeSoFar
  <2>7. ~dropped => m_recCount = Settled' /\ \A i \in 1 .. m_recCount : Sample(i)' = captured'[i]
    BY <2>1, <2>3, <2>4, <1>7 DEF TakeSoFar
  <2> QED BY <2>5, <2>6, <2>7, <1>1 DEF TakeSoFar
<1> QED BY <1>5, <1>6, <1>8, <1>9, <1>10, <1>11 DEF RecorderInv

\* What the proofs of the steps use of the types.
LEMMA RecordTypes ==
    ASSUME RecordingAssumption, RecorderInv
    PROVE  /\ m_recCount \in 0 .. MaxChunks * ChunkFrames /\ m_recCount \in Nat
           /\ m_recChunks \in [Chunks -> {Null} \cup [0 .. ChunkFrames - 1 -> 0 .. MaxSamples]]
           /\ captured \in Seq(Nat) /\ Len(captured) \in Nat
<1>1. RecorderTypeOK
  BY DEF RecorderInv
<1>2. MaxChunks * ChunkFrames \in Nat
  BY ChunkTypes
<1>3. m_recCount \in 0 .. MaxChunks * ChunkFrames
  BY <1>1 DEF RecorderTypeOK
<1>4. m_recCount \in Nat
  BY <1>2, <1>3
<1>5. captured \in Seq(Nat) /\ Len(captured) \in Nat
  BY <1>1 DEF RecorderTypeOK
<1> QED BY <1>1, <1>3, <1>4, <1>5 DEF RecorderTypeOK

\* The sample that was under way settles: it joins the take, or is dropped.
LEMMA StoreSampleKeeps ==
    ASSUME RecordingAssumption, RecorderInv, StoreSample
    PROVE  RecorderInv'
<1>1. /\ block.pc = "store" /\ EndSample /\ dropped' = (dropped \/ ~Ready(block.n))
      /\ UNCHANGED <<m_recording, clock, captured, torn, served>>
  BY DEF StoreSample
<1>2. /\ BlockTypeOK /\ block.rec /\ block.left >= 1 /\ clock + block.left =< MaxSamples + 1
      /\ clock \in 0 .. MaxSamples /\ block.left \in Nat /\ block.n \in Nat
  BY <1>1 DEF RecorderInv, BlockTypeOK, ClockInBound
<1>3. /\ block' \in [pc : {"out", "sample", "store"}, left : Nat, rec : BOOLEAN, n : Nat]
      /\ block'.pc \in {"out", "sample"} /\ block'.n = 0
      /\ block'.pc = "out" => ~block'.rec
      /\ block'.pc = "sample" => block'.left = block.left - 1 /\ block'.left >= 1
  BY <1>1, <1>2, EndSampleFacts
<1>4. BlockTypeOK'
  BY <1>3, ChunkTypes DEF BlockTypeOK
<1>5. ClockInBound'
  <2>1. MaxSamples \in Nat
    BY ChunkTypes
  <2> QED BY <1>1, <1>2, <1>3, <2>1 DEF ClockInBound
<1>6. NoStrayBlock'
  BY <1>1, <1>2 DEF NoStrayBlock, RecorderInv
<1>7. /\ m_recCount \in 0 .. MaxChunks * ChunkFrames /\ m_recCount \in Nat
      /\ m_recChunks \in [Chunks -> {Null} \cup [0 .. ChunkFrames - 1 -> 0 .. MaxSamples]]
      /\ captured \in Seq(Nat) /\ Len(captured) \in Nat
  BY RecordTypes
<1>8. /\ \/ Ready(block.n) /\ m_recChunks' = Stored(block.n)
         \/ UNCHANGED m_recChunks
      /\ \/ ChunkOf(block.n) < MaxChunks /\ m_recCount' = block.n + 1
         \/ UNCHANGED m_recCount
  BY DEF StoreSample, Ready
<1>9. RecorderTypeOK'
  <2>1. m_recChunks' \in [Chunks -> {Null} \cup [0 .. ChunkFrames - 1 -> 0 .. MaxSamples]]
    BY <1>2, <1>7, <1>8, StoredFacts DEF RecorderInv
  <2>2. m_recCount' \in 0 .. MaxChunks * ChunkFrames
    <3>1. ChunkOf(block.n) < MaxChunks => block.n + 1 =< MaxChunks * ChunkFrames
      BY <1>2, ChunkTypes
    <3>2. MaxChunks * ChunkFrames \in Nat
      BY ChunkTypes
    <3> HIDE DEF RecordingAssumption
    <3> QED BY <1>2, <1>7, <1>8, <3>1, <3>2
  <2>3. dropped' \in BOOLEAN
    BY <1>1 DEF RecorderInv, RecorderTypeOK, Ready
  <2> QED BY <1>1, <2>1, <2>2, <2>3 DEF RecorderInv, RecorderTypeOK
<1>10. ASSUME Undisturbed'
       PROVE  CapturedInOrder' /\ UnderWay' /\ TakeSoFar' /\ Prepared'
  <2>1. Undisturbed /\ ~torn /\ CapturedInOrder /\ UnderWay /\ TakeSoFar /\ Prepared
    BY <1>1, <1>10 DEF RecorderInv, Undisturbed
  <2>2. block.n = m_recCount /\ Len(captured) >= 1 /\ captured[Len(captured)] = clock
    BY <1>1, <2>1 DEF UnderWay
  <2>3. CapturedInOrder' /\ UnderWay'
    BY <1>1, <1>3, <2>1 DEF CapturedInOrder, UnderWay
  <2>4. Settled = Len(captured) - 1 /\ Settled' = Len(captured)
    BY <1>1, <1>3 DEF Settled
  <2>5. \A i \in 1 .. m_recCount :
          Ready(i - 1) /\ \E j \in 1 .. Len(captured) - 1 : Sample(i) = captured[j]
    BY <2>1, <2>4 DEF TakeSoFar
  <2>6. \A i, j \in 1 .. m_recCount : i < j => Sample(i) < Sample(j)
    BY <2>1 DEF TakeSoFar
  <2>7. ~dropped => m_recCount = Len(captured) - 1 /\ \A i \in 1 .. m_recCount : Sample(i) = captured[i]
    BY <2>1, <2>4 DEF TakeSoFar
  <2>8. CASE Ready(m_recCount)
    <3>0. PICK n \in Nat : n = m_recCount
      BY <1>7
    <3>1. m_recChunks' = Stored(m_recCount) /\ m_recCount' = m_recCount + 1 /\ dropped' = dropped
      BY <1>1, <2>1, <2>2, <2>8 DEF StoreSample, RecorderInv, RecorderTypeOK
    <3>2. /\ m_recChunks'[ChunkOf(n)][n % ChunkFrames] = clock
          /\ \A k \in Chunks : m_recChunks[k] # Null => m_recChunks'[k] # Null
          /\ \A m \in Nat : Ready(m) /\ m # n =>
                m_recChunks'[ChunkOf(m)][m % ChunkFrames] = m_recChunks[ChunkOf(m)][m % ChunkFrames]
      BY <1>2, <1>7, <2>8, <3>0, <3>1, StoredFacts DEF RecorderInv
    <3>3. \A m \in Nat : Ready(m) => Ready(m)'
      BY <3>2, ChunkTypes DEF Ready
    <3>4. \A i \in 1 .. n : Sample(i)' = Sample(i)
      <4>1. ASSUME NEW i \in 1 .. n PROVE Sample(i)' = Sample(i)
        <5>1. i - 1 \in Nat /\ i - 1 # n
          OBVIOUS
        <5>2. Ready(i - 1)
          BY <2>5, <3>0
        <5> QED BY <3>2, <5>1, <5>2 DEF Sample
      <4> QED BY <4>1
    <3>5. Sample(n + 1)' = captured[Len(captured)]
      <4>1. (n + 1) - 1 = n
        OBVIOUS
      <4> QED BY <2>2, <3>2, <4>1 DEF Sample
    <3>6. \A i \in 1 .. n + 1 : i \in 1 .. n \/ i = n + 1
      OBVIOUS
    <3>7. \A i \in 1 .. n + 1 :
            Ready(i - 1)' /\ \E j \in 1 .. Len(captured) : Sample(i)' = captured[j]
      <4>1. ASSUME NEW i \in 1 .. n
            PROVE  Ready(i - 1)' /\ \E j \in 1 .. Len(captured) : Sample(i)' = captured[j]
        <5>1. i - 1 \in Nat
          OBVIOUS
        <5>2. \A j \in 1 .. Len(captured) - 1 : j \in 1 .. Len(captured)
          BY <1>7
        <5> QED BY <2>5, <3>0, <3>3, <3>4, <5>1, <5>2
      <4>2. Ready((n + 1) - 1)'
        <5>1. (n + 1) - 1 = n
          OBVIOUS
        <5>2. Ready(n)
          BY <2>8, <3>0
        <5> QED BY <3>3, <5>1, <5>2
      <4>3. Len(captured) \in 1 .. Len(captured)
        BY <1>7, <2>2
      <4> QED BY <3>5, <3>6, <4>1, <4>2, <4>3
    <3>8. \A i, j \in 1 .. n + 1 : i < j => Sample(i)' < Sample(j)'
      <4>1. ASSUME NEW i \in 1 .. n PROVE Sample(i) < clock
        <5>1. PICK j \in 1 .. Len(captured) - 1 : Sample(i) = captured[j]
          BY <2>5, <3>0
        <5>2. j \in 1 .. Len(captured) /\ j < Len(captured) /\ Len(captured) \in 1 .. Len(captured)
          BY <1>7, <2>2
        <5>3. captured[j] < captured[Len(captured)]
          BY <2>1, <5>2 DEF CapturedInOrder
        <5> QED BY <2>2, <5>1, <5>3
      <4>2. \A i, j \in 1 .. n + 1 :
              i < j => i \in 1 .. n /\ (j \in 1 .. n \/ j = n + 1)
        OBVIOUS
      <4>3. \A i, j \in 1 .. n : i < j => Sample(i)' < Sample(j)'
        BY <2>6, <3>0, <3>4
      <4>4. \A i \in 1 .. n : Sample(i)' < Sample(n + 1)'
        BY <2>2, <3>4, <3>5, <4>1
      <4> QED BY <4>2, <4>3, <4>4
    <3>9. ~dropped' => /\ n + 1 = Len(captured)
                       /\ \A i \in 1 .. n + 1 : Sample(i)' = captured[i]
      <4>1. ASSUME ~dropped PROVE n + 1 = Len(captured) /\ \A i \in 1 .. n : Sample(i)' = captured[i]
        BY <1>7, <2>7, <3>0, <3>4, <4>1
      <4> QED BY <3>1, <3>5, <3>6, <4>1
    <3>10. TakeSoFar'
      BY <1>1, <2>4, <3>0, <3>1, <3>7, <3>8, <3>9 DEF TakeSoFar
    <3>11. Prepared'
      <4>1. served \in Nat /\ served =< n
        BY <2>1, <3>0 DEF Prepared, RecorderInv, RecorderTypeOK
      <4>2. \A k \in Nat : HasChunk(k) => HasChunk(k)'
        BY <3>2, ChunkTypes DEF HasChunk, Chunks
      <4>3. ChunkOf(served) \in Nat
        BY <4>1, ChunkTypes
      <4> QED BY <1>1, <2>1, <3>0, <3>1, <4>1, <4>2, <4>3 DEF Prepared
    <3> QED BY <2>3, <3>10, <3>11
  <2>9. CASE ~Ready(m_recCount)
    <3>1. UNCHANGED <<m_recChunks, m_recCount>> /\ dropped' = TRUE
      BY <1>1, <2>1, <2>2, <2>9 DEF StoreSample
    <3>2. \A i : (Ready(i)' <=> Ready(i)) /\ Sample(i)' = Sample(i)
      BY <3>1 DEF Ready, Sample
    <3>3. \A j \in 1 .. Len(captured) - 1 : j \in 1 .. Len(captured)
      BY <1>7
    <3>4. TakeSoFar'
      BY <1>1, <2>4, <2>5, <2>6, <3>1, <3>2, <3>3 DEF TakeSoFar
    <3>5. Prepared'
      BY <1>1, <2>1, <3>1 DEF Prepared, HasChunk
    <3> QED BY <2>3, <3>4, <3>5
  <2> QED BY <2>8, <2>9
<1> QED BY <1>4, <1>5, <1>6, <1>9, <1>10 DEF RecorderInv

-----------------------------------------------------------------------------
(* The GUI thread. *)

LEMMA StartRecordingKeeps ==
    ASSUME RecordingAssumption, RecorderInv, startRecording
    PROVE  RecorderInv'
<1> DEFINE Fresh == [k \in Chunks |-> Null]
<1>1. /\ m_recChunks' = WithChunks(Fresh, {0, 1})
      /\ m_recCount' = 0 /\ m_recording' = TRUE /\ torn' = (block.pc # "out" /\ block.rec)
      /\ captured' = << >> /\ served' = 0 /\ dropped' = FALSE /\ UNCHANGED <<block, clock>>
  BY DEF startRecording
<1>2. BlockTypeOK' /\ ClockInBound' /\ NoStrayBlock'
  BY <1>1 DEF RecorderInv, BlockTypeOK, ClockInBound, NoStrayBlock
<1>3. /\ m_recChunks' \in [Chunks -> {Null} \cup [0 .. ChunkFrames - 1 -> 0 .. MaxSamples]]
      /\ \A k \in Chunks : k \in {0, 1} => m_recChunks'[k] # Null
  <2>1. Fresh \in [Chunks -> {Null} \cup [0 .. ChunkFrames - 1 -> 0 .. MaxSamples]]
    OBVIOUS
  <2> HIDE DEF Fresh
  <2> QED BY <1>1, <2>1, WithChunksFills
<1>4. RecorderTypeOK'
  <2>1. m_recCount' \in 0 .. MaxChunks * ChunkFrames
    <3>1. MaxChunks * ChunkFrames \in Nat
      BY ChunkTypes
    <3> QED BY <1>1, <3>1
  <2>2. captured' \in Seq(Nat) /\ served' \in Nat
    BY <1>1
  <2>3. m_recording' \in BOOLEAN /\ torn' \in BOOLEAN /\ dropped' \in BOOLEAN
    BY <1>1
  <2> QED BY <1>3, <2>1, <2>2, <2>3 DEF RecorderTypeOK
<1>5. ASSUME Undisturbed' PROVE CapturedInOrder' /\ UnderWay' /\ TakeSoFar' /\ Prepared'
  <2>1. block.pc # "store"
    BY <1>1, <1>5 DEF Undisturbed, RecorderInv, BlockTypeOK
  <2>2. UnderWay'
    BY <1>1, <2>1 DEF UnderWay
  <2>3. CapturedInOrder'
    BY <1>1 DEF CapturedInOrder
  <2>4. Settled' = 0
    BY <1>1, <2>1 DEF Settled
  <2>5. TakeSoFar'
    BY <1>1, <2>4 DEF TakeSoFar
  <2>6. ChunkOf(0) = 0
    <3>1. 0 * ChunkFrames = 0 /\ ChunkFrames \in Nat \ {0}
      BY ChunkTypes
    <3> QED BY <3>1, QuotientOfMultiple DEF ChunkOf
  <2>7. HasChunk(0)' /\ HasChunk(1)'
    <3>1. \A k \in Chunks : k \in {0, 1} => m_recChunks'[k] # Null
      BY <1>3
    <3> QED BY <3>1, ChunkRange DEF HasChunk
  <2>8. Prepared'
    BY <1>1, <2>6, <2>7 DEF Prepared
  <2> QED BY <2>2, <2>3, <2>5, <2>8
<1> QED BY <1>2, <1>4, <1>5 DEF RecorderInv

LEMMA VoicePumpKeeps ==
    ASSUME RecordingAssumption, RecorderInv, pumpRecording
    PROVE  RecorderInv'
<1> DEFINE c == ChunkOf(m_recCount)
<1>1. /\ m_recording /\ m_recChunks' = WithChunks(m_recChunks, {c + 1, c + 2})
      /\ served' = (IF Ready(m_recCount) THEN m_recCount ELSE served)
      /\ UNCHANGED <<m_recording, m_recCount, block, clock, captured, torn, dropped>>
  BY DEF pumpRecording
<1>2. /\ m_recCount \in Nat /\ c \in Nat
      /\ m_recChunks \in [Chunks -> {Null} \cup [0 .. ChunkFrames - 1 -> 0 .. MaxSamples]]
  BY RecordTypes, ChunkTypes
<1>3. /\ m_recChunks' \in [Chunks -> {Null} \cup [0 .. ChunkFrames - 1 -> 0 .. MaxSamples]]
      /\ \A k \in Chunks : /\ m_recChunks[k] # Null => m_recChunks'[k] = m_recChunks[k]
                           /\ k \in {c + 1, c + 2} => m_recChunks'[k] # Null
  <2> HIDE DEF c
  <2> QED BY <1>1, <1>2, WithChunksFills
<1>4. BlockTypeOK' /\ ClockInBound' /\ NoStrayBlock'
  BY <1>1 DEF RecorderInv, BlockTypeOK, ClockInBound, NoStrayBlock
<1>5. RecorderTypeOK'
  BY <1>1, <1>2, <1>3 DEF RecorderInv, RecorderTypeOK
<1>6. ASSUME Undisturbed' PROVE CapturedInOrder' /\ UnderWay' /\ TakeSoFar' /\ Prepared'
  <2>1. CapturedInOrder /\ UnderWay /\ TakeSoFar /\ Prepared
    BY <1>1, <1>6 DEF RecorderInv, Undisturbed
  <2>2. CapturedInOrder' /\ UnderWay' /\ Settled' = Settled
    BY <1>1, <2>1 DEF CapturedInOrder, UnderWay, Settled
  <2>3. \A n \in Nat : Ready(n) =>
          Ready(n)' /\ m_recChunks'[ChunkOf(n)] = m_recChunks[ChunkOf(n)]
    BY <1>3, ChunkTypes DEF Ready
  <2>4. ASSUME NEW i \in 1 .. m_recCount PROVE Ready(i - 1)' /\ Sample(i)' = Sample(i)
    <3>1. i - 1 \in Nat
      BY <1>2
    <3>2. Ready(i - 1)
      BY <2>1 DEF TakeSoFar
    <3> QED BY <2>3, <3>1, <3>2 DEF Sample
  <2>5. TakeSoFar'
    BY <1>1, <2>1, <2>2, <2>4 DEF TakeSoFar
  <2>6. \A k \in Nat : HasChunk(k) => HasChunk(k)'
    <3>1. \A k \in Chunks : m_recChunks[k] # Null => m_recChunks'[k] # Null
      BY <1>3
    <3> QED BY <3>1, ChunkRange DEF HasChunk
  <2>7. CASE Ready(m_recCount)
    <3>1. HasChunk(c)
      BY <2>7 DEF Ready, HasChunk
    <3>2. \A k \in Nat : k \in {c + 1, c + 2} => HasChunk(k)'
      <4>1. \A k \in Chunks : k \in {c + 1, c + 2} => m_recChunks'[k] # Null
        BY <1>3
      <4> HIDE DEF c
      <4> QED BY <4>1, ChunkRange DEF HasChunk
    <3>3. PICK d \in Nat : d = c
      BY <1>2
    <3>4. HasChunk(d)' /\ HasChunk(d + 1)' /\ HasChunk(d + 2)'
      BY <2>6, <3>1, <3>2, <3>3
    <3>5. served' = m_recCount /\ m_recCount' = m_recCount /\ ChunkOf(served') = d
      BY <1>1, <2>7, <3>3
    <3>6. served' =< m_recCount'
      BY <1>2, <3>5
    <3>7. Prepared'
      <4> HIDE DEF c
      <4> QED BY <3>4, <3>5, <3>6 DEF Prepared
    <3> QED BY <2>2, <2>5, <3>7
  <2>8. CASE ~Ready(m_recCount)
    <3>1. served' = served /\ served \in Nat /\ ChunkOf(served) \in Nat
      BY <1>1, <2>8, ChunkTypes DEF RecorderInv, RecorderTypeOK
    <3>2. Prepared'
      BY <1>1, <2>1, <2>6, <3>1 DEF Prepared
    <3> QED BY <2>2, <2>5, <3>2
  <2> QED BY <2>7, <2>8
<1> QED BY <1>4, <1>5, <1>6 DEF RecorderInv

LEMMA StopRecordingKeeps ==
    ASSUME RecordingAssumption, RecorderInv, stopRecording
    PROVE  RecorderInv'
<1>1. /\ m_recording' = FALSE /\ m_recChunks' = [k \in Chunks |-> Null]
      /\ torn' = (torn \/ (block.pc # "out" /\ block.rec))
      /\ UNCHANGED <<m_recCount, block, clock, captured, served, dropped>>
  BY DEF stopRecording
<1>2. BlockTypeOK' /\ ClockInBound' /\ NoStrayBlock'
  BY <1>1 DEF RecorderInv, BlockTypeOK, ClockInBound, NoStrayBlock
<1>3. RecorderTypeOK'
  BY <1>1 DEF RecorderInv, RecorderTypeOK
<1>4. ~Undisturbed'
  BY <1>1 DEF Undisturbed
<1> QED BY <1>2, <1>3, <1>4 DEF RecorderInv

LEMMA RecorderNext ==
    ASSUME RecordingAssumption, RecorderInv, [Next]_vars
    PROVE  RecorderInv'
<1>1. CASE UNCHANGED vars
  BY <1>1 DEF vars, RecorderInv, BlockTypeOK, ClockInBound, RecorderTypeOK, Undisturbed, Sample,
              Settled, NoStrayBlock, CapturedInOrder, UnderWay, TakeSoFar, HasChunk, Prepared, Ready
<1> QED BY <1>1, BlockBeginKeeps, PassSampleKeeps, LoadCountKeeps, StoreSampleKeeps,
           StartRecordingKeeps, VoicePumpKeeps, StopRecordingKeeps DEF Next

-----------------------------------------------------------------------------
(* What follows. *)

LEMMA InvReadyInTime ==
    ASSUME RecordingAssumption, RecorderInv
    PROVE  ChunkReadyInTime
<1> SUFFICES ASSUME m_recording, ~torn, ChunkOf(m_recCount) < MaxChunks, ~Ready(m_recCount)
             PROVE  m_recCount - served >= 2 * ChunkFrames
  BY DEF ChunkReadyInTime
<1> DEFINE c == ChunkOf(m_recCount)
           s == ChunkOf(served)
<1>1. Prepared /\ served \in Nat /\ m_recCount \in Nat /\ served =< m_recCount
  BY RecordTypes DEF RecorderInv, RecorderTypeOK, Undisturbed, Prepared
<1>2. ChunkFrames \in Nat \ {0} /\ c \in Nat /\ s \in Nat
  BY <1>1, ChunkTypes
<1>3. s =< c
  BY <1>1, <1>2, QuotientGrows DEF ChunkOf
<1>4. ~HasChunk(c)
  BY DEF Ready, HasChunk
<1>5. HasChunk(s) /\ HasChunk(s + 1) /\ (served # 0 => HasChunk(s + 2))
  BY <1>1 DEF Prepared
<1>6. c * ChunkFrames =< m_recCount
  BY <1>1, <1>2, QuotientBounds DEF ChunkOf
<1>7. served < ChunkFrames * s + ChunkFrames
  BY <1>1, <1>2, QuotientBounds DEF ChunkOf
<1>8. c # s /\ c # s + 1 /\ (served # 0 => c # s + 2)
  <2> HIDE DEF c, s
  <2> QED BY <1>4, <1>5
<1> HIDE DEF c, s
<1>9. c >= s + 2 /\ (served # 0 => c >= s + 3)
  BY <1>2, <1>3, <1>8
<1>10. CASE served = 0
  <2>1. 2 * ChunkFrames =< c * ChunkFrames
    BY <1>2, <1>9
  <2> QED BY <1>1, <1>2, <1>6, <1>10, <2>1
<1>11. CASE served # 0
  <2>1. (s + 3) * ChunkFrames =< c * ChunkFrames
    BY <1>2, <1>9, <1>11
  <2>2. (s + 3) * ChunkFrames = (ChunkFrames * s + ChunkFrames) + 2 * ChunkFrames
    BY <1>2
  <2> QED BY <1>1, <1>2, <1>6, <1>7, <2>1, <2>2
<1> QED BY <1>10, <1>11

\* No chunk before that of a stored sample is missing, so that the copy has no gap.
LEMMA CopiedIsTaken ==
    ASSUME RecordingAssumption, RecorderInv, TakeSoFar
    PROVE  Copied(m_recCount) = [i \in 1 .. m_recCount |-> Sample(i)]
<1>1. m_recCount \in Nat /\ ChunkFrames \in Nat \ {0}
  BY RecordTypes, ChunkTypes
<1>2. ASSUME NEW i \in 1 .. m_recCount, NEW k \in 0 .. ChunkOf(i - 1)
      PROVE  k < MaxChunks /\ m_recChunks[k] # Null
  <2>1. i - 1 \in Nat /\ ChunkOf(i - 1) \in Nat /\ k \in Nat /\ k =< ChunkOf(i - 1)
    BY <1>1, ChunkTypes
  <2>2. k * ChunkFrames \in Nat /\ ChunkOf(k * ChunkFrames) = k
    BY <1>1, <2>1, QuotientOfMultiple DEF ChunkOf
  <2>3. k * ChunkFrames =< i - 1
    BY <1>1, <2>1, QuotientBounds DEF ChunkOf
  <2>4. PICK n \in Nat : n = k * ChunkFrames
    BY <2>2
  <2>5. n + 1 \in 1 .. m_recCount /\ (n + 1) - 1 = n
    BY <1>1, <2>1, <2>3, <2>4
  <2>6. Ready(n)
    BY <2>5 DEF TakeSoFar
  <2> QED BY <2>2, <2>4, <2>6 DEF Ready
<1> QED BY <1>2 DEF Copied, Sample

LEMMA InvTakeIsCaptured ==
    ASSUME RecordingAssumption, RecorderInv, stopRecording, ~torn
    PROVE  /\ \A i \in DOMAIN clip' : \E j \in DOMAIN captured : clip'[i] = captured[j]
           /\ \A i, j \in DOMAIN clip' : i < j => clip'[i] < clip'[j]
           /\ ~dropped => /\ clip' = SubSeq(captured, 1, m_recCount)
                          /\ Len(captured) =< m_recCount + 1
<1>1. clip' = Copied(m_recCount) /\ Undisturbed
  BY DEF stopRecording, Undisturbed
<1>2. TakeSoFar /\ UnderWay
  BY <1>1 DEF RecorderInv
<1>3. clip' = [i \in 1 .. m_recCount |-> Sample(i)]
  BY <1>1, <1>2, CopiedIsTaken
<1>4. m_recCount \in Nat /\ Len(captured) \in Nat /\ captured \in Seq(Nat)
  BY RecordTypes
<1>5. DOMAIN captured = 1 .. Len(captured) /\ Settled \in Int
      /\ Settled =< Len(captured) /\ Len(captured) =< Settled + 1
  BY <1>4 DEF Settled
<1>6. \A i \in DOMAIN clip' : \E j \in DOMAIN captured : clip'[i] = captured[j]
  <2>1. ASSUME NEW i \in 1 .. m_recCount PROVE \E j \in DOMAIN captured : Sample(i) = captured[j]
    <3>1. PICK j \in 1 .. Settled : Sample(i) = captured[j]
      BY <1>2 DEF TakeSoFar
    <3>2. j \in DOMAIN captured
      BY <1>4, <1>5, <3>1
    <3> QED BY <3>1, <3>2
  <2> QED BY <1>3, <2>1
<1>7. \A i, j \in DOMAIN clip' : i < j => clip'[i] < clip'[j]
  BY <1>2, <1>3 DEF TakeSoFar
<1>8. ASSUME ~dropped
      PROVE  clip' = SubSeq(captured, 1, m_recCount) /\ Len(captured) =< m_recCount + 1
  <2>1. m_recCount = Settled /\ \A i \in 1 .. m_recCount : Sample(i) = captured[i]
    BY <1>2, <1>8 DEF TakeSoFar
  <2>2. clip' = [i \in 1 .. m_recCount |-> captured[i]]
    BY <1>3, <2>1
  <2>3. SubSeq(captured, 1, m_recCount) = [i \in 1 .. m_recCount |-> captured[i]]
    BY <1>4, <1>5, <2>1
  <2> QED BY <1>5, <2>1, <2>2, <2>3
<1> QED BY <1>6, <1>7, <1>8

\* Every variable of the recorder keeps its shape, and the count stays within the chunks
\* there can be, although a stopped block may still publish one (recordSample).
THEOREM RecorderTypeCorrect ==
    ASSUME RecordingAssumption
    PROVE  Spec => []RecordingTypeOK
<1>1. RecorderInv => RecordingTypeOK
  BY DEF RecorderInv, RecorderTypeOK, BlockTypeOK, RecordingTypeOK
<1> QED BY <1>1, RecorderInit, RecorderNext, PTL DEF Spec

\* For any size of the chunks, any blocks and any moment the GUI thread comes back: no
\* sample is dropped before it has been away for two chunks (pumpRecording), and a take
\* is what was captured, in order, when nothing of an earlier recording is under way.
THEOREM TakesAreKept ==
    ASSUME RecordingAssumption
    PROVE  Spec => []ChunkReadyInTime /\ TakeIsCaptured
<1>1. RecorderInv => ChunkReadyInTime
  BY InvReadyInTime
<1>2. RecorderInv /\ stopRecording /\ ~torn =>
          /\ \A i \in DOMAIN clip' : \E j \in DOMAIN captured : clip'[i] = captured[j]
          /\ \A i, j \in DOMAIN clip' : i < j => clip'[i] < clip'[j]
          /\ ~dropped => /\ clip' = SubSeq(captured, 1, m_recCount)
                         /\ Len(captured) =< m_recCount + 1
  BY InvTakeIsCaptured
<1>3. Init => RecorderInv
  BY RecorderInit
<1>4. RecorderInv /\ [Next]_vars => RecorderInv'
  BY RecorderNext
<1> QED BY <1>1, <1>2, <1>3, <1>4, PTL DEF Spec, TakeIsCaptured

-----------------------------------------------------------------------------
(* The ring's inductive invariant.  Sample s is in slot s - 1 modulo the ring   *)
(* as long as it is one of the last TapSize; the counter and the position the   *)
(* GUI remembers name slots and distances rightly because the ring divides the  *)
(* word; and a copy that was trusted is Guard samples from what it could lose.  *)

TapTypeOK ==
    /\ m_inTap \in [0 .. TapSize - 1 -> Nat]
    /\ m_inTapPos \in 0 .. Word - 1 /\ written \in 0 .. Word - 1
    /\ from \in [pos : 0 .. Word - 1, sample : Nat]
    /\ reading \in [n : Nat, start : [pos : Nat, sample : Int], copy : Seq(Nat), pushed : Nat,
                    range : BOOLEAN]

CounterNamesSlots == Slot(m_inTapPos) = Slot(written)

RingHolds ==
    \A s \in 1 .. written : s > written - TapSize => m_inTap[Slot(s - 1)] = s

RememberedIsNamed ==
    /\ from.sample \in 1 .. written + 1
    /\ Minus(m_inTapPos, from.pos) = written + 1 - from.sample
    /\ Slot(from.pos) = Slot(from.sample - 1)

CopyIsSafe ==
    /\ reading.pushed =< Guard
    /\ reading.n = 0 => reading.pushed = 0 /\ ~reading.range
    /\ reading.range =>
          /\ reading.start.sample >= 1
          /\ reading.start.sample + reading.n - 1 =< written
          /\ written + 1 - reading.start.sample =< TapSize - Guard + reading.pushed
          /\ Slot(reading.start.pos) = Slot(reading.start.sample - 1)

TapInv ==
    /\ TapTypeOK /\ CounterNamesSlots /\ RingHolds /\ RememberedIsNamed /\ CopyIsSafe
    /\ SpanIsIntact

-----------------------------------------------------------------------------
(* Slots and positions. *)

LEMMA RestIs ==
    ASSUME NEW f \in Nat \ {0}, NEW q \in Nat, NEW r \in 0 .. f - 1
    PROVE  (f * q + r) % f = r
  BY Division

LEMMA NoMultipleBetween ==
    ASSUME NEW f \in Nat \ {0}, NEW k \in Int, f * k < f, f * k > -f
    PROVE  k = 0
  OBVIOUS

\* Two numbers share a slot when they are whole rings apart.
LEMMA SameSlot ==
    ASSUME NEW f \in Nat \ {0}, NEW a \in Nat, NEW b \in Nat
    PROVE  a % f = b % f <=> \E z \in Int : a = b + f * z
<1> DEFINE qa == a \div f
           qb == b \div f
           ra == a % f
           rb == b % f
<1>1. /\ qa \in Nat /\ qb \in Nat /\ ra \in 0 .. f - 1 /\ rb \in 0 .. f - 1
      /\ a = f * qa + ra /\ b = f * qb + rb
  BY Division
<1> HIDE DEF qa, qb, ra, rb
<1>2. ASSUME ra = rb PROVE \E z \in Int : a = b + f * z
  <2>1. qa - qb \in Int /\ f * (qa - qb) = f * qa - f * qb
    BY <1>1
  <2>2. a = b + f * (qa - qb)
    BY <1>1, <1>2, <2>1
  <2> QED BY <2>1, <2>2
<1>3. ASSUME NEW z \in Int, a = b + f * z PROVE ra = rb
  <2>1. qa - qb - z \in Int /\ f * (qa - qb - z) = f * qa - f * qb - f * z
    BY <1>1
  <2>2. f * qa - f * qb - f * z = rb - ra
    BY <1>1, <1>3
  <2>3. rb - ra < f /\ rb - ra > -f
    BY <1>1
  <2>4. f * (qa - qb - z) < f /\ f * (qa - qb - z) > -f
    BY <2>1, <2>2, <2>3
  <2>5. qa - qb - z = 0
    BY <2>1, <2>4, NoMultipleBetween
  <2>6. f * (qa - qb - z) = 0
    BY <2>5
  <2> QED BY <1>1, <2>1, <2>2, <2>6
<1> QED BY <1>2, <1>3 DEF ra, rb

\* Samples less than a ring apart have slots of their own.
LEMMA SlotsDiffer ==
    ASSUME NEW f \in Nat \ {0}, NEW a \in Nat, NEW b \in Nat, a < b, b < a + f
    PROVE  a % f # b % f
<1> SUFFICES ASSUME NEW z \in Int, a = b + f * z PROVE FALSE
  BY SameSlot
<1>1. f * z < f /\ f * z > -f
  <2>1. PICK y \in Int : y = f * z
    OBVIOUS
  <2> QED BY <2>1
<1>2. z = 0
  BY <1>1, NoMultipleBetween
<1>3. f * z = 0
  BY <1>2
<1> QED BY <1>3

LEMMA TapTypes ==
    ASSUME TapAssumption
    PROVE  /\ TapSize \in Nat \ {0} /\ Guard \in Nat \ {0} /\ Guard =< TapSize
           /\ Word \in Nat \ {0} /\ Word > 2 * TapSize /\ Word > TapSize /\ Word % TapSize = 0
           /\ MaxWrites \in Nat /\ MaxWrites < Word
           /\ \A p \in Nat : Slot(p) \in 0 .. TapSize - 1
<1>1. TapSize \in Nat \ {0}
  BY DEF TapAssumption
<1>2. \A p \in Nat : Slot(p) \in 0 .. TapSize - 1
  BY <1>1, Division DEF Slot
<1> QED BY <1>1, <1>2 DEF TapAssumption

\* Slots go round together, forward and back.
LEMMA SlotsMove ==
    ASSUME TapAssumption, NEW a \in Nat, NEW b \in Nat, Slot(a) = Slot(b), NEW k \in Nat
    PROVE  /\ Slot(a + k) = Slot(b + k)
           /\ k =< a /\ k =< b => Slot(a - k) = Slot(b - k)
<1>1. TapSize \in Nat \ {0}
  BY TapTypes
<1>2. PICK z \in Int : a = b + TapSize * z
  BY <1>1, SameSlot DEF Slot
<1>3. PICK y \in Int : y = TapSize * z
  BY <1>1
<1>4. Slot(a + k) = Slot(b + k)
  <2>1. a + k \in Nat /\ b + k \in Nat /\ a + k = (b + k) + TapSize * z
    BY <1>2, <1>3
  <2> QED BY <1>1, <2>1, SameSlot DEF Slot
<1>5. ASSUME k =< a, k =< b PROVE Slot(a - k) = Slot(b - k)
  <2>1. a - k \in Nat /\ b - k \in Nat /\ a - k = (b - k) + TapSize * z
    BY <1>2, <1>3, <1>5
  <2> QED BY <1>1, <2>1, SameSlot DEF Slot
<1> QED BY <1>4, <1>5

\* Positions are subtracted round the word.
LEMMA MinusIs ==
    ASSUME TapAssumption, NEW p \in 0 .. Word - 1, NEW q \in 0 .. Word - 1
    PROVE  Minus(p, q) = IF q =< p THEN p - q ELSE p + Word - q
<1>1. Word \in Nat \ {0}
  BY TapTypes
<1>2. CASE q =< p
  <2>1. p + Word - q = Word * 1 + (p - q) /\ p - q \in 0 .. Word - 1
    BY <1>1, <1>2
  <2>2. (Word * 1 + (p - q)) % Word = p - q
    BY <1>1, <2>1, RestIs
  <2> QED BY <1>2, <2>1, <2>2 DEF Minus
<1>3. CASE ~(q =< p)
  <2>1. p + Word - q = Word * 0 + (p + Word - q) /\ p + Word - q \in 0 .. Word - 1
    BY <1>1, <1>3
  <2>2. (Word * 0 + (p + Word - q)) % Word = p + Word - q
    BY <1>1, <2>1, RestIs
  <2> QED BY <1>3, <2>1, <2>2 DEF Minus
<1> QED BY <1>2, <1>3

LEMMA NextPosition ==
    ASSUME TapAssumption, NEW p \in 0 .. Word - 1
    PROVE  (p + 1) % Word = IF p + 1 = Word THEN 0 ELSE p + 1
<1>1. Word \in Nat \ {0}
  BY TapTypes
<1>2. CASE p + 1 = Word
  <2>1. p + 1 = Word * 1 + 0 /\ 0 \in 0 .. Word - 1
    BY <1>1, <1>2
  <2> QED BY <1>1, <1>2, <2>1, RestIs
<1>3. CASE p + 1 # Word
  <2>1. p + 1 = Word * 0 + (p + 1) /\ p + 1 \in 0 .. Word - 1
    BY <1>1, <1>3
  <2>2. (Word * 0 + (p + 1)) % Word = p + 1
    BY <1>1, <2>1, RestIs
  <2> QED BY <1>3, <2>1, <2>2
<1> QED BY <1>2, <1>3

\* A whole word is whole rings.
LEMMA WordIsRings ==
    ASSUME TapAssumption, NEW p \in Nat
    PROVE  Slot(p + Word) = Slot(p)
<1>1. TapSize \in Nat \ {0} /\ Word \in Nat /\ Word % TapSize = 0
  BY TapTypes
<1>2. 0 % TapSize = 0
  <2>1. TapSize * 0 + 0 = 0 /\ 0 \in 0 .. TapSize - 1
    BY <1>1
  <2> QED BY <1>1, <2>1, RestIs
<1>3. PICK o \in Nat : o = 0
  OBVIOUS
<1>4. PICK z \in Int : Word = o + TapSize * z
  BY <1>1, <1>2, <1>3, SameSlot
<1>5. PICK y \in Int : y = TapSize * z
  BY <1>1
<1>6. p + Word \in Nat /\ p + Word = p + TapSize * z
  BY <1>1, <1>3, <1>4, <1>5
<1> QED BY <1>1, <1>6, SameSlot DEF Slot

-----------------------------------------------------------------------------
(* The ring's steps. *)

LEMMA TapInvInit ==
    ASSUME TapAssumption, TapInit
    PROVE  TapInv
<1>1. /\ TapSize \in Nat \ {0} /\ Word \in Nat /\ Word > 2 * TapSize
  BY TapTypes
<1>2. /\ reading = Idle /\ from = [pos |-> m_inTapPos, sample |-> written + 1]
  BY DEF TapInit
<1>3. /\ m_inTap \in [0 .. TapSize - 1 -> Nat] /\ m_inTapPos \in 0 .. Word - 1
      /\ written \in 0 .. Word - 1 /\ CounterNamesSlots /\ RingHolds
  <2>1. CASE /\ m_inTapPos = 0 /\ written = 0
             /\ m_inTap = [i \in 0 .. TapSize - 1 |-> 0]
    BY <1>1, <2>1 DEF CounterNamesSlots, RingHolds
  <2>2. CASE /\ m_inTapPos = Word - TapSize /\ written = TapSize
             /\ m_inTap = [i \in 0 .. TapSize - 1 |-> i + 1]
    <3>1. m_inTapPos \in 0 .. Word - 1 /\ written \in 0 .. Word - 1
      BY <1>1, <2>2
    <3>2. m_inTap \in [0 .. TapSize - 1 -> Nat]
      BY <2>2
    <3>3. Slot(TapSize) = 0 /\ Slot(0) = 0
      <4>1. TapSize = TapSize * 1 + 0 /\ 0 = TapSize * 0 + 0 /\ 0 \in 0 .. TapSize - 1
        BY <1>1
      <4> QED BY <1>1, <4>1, RestIs DEF Slot
    <3>4. Slot(Word) = 0
      <4>1. 0 + Word = Word /\ 0 \in Nat
        BY <1>1
      <4> QED BY <3>3, <4>1, WordIsRings
    <3>5. Slot(Word - TapSize) = Slot(TapSize - TapSize)
      <4>1. Slot(Word) = Slot(TapSize) /\ TapSize =< Word /\ TapSize =< TapSize
        BY <1>1, <3>3, <3>4
      <4> QED BY <1>1, <4>1, SlotsMove
    <3>6. CounterNamesSlots
      BY <1>1, <2>2, <3>3, <3>5 DEF CounterNamesSlots
    <3>7. ASSUME NEW s \in 1 .. written PROVE m_inTap[Slot(s - 1)] = s
      <4>1. s - 1 \in 0 .. TapSize - 1 /\ s - 1 = TapSize * 0 + (s - 1)
        BY <1>1, <2>2
      <4>2. Slot(s - 1) = s - 1
        BY <1>1, <4>1, RestIs DEF Slot
      <4> QED BY <2>2, <4>1, <4>2
    <3> QED BY <3>1, <3>2, <3>6, <3>7 DEF RingHolds
  <2> QED BY <2>1, <2>2 DEF TapInit
<1>4. TapTypeOK
  <2>1. reading \in [n : Nat, start : [pos : Nat, sample : Int], copy : Seq(Nat), pushed : Nat,
                    range : BOOLEAN]
    BY <1>2 DEF Idle
  <2>2. written + 1 \in Nat
    BY <1>1, <1>3
  <2>3. from \in [pos : 0 .. Word - 1, sample : Nat]
    BY <1>2, <1>3, <2>2
  <2> QED BY <1>3, <2>1, <2>3 DEF TapTypeOK
<1>5. RememberedIsNamed
  <2>1. Minus(m_inTapPos, m_inTapPos) = 0
    BY <1>1, <1>3, MinusIs
  <2>2. Slot(m_inTapPos) = Slot((written + 1) - 1)
    BY <1>3 DEF CounterNamesSlots
  <2> QED BY <1>2, <1>3, <2>1, <2>2 DEF RememberedIsNamed
<1>6. CopyIsSafe /\ SpanIsIntact
  BY <1>2, TapTypes DEF CopyIsSafe, SpanIsIntact, Idle
<1> QED BY <1>3, <1>4, <1>5, <1>6 DEF TapInv

LEMMA PushKeeps ==
    ASSUME TapAssumption, TapInv, tapPush
    PROVE  TapInv'
<1>1. /\ written < MaxWrites /\ reading.pushed < Guard /\ written' = written + 1
      /\ m_inTap' = [m_inTap EXCEPT ![Slot(m_inTapPos)] = written']
      /\ m_inTapPos' = (m_inTapPos + 1) % Word
      /\ reading' = [reading EXCEPT !.pushed = IF reading.n = 0 THEN 0 ELSE @ + 1]
      /\ from' = from
  BY DEF tapPush
<1>2. /\ TapTypeOK /\ CounterNamesSlots /\ RingHolds /\ RememberedIsNamed /\ CopyIsSafe
      /\ SpanIsIntact
  BY DEF TapInv
<1>3. /\ TapSize \in Nat \ {0} /\ Guard \in Nat /\ Word \in Nat \ {0} /\ MaxWrites < Word
      /\ MaxWrites \in Nat /\ Word > TapSize
  BY TapTypes
<1>4. /\ m_inTap \in [0 .. TapSize - 1 -> Nat] /\ m_inTapPos \in 0 .. Word - 1
      /\ written \in 0 .. Word - 1 /\ m_inTapPos \in Nat /\ written \in Nat
      /\ Slot(m_inTapPos) \in 0 .. TapSize - 1
  <2>1. /\ m_inTap \in [0 .. TapSize - 1 -> Nat] /\ m_inTapPos \in 0 .. Word - 1
        /\ written \in 0 .. Word - 1
    BY <1>2 DEF TapTypeOK
  <2>2. m_inTapPos \in Nat /\ written \in Nat
    BY <1>3, <2>1
  <2>3. Slot(m_inTapPos) \in 0 .. TapSize - 1
    BY <2>2, TapTypes
  <2> QED BY <2>1, <2>2, <2>3
<1>5. written' \in 0 .. Word - 1
  BY <1>1, <1>3, <1>4
<1>6. m_inTapPos' = IF m_inTapPos + 1 = Word THEN 0 ELSE m_inTapPos + 1
  BY <1>1, <1>4, NextPosition
<1>7. m_inTapPos' \in 0 .. Word - 1
  BY <1>3, <1>4, <1>6
<1>8. /\ m_inTap' \in [0 .. TapSize - 1 -> Nat] /\ m_inTap'[Slot(m_inTapPos)] = written'
      /\ \A i \in 0 .. TapSize - 1 : i # Slot(m_inTapPos) => m_inTap'[i] = m_inTap[i]
  <2>1. PICK i \in 0 .. TapSize - 1 : i = Slot(m_inTapPos)
    BY <1>4
  <2>2. PICK w \in Nat : w = written'
    BY <1>5
  <2>3. m_inTap' = [m_inTap EXCEPT ![i] = w]
    BY <1>1, <2>1, <2>2
  <2> QED BY <1>4, <2>1, <2>2, <2>3
<1>9. /\ reading'.n = reading.n /\ reading'.start = reading.start /\ reading'.copy = reading.copy
      /\ reading'.range = reading.range
      /\ reading'.pushed = IF reading.n = 0 THEN 0 ELSE reading.pushed + 1
      /\ reading' \in [n : Nat, start : [pos : Nat, sample : Int], copy : Seq(Nat), pushed : Nat,
                       range : BOOLEAN]
  <2>1. reading.pushed \in Nat
    BY <1>2 DEF TapTypeOK
  <2>2. PICK x \in Nat : x = IF reading.n = 0 THEN 0 ELSE reading.pushed + 1
    BY <2>1
  <2>3. reading' = [reading EXCEPT !.pushed = x]
    BY <1>1, <2>2
  <2> QED BY <1>2, <2>2, <2>3 DEF TapTypeOK
<1>10. TapTypeOK'
  BY <1>1, <1>2, <1>5, <1>7, <1>8, <1>9 DEF TapTypeOK
<1>11. CounterNamesSlots'
  <2>1. Slot(m_inTapPos + 1) = Slot(written + 1)
    BY <1>2, <1>4, SlotsMove DEF CounterNamesSlots
  <2>2. CASE m_inTapPos + 1 = Word
    <3>1. Slot(0 + Word) = Slot(0)
      BY WordIsRings
    <3>2. 0 + Word = m_inTapPos + 1
      BY <1>3, <2>2
    <3>3. Slot(0) = Slot(written + 1)
      BY <2>1, <3>1, <3>2
    <3> QED BY <1>1, <1>6, <2>2, <3>3 DEF CounterNamesSlots, Slot
  <2>3. CASE m_inTapPos + 1 # Word
    BY <1>1, <1>6, <2>1, <2>3 DEF CounterNamesSlots, Slot
  <2> QED BY <2>2, <2>3
<1>12. RingHolds'
  <2>1. ASSUME NEW s \in 1 .. written + 1, s > (written + 1) - TapSize
        PROVE  m_inTap'[Slot(s - 1)] = s
    <3>1. CASE s = written + 1
      <4>1. s - 1 = written
        BY <1>4, <3>1
      <4> QED BY <1>1, <1>2, <1>8, <3>1, <4>1 DEF CounterNamesSlots
    <3>2. CASE s # written + 1
      <4>1. s \in 1 .. written /\ s > written - TapSize /\ s - 1 \in Nat
            /\ s - 1 < written /\ written < (s - 1) + TapSize
        BY <1>3, <1>4, <2>1, <3>2
      <4>2. Slot(s - 1) # Slot(written)
        BY <1>3, <1>4, <4>1, SlotsDiffer DEF Slot
      <4>3. Slot(s - 1) \in 0 .. TapSize - 1
        BY <4>1, TapTypes
      <4> QED BY <1>2, <1>8, <4>1, <4>2, <4>3 DEF CounterNamesSlots, RingHolds
    <3> QED BY <3>1, <3>2
  <2> QED BY <1>1, <2>1 DEF RingHolds, Slot
<1>13. RememberedIsNamed'
  <2>1. /\ from.pos \in 0 .. Word - 1 /\ from.sample \in 1 .. written + 1
        /\ Minus(m_inTapPos, from.pos) = written + 1 - from.sample
        /\ Slot(from.pos) = Slot(from.sample - 1)
    BY <1>2 DEF TapTypeOK, RememberedIsNamed
  <2>2. written + 1 - from.sample =
          IF from.pos =< m_inTapPos THEN m_inTapPos - from.pos ELSE m_inTapPos + Word - from.pos
    BY <1>4, <2>1, MinusIs
  <2>3. \A p \in 0 .. Word - 1 : Minus(p, from.pos) =
                   IF from.pos =< p THEN p - from.pos ELSE p + Word - from.pos
    BY <2>1, MinusIs
  <2>4. \A p \in 0 .. Word - 1 :
          p = (IF m_inTapPos + 1 = Word THEN 0 ELSE m_inTapPos + 1)
            => Minus(p, from.pos) = (written + 1) + 1 - from.sample
    <3>1. ASSUME NEW p \in 0 .. Word - 1, p = (IF m_inTapPos + 1 = Word THEN 0 ELSE m_inTapPos + 1)
          PROVE  Minus(p, from.pos) = (written + 1) + 1 - from.sample
      <4>1. Minus(p, from.pos) = IF from.pos =< p THEN p - from.pos ELSE p + Word - from.pos
        BY <2>3
      <4>2. written + 1 =< Word - 1
        BY <1>1, <1>3, <1>5
      <4>3. from.pos \in 0 .. Word - 1 /\ from.sample \in 1 .. written + 1
        BY <2>1
      <4>4. PICK d \in Int : d = written + 1 - from.sample
        BY <1>4, <4>3
      <4>5. d + 1 < Word
        BY <1>3, <1>4, <4>2, <4>3, <4>4
      <4>6. d = (IF from.pos =< m_inTapPos THEN m_inTapPos - from.pos ELSE m_inTapPos + Word - from.pos)
        BY <2>2, <4>4
      <4>7. Minus(p, from.pos) = d + 1
        <5>1. PICK w \in Nat, m \in Nat, q \in Nat :
                w = Word /\ m = m_inTapPos /\ q = from.pos /\ m < w /\ q < w
          <6>1. from.pos \in Nat /\ from.pos < Word /\ m_inTapPos < Word /\ Word \in Nat
            BY <1>3, <1>4, <4>3
          <6> QED BY <1>4, <6>1
        <5>2. /\ d = (IF q =< m THEN m - q ELSE m + w - q) /\ d + 1 < w
              /\ p \in Nat /\ p = (IF m + 1 = w THEN 0 ELSE m + 1)
          BY <3>1, <4>5, <4>6, <5>1
        <5>3. (IF q =< p THEN p - q ELSE p + w - q) = d + 1
          BY <5>1, <5>2
        <5> QED BY <4>1, <5>1, <5>3
      <4> QED BY <1>4, <4>3, <4>4, <4>7
    <3> QED BY <3>1
  <2>5. Minus(m_inTapPos', from.pos) = (written + 1) + 1 - from.sample
    BY <1>6, <1>7, <2>4
  <2>6. from.sample \in 1 .. (written + 1) + 1
    BY <1>4, <2>1
  <2> QED BY <1>1, <2>1, <2>5, <2>6 DEF RememberedIsNamed, Minus, Slot
<1>14. CopyIsSafe'
  <2>1. reading.n \in Nat /\ reading.pushed \in Nat /\ reading.start.sample \in Int
    BY <1>2 DEF TapTypeOK
  <2>2. reading'.pushed =< Guard
    BY <1>1, <1>3, <1>9, <2>1
  <2>3. reading.n = 0 => reading'.pushed = 0 /\ ~reading.range
    BY <1>2, <1>9 DEF CopyIsSafe
  <2>4. ASSUME reading.range
        PROVE  /\ reading.start.sample >= 1
               /\ reading.start.sample + reading.n - 1 =< written + 1
               /\ (written + 1) + 1 - reading.start.sample =< TapSize - Guard + reading'.pushed
               /\ Slot(reading.start.pos) = Slot(reading.start.sample - 1)
    <3>1. /\ reading.start.sample >= 1
          /\ reading.start.sample + reading.n - 1 =< written
          /\ written + 1 - reading.start.sample =< TapSize - Guard + reading.pushed
          /\ Slot(reading.start.pos) = Slot(reading.start.sample - 1)
          /\ reading.n # 0
      BY <1>2, <2>4 DEF CopyIsSafe
    <3>2. reading'.pushed = reading.pushed + 1
      BY <1>9, <3>1
    <3>3. reading.start.sample + reading.n - 1 =< written + 1
      BY <1>4, <2>1, <3>1
    <3>4. (written + 1) + 1 - reading.start.sample =< TapSize - Guard + reading'.pushed
      <4>1. written + 1 - reading.start.sample =< TapSize - Guard + reading.pushed
        BY <3>1
      <4>2. PICK x \in Nat, y \in Int, n \in Nat :
              x = reading.pushed /\ y = reading.start.sample /\ n = written
        BY <1>4, <2>1
      <4>3. (n + 1) + 1 - y =< TapSize - Guard + (x + 1)
        BY <1>3, <4>1, <4>2
      <4> QED BY <3>2, <4>2, <4>3
    <3> QED BY <3>1, <3>3, <3>4
  <2> QED BY <1>1, <1>9, <2>2, <2>3, <2>4 DEF CopyIsSafe, Slot
<1>15. SpanIsIntact'
  BY <1>2, <1>9 DEF SpanIsIntact
<1> QED BY <1>10, <1>11, <1>12, <1>13, <1>14, <1>15 DEF TapInv

LEMMA RememberKeeps ==
    ASSUME TapAssumption, TapInv, NEW back \in 0 .. TapSize, Remember(back)
    PROVE  TapInv'
<1>1. /\ back =< written
      /\ from' = [pos |-> Minus(m_inTapPos, back), sample |-> written + 1 - back]
      /\ UNCHANGED <<m_inTap, m_inTapPos, written, reading>>
  BY DEF Remember
<1>2. /\ TapTypeOK /\ CounterNamesSlots /\ RingHolds /\ CopyIsSafe /\ SpanIsIntact
  BY DEF TapInv
<1>3. /\ TapSize \in Nat \ {0} /\ Word \in Nat \ {0} /\ Word > TapSize
  BY TapTypes
<1>4. /\ m_inTapPos \in 0 .. Word - 1 /\ m_inTapPos \in Nat
      /\ written \in Nat /\ back \in Nat /\ back \in 0 .. Word - 1
  BY <1>2, <1>3 DEF TapTypeOK
<1> DEFINE q == Minus(m_inTapPos, back)
<1>5. q = IF back =< m_inTapPos THEN m_inTapPos - back ELSE m_inTapPos + Word - back
  BY <1>4, MinusIs
<1> HIDE DEF q
<1>6. q \in 0 .. Word - 1 /\ q \in Nat
  BY <1>3, <1>4, <1>5
<1>7. Minus(m_inTapPos, q) = back
  <2>1. Minus(m_inTapPos, q) = IF q =< m_inTapPos THEN m_inTapPos - q ELSE m_inTapPos + Word - q
    BY <1>4, <1>6, MinusIs
  <2> QED BY <1>3, <1>4, <1>5, <2>1
<1>8. Slot(q) = Slot(written - back)
  <2>1. Slot(m_inTapPos) = Slot(written)
    BY <1>2 DEF CounterNamesSlots
  <2>2. CASE back =< m_inTapPos
    BY <1>1, <1>4, <1>5, <2>1, <2>2, SlotsMove
  <2>3. CASE ~(back =< m_inTapPos)
    <3>1. Slot(m_inTapPos + Word) = Slot(written)
      BY <1>4, <2>1, WordIsRings
    <3>2. m_inTapPos + Word \in Nat /\ back =< m_inTapPos + Word
      BY <1>3, <1>4
    <3>3. Slot((m_inTapPos + Word) - back) = Slot(written - back)
      BY <1>1, <1>4, <3>1, <3>2, SlotsMove
    <3>4. q = (m_inTapPos + Word) - back
      BY <1>3, <1>4, <1>5, <2>3
    <3> QED BY <3>3, <3>4
  <2> QED BY <2>2, <2>3
<1>9. from' = [pos |-> q, sample |-> written + 1 - back]
  BY <1>1 DEF q
<1>10. from'.pos = q /\ from'.sample = written + 1 - back /\ from'.sample \in 1 .. written + 1
  BY <1>1, <1>4, <1>9
<1>11. TapTypeOK'
  <2>1. from' \in [pos : 0 .. Word - 1, sample : Nat]
    BY <1>4, <1>6, <1>9, <1>10
  <2> QED BY <1>1, <1>2, <2>1 DEF TapTypeOK
<1>12. RememberedIsNamed'
  <2>1. written + 1 - from'.sample = back /\ from'.sample - 1 = written - back
    BY <1>4, <1>10
  <2> QED BY <1>1, <1>7, <1>8, <1>10, <2>1 DEF RememberedIsNamed, Minus, Slot
<1>13. CounterNamesSlots' /\ RingHolds' /\ CopyIsSafe' /\ SpanIsIntact'
  BY <1>1, <1>2 DEF CounterNamesSlots, RingHolds, CopyIsSafe, SpanIsIntact, Slot
<1> QED BY <1>11, <1>12, <1>13 DEF TapInv

\* A step of the GUI thread that changes only its copy.
LEMMA ReadingKeeps ==
    ASSUME TapAssumption, TapInv, UNCHANGED <<m_inTap, m_inTapPos, written, from>>,
           reading' \in [n : Nat, start : [pos : Nat, sample : Int], copy : Seq(Nat), pushed : Nat,
                        range : BOOLEAN],
           CopyIsSafe', SpanIsIntact'
    PROVE  TapInv'
<1>1. TapTypeOK'
  BY DEF TapInv, TapTypeOK
<1>2. CounterNamesSlots' /\ RingHolds' /\ RememberedIsNamed'
  BY DEF TapInv, CounterNamesSlots, RingHolds, RememberedIsNamed, Slot, Minus
<1> QED BY <1>1, <1>2 DEF TapInv

LEMMA ReadRangeKeeps ==
    ASSUME TapAssumption, TapInv, NEW n \in Lengths, readInputTapRange(n)
    PROVE  TapInv'
<1>1. /\ reading' = [n |-> n, start |-> from, copy |-> << >>, pushed |-> 0, range |-> TRUE]
      /\ UNCHANGED <<m_inTap, m_inTapPos, written, from>>
  BY DEF readInputTapRange, StartCopy
<1>2. /\ Minus(m_inTapPos, from.pos) >= n
      /\ Minus(m_inTapPos, from.pos) =< TapSize - Guard
  BY DEF readInputTapRange, Trusted
<1>3. TapTypeOK /\ RememberedIsNamed
  BY DEF TapInv
<1>4. n \in Nat \ {0} /\ TapSize \in Nat /\ Guard \in Nat
  BY TapTypes DEF TapAssumption
<1>5. /\ from.pos \in Nat /\ from.sample \in Nat /\ written \in Nat /\ from.sample >= 1
      /\ Minus(m_inTapPos, from.pos) = written + 1 - from.sample
      /\ Slot(from.pos) = Slot(from.sample - 1)
  BY <1>3, TapTypes DEF TapTypeOK, RememberedIsNamed
<1>6. reading' \in [n : Nat, start : [pos : Nat, sample : Int], copy : Seq(Nat), pushed : Nat,
                   range : BOOLEAN]
  <2>1. from \in [pos : Nat, sample : Int]
    BY <1>3, TapTypes DEF TapTypeOK
  <2> QED BY <1>1, <1>4, <2>1
<1>7. /\ reading'.n = n /\ reading'.start = from /\ reading'.copy = << >> /\ reading'.pushed = 0
      /\ reading'.range
  BY <1>1
<1>8. CopyIsSafe'
  <2>1. from.sample + n - 1 =< written
    BY <1>2, <1>4, <1>5
  <2>2. written + 1 - from.sample =< TapSize - Guard + 0
    BY <1>2, <1>4, <1>5
  <2> QED BY <1>1, <1>4, <1>5, <1>7, <2>1, <2>2 DEF CopyIsSafe, Slot
<1>9. SpanIsIntact'
  BY <1>7 DEF SpanIsIntact
<1> QED BY <1>1, <1>6, <1>8, <1>9, ReadingKeeps

LEMMA ReadNewestKeeps ==
    ASSUME TapAssumption, TapInv, NEW n \in Lengths, readInputTap(n)
    PROVE  TapInv'
<1> DEFINE start == [pos |-> m_inTapPos - n, sample |-> written + 1 - n]
<1>1. /\ m_inTapPos >= n /\ n =< TapSize
      /\ reading' = [n |-> n, start |-> start, copy |-> << >>, pushed |-> 0, range |-> FALSE]
      /\ UNCHANGED <<m_inTap, m_inTapPos, written, from>>
  BY DEF readInputTap, StartCopy
<1>2. n \in Nat \ {0} /\ Guard \in Nat
  BY TapTypes DEF TapAssumption
<1>3. m_inTapPos \in Nat /\ written \in Nat
  BY TapTypes DEF TapInv, TapTypeOK
<1>4. start \in [pos : Nat, sample : Int]
  BY <1>1, <1>2, <1>3
<1>5. reading' \in [n : Nat, start : [pos : Nat, sample : Int], copy : Seq(Nat), pushed : Nat,
                   range : BOOLEAN]
  <2> HIDE DEF start
  <2> QED BY <1>1, <1>2, <1>4
<1>6. /\ reading'.n = n /\ reading'.pushed = 0 /\ ~reading'.range
  BY <1>1
<1>7. CopyIsSafe' /\ SpanIsIntact'
  BY <1>2, <1>6 DEF CopyIsSafe, SpanIsIntact
<1> QED BY <1>1, <1>5, <1>7, ReadingKeeps

\* The slot read next still holds the sample that belongs there.
LEMMA CopyKeeps ==
    ASSUME TapAssumption, TapInv, CopySample
    PROVE  TapInv'
<1> DEFINE i == Len(reading.copy)
           st == reading.start
           slot == Slot(st.pos + i)
           one == m_inTap[slot]
<1>1. /\ reading.n > i /\ reading' = [reading EXCEPT !.copy = Append(reading.copy, one)]
      /\ UNCHANGED <<m_inTap, m_inTapPos, written, from>>
  BY DEF CopySample
<1>2. TapTypeOK /\ RingHolds /\ CopyIsSafe /\ SpanIsIntact
  BY DEF TapInv
<1>3. /\ reading.copy \in Seq(Nat) /\ i \in Nat /\ reading.n \in Nat
      /\ st \in [pos : Nat, sample : Int] /\ st.pos \in Nat /\ st.sample \in Int
      /\ reading.pushed \in Nat /\ reading.range \in BOOLEAN
  BY <1>2 DEF TapTypeOK
<1>4. slot \in 0 .. TapSize - 1
  <2>1. st.pos + i \in Nat
    BY <1>3
  <2> QED BY <2>1, TapTypes
<1>5. one \in Nat
  <2> HIDE DEF slot
  <2> QED BY <1>2, <1>4 DEF TapTypeOK
<1> DEFINE new == Append(reading.copy, one)
<1>6. /\ new \in Seq(Nat) /\ Len(new) = i + 1 /\ DOMAIN new = 1 .. i + 1 /\ new[i + 1] = one
      /\ \A j \in 1 .. i : new[j] = reading.copy[j]
  <2> HIDE DEF one
  <2> QED BY <1>3, <1>5
<1>7. /\ reading' \in [n : Nat, start : [pos : Nat, sample : Int], copy : Seq(Nat), pushed : Nat,
                       range : BOOLEAN]
      /\ reading'.n = reading.n /\ reading'.start = reading.start /\ reading'.copy = new
      /\ reading'.pushed = reading.pushed /\ reading'.range = reading.range
  <2> HIDE DEF new
  <2>1. reading' = [reading EXCEPT !.copy = new]
    BY <1>1 DEF new
  <2> QED BY <1>2, <1>6, <2>1 DEF TapTypeOK
<1>8. CopyIsSafe'
  BY <1>1, <1>2, <1>7 DEF CopyIsSafe, Slot
<1>9. ASSUME reading.range PROVE one = st.sample + i
  <2>1. /\ st.sample >= 1 /\ st.sample + reading.n - 1 =< written
        /\ written + 1 - st.sample =< TapSize - Guard + reading.pushed
        /\ Slot(st.pos) = Slot(st.sample - 1) /\ reading.pushed =< Guard
    BY <1>2, <1>9 DEF CopyIsSafe
  <2>2. TapSize \in Nat /\ Guard \in Nat /\ written \in Nat
    BY <1>2, TapTypes DEF TapTypeOK
  <2>3. PICK s \in Nat : s = st.sample + i
    BY <1>3, <2>1
  <2>4. s \in 1 .. written
    <3>1. PICK y \in Int, n \in Nat, k \in Nat : y = st.sample /\ n = reading.n /\ k = i
      BY <1>3
    <3>2. y >= 1 /\ y + n - 1 =< written /\ n > k /\ s = y + k
      BY <1>1, <2>1, <2>3, <3>1
    <3> QED BY <2>2, <3>2
  <2>5. s > written - TapSize
    <3>1. PICK y \in Int, x \in Nat : y = st.sample /\ x = reading.pushed
      BY <1>3
    <3>2. written + 1 - y =< TapSize - Guard + x /\ x =< Guard
      BY <2>1, <3>1
    <3>3. y > written - TapSize
      BY <2>2, <3>1, <3>2
    <3> QED BY <1>3, <2>2, <2>3, <3>1, <3>3
  <2>6. slot = Slot(s - 1)
    <3>1. st.sample - 1 \in Nat /\ s - 1 = (st.sample - 1) + i
      <4>1. PICK y \in Int, k \in Nat : y = st.sample /\ k = i
        BY <1>3
      <4>2. y >= 1 /\ s = y + k
        BY <2>1, <2>3, <4>1
      <4>3. y - 1 \in Nat /\ s - 1 = (y - 1) + k
        BY <4>2
      <4> QED BY <4>1, <4>3
    <3>2. Slot(st.pos + i) = Slot((st.sample - 1) + i)
      BY <1>3, <2>1, <3>1, SlotsMove
    <3> QED BY <3>1, <3>2
  <2>7. m_inTap[Slot(s - 1)] = s
    BY <1>2, <2>4, <2>5 DEF RingHolds
  <2> QED BY <2>3, <2>6, <2>7
<1>10. SpanIsIntact'
  <2>1. ASSUME reading.range, NEW j \in 1 .. i + 1 PROVE new[j] = st.sample + j - 1
    <3>1. CASE j \in 1 .. i
      <4>1. j \in DOMAIN reading.copy
        BY <1>3, <3>1
      <4>2. reading.copy[j] = st.sample + j - 1
        BY <1>2, <2>1, <4>1 DEF SpanIsIntact
      <4> QED BY <1>6, <3>1, <4>2
    <3>2. CASE j = i + 1
      BY <1>3, <1>6, <1>9, <2>1, <3>2
    <3> QED BY <1>3, <3>1, <3>2
  <2> HIDE DEF new
  <2> QED BY <1>6, <1>7, <2>1 DEF SpanIsIntact
<1> QED BY <1>1, <1>7, <1>8, <1>10, ReadingKeeps

LEMMA DoneKeeps ==
    ASSUME TapAssumption, TapInv, Done
    PROVE  TapInv'
<1>1. reading' = Idle /\ UNCHANGED <<m_inTap, m_inTapPos, written, from>>
  BY DEF Done
<1>2. reading' \in [n : Nat, start : [pos : Nat, sample : Int], copy : Seq(Nat), pushed : Nat,
                   range : BOOLEAN]
  BY <1>1 DEF Idle
<1>3. CopyIsSafe' /\ SpanIsIntact'
  BY <1>1, TapTypes DEF CopyIsSafe, SpanIsIntact, Idle
<1> QED BY <1>1, <1>2, <1>3, ReadingKeeps

LEMMA TapInvNext ==
    ASSUME TapAssumption, TapInv, [TapNext]_tapVars
    PROVE  TapInv'
<1>1. CASE UNCHANGED tapVars
  BY <1>1 DEF tapVars, TapInv, TapTypeOK, CounterNamesSlots, RingHolds, RememberedIsNamed,
              CopyIsSafe, SpanIsIntact, Slot, Minus
<1> QED BY <1>1, PushKeeps, RememberKeeps, ReadRangeKeeps, ReadNewestKeeps, CopyKeeps, DoneKeeps
        DEF TapNext

\* For any size of the ring that divides the counter's word: a span readInputTapRange
\* trusted holds the samples that came at the remembered position, without a gap, across
\* the counter's wrap and while tapPush goes on, as long as no more than Guard come meanwhile.
THEOREM SpansAreIntact ==
    ASSUME TapAssumption
    PROVE  TapSpec => []SpanIsIntact
<1>1. TapInit => TapInv
  BY TapInvInit
<1>2. TapInv /\ [TapNext]_tapVars => TapInv'
  BY TapInvNext
<1>3. TapInv => SpanIsIntact
  BY DEF TapInv
<1> QED BY <1>1, <1>2, <1>3, PTL DEF TapSpec

\* The recorder and the ring, fed by the same callback, keep what they are given.
THEOREM InputAlwaysKept ==
    ASSUME RecordingAssumption, TapAssumption
    PROVE  Spec /\ TapSpec => InputIsKept
  BY RecorderTypeCorrect, TakesAreKept, SpansAreIntact, PTL DEF InputIsKept

-----------------------------------------------------------------------------
(* PluginNotes: lists of events.                                             *)

\* Two lists one after the other play what the first, then the second plays.
LEMMA PlayConcat ==
    ASSUME NEW notes, NEW a \in Seq(N!Event), NEW b \in Seq(N!Event)
    PROVE  N!Play(notes, a \o b) = N!Play(N!Play(notes, a), b)
<1> DEFINE c == a \o b
<1>0. /\ c \in Seq(N!Event) /\ Len(c) = Len(a) + Len(b) /\ Len(a) \in Nat /\ Len(b) \in Nat
      /\ DOMAIN c = 1 .. Len(a) + Len(b) /\ DOMAIN a = 1 .. Len(a) /\ DOMAIN b = 1 .. Len(b)
      /\ \A i \in 1 .. Len(a) : c[i] = a[i]
      /\ \A i \in 1 .. Len(b) : c[Len(a) + i] = b[i]
  BY ConcatProperties, LenProperties
<1>1. N!Named(c) = N!Named(a) \cup N!Named(b)
  <2>1. N!Named(c) \subseteq N!Named(a) \cup N!Named(b)
    <3> SUFFICES ASSUME NEW i \in 1 .. Len(a) + Len(b)
                 PROVE  c[i].note \in N!Named(a) \cup N!Named(b)
      BY <1>0 DEF N!Named
    <3>1. CASE i <= Len(a)  BY <1>0, <3>1 DEF N!Named
    <3>2. CASE i > Len(a)
      <4>1. i - Len(a) \in 1 .. Len(b) /\ c[i] = b[i - Len(a)]  BY <1>0, <3>2
      <4> QED  BY <1>0, <4>1 DEF N!Named
    <3> QED  BY <1>0, <3>1, <3>2
  <2>2. N!Named(a) \subseteq N!Named(c)  BY <1>0 DEF N!Named
  <2>3. N!Named(b) \subseteq N!Named(c)
    <3> SUFFICES ASSUME NEW i \in 1 .. Len(b)  PROVE b[i].note \in N!Named(c)
      BY <1>0 DEF N!Named
    <3>1. Len(a) + i \in DOMAIN c /\ c[Len(a) + i] = b[i]  BY <1>0
    <3> QED  BY <3>1 DEF N!Named
  <2> QED  BY <2>1, <2>2, <2>3
<1>2. N!LeftOn(c) = (N!LeftOn(a) \ N!Named(b)) \cup N!LeftOn(b)
  <2>1. ASSUME NEW n \in N!LeftOn(c)  PROVE n \in (N!LeftOn(a) \ N!Named(b)) \cup N!LeftOn(b)
    <3>1. PICK i \in DOMAIN c : /\ c[i].type = "on" /\ n = c[i].note
                                /\ \A k \in DOMAIN c : k > i => c[k].note # n
      BY DEF N!LeftOn
    <3>2. CASE i <= Len(a)
      <4>1. i \in DOMAIN a /\ a[i] = c[i]  BY <1>0, <3>1, <3>2
      <4>2. \A k \in DOMAIN a : k > i => a[k].note # n  BY <1>0, <3>1, <4>1
      <4>3. n \in N!LeftOn(a)  BY <3>1, <4>1, <4>2 DEF N!LeftOn
      <4>4. ASSUME NEW k \in 1 .. Len(b)  PROVE b[k].note # n
        <5>1. Len(a) + k \in DOMAIN c /\ Len(a) + k > i /\ c[Len(a) + k] = b[k]  BY <1>0, <3>2, <3>1
        <5> QED  BY <3>1, <5>1
      <4>5. n \notin N!Named(b)  BY <1>0, <4>4 DEF N!Named
      <4> QED  BY <4>3, <4>5
    <3>3. CASE i > Len(a)
      <4> DEFINE j == i - Len(a)
      <4>1. j \in DOMAIN b /\ b[j] = c[i]  BY <1>0, <3>1, <3>3
      <4>2. ASSUME NEW k \in DOMAIN b, k > j  PROVE b[k].note # n
        <5>1. Len(a) + k \in DOMAIN c /\ Len(a) + k > i /\ c[Len(a) + k] = b[k]
          BY <1>0, <3>3, <3>1, <4>2
        <5> QED  BY <3>1, <5>1
      <4> HIDE DEF j
      <4>3. n \in N!LeftOn(b)  BY <3>1, <4>1, <4>2 DEF N!LeftOn
      <4> QED  BY <4>3
    <3> QED  BY <1>0, <3>1, <3>2, <3>3
  <2>2. ASSUME NEW n \in N!LeftOn(a), n \notin N!Named(b)  PROVE n \in N!LeftOn(c)
    <3>1. PICK i \in DOMAIN a : /\ a[i].type = "on" /\ n = a[i].note
                                /\ \A k \in DOMAIN a : k > i => a[k].note # n
      BY DEF N!LeftOn
    <3>2. i \in DOMAIN c /\ c[i] = a[i]  BY <1>0, <3>1
    <3>3. ASSUME NEW k \in DOMAIN c, k > i  PROVE c[k].note # n
      <4>1. CASE k <= Len(a)  BY <1>0, <3>1, <3>3, <4>1
      <4>2. CASE k > Len(a)
        <5>1. k - Len(a) \in DOMAIN b /\ c[k] = b[k - Len(a)]  BY <1>0, <4>2
        <5> QED  BY <2>2, <5>1 DEF N!Named
      <4> QED  BY <1>0, <4>1, <4>2
    <3> QED  BY <3>1, <3>2, <3>3 DEF N!LeftOn
  <2>3. ASSUME NEW n \in N!LeftOn(b)  PROVE n \in N!LeftOn(c)
    <3>1. PICK i \in DOMAIN b : /\ b[i].type = "on" /\ n = b[i].note
                                /\ \A k \in DOMAIN b : k > i => b[k].note # n
      BY DEF N!LeftOn
    <3> DEFINE j == Len(a) + i
    <3>2. j \in DOMAIN c /\ c[j] = b[i]  BY <1>0, <3>1
    <3>3. ASSUME NEW k \in DOMAIN c, k > j  PROVE c[k].note # n
      <4>1. k - Len(a) \in DOMAIN b /\ c[k] = b[k - Len(a)] /\ k - Len(a) > i  BY <1>0, <3>1, <3>3
      <4> QED  BY <3>1, <4>1
    <3> HIDE DEF j
    <3> QED  BY <3>1, <3>2, <3>3 DEF N!LeftOn
  <2> QED  BY <2>1, <2>2, <2>3
<1> QED
  <2> DEFINE Na == N!Named(a) Nb == N!Named(b) La == N!LeftOn(a) Lb == N!LeftOn(b)
  <2>1. (notes \ (Na \cup Nb)) \cup ((La \ Nb) \cup Lb) = (((notes \ Na) \cup La) \ Nb) \cup Lb
    OBVIOUS
  <2> QED  BY <1>1, <1>2, <2>1 DEF N!Play

\* What SetToSeq makes of a finite set: its elements, each at some place.
LEMMA SetToSeqElements ==
    ASSUME NEW S, IsFiniteSet(S)
    PROVE  N!SetToSeq(S) \in Seq(S) /\ \A x \in S : \E i \in DOMAIN N!SetToSeq(S) : N!SetToSeq(S)[i] = x
<1> DEFINE n == Cardinality(S)
<1>1. n \in Nat /\ ExistsBijection(1 .. n, S)  BY FS_CardinalityType
<1>2. \E f \in [1 .. n -> S] : N!IsInjective(f)
  BY <1>1 DEF ExistsBijection, Bijection, Injection, IsInjective, N!IsInjective
<1> DEFINE f == N!SetToSeq(S)
<1>3. f \in [1 .. n -> S] /\ N!IsInjective(f)
  BY <1>2, Zenon DEF N!SetToSeq, Cardinality, N!Cardinality
<1>4. f \in Injection(1 .. n, S)  BY <1>3 DEF Injection, IsInjective, N!IsInjective
<1>5. IsFiniteSet(1 .. n) /\ Cardinality(1 .. n) = n  BY <1>1, FS_Interval
<1> HIDE DEF f
<1>6. f \in Surjection(1 .. n, S)  BY <1>4, <1>5, FS_Injection
<1>7. \A x \in S : \E i \in 1 .. n : f[i] = x  BY <1>6 DEF Surjection
<1>8. f \in Seq(S)  BY <1>1, <1>3, IsASeq
<1> QED  BY <1>3, <1>7, <1>8 DEF f

\* All notes off leaves nothing of what the table has.
LEMMA NoteOffsEnd ==
    ASSUME NEW h, IsFiniteSet(activeNote[h]), activeNote[h] \subseteq N!Notes, NEW notes
    PROVE  N!NoteOffs(h) \in Seq(N!Event) /\ N!Play(notes, N!NoteOffs(h)) = notes \ activeNote[h]
<1> DEFINE f == N!SetToSeq(activeNote[h])  offs == N!NoteOffs(h)
<1>1. /\ f \in Seq(activeNote[h])
      /\ \A x \in activeNote[h] : \E i \in DOMAIN f : f[i] = x
  BY SetToSeqElements
<1>2. offs = [i \in DOMAIN f |-> [type |-> "off", note |-> f[i]]]  BY DEF N!NoteOffs
<1> HIDE DEF f, offs
<1>3. DOMAIN f = 1 .. Len(f) /\ Len(f) \in Nat /\ \A i \in 1 .. Len(f) : f[i] \in activeNote[h]
  BY <1>1, LenProperties, ElementOfSeq
<1>4. \A i \in DOMAIN f : offs[i] \in N!Event /\ offs[i].type = "off" /\ offs[i].note = f[i]
  BY <1>2, <1>3 DEF N!Event
<1>5. offs \in Seq(N!Event)
  <2>1. offs \in [1 .. Len(f) -> N!Event]  BY <1>2, <1>3, <1>4
  <2> QED  BY <1>3, <2>1, IsASeq
<1>6. N!LeftOn(offs) = {}  BY <1>2, <1>4 DEF N!LeftOn
<1>7. N!Named(offs) = activeNote[h]  BY <1>1, <1>2, <1>3, <1>4 DEF N!Named
<1> QED  BY <1>5, <1>6, <1>7 DEF N!Play, offs

\* Nothing, and one event.
LEMMA PlayOne ==
    ASSUME NEW notes, NEW e \in N!Event
    PROVE  /\ N!Play(notes, << >>) = notes
           /\ N!Play(notes, <<e>>) = IF e.type = "on" THEN notes \cup {e.note} ELSE notes \ {e.note}
<1>1. N!Named(<<>>) = {} /\ N!LeftOn(<<>>) = {}  BY DEF N!Named, N!LeftOn
<1>2. N!Named(<<e>>) = {e.note}  BY DEF N!Named
<1>3. N!LeftOn(<<e>>) = IF e.type = "on" THEN {e.note} ELSE {}  BY DEF N!LeftOn
<1>4. e.type \in {"on", "off"}  BY DEF N!Event
<1> QED  BY <1>1, <1>2, <1>3, <1>4 DEF N!Play

-----------------------------------------------------------------------------
(* PluginNotes: the inductive invariant.                                      *)

\* A slot without plug-in has nothing to play, and the global host's list is emptied in
\* every block.
IdleSlots ==
    /\ \A h \in N!Hosts : ~loaded[h] => eventList[h] = << >> /\ playing[h] = {}
    /\ ~inBlock => eventList[N!Global] = << >>

\* What is about to sound in a plug-in that has lost no event.
Sounding(h) == IF h \in refused THEN {} ELSE N!Coming(h)

\* A note is heard only where its channel plays now, unless the channel changed hands: the
\* Note Off goes there.
HeardOnRoute ==
    \A n \in N!Notes \ moved :
        /\ n \in synthNotes => N!Route(n[1]) = N!Synth
        /\ \A h \in N!Hosts : n \in Sounding(h) => N!Route(n[1]) = h

\* The three properties, of the slots without plug-in as well.
EachIsActive == \A h \in N!Hosts : Sounding(h) \subseteq activeNote[h]
QuietIsSilent == quiet => synthNotes = {} /\ \A h \in N!Hosts : Sounding(h) = {}
UpIsSilent ==
    \A n \in N!Notes \ (pressed \cup moved) :
        n \notin synthNotes /\ \A h \in N!Hosts : n \notin Sounding(h)

NotesShape ==
    /\ N!PluginNotesTypeOK
    /\ \A h \in N!Hosts : IsFiniteSet(activeNote[h])

NotesInv == NotesShape /\ IdleSlots /\ HeardOnRoute /\ EachIsActive /\ QuietIsSilent /\ UpIsSilent

LEMMA NotesInit ==
    ASSUME InstancesAreFit, N!Init
    PROVE  NotesInv
<1>0. N!PluginNotesAssumption  BY DEF InstancesAreFit
<1>1. N!Global \in N!Hosts  BY DEF N!Hosts
<1>2. \A h \in N!Hosts : Sounding(h) = {}
  BY DEF N!Init, Sounding, N!Coming, N!Play, N!Named, N!LeftOn
<1>3. NotesShape
  <2>1. << >> \in Seq(N!Event) /\ Len(<< >>) = 0  OBVIOUS
  <2>2. eventList \in [N!Hosts -> Seq(N!Event)] /\ \A h \in N!Hosts : Len(eventList[h]) <= ListSize
    BY <1>0, <2>1 DEF N!Init, N!PluginNotesAssumption
  <2>3. N!PluginNotesTypeOK  BY <2>2 DEF N!Init, N!PluginNotesTypeOK
  <2> QED  BY <2>3, FS_EmptySet DEF N!Init, NotesShape
<1>4. IdleSlots  BY <1>1 DEF N!Init, IdleSlots
<1> QED  BY <1>2, <1>3, <1>4
    DEF N!Init, NotesInv, HeardOnRoute, EachIsActive, QuietIsSilent, UpIsSilent

\* A list takes what fits.
LEMMA AcceptedFits ==
    ASSUME InstancesAreFit, NEW a \in Seq(N!Event), NEW b \in Seq(N!Event), Len(a) <= ListSize
    PROVE  /\ N!Accepted(a \o b) \in Seq(N!Event) /\ Len(N!Accepted(a \o b)) <= ListSize
           /\ Len(a) + Len(b) <= ListSize => N!Accepted(a \o b) = a \o b
<1>0. ListSize \in Nat  BY DEF InstancesAreFit, N!PluginNotesAssumption
<1> DEFINE c == a \o b
<1>1. c \in Seq(N!Event) /\ Len(c) = Len(a) + Len(b) /\ Len(c) \in Nat  BY ConcatProperties, LenProperties
<1> HIDE DEF c
<1>2. CASE Len(c) <= ListSize
  <2>1. SubSeq(c, 1, Len(c)) = c  BY <1>1, SubSeqFull
  <2> QED  BY <1>1, <1>2, <2>1 DEF c, N!Accepted
<1>3. CASE Len(c) > ListSize
  <2>1. SubSeq(c, 1, ListSize) \in Seq(N!Event) /\ Len(SubSeq(c, 1, ListSize)) = ListSize
    <3>1. \A i \in 1 .. ListSize : i \in 1 .. Len(c)  BY <1>0, <1>1, <1>3
    <3>2. \A i \in 1 .. ListSize : c[i] \in N!Event  BY <1>1, <3>1, ElementOfSeq
    <3> QED  BY <1>0, <1>1, <3>1, <3>2, SubSeqProperties
  <2>2. N!Accepted(c) = SubSeq(c, 1, ListSize)  BY <1>0, <1>1, <1>3 DEF N!Accepted
  <2> QED  BY <1>0, <1>1, <1>3, <2>1, <2>2 DEF c
<1> QED  BY <1>0, <1>1, <1>2, <1>3

\* addNoteOn and addNoteOff: what will sound changes as the table does.
LEMMA AddNoteHeard ==
    ASSUME InstancesAreFit, NotesShape, NEW h \in N!Hosts, NEW type \in {"on", "off"},
           NEW n \in N!Notes, N!addNote(h, type, n), UNCHANGED playing
    PROVE  /\ eventList' \in [N!Hosts -> Seq(N!Event)] /\ \A g \in N!Hosts : Len(eventList'[g]) <= ListSize
           /\ activeNote' \in [N!Hosts -> SUBSET N!Notes] /\ \A g \in N!Hosts : IsFiniteSet(activeNote'[g])
           /\ \A g \in N!Hosts \ {h} : /\ eventList'[g] = eventList[g] /\ activeNote'[g] = activeNote[g]
                                       /\ Sounding(g)' = Sounding(g)
           /\ type = "on" => /\ activeNote'[h] = activeNote[h] \cup {n}
                             /\ Sounding(h)' \subseteq Sounding(h) \cup {n}
           /\ type = "off" => /\ activeNote'[h] = activeNote[h] \ {n}
                              /\ Sounding(h)' \subseteq Sounding(h) \ {n}
<1> DEFINE e == [type |-> type, note |-> n]
<1>1. /\ eventList \in [N!Hosts -> Seq(N!Event)] /\ \A g \in N!Hosts : Len(eventList[g]) <= ListSize
      /\ activeNote \in [N!Hosts -> SUBSET N!Notes] /\ \A g \in N!Hosts : IsFiniteSet(activeNote[g])
  BY DEF NotesShape, N!PluginNotesTypeOK
<1>2. e \in N!Event /\ <<e>> \in Seq(N!Event) /\ Len(<<e>>) = 1 /\ e.type = type /\ e.note = n
  BY DEF N!Event
<1>3. /\ eventList' = [eventList EXCEPT ![h] = N!Accepted(eventList[h] \o <<e>>)]
      /\ activeNote' = [activeNote EXCEPT ![h] = IF type = "on" THEN activeNote[h] \cup {n}
                                                 ELSE activeNote[h] \ {n}]
      /\ refused' = IF N!Fits(h, <<e>>) THEN refused ELSE refused \cup {h}
  BY DEF N!addNote
<1> HIDE DEF e
<1> DEFINE list == eventList[h]
<1>4. list \in Seq(N!Event) /\ Len(list) <= ListSize  BY <1>1
<1>5. /\ N!Accepted(list \o <<e>>) \in Seq(N!Event) /\ Len(N!Accepted(list \o <<e>>)) <= ListSize
      /\ Len(list) + 1 <= ListSize => N!Accepted(list \o <<e>>) = list \o <<e>>
  BY <1>2, <1>4, AcceptedFits
<1>6. eventList'[h] = N!Accepted(list \o <<e>>)  BY <1>1, <1>3
<1>7. /\ eventList' \in [N!Hosts -> Seq(N!Event)] /\ \A g \in N!Hosts : Len(eventList'[g]) <= ListSize
      /\ \A g \in N!Hosts \ {h} : eventList'[g] = eventList[g]
  BY <1>1, <1>3, <1>5
<1>8. /\ activeNote' \in [N!Hosts -> SUBSET N!Notes]
      /\ activeNote'[h] = IF type = "on" THEN activeNote[h] \cup {n} ELSE activeNote[h] \ {n}
      /\ \A g \in N!Hosts \ {h} : activeNote'[g] = activeNote[g]
  BY <1>1, <1>3
<1>9. \A g \in N!Hosts : IsFiniteSet(activeNote'[g])
  <2>1. IsFiniteSet(activeNote[h])  BY <1>1
  <2>2. IsFiniteSet(activeNote[h] \cup {n}) /\ IsFiniteSet(activeNote[h] \ {n})
    BY <2>1, FS_AddElement, FS_RemoveElement
  <2> QED  BY <1>1, <1>8, <2>2
<1>10. \A g \in N!Hosts \ {h} : Sounding(g)' = Sounding(g)
  BY <1>3, <1>7 DEF Sounding, N!Coming
<1>11. Sounding(h)' \subseteq IF type = "on" THEN Sounding(h) \cup {n} ELSE Sounding(h) \ {n}
  <2>1. CASE N!Fits(h, <<e>>) /\ h \notin refused
    <3>1. Len(list) + 1 <= ListSize  BY <1>2, <2>1 DEF N!Fits
    <3>2. eventList'[h] = list \o <<e>>  BY <1>5, <1>6, <3>1
    <3>3. N!Play(playing[h], list \o <<e>>) = N!Play(N!Play(playing[h], list), <<e>>)
      BY <1>2, <1>4, PlayConcat
    <3>4. N!Coming(h)' = N!Play(N!Coming(h), <<e>>)  BY <3>2, <3>3 DEF N!Coming
    <3>5. N!Coming(h)' = IF type = "on" THEN N!Coming(h) \cup {n} ELSE N!Coming(h) \ {n}
      BY <1>2, <3>4, PlayOne
    <3>6. h \notin refused /\ h \notin refused'  BY <1>3, <2>1
    <3> QED  BY <3>5, <3>6 DEF Sounding
  <2>2. CASE ~(N!Fits(h, <<e>>) /\ h \notin refused)  BY <1>3, <2>2 DEF Sounding
  <2> QED  BY <2>1, <2>2
<1> QED  BY <1>7, <1>8, <1>9, <1>10, <1>11

LEMMA RouteIsKept ==
    ASSUME UNCHANGED loaded, NEW n
    PROVE  N!Route(n)' = N!Route(n)
BY DEF N!Route, N!Player

LEMMA RouteIsAPlace ==
    ASSUME NotesShape, NEW n \in N!Notes
    PROVE  N!Route(n[1]) = N!Synth \/ (N!Route(n[1]) \in N!Hosts /\ loaded[N!Route(n[1])])
BY DEF N!Route, N!Player, N!Hosts, N!Notes

LEMMA NoteOnKeeps ==
    ASSUME InstancesAreFit, NotesInv, NEW n \in N!Notes, N!NoteOn(n)
    PROVE  NotesInv'
<1> USE DEF NotesInv
<1>0. N!PluginNotesAssumption  BY DEF InstancesAreFit
<1>1. /\ inBlock' = TRUE /\ pressed' = pressed \cup {n} /\ quiet' = FALSE
      /\ UNCHANGED <<loaded, m_busFrozen, playing, moved>>
  BY DEF N!NoteOn
<1>2. \A c : N!Route(c)' = N!Route(c)  BY <1>1, RouteIsKept
<1>3. QuietIsSilent'  BY <1>1 DEF QuietIsSilent
<1>4. CASE UNCHANGED <<eventList, activeNote, refused>>
           /\ (synthNotes' = synthNotes \/ (N!Route(n[1]) = N!Synth /\ synthNotes' = synthNotes \cup {n}))
  <2>1. \A h : Sounding(h)' = Sounding(h)  BY <1>1, <1>4 DEF Sounding, N!Coming
  <2>2. NotesShape'  BY <1>1, <1>4 DEF NotesShape, N!PluginNotesTypeOK
  <2>3. IdleSlots'  BY <1>1, <1>4 DEF IdleSlots
  <2>4. HeardOnRoute'  BY <1>1, <1>2, <1>4, <2>1 DEF HeardOnRoute
  <2>5. EachIsActive'  BY <1>4, <2>1 DEF EachIsActive
  <2>6. UpIsSilent'  BY <1>1, <1>4, <2>1 DEF UpIsSilent
  <2> QED  BY <1>3, <2>2, <2>3, <2>4, <2>5, <2>6
<1>5. CASE N!Route(n[1]) # N!Synth /\ N!addNote(N!Route(n[1]), "on", n) /\ UNCHANGED synthNotes
  <2>0. PICK r \in N!Hosts : r = N!Route(n[1]) /\ loaded[r]  BY <1>5, RouteIsAPlace
  <2>1. /\ eventList' \in [N!Hosts -> Seq(N!Event)] /\ \A g \in N!Hosts : Len(eventList'[g]) <= ListSize
        /\ activeNote' \in [N!Hosts -> SUBSET N!Notes] /\ \A g \in N!Hosts : IsFiniteSet(activeNote'[g])
        /\ \A g \in N!Hosts \ {r} : /\ eventList'[g] = eventList[g] /\ activeNote'[g] = activeNote[g]
                                    /\ Sounding(g)' = Sounding(g)
        /\ activeNote'[r] = activeNote[r] \cup {n}
        /\ Sounding(r)' \subseteq Sounding(r) \cup {n}
    BY <1>1, <1>5, <2>0, AddNoteHeard
  <2>2. NotesShape'  BY <1>1, <1>5, <2>1 DEF NotesShape, N!PluginNotesTypeOK
  <2>3. IdleSlots'  BY <1>1, <2>0, <2>1 DEF IdleSlots
  <2>4. HeardOnRoute'
    <3> SUFFICES ASSUME NEW m \in N!Notes \ moved
                 PROVE  /\ m \in synthNotes => N!Route(m[1]) = N!Synth
                        /\ \A h \in N!Hosts : m \in Sounding(h)' => N!Route(m[1]) = h
      BY <1>1, <1>2, <1>5 DEF HeardOnRoute
    <3>1. ASSUME NEW h \in N!Hosts, m \in Sounding(h)'  PROVE N!Route(m[1]) = h
      <4>1. CASE h = r /\ m = n  BY <2>0, <4>1
      <4>2. CASE ~(h = r /\ m = n)
        <5>1. m \in Sounding(h)  BY <2>0, <2>1, <3>1, <4>2
        <5> QED  BY <5>1 DEF HeardOnRoute
      <4> QED  BY <4>1, <4>2
    <3> QED  BY <3>1 DEF HeardOnRoute
  <2>5. EachIsActive'
    <3> SUFFICES ASSUME NEW h \in N!Hosts  PROVE Sounding(h)' \subseteq activeNote'[h]
      BY DEF EachIsActive
    <3>1. Sounding(h) \subseteq activeNote[h]  BY DEF EachIsActive
    <3>2. CASE h = r  BY <2>1, <3>1, <3>2
    <3>3. CASE h # r  BY <2>1, <3>1, <3>3
    <3> QED  BY <3>2, <3>3
  <2>6. UpIsSilent'
    <3> SUFFICES ASSUME NEW m \in N!Notes \ (pressed \cup {n} \cup moved)
                 PROVE  m \notin synthNotes /\ \A h \in N!Hosts : m \notin Sounding(h)'
      BY <1>1, <1>5 DEF UpIsSilent
    <3>1. m \notin synthNotes /\ \A h \in N!Hosts : m \notin Sounding(h)  BY DEF UpIsSilent
    <3> QED  BY <2>0, <2>1, <3>1
  <2> QED  BY <1>3, <2>2, <2>3, <2>4, <2>5, <2>6
<1>6. \/ /\ UNCHANGED <<eventList, activeNote, refused>>
         /\ synthNotes' = synthNotes \/ (N!Route(n[1]) = N!Synth /\ synthNotes' = synthNotes \cup {n})
      \/ N!Route(n[1]) # N!Synth /\ N!addNote(N!Route(n[1]), "on", n) /\ UNCHANGED synthNotes
  <2>1. CASE N!IsOneShot(n)
    <3>1. UNCHANGED <<eventList, activeNote, synthNotes, refused>>  BY <2>1, Zenon DEF N!NoteOn
    <3> QED  BY <3>1
  <2>2. CASE ~N!IsOneShot(n) /\ N!Route(n[1]) = N!Synth
    <3>1. synthNotes' = synthNotes \cup {n} /\ UNCHANGED <<eventList, activeNote, refused>>
      BY <2>2, Zenon DEF N!NoteOn
    <3> QED  BY <2>2, <3>1
  <2>3. CASE ~N!IsOneShot(n) /\ N!Route(n[1]) # N!Synth  BY <2>3, Zenon DEF N!NoteOn
  <2> QED  BY <2>1, <2>2, <2>3
<1> QED  BY <1>4, <1>5, <1>6

LEMMA NoteOffKeeps ==
    ASSUME InstancesAreFit, NotesInv, NEW n \in N!Notes, N!NoteOff(n)
    PROVE  NotesInv'
<1> USE DEF NotesInv
<1>1. /\ inBlock' = TRUE /\ pressed' = pressed \ {n}
      /\ UNCHANGED <<loaded, m_busFrozen, playing, moved, quiet>>
  BY DEF N!NoteOff
<1>2. \A c : N!Route(c)' = N!Route(c)  BY <1>1, RouteIsKept
<1>3. CASE N!Route(n[1]) = N!Synth /\ synthNotes' = synthNotes \ {n} /\ UNCHANGED <<eventList, activeNote, refused>>
  <2>1. \A h : Sounding(h)' = Sounding(h)  BY <1>1, <1>3 DEF Sounding, N!Coming
  <2>2. NotesShape'  BY <1>1, <1>3 DEF NotesShape, N!PluginNotesTypeOK
  <2>3. IdleSlots'  BY <1>1, <1>3 DEF IdleSlots
  <2>4. HeardOnRoute'  BY <1>1, <1>2, <1>3, <2>1 DEF HeardOnRoute
  <2>5. EachIsActive'  BY <1>3, <2>1 DEF EachIsActive
  <2>6. QuietIsSilent'  BY <1>1, <1>3, <2>1 DEF QuietIsSilent
  <2>7. UpIsSilent'
    <3> SUFFICES ASSUME NEW m \in N!Notes \ ((pressed \ {n}) \cup moved)
                 PROVE  m \notin synthNotes' /\ \A h \in N!Hosts : m \notin Sounding(h)
      BY <1>1, <2>1 DEF UpIsSilent
    <3>1. CASE m # n  BY <1>3, <3>1 DEF UpIsSilent
    <3>2. CASE m = n
      <4>1. N!Synth \notin N!Hosts
        BY DEF InstancesAreFit, N!PluginNotesAssumption, N!Hosts, N!Synth, N!Global
      <4>2. \A h \in N!Hosts : N!Route(n[1]) # h  BY <1>3, <4>1
      <4> QED  BY <1>3, <3>2, <4>2 DEF HeardOnRoute
    <3> QED  BY <3>1, <3>2
  <2> QED  BY <2>2, <2>3, <2>4, <2>5, <2>6, <2>7
<1>4. CASE N!Route(n[1]) # N!Synth /\ N!addNote(N!Route(n[1]), "off", n) /\ UNCHANGED synthNotes
  <2>0. PICK r \in N!Hosts : r = N!Route(n[1]) /\ loaded[r]  BY <1>4, RouteIsAPlace
  <2>1. /\ eventList' \in [N!Hosts -> Seq(N!Event)] /\ \A g \in N!Hosts : Len(eventList'[g]) <= ListSize
        /\ activeNote' \in [N!Hosts -> SUBSET N!Notes] /\ \A g \in N!Hosts : IsFiniteSet(activeNote'[g])
        /\ \A g \in N!Hosts \ {r} : /\ eventList'[g] = eventList[g] /\ activeNote'[g] = activeNote[g]
                                    /\ Sounding(g)' = Sounding(g)
        /\ activeNote'[r] = activeNote[r] \ {n}
        /\ Sounding(r)' \subseteq Sounding(r) \ {n}
    BY <1>1, <1>4, <2>0, AddNoteHeard
  <2>2. NotesShape'  BY <1>1, <1>4, <2>1 DEF NotesShape, N!PluginNotesTypeOK
  <2>3. IdleSlots'  BY <1>1, <2>0, <2>1 DEF IdleSlots
  <2>4. \A h \in N!Hosts : Sounding(h)' \subseteq Sounding(h)  BY <2>0, <2>1
  <2>5. HeardOnRoute'  BY <1>1, <1>2, <1>4, <2>4 DEF HeardOnRoute
  <2>6. EachIsActive'
    <3> SUFFICES ASSUME NEW h \in N!Hosts  PROVE Sounding(h)' \subseteq activeNote'[h]
      BY DEF EachIsActive
    <3>1. Sounding(h) \subseteq activeNote[h]  BY DEF EachIsActive
    <3>2. CASE h = r  BY <2>1, <3>1, <3>2
    <3>3. CASE h # r  BY <2>1, <3>1, <3>3
    <3> QED  BY <3>2, <3>3
  <2>7. QuietIsSilent'  BY <1>1, <1>4, <2>4 DEF QuietIsSilent
  <2>8. UpIsSilent'
    <3> SUFFICES ASSUME NEW m \in N!Notes \ ((pressed \ {n}) \cup moved)
                 PROVE  m \notin synthNotes /\ \A h \in N!Hosts : m \notin Sounding(h)'
      BY <1>1, <1>4 DEF UpIsSilent
    <3>1. CASE m # n  BY <2>4, <3>1 DEF UpIsSilent
    <3>2. CASE m = n
      <4>1. m \notin synthNotes /\ \A h \in N!Hosts \ {r} : m \notin Sounding(h)
        BY <1>4, <2>0, <3>2 DEF HeardOnRoute
      <4>2. m \notin Sounding(r)'  BY <2>1, <3>2
      <4> QED  BY <2>1, <4>1, <4>2
    <3> QED  BY <3>1, <3>2
  <2> QED  BY <2>2, <2>3, <2>5, <2>6, <2>7, <2>8
<1> QED  BY <1>3, <1>4 DEF N!NoteOff

LEMMA AllNotesOffKeeps ==
    ASSUME InstancesAreFit, NotesInv, N!AllNotesOff
    PROVE  NotesInv'
<1> USE DEF NotesInv
<1>1. /\ eventList' = [h \in N!Hosts |-> IF loaded[h] THEN N!Accepted(eventList[h] \o N!NoteOffs(h))
                                        ELSE eventList[h]]
      /\ refused' = refused \cup {h \in N!Hosts : loaded[h] /\ ~N!Fits(h, N!NoteOffs(h))}
      /\ activeNote' = [h \in N!Hosts |-> IF loaded[h] THEN {} ELSE activeNote[h]]
      /\ inBlock' = TRUE /\ synthNotes' = {} /\ pressed' = {} /\ moved' = {} /\ quiet' = TRUE
      /\ UNCHANGED <<loaded, m_busFrozen, playing>>
  BY DEF N!AllNotesOff
<1>2. ASSUME NEW h \in N!Hosts, loaded[h]
      PROVE  /\ eventList'[h] \in Seq(N!Event) /\ Len(eventList'[h]) <= ListSize
             /\ Sounding(h)' = {} /\ activeNote'[h] = {}
  <2> DEFINE a == eventList[h]  b == N!NoteOffs(h)
  <2>1. /\ a \in Seq(N!Event) /\ Len(a) <= ListSize /\ activeNote[h] \subseteq N!Notes
        /\ IsFiniteSet(activeNote[h])
    BY DEF NotesShape, N!PluginNotesTypeOK
  <2>2. /\ b \in Seq(N!Event)
        /\ \A x : N!Play(x, b) = x \ activeNote[h]
    BY <2>1, NoteOffsEnd
  <2>3. eventList'[h] = N!Accepted(a \o b) /\ activeNote'[h] = {}  BY <1>1, <1>2
  <2> HIDE DEF b
  <2>4. /\ N!Accepted(a \o b) \in Seq(N!Event) /\ Len(N!Accepted(a \o b)) <= ListSize
        /\ Len(a) + Len(b) <= ListSize => N!Accepted(a \o b) = a \o b
    BY <2>1, <2>2, AcceptedFits
  <2>5. Sounding(h)' = {}
    <3>1. CASE h \in refused'  BY <3>1 DEF Sounding
    <3>2. CASE h \notin refused'
      <4>1. h \notin refused /\ Len(a) + Len(b) <= ListSize
        BY <1>1, <1>2, <3>2 DEF N!Fits, b
      <4>2. N!Coming(h)' = N!Play(playing[h], a \o b)  BY <1>1, <2>3, <2>4, <4>1 DEF N!Coming
      <4>3. N!Play(playing[h], a \o b) = N!Play(N!Coming(h), b)
        BY <2>1, <2>2, PlayConcat DEF N!Coming
      <4>4. N!Coming(h) \subseteq activeNote[h]  BY <4>1 DEF EachIsActive, Sounding
      <4> QED  BY <2>2, <4>2, <4>3, <4>4 DEF Sounding
    <3> QED  BY <3>1, <3>2
  <2> QED  BY <2>3, <2>4, <2>5
<1>3. ASSUME NEW h \in N!Hosts, ~loaded[h]
      PROVE  eventList'[h] = eventList[h] /\ Sounding(h)' = {} /\ activeNote'[h] = activeNote[h]
  <2>1. eventList'[h] = eventList[h] /\ activeNote'[h] = activeNote[h]  BY <1>1, <1>3
  <2>2. eventList'[h] = << >> /\ playing'[h] = {}  BY <1>1, <1>3, <2>1 DEF IdleSlots
  <2> QED  BY <2>1, <2>2 DEF Sounding, N!Coming, N!Play, N!Named, N!LeftOn
<1>4. \A h \in N!Hosts : Sounding(h)' = {}  BY <1>2, <1>3
<1>5. NotesShape'
  <2>1. \A h \in N!Hosts : /\ eventList'[h] \in Seq(N!Event) /\ Len(eventList'[h]) <= ListSize
                           /\ activeNote'[h] \in SUBSET N!Notes /\ IsFiniteSet(activeNote'[h])
    BY <1>2, <1>3, FS_EmptySet DEF NotesShape, N!PluginNotesTypeOK
  <2>2. eventList' \in [N!Hosts -> Seq(N!Event)] /\ activeNote' \in [N!Hosts -> SUBSET N!Notes]
    BY <1>1, <2>1
  <2> QED  BY <1>1, <2>1, <2>2 DEF NotesShape, N!PluginNotesTypeOK
<1>6. IdleSlots'  BY <1>1, <1>3 DEF IdleSlots
<1> QED  BY <1>1, <1>4, <1>5, <1>6 DEF HeardOnRoute, EachIsActive, QuietIsSilent, UpIsSilent

LEMMA ProcessKeeps ==
    ASSUME InstancesAreFit, NotesInv, N!Process
    PROVE  NotesInv'
<1> USE DEF NotesInv
<1> DEFINE due == {h \in N!Hosts : loaded[h] /\ (h = N!Global \/ ~m_busFrozen[h])}
<1>1. /\ playing' = [h \in N!Hosts |-> IF h \in due THEN N!Play(playing[h], eventList[h]) ELSE playing[h]]
      /\ eventList' = [h \in N!Hosts |-> IF h \in due THEN << >> ELSE eventList[h]]
      /\ inBlock' = FALSE
      /\ UNCHANGED <<loaded, activeNote, m_busFrozen, synthNotes, pressed, moved, refused, quiet>>
  BY DEF N!Process
<1>0. N!Global \in N!Hosts  BY DEF N!Hosts
<1>2. loaded[N!Global] => N!Global \in due  BY <1>0
<1> HIDE DEF due
<1>3. ASSUME NEW h \in N!Hosts
      PROVE  /\ eventList'[h] \in Seq(N!Event) /\ Len(eventList'[h]) <= ListSize
             /\ playing'[h] \subseteq N!Notes /\ N!Coming(h)' = N!Coming(h)
             /\ ~loaded[h] => eventList'[h] = << >> /\ playing'[h] = {}
  <2>0. /\ eventList[h] \in Seq(N!Event) /\ Len(eventList[h]) <= ListSize /\ playing[h] \subseteq N!Notes
        /\ ListSize \in Nat
    BY DEF NotesShape, N!PluginNotesTypeOK, InstancesAreFit, N!PluginNotesAssumption
  <2>1. CASE h \in due
    <3>1. eventList'[h] = << >> /\ playing'[h] = N!Coming(h)  BY <1>1, <2>1 DEF N!Coming
    <3>2. N!LeftOn(eventList[h]) \subseteq N!Notes
      <4>1. \A i \in DOMAIN eventList[h] : eventList[h][i] \in N!Event
        BY <2>0, ElementOfSeq, LenProperties
      <4> QED  BY <4>1 DEF N!LeftOn, N!Event
    <3>3. N!Coming(h) \subseteq N!Notes  BY <2>0, <3>2 DEF N!Coming, N!Play
    <3>4. N!Coming(h)' = playing'[h]  BY <3>1 DEF N!Coming, N!Play, N!Named, N!LeftOn
    <3>5. << >> \in Seq(N!Event) /\ Len(<< >>) = 0  OBVIOUS
    <3>6. ~loaded[h] => N!Coming(h) = {}
      BY DEF IdleSlots, N!Coming, N!Play, N!Named, N!LeftOn
    <3> QED  BY <2>0, <3>1, <3>3, <3>4, <3>5, <3>6
  <2>2. CASE h \notin due
    <3>1. eventList'[h] = eventList[h] /\ playing'[h] = playing[h]  BY <1>1, <2>2
    <3> QED  BY <2>0, <3>1 DEF IdleSlots, N!Coming
  <2> QED  BY <2>1, <2>2
<1>4. \A h \in N!Hosts : Sounding(h)' = Sounding(h)  BY <1>1, <1>3 DEF Sounding
<1>5. NotesShape'
  <2>1. eventList' \in [N!Hosts -> Seq(N!Event)] /\ playing' \in [N!Hosts -> SUBSET N!Notes]
    BY <1>1, <1>3
  <2> QED  BY <1>1, <1>3, <2>1 DEF NotesShape, N!PluginNotesTypeOK
<1>6. IdleSlots'
  <2>1. eventList'[N!Global] = << >>
    <3>1. CASE loaded[N!Global]  BY <1>0, <1>1, <1>2, <3>1
    <3>2. CASE ~loaded[N!Global]  BY <1>0, <1>3, <3>2
    <3> QED  BY <3>1, <3>2
  <2> QED  BY <1>1, <1>3, <2>1 DEF IdleSlots
<1>7. \A c : N!Route(c)' = N!Route(c)  BY <1>1, RouteIsKept
<1> QED  BY <1>1, <1>4, <1>5, <1>6, <1>7 DEF HeardOnRoute, EachIsActive, QuietIsSilent, UpIsSilent

LEMMA ChangePluginKeeps ==
    ASSUME InstancesAreFit, NotesInv, NEW h \in N!Hosts, NEW now_ \in BOOLEAN, N!ChangePlugin(h, now_)
    PROVE  NotesInv'
<1> USE DEF NotesInv
<1>0. N!Global \in N!Hosts /\ N!Global \notin Buses /\ N!Synth \notin N!Hosts
  BY DEF N!Hosts, InstancesAreFit, N!PluginNotesAssumption, N!Synth, N!Global
<1>1. /\ ~inBlock /\ synthNotes' = {}
      /\ loaded' = [loaded EXCEPT ![h] = now_] /\ playing' = [playing EXCEPT ![h] = {}]
      /\ moved' = moved \cup {n \in pressed : N!Route(n[1])' # N!Route(n[1]) \/ N!Route(n[1]) = h}
      /\ UNCHANGED <<m_busFrozen, inBlock, pressed, quiet>>
  BY DEF N!ChangePlugin, N!Route
<1>2. \/ h = N!Global /\ UNCHANGED <<eventList, activeNote, refused>>
      \/ /\ h # N!Global
         /\ eventList' = [eventList EXCEPT ![h] = << >>]
         /\ activeNote' = [activeNote EXCEPT ![h] = {}]
         /\ refused' = refused \ {h}
  BY DEF N!ChangePlugin
<1>3. /\ loaded \in [N!Hosts -> BOOLEAN] /\ eventList \in [N!Hosts -> Seq(N!Event)]
      /\ activeNote \in [N!Hosts -> SUBSET N!Notes] /\ playing \in [N!Hosts -> SUBSET N!Notes]
      /\ \A g \in N!Hosts : Len(eventList[g]) <= ListSize /\ IsFiniteSet(activeNote[g])
      /\ ListSize \in Nat
  BY DEF NotesShape, N!PluginNotesTypeOK, InstancesAreFit, N!PluginNotesAssumption
<1>4. << >> \in Seq(N!Event) /\ Len(<< >>) = 0  OBVIOUS
<1>5. eventList'[h] = << >> /\ playing'[h] = {}
  <2>1. CASE h = N!Global  BY <1>1, <1>2, <1>3, <2>1 DEF IdleSlots
  <2>2. CASE h # N!Global  BY <1>1, <1>2, <1>3, <2>2
  <2> QED  BY <2>1, <2>2
<1>6. \A g \in N!Hosts \ {h} : /\ eventList'[g] = eventList[g] /\ playing'[g] = playing[g]
                               /\ activeNote'[g] = activeNote[g] /\ loaded'[g] = loaded[g]
                               /\ g \in refused' <=> g \in refused
  BY <1>1, <1>2, <1>3
<1>7. Sounding(h)' = {}  BY <1>5 DEF Sounding, N!Coming, N!Play, N!Named, N!LeftOn
<1>8. \A g \in N!Hosts \ {h} : Sounding(g)' = Sounding(g)  BY <1>6 DEF Sounding, N!Coming
<1>9. NotesShape'
  <2>1. /\ loaded' \in [N!Hosts -> BOOLEAN] /\ playing' \in [N!Hosts -> SUBSET N!Notes]
        /\ eventList' \in [N!Hosts -> Seq(N!Event)] /\ activeNote' \in [N!Hosts -> SUBSET N!Notes]
    BY <1>1, <1>2, <1>3, <1>4
  <2>2. \A g \in N!Hosts : Len(eventList'[g]) <= ListSize  BY <1>3, <1>4, <1>5, <1>6
  <2>3. \A g \in N!Hosts : IsFiniteSet(activeNote'[g])  BY <1>2, <1>3, FS_EmptySet
  <2> QED  BY <1>1, <2>1, <2>2, <2>3 DEF NotesShape, N!PluginNotesTypeOK
<1>10. IdleSlots'  BY <1>0, <1>1, <1>5, <1>6 DEF IdleSlots
<1>11. HeardOnRoute'
  <2> SUFFICES ASSUME NEW n \in N!Notes, n \notin moved', NEW g \in N!Hosts, n \in Sounding(g)'
               PROVE  N!Route(n[1])' = g
    BY <1>1 DEF HeardOnRoute
  <2>1. g # h /\ n \in Sounding(g)  BY <1>7, <1>8
  <2>2. N!Route(n[1]) = g /\ n \notin moved  BY <1>1, <2>1 DEF HeardOnRoute
  <2>3. n \in pressed  BY <2>1, <2>2 DEF UpIsSilent
  <2> QED  BY <1>1, <2>2, <2>3
<1>12. EachIsActive'
  <2> SUFFICES ASSUME NEW g \in N!Hosts  PROVE Sounding(g)' \subseteq activeNote'[g]
    BY DEF EachIsActive
  <2>1. CASE g = h  BY <1>7, <2>1
  <2>2. CASE g # h  BY <1>6, <1>8, <2>2 DEF EachIsActive
  <2> QED  BY <2>1, <2>2
<1>13. \A g \in N!Hosts : Sounding(g)' \subseteq Sounding(g)  BY <1>7, <1>8
<1>14. QuietIsSilent'  BY <1>1, <1>13 DEF QuietIsSilent
<1>15. UpIsSilent'  BY <1>1, <1>13 DEF UpIsSilent
<1> QED  BY <1>9, <1>10, <1>11, <1>12, <1>14, <1>15

LEMMA NotesStep ==
    ASSUME InstancesAreFit, NotesInv, N!Next \/ UNCHANGED nVars
    PROVE  NotesInv'
<1>1. ASSUME NEW n \in N!Notes, N!NoteOn(n) \/ N!NoteOff(n)  PROVE NotesInv'
  BY <1>1, NoteOnKeeps, NoteOffKeeps
<1>2. CASE N!AllNotesOff  BY <1>2, AllNotesOffKeeps
<1>3. CASE N!Process  BY <1>3, ProcessKeeps
<1>4. ASSUME UNCHANGED <<loaded, eventList, activeNote, playing, synthNotes, inBlock, pressed, moved, refused, quiet>>,
             m_busFrozen' \in [Buses -> BOOLEAN]
      PROVE  NotesInv'
  <2> USE DEF NotesInv
  <2>1. \A h : Sounding(h)' = Sounding(h)  BY <1>4 DEF Sounding, N!Coming
  <2>2. \A c : N!Route(c)' = N!Route(c)  BY <1>4, RouteIsKept
  <2>3. NotesShape'  BY <1>4 DEF NotesShape, N!PluginNotesTypeOK
  <2> QED  BY <1>4, <2>1, <2>2, <2>3
           DEF IdleSlots, HeardOnRoute, EachIsActive, QuietIsSilent, UpIsSilent
<1>5. m_busFrozen \in [Buses -> BOOLEAN]  BY DEF NotesInv, NotesShape, N!PluginNotesTypeOK
<1>6. ASSUME NEW b \in Buses, N!SetFrozen(b)  PROVE NotesInv'
  <2>1. m_busFrozen' \in [Buses -> BOOLEAN]  BY <1>5, <1>6 DEF N!SetFrozen
  <2> QED  BY <1>4, <1>6, <2>1 DEF N!SetFrozen
<1>7. ASSUME NEW h \in N!Hosts, N!Load(h) \/ N!Clear(h)  PROVE NotesInv'
  BY <1>7, ChangePluginKeeps DEF N!Load, N!Clear
<1>8. CASE UNCHANGED nVars  BY <1>4, <1>5, <1>8 DEF nVars
<1> QED  BY <1>1, <1>2, <1>3, <1>6, <1>7, <1>8 DEF N!Next

LEMMA NotesInvServes ==
    ASSUME NotesInv
    PROVE  N!PluginNotesTypeOK /\ N!PlayingIsActive /\ N!KeyUpIsSilent /\ N!QuietAfterAllNotesOff
BY DEF NotesInv, NotesShape, EachIsActive, UpIsSilent, QuietIsSilent, Sounding, N!PlayingIsActive,
       N!KeyUpIsSilent, N!QuietAfterAllNotesOff

-----------------------------------------------------------------------------
(* PluginHost: the plug-in's objects.                                         *)

\* Opaque to the provers, so that they reason about the fields as about any value.
No  == FALSE
Yes == TRUE

Clean == {}

\* A plug-in field by field, with the calls it did not allow.
Object(c, comp, ctrl, on, proc, s, bus, wired, handler, view, x, y, shown, bad) ==
    [class |-> c, component |-> comp, controller |-> ctrl, active |-> on, processing |-> proc,
     setup |-> s, buses |-> bus, wired |-> wired, handler |-> handler, view |-> view,
     patch |-> x, ctl |-> y, shown |-> shown, mapped |-> No, misused |-> bad]

\* What each call makes of the plug-in where it is allowed.
LEMMA CallsOnObject ==
    ASSUME NEW c, NEW comp, NEW ctrl, NEW on, NEW proc, NEW s, NEW bus, NEW wired, NEW handler,
           NEW view, NEW x, NEW y, NEW shown, NEW bad
    PROVE  LET p == Object(c, comp, ctrl, on, proc, s, bus, wired, handler, view, x, y, shown, bad)
           IN
           /\ comp > 0 /\ on = No => H!Call(p, "setup") = p
           /\ on = Yes => H!Call(p, "stop") = Object(c, comp, ctrl, on, No, s, bus, wired, handler, view, x, y, shown, bad)
           /\ comp > 0 /\ proc = No => H!Call(p, "deactivate") = Object(c, comp, ctrl, No, proc, s, bus, wired, handler, view, x, y, shown, bad)
           /\ H!Call(p, "unwire") = Object(c, comp, ctrl, on, proc, s, bus, No, handler, view, x, y, shown, bad)
           /\ H!Call(p, "noHandler") = Object(c, comp, ctrl, on, proc, s, bus, wired, No, view, x, y, shown, bad)
           /\ ctrl > 0 /\ view = No /\ wired = No /\ handler = No => H!Call(p, "noController") = Object(c, comp, ctrl - 1, on, proc, s, bus, wired, handler, view, x, y, shown, bad)
           /\ comp > 0 /\ on = No /\ wired = No => H!Call(p, "noComponent") = Object(c, comp - 1, ctrl, on, proc, s, bus, wired, handler, view, x, y, shown, bad)
           /\ H!Call(p, "component") = Object(c, comp + 1, ctrl, on, proc, s, bus, wired, handler, view, x, y, shown, bad)
           /\ H!Call(p, "controller") = Object(c, comp, ctrl + 1, on, proc, s, bus, wired, handler, view, x, y, shown, bad)
           /\ H!Call(p, "handler") = Object(c, comp, ctrl, on, proc, s, bus, wired, Yes, view, x, y, shown, bad)
           /\ handler = Yes => H!Call(p, "wire") = Object(c, comp, ctrl, on, proc, s, bus, Yes, handler, view, x, y, shown, bad)
           /\ comp > 0 => H!Call(p, "getState") = Object(c, comp, ctrl, on, proc, s, bus, wired, handler, view, x, y, x, bad)
           /\ H!Call(p, "buses") = Object(c, comp, ctrl, on, proc, s, {0}, wired, handler, view, x, y, shown, bad)
           /\ s # H!NoSetup /\ bus # {} => H!Call(p, "activate") = Object(c, comp, ctrl, Yes, proc, s, bus, wired, handler, view, x, y, shown, bad)
           /\ on = Yes => H!Call(p, "start") = Object(c, comp, ctrl, on, Yes, s, bus, wired, handler, view, x, y, shown, bad)
           /\ ctrl > 0 /\ view = No => H!Call(p, "attach") = Object(c, comp, ctrl, on, proc, s, bus, wired, handler, Yes, x, y, shown, bad)
           /\ H!Call(p, "detach") = Object(c, comp, ctrl, on, proc, s, bus, wired, handler, No, x, y, shown, bad)
<1> DEFINE p == Object(c, comp, ctrl, on, proc, s, bus, wired, handler, view, x, y, shown, bad)
<1>1. ASSUME comp > 0 /\ on = No  PROVE H!Call(p, "setup") = p
  <2>1. H!Allows(p, "setup")  BY <1>1 DEF H!Allows, Object, No, Yes
  <2>2. H!Done(p, "setup") = p  BY DEF H!Done, Object, No, Yes
  <2> QED  BY <2>1, <2>2 DEF H!Call
<1>2. ASSUME on = Yes  PROVE H!Call(p, "stop") = Object(c, comp, ctrl, on, No, s, bus, wired, handler, view, x, y, shown, bad)
  <2>1. H!Allows(p, "stop")  BY <1>2 DEF H!Allows, Object, No, Yes
  <2>2. H!Done(p, "stop") = Object(c, comp, ctrl, on, No, s, bus, wired, handler, view, x, y, shown, bad)  BY DEF H!Done, Object, No, Yes
  <2> QED  BY <2>1, <2>2 DEF H!Call
<1>3. ASSUME comp > 0 /\ proc = No  PROVE H!Call(p, "deactivate") = Object(c, comp, ctrl, No, proc, s, bus, wired, handler, view, x, y, shown, bad)
  <2>1. H!Allows(p, "deactivate")  BY <1>3 DEF H!Allows, Object, No, Yes
  <2>2. H!Done(p, "deactivate") = Object(c, comp, ctrl, No, proc, s, bus, wired, handler, view, x, y, shown, bad)  BY DEF H!Done, Object, No, Yes
  <2> QED  BY <2>1, <2>2 DEF H!Call
<1>4. H!Call(p, "unwire") = Object(c, comp, ctrl, on, proc, s, bus, No, handler, view, x, y, shown, bad)
  <2>1. H!Allows(p, "unwire")  BY DEF H!Allows, Object
  <2>2. H!Done(p, "unwire") = Object(c, comp, ctrl, on, proc, s, bus, No, handler, view, x, y, shown, bad)  BY DEF H!Done, Object, No, Yes
  <2> QED  BY <2>1, <2>2 DEF H!Call
<1>5. H!Call(p, "noHandler") = Object(c, comp, ctrl, on, proc, s, bus, wired, No, view, x, y, shown, bad)
  <2>1. H!Allows(p, "noHandler")  BY DEF H!Allows, Object
  <2>2. H!Done(p, "noHandler") = Object(c, comp, ctrl, on, proc, s, bus, wired, No, view, x, y, shown, bad)  BY DEF H!Done, Object, No, Yes
  <2> QED  BY <2>1, <2>2 DEF H!Call
<1>6. ASSUME ctrl > 0 /\ view = No /\ wired = No /\ handler = No  PROVE H!Call(p, "noController") = Object(c, comp, ctrl - 1, on, proc, s, bus, wired, handler, view, x, y, shown, bad)
  <2>1. H!Allows(p, "noController")  BY <1>6 DEF H!Allows, Object, No, Yes
  <2>2. H!Done(p, "noController") = Object(c, comp, ctrl - 1, on, proc, s, bus, wired, handler, view, x, y, shown, bad)  BY DEF H!Done, Object, No, Yes
  <2> QED  BY <2>1, <2>2 DEF H!Call
<1>7. ASSUME comp > 0 /\ on = No /\ wired = No  PROVE H!Call(p, "noComponent") = Object(c, comp - 1, ctrl, on, proc, s, bus, wired, handler, view, x, y, shown, bad)
  <2>1. H!Allows(p, "noComponent")  BY <1>7 DEF H!Allows, Object, No, Yes
  <2>2. H!Done(p, "noComponent") = Object(c, comp - 1, ctrl, on, proc, s, bus, wired, handler, view, x, y, shown, bad)  BY DEF H!Done, Object, No, Yes
  <2> QED  BY <2>1, <2>2 DEF H!Call
<1>8. H!Call(p, "component") = Object(c, comp + 1, ctrl, on, proc, s, bus, wired, handler, view, x, y, shown, bad)
  <2>1. H!Allows(p, "component")  BY DEF H!Allows, Object
  <2>2. H!Done(p, "component") = Object(c, comp + 1, ctrl, on, proc, s, bus, wired, handler, view, x, y, shown, bad)  BY DEF H!Done, Object, No, Yes
  <2> QED  BY <2>1, <2>2 DEF H!Call
<1>9. H!Call(p, "controller") = Object(c, comp, ctrl + 1, on, proc, s, bus, wired, handler, view, x, y, shown, bad)
  <2>1. H!Allows(p, "controller")  BY DEF H!Allows, Object
  <2>2. H!Done(p, "controller") = Object(c, comp, ctrl + 1, on, proc, s, bus, wired, handler, view, x, y, shown, bad)  BY DEF H!Done, Object, No, Yes
  <2> QED  BY <2>1, <2>2 DEF H!Call
<1>10. H!Call(p, "handler") = Object(c, comp, ctrl, on, proc, s, bus, wired, Yes, view, x, y, shown, bad)
  <2>1. H!Allows(p, "handler")  BY DEF H!Allows, Object
  <2>2. H!Done(p, "handler") = Object(c, comp, ctrl, on, proc, s, bus, wired, Yes, view, x, y, shown, bad)  BY DEF H!Done, Object, No, Yes
  <2> QED  BY <2>1, <2>2 DEF H!Call
<1>11. ASSUME handler = Yes  PROVE H!Call(p, "wire") = Object(c, comp, ctrl, on, proc, s, bus, Yes, handler, view, x, y, shown, bad)
  <2>1. H!Allows(p, "wire")  BY <1>11 DEF H!Allows, Object, No, Yes
  <2>2. H!Done(p, "wire") = Object(c, comp, ctrl, on, proc, s, bus, Yes, handler, view, x, y, shown, bad)  BY DEF H!Done, Object, No, Yes
  <2> QED  BY <2>1, <2>2 DEF H!Call
<1>12. ASSUME comp > 0  PROVE H!Call(p, "getState") = Object(c, comp, ctrl, on, proc, s, bus, wired, handler, view, x, y, x, bad)
  <2>1. H!Allows(p, "getState")  BY <1>12 DEF H!Allows, Object, No, Yes
  <2>2. H!Done(p, "getState") = Object(c, comp, ctrl, on, proc, s, bus, wired, handler, view, x, y, x, bad)  BY DEF H!Done, Object, No, Yes
  <2> QED  BY <2>1, <2>2 DEF H!Call
<1>13. H!Call(p, "buses") = Object(c, comp, ctrl, on, proc, s, {0}, wired, handler, view, x, y, shown, bad)
  <2>1. H!Allows(p, "buses")  BY DEF H!Allows, Object
  <2>2. H!Done(p, "buses") = Object(c, comp, ctrl, on, proc, s, {0}, wired, handler, view, x, y, shown, bad)  BY DEF H!Done, Object, No, Yes
  <2> QED  BY <2>1, <2>2 DEF H!Call
<1>14. ASSUME s # H!NoSetup /\ bus # {}  PROVE H!Call(p, "activate") = Object(c, comp, ctrl, Yes, proc, s, bus, wired, handler, view, x, y, shown, bad)
  <2>1. H!Allows(p, "activate")  BY <1>14 DEF H!Allows, Object, No, Yes
  <2>2. H!Done(p, "activate") = Object(c, comp, ctrl, Yes, proc, s, bus, wired, handler, view, x, y, shown, bad)  BY DEF H!Done, Object, No, Yes
  <2> QED  BY <2>1, <2>2 DEF H!Call
<1>15. ASSUME on = Yes  PROVE H!Call(p, "start") = Object(c, comp, ctrl, on, Yes, s, bus, wired, handler, view, x, y, shown, bad)
  <2>1. H!Allows(p, "start")  BY <1>15 DEF H!Allows, Object, No, Yes
  <2>2. H!Done(p, "start") = Object(c, comp, ctrl, on, Yes, s, bus, wired, handler, view, x, y, shown, bad)  BY DEF H!Done, Object, No, Yes
  <2> QED  BY <2>1, <2>2 DEF H!Call
<1>16. ASSUME ctrl > 0 /\ view = No  PROVE H!Call(p, "attach") = Object(c, comp, ctrl, on, proc, s, bus, wired, handler, Yes, x, y, shown, bad)
  <2>1. H!Allows(p, "attach")  BY <1>16 DEF H!Allows, Object, No, Yes
  <2>2. H!Done(p, "attach") = Object(c, comp, ctrl, on, proc, s, bus, wired, handler, Yes, x, y, shown, bad)  BY DEF H!Done, Object, No, Yes
  <2> QED  BY <2>1, <2>2 DEF H!Call
<1>17. H!Call(p, "detach") = Object(c, comp, ctrl, on, proc, s, bus, wired, handler, No, x, y, shown, bad)
  <2>1. H!Allows(p, "detach")  BY DEF H!Allows, Object
  <2>2. H!Done(p, "detach") = Object(c, comp, ctrl, on, proc, s, bus, wired, handler, No, x, y, shown, bad)  BY DEF H!Done, Object, No, Yes
  <2> QED  BY <2>1, <2>2 DEF H!Call
<1> HIDE DEF p
<1> QED  BY <1>1, <1>2, <1>3, <1>4, <1>5, <1>6, <1>7, <1>8, <1>9, <1>10, <1>11, <1>12, <1>13, <1>14, <1>15, <1>16, <1>17
  DEF p

\* What the calls make of it that the teardown of a refused plug-in makes though it does not
\* allow them.
LEMMA RefusedOnObject ==
    ASSUME NEW c, NEW comp, NEW ctrl, NEW on, NEW proc, NEW s, NEW bus, NEW wired, NEW handler,
           NEW view, NEW x, NEW y, NEW shown, NEW bad, NEW worse
    PROVE  LET p == Object(c, comp, ctrl, on, proc, s, bus, wired, handler, view, x, y, shown, bad)
           IN
           /\ on = No /\ worse = bad \cup {"stop"} => H!Call(p, "stop") = Object(c, comp, ctrl, on, No, s, bus, wired, handler, view, x, y, shown, worse)
           /\ comp = 0 /\ worse = bad \cup {"deactivate"} => H!Call(p, "deactivate") = Object(c, comp, ctrl, No, proc, s, bus, wired, handler, view, x, y, shown, worse)
           /\ comp = 0 /\ worse = bad \cup {"noComponent"} => H!Call(p, "noComponent") = Object(c, comp - 1, ctrl, on, proc, s, bus, wired, handler, view, x, y, shown, worse)
<1> DEFINE p == Object(c, comp, ctrl, on, proc, s, bus, wired, handler, view, x, y, shown, bad)
<1>1. ASSUME on = No, worse = bad \cup {"stop"}  PROVE H!Call(p, "stop") = Object(c, comp, ctrl, on, No, s, bus, wired, handler, view, x, y, shown, worse)
  <2>1. ~H!Allows(p, "stop")  BY <1>1 DEF H!Allows, Object, No, Yes
  <2>2. H!Done(p, "stop") = Object(c, comp, ctrl, on, No, s, bus, wired, handler, view, x, y, shown, bad)  BY DEF H!Done, Object, No, Yes
  <2>3. H!Call(p, "stop") = [H!Done(p, "stop") EXCEPT !.misused = @ \cup {"stop"}]  BY <2>1 DEF H!Call
  <2> HIDE DEF p
  <2> QED  BY <1>1, <2>2, <2>3 DEF Object
<1>2. ASSUME comp = 0, worse = bad \cup {"deactivate"}  PROVE H!Call(p, "deactivate") = Object(c, comp, ctrl, No, proc, s, bus, wired, handler, view, x, y, shown, worse)
  <2>1. ~H!Allows(p, "deactivate")  BY <1>2 DEF H!Allows, Object, No, Yes
  <2>2. H!Done(p, "deactivate") = Object(c, comp, ctrl, No, proc, s, bus, wired, handler, view, x, y, shown, bad)  BY DEF H!Done, Object, No, Yes
  <2>3. H!Call(p, "deactivate") = [H!Done(p, "deactivate") EXCEPT !.misused = @ \cup {"deactivate"}]  BY <2>1 DEF H!Call
  <2> HIDE DEF p
  <2> QED  BY <1>2, <2>2, <2>3 DEF Object
<1>3. ASSUME comp = 0, worse = bad \cup {"noComponent"}  PROVE H!Call(p, "noComponent") = Object(c, comp - 1, ctrl, on, proc, s, bus, wired, handler, view, x, y, shown, worse)
  <2>1. ~H!Allows(p, "noComponent")  BY <1>3 DEF H!Allows, Object, No, Yes
  <2>2. H!Done(p, "noComponent") = Object(c, comp - 1, ctrl, on, proc, s, bus, wired, handler, view, x, y, shown, bad)  BY DEF H!Done, Object, No, Yes
  <2>3. H!Call(p, "noComponent") = [H!Done(p, "noComponent") EXCEPT !.misused = @ \cup {"noComponent"}]  BY <2>1 DEF H!Call
  <2> HIDE DEF p
  <2> QED  BY <1>3, <2>2, <2>3 DEF Object
<1> HIDE DEF p
<1> QED  BY <1>1, <1>2, <1>3 DEF p

LEMMA CreatedOf ==
    ASSUME NEW c
    PROVE  H!Created(c) = Object(c, 0, 0, No, No, H!NoSetup, {}, No, No, No, 0, 0, 0, Clean)
BY DEF H!Created, Object, No, Clean

LEMMA NoMisuse ==
    ASSUME NEW c, NEW comp, NEW ctrl, NEW on, NEW proc, NEW s, NEW bus, NEW wired, NEW handler,
           NEW view, NEW x, NEW y, NEW shown, NEW bad, bad = {}
    PROVE  LET p == Object(c, comp, ctrl, on, proc, s, bus, wired, handler, view, x, y, shown, Clean)
           IN  [p EXCEPT !.misused = bad] = p /\ [p EXCEPT !.misused = @ \cup bad] = p
<1>1. bad = Clean /\ Clean \cup bad = Clean  BY DEF Clean
<1> QED  BY <1>1 DEF Object

LEMMA CallIfOf ==
    ASSUME NEW cond \in {No, Yes}, NEW p, NEW call, NEW q, H!Call(p, call) = q, cond = No => p = q
    PROVE  H!CallIf(cond, p, call) = q
BY DEF H!CallIf, No, Yes

\* A plug-in at rest is ended whole.
LEMMA EndObjectsOf ==
    ASSUME NEW c, NEW ctrl \in {0, 1}, NEW s, NEW bus, NEW wired \in {No, Yes},
           NEW handler \in {No, Yes}, NEW x, NEW y, NEW shown, NEW bad,
           ctrl = 0 => wired = No /\ handler = No
    PROVE  H!EndObjects(Object(c, 1, ctrl, No, No, s, bus, wired, handler, No, x, y, shown, bad))
           = Object(c, 0, 0, No, No, s, bus, No, No, No, x, y, shown, bad)
<1> DEFINE t == Object(c, 1, ctrl, No, No, s, bus, wired, handler, No, x, y, shown, bad)
           u == Object(c, 1, ctrl, No, No, s, bus, No, handler, No, x, y, shown, bad)
           v == Object(c, 1, ctrl, No, No, s, bus, No, No, No, x, y, shown, bad)
           w == Object(c, 1, 0, No, No, s, bus, No, No, No, x, y, shown, bad)
           z == Object(c, 0, 0, No, No, s, bus, No, No, No, x, y, shown, bad)
<1>1. t.wired = wired /\ u.controller = ctrl  BY DEF Object
<1>4. H!CallIf(t.wired, t, "unwire") = u
  <2>1. H!Call(t, "unwire") = u  BY CallsOnObject
  <2>2. wired = No => t = u  OBVIOUS
  <2> HIDE DEF t, u
  <2> QED  BY <1>1, <2>1, <2>2, CallIfOf
<1>5. H!EndController(u) = w
  <2>1. CASE ctrl = 0
    <3>1. u = w  BY <2>1
    <3> HIDE DEF u, w
    <3> QED  BY <1>1, <2>1, <3>1 DEF H!EndController
  <2>2. CASE ctrl = 1
    <3>1. H!Call(u, "noHandler") = v  BY CallsOnObject
    <3>2. H!Call(v, "noController") = Object(c, 1, ctrl - 1, No, No, s, bus, No, No, No, x, y, shown, bad)
      BY <2>2, CallsOnObject
    <3>3. ctrl - 1 = 0  BY <2>2
    <3>4. H!Call(v, "noController") = w  BY <3>2, <3>3
    <3> HIDE DEF u, v, w
    <3> QED  BY <1>1, <2>2, <3>1, <3>4 DEF H!EndController
  <2> QED  BY <2>1, <2>2
<1>6. H!Call(w, "noComponent") = z
  <2>1. H!Call(w, "noComponent") = Object(c, 1 - 1, 0, No, No, s, bus, No, No, No, x, y, shown, bad)
    BY CallsOnObject
  <2>2. 1 - 1 = 0  OBVIOUS
  <2> QED  BY <2>1, <2>2
<1> HIDE DEF t, u, v, w, z
<1>7. H!EndObjects(t) = z  BY <1>4, <1>5, <1>6 DEF H!EndObjects
<1> QED  BY <1>7 DEF t, z

\* A plug-in that runs is taken down as it allows; one that is refused, but for the stop of
\* a processor that was never active.
Stopping(on) == IF on = Yes THEN Clean ELSE Clean \cup {"stop"}

LEMMA StoppingIs == Stopping(Yes) = Clean /\ Stopping(No) = Clean \cup {"stop"}
BY DEF Stopping, Yes, No

LEMMA TeardownOf ==
    ASSUME NEW c, NEW ctrl \in {0, 1}, NEW on \in {No, Yes}, NEW proc, NEW s, NEW bus,
           NEW wired \in {No, Yes}, NEW handler \in {No, Yes}, NEW view \in {No, Yes},
           NEW x, NEW y, NEW shown,
           ctrl = 0 => wired = No /\ handler = No
    PROVE  H!TeardownPlugin(Object(c, 1, ctrl, on, proc, s, bus, wired, handler, view, x, y, shown, Clean))
           = Object(c, 0, 0, No, No, s, bus, No, No, No, x, y, shown, Stopping(on))
<1> DEFINE p == Object(c, 1, ctrl, on, proc, s, bus, wired, handler, view, x, y, shown, Clean)
           q == Object(c, 1, ctrl, on, proc, s, bus, wired, handler, No, x, y, shown, Clean)
           r == Object(c, 1, ctrl, on, No, s, bus, wired, handler, No, x, y, shown, Stopping(on))
           t == Object(c, 1, ctrl, No, No, s, bus, wired, handler, No, x, y, shown, Stopping(on))
           z == Object(c, 0, 0, No, No, s, bus, No, No, No, x, y, shown, Stopping(on))
<1>1. p.view = view  BY DEF Object
<1>2. H!TeardownEditor(p) = q
  <2>1. H!Call(p, "detach") = q  BY CallsOnObject
  <2>2. view = No => p = q  OBVIOUS
  <2> HIDE DEF p, q
  <2> QED  BY <1>1, <2>1, <2>2, CallIfOf DEF H!TeardownEditor
<1>3. H!Call(q, "stop") = r
  <2>1. CASE on = Yes  BY <2>1, StoppingIs, CallsOnObject
  <2>2. CASE on = No
    <3>1. Stopping(on) = Clean \cup {"stop"}  BY <2>2, StoppingIs
    <3> QED  BY <2>2, <3>1, RefusedOnObject
  <2> QED  BY <2>1, <2>2
<1>4. H!Call(r, "deactivate") = t  BY CallsOnObject
<1>5. H!EndObjects(t) = z  BY EndObjectsOf
<1> HIDE DEF p, q, r, t, z
<1>6. H!TeardownPlugin(p) = z
  BY <1>2, <1>3, <1>4, <1>5 DEF H!TeardownPlugin, H!TakenDown, H!CallIf
<1> QED  BY <1>6 DEF p, z

\* Without a processor nothing is stopped; a component that refused to initialize is
\* deactivated and terminated though it does not allow it.
LEMMA NotBuiltOf ==
    ASSUME NEW c, NEW s, NEW bus, NEW x, NEW y, NEW shown
    PROVE  /\ H!TakenDown(Object(c, 1, 0, No, No, s, bus, No, No, No, x, y, shown, Clean), FALSE)
              = Object(c, 0, 0, No, No, s, bus, No, No, No, x, y, shown, Clean)
           /\ H!TakenDown(Object(c, 0, 0, No, No, s, bus, No, No, No, x, y, shown, Clean), FALSE)
              = Object(c, 0 - 1, 0, No, No, s, bus, No, No, No, x, y, shown,
                       (Clean \cup {"deactivate"}) \cup {"noComponent"})
<1> DEFINE p(comp) == Object(c, comp, 0, No, No, s, bus, No, No, No, x, y, shown, Clean)
           r == Object(c, 0, 0, No, No, s, bus, No, No, No, x, y, shown, Clean \cup {"deactivate"})
           z == Object(c, 0 - 1, 0, No, No, s, bus, No, No, No, x, y, shown,
                       (Clean \cup {"deactivate"}) \cup {"noComponent"})
<1>1. \A comp : p(comp).view = FALSE  BY DEF Object, No
<1>2. r.wired = FALSE /\ r.controller = 0  BY DEF Object, No
<1>3. H!Call(p(1), "deactivate") = p(1)  BY CallsOnObject
<1>4. H!EndObjects(p(1)) = p(0)  BY EndObjectsOf
<1>5. H!Call(p(0), "deactivate") = r  BY RefusedOnObject
<1>6. H!Call(r, "noComponent") = z  BY RefusedOnObject
<1> HIDE DEF p, r, z
<1>7. \A comp : H!TakenDown(p(comp), FALSE) = H!EndObjects(H!Call(p(comp), "deactivate"))
  BY <1>1 DEF H!TakenDown, H!TeardownEditor, H!CallIf
<1>8. H!EndObjects(r) = z
  BY <1>2, <1>6 DEF H!EndObjects, H!EndController, H!CallIf
<1>9. H!TakenDown(p(1), FALSE) = p(0) /\ H!TakenDown(p(0), FALSE) = z
  BY <1>3, <1>4, <1>5, <1>7, <1>8
<1> QED  BY <1>9 DEF p, z

\* What is ended is let go of whole.
LEMMA ReleasedOf ==
    ASSUME NEW c, NEW comp \in {0, 0 - 1}, NEW s, NEW bus, NEW x, NEW y, NEW shown
    PROVE  H!Released(Object(c, comp, 0, No, No, s, bus, No, No, No, x, y, shown, Clean)) = H!NoPlugin
<1> DEFINE z == Object(c, comp, 0, No, No, s, bus, No, No, No, x, y, shown, Clean)
<1>1. z.component = comp /\ z.controller = 0 /\ z.misused = {}  BY DEF Object, Clean
<1> HIDE DEF z
<1>2. z.misused \cup {} = {} /\ ~(comp > 0)  BY <1>1
<1>3. H!Released(z) = [H!NoPlugin EXCEPT !.misused = {}]  BY <1>1, <1>2 DEF H!Released
<1>4. H!Released(z) = H!NoPlugin  BY <1>3, NoMisuse, CreatedOf DEF H!NoPlugin
<1> QED  BY <1>4 DEF z

\* What instantiate has built of a class when it asks for the buses.
Ctrl(c) == IF H!HasController(c) THEN 1 ELSE 0
Kept(c) == IF H!HasController(c) THEN Yes ELSE No
Wire(c) == IF H!HasController(c) /\ c.wires THEN Yes ELSE No
Shown(c, x) == IF H!HasController(c) THEN x ELSE 0

Wired(c, x, bus) ==
    Object(c, 1, Ctrl(c), No, No, H!NoSetup, bus, Wire(c), Kept(c), No, x, x, Shown(c, x), Clean)

LEMMA InitializedOf ==
    ASSUME NEW c, plugin.misused = {}
    PROVE  H!Initialized(c) = Object(c, 1, 0, No, No, H!NoSetup, {}, No, No, No, 0, 0, 0, Clean)
<1> DEFINE p == Object(c, 0, 0, No, No, H!NoSetup, {}, No, No, No, 0, 0, 0, Clean)
<1>1. H!Made(c) = p  BY CreatedOf, NoMisuse DEF H!Made
<1>2. H!Call(p, "component") = Object(c, 0 + 1, 0, No, No, H!NoSetup, {}, No, No, No, 0, 0, 0, Clean)
  BY CallsOnObject
<1>3. 0 + 1 = 1  OBVIOUS
<1> HIDE DEF p
<1> QED  BY <1>1, <1>2, <1>3 DEF H!Initialized

LEMMA WiredOf ==
    ASSUME NEW c, NEW x, plugin.misused = {}
    PROVE  H!Wired(c, x) = Wired(c, x, {}) /\ H!Bused(c, x) = Wired(c, x, {0})
<1> DEFINE Of(ctrl, wired, handler, shown) ==
               Object(c, 1, ctrl, No, No, H!NoSetup, {}, wired, handler, No, x, x, shown, Clean)
<1>1. H!WithPatch(c, x) = Of(0, No, No, 0)
  <2> DEFINE n == No
             e == {}
             f == Clean
             one == 1
             zero == 0
             Rec(v, u) == [class |-> c, component |-> one, controller |-> zero, active |-> n,
                        processing |-> n, setup |-> H!NoSetup, buses |-> e, wired |-> n,
                        handler |-> n, view |-> n, patch |-> v, ctl |-> u, shown |-> zero,
                        mapped |-> n, misused |-> f]
  <2>1. H!Initialized(c) = Rec(zero, zero)  BY InitializedOf DEF Object
  <2>2. Of(0, No, No, 0) = Rec(x, x)  BY DEF Object
  <2> HIDE DEF n, e, f, one, zero, Of
  <2>3. [Rec(zero, zero) EXCEPT !.patch = x] = Rec(x, zero)  OBVIOUS
  <2>4. [Rec(x, zero) EXCEPT !.ctl = x] = Rec(x, x)  OBVIOUS
  <2>5. [Rec(zero, zero) EXCEPT !.patch = x, !.ctl = x]
        = [[Rec(zero, zero) EXCEPT !.patch = x] EXCEPT !.ctl = x]
    OBVIOUS
  <2> HIDE DEF Rec
  <2> QED  BY <2>1, <2>2, <2>3, <2>4, <2>5 DEF H!WithPatch
<1>2. H!Wired(c, x) = Wired(c, x, {})
  <2>0. Of(0, No, No, 0).class = c  BY DEF Object
  <2>1. CASE ~H!HasController(c)
    <3>1. Wired(c, x, {}) = Of(0, No, No, 0)  
      <4>1. Ctrl(c) = 0 /\ Wire(c) = No /\ Kept(c) = No /\ Shown(c, x) = 0
        BY <2>1 DEF Wire, Ctrl, Kept, Shown
      <4> QED  BY <4>1 DEF Wired
    <3> HIDE DEF Of
    <3> QED  BY <1>1, <2>0, <2>1, <3>1 DEF H!Wired, H!Controlled
  <2>2. CASE H!HasController(c)
    <3>1. H!Call(Of(0, No, No, 0), "controller") = Of(0 + 1, No, No, 0)  BY CallsOnObject
    <3>2. 0 + 1 = 1  OBVIOUS
    <3>3. H!Call(Of(1, No, No, 0), "handler") = Of(1, No, Yes, 0)  BY CallsOnObject
    <3>4. H!Call(Of(1, No, Yes, 0), "wire") = Of(1, Yes, Yes, 0)  BY CallsOnObject
    <3>5. H!Call(Of(1, Wire(c), Yes, 0), "getState") = Of(1, Wire(c), Yes, x)  BY CallsOnObject
    <3>6. Wired(c, x, {}) = Of(1, Wire(c), Yes, x)
      <4>1. Ctrl(c) = 1 /\ Kept(c) = Yes /\ Shown(c, x) = x  BY <2>2 DEF Ctrl, Kept, Shown
      <4> QED  BY <4>1 DEF Wired
    <3> HIDE DEF Of
    <3>7. H!CallIf(c.wires, Of(1, No, Yes, 0), "wire") = Of(1, Wire(c), Yes, 0)
      <4>1. CASE c.wires
        <5>1. Wire(c) = Yes  BY <2>2, <4>1 DEF Wire
        <5> QED  BY <4>1, <5>1, <3>4 DEF H!CallIf
      <4>2. CASE ~c.wires
        <5>1. Wire(c) = No  BY <4>2 DEF Wire
        <5> QED  BY <4>2, <5>1 DEF H!CallIf
      <4> QED  BY <4>1, <4>2
    <3> QED  BY <1>1, <2>0, <2>2, <3>1, <3>2, <3>3, <3>5, <3>6, <3>7 DEF H!Wired, H!Controlled
  <2> QED  BY <2>1, <2>2
<1>3. H!Call(Wired(c, x, {}), "buses") = Wired(c, x, {0})  BY CallsOnObject DEF Wired
<1> QED  BY <1>2, <1>3 DEF H!Bused

\* Setting up a plug-in at rest, and starting it.
LEMMA SetUpOf ==
    ASSUME NEW c, NEW ctrl, NEW t, NEW s, s # H!NoSetup, NEW wired, NEW handler, NEW view,
           NEW x, NEW y, NEW shown
    PROVE  H!Start(H!Setup(Object(c, 1, ctrl, No, No, t, {0}, wired, handler, view, x, y, shown, Clean), s))
           = Object(c, 1, ctrl, Yes, Yes, s, {0}, wired, handler, view, x, y, shown, Clean)
<1> DEFINE Of(on, proc, u) == Object(c, 1, ctrl, on, proc, u, {0}, wired, handler, view, x, y, shown, Clean)
<1>1. H!Call(Of(No, No, t), "setup") = Of(No, No, t)  BY CallsOnObject
<1>2. H!Setup(Of(No, No, t), s) = Of(No, No, s)
  <2> DEFINE n == No
             e == Clean
             b == {0}
             one == 1
             Rec(u) == [class |-> c, component |-> one, controller |-> ctrl, active |-> n,
                        processing |-> n, setup |-> u, buses |-> b, wired |-> wired,
                        handler |-> handler, view |-> view, patch |-> x, ctl |-> y,
                        shown |-> shown, mapped |-> n, misused |-> e]
  <2>1. \A u : Of(No, No, u) = Rec(u)  BY DEF Object
  <2> HIDE DEF n, e, b, one, Of
  <2> QED  BY <1>1, <2>1 DEF H!Setup
<1>3. H!Call(Of(No, No, s), "activate") = Of(Yes, No, s)
  <2> DEFINE b == {0}
  <2>1. b # {}  OBVIOUS
  <2> HIDE DEF b
  <2>2. H!Call(Object(c, 1, ctrl, No, No, s, b, wired, handler, view, x, y, shown, Clean), "activate")
        = Object(c, 1, ctrl, Yes, No, s, b, wired, handler, view, x, y, shown, Clean)
    BY <2>1, CallsOnObject
  <2> QED  BY <2>2 DEF b
<1>4. H!Call(Of(Yes, No, s), "start") = Of(Yes, Yes, s)  BY CallsOnObject
<1>5. H!Start(Of(No, No, s)) = Of(Yes, Yes, s)
  <2> HIDE DEF Of
  <2> QED  BY <1>3, <1>4 DEF H!Start
<1> QED  BY <1>2, <1>5

\* The host and its plug-in at work, with the window shown (v) or not.
Hosting(c, s, v) ==
    [module |-> Yes, component |-> Yes, loaded |-> Yes, class |-> c, setup |-> s,
     scratch |-> s.frames, maps |-> H!Mapped(c), view |-> v]
Serving(c, s, v, x, y, z) ==
    Object(c, 1, Ctrl(c), Yes, Yes, s, {0}, Wire(c), Kept(c), v, x, y, z, Clean)

\* Either there is no plug-in and the host knows it, or it runs as the host has set it up;
\* and the patch file, if it is one, has a patch of the component.
HostShape ==
    host \in [module : BOOLEAN, component : BOOLEAN, loaded : BOOLEAN, class : H!Kinds,
              setup : H!Setups \cup {H!NoSetup}, scratch : PluginSizes \cup {0},
              maps : BOOLEAN, view : BOOLEAN]
FileShape ==
    /\ file \in [magic : BOOLEAN, size : Nat, comp : Patches \cup {0}, ctl : Patches \cup {0}]
    /\ file.magic => file.comp \in Patches
Vacant ==
    ~host.component /\ ~host.loaded /\ ~host.view /\ plugin = H!NoPlugin
At(c, s, v, x, y, z) ==
    /\ host = Hosting(c, s, v) /\ plugin = Serving(c, s, v, x, y, z)
    /\ v = Yes => H!HasController(c)
    /\ (turned /\ H!HasController(c)) \/ z = Shown(c, x)
AtWork ==
    \E c \in Classes, s \in H!Setups, v \in {No, Yes}, x \in Patches, y \in Patches, z \in Patches \cup {0} :
        At(c, s, v, x, y, z)
SpurnedShape == spurned \subseteq {<<0, "deactivate">>, <<0, "noComponent">>, <<1, "stop">>}
HostInv == HostShape /\ FileShape /\ SpurnedShape /\ (Vacant \/ AtWork)

LEMMA HostInit == H!Init => HostInv
<1> SUFFICES ASSUME H!Init  PROVE HostInv
  OBVIOUS
<1>1. H!NoClass \in H!Kinds  BY DEF H!NoClass, H!Kinds
<1>2. HostShape  BY <1>1 DEF H!Init, H!Unloaded, HostShape
<1>3. FileShape  BY DEF H!Init, H!Empty, FileShape
<1>4. Vacant  BY DEF H!Init, H!Unloaded, Vacant
<1>5. SpurnedShape  BY DEF H!Init, SpurnedShape
<1> QED  BY <1>2, <1>3, <1>4, <1>5 DEF HostInv

LEMMA HostParts ==
    ASSUME InstancesAreFit
    PROVE  /\ 0 \notin Patches /\ Patches \subseteq Nat /\ Classes \subseteq H!Kinds
           /\ \A s \in H!Setups : s # H!NoSetup /\ s.frames \in PluginSizes /\ s.frames \in Nat
<1>1. /\ Classes \subseteq H!Kinds /\ PluginRates \subseteq Nat \ {0}
      /\ PluginSizes \subseteq Nat \ {0} /\ Patches \subseteq Nat \ {0}
  BY DEF InstancesAreFit, H!PluginHostAssumption
<1>2. ASSUME NEW s \in H!Setups  PROVE s # H!NoSetup /\ s.frames \in PluginSizes
  <2>1. s.rate \in PluginRates /\ s.frames \in PluginSizes  BY DEF H!Setups
  <2>2. H!NoSetup.rate = 0  BY DEF H!NoSetup
  <2> QED  BY <1>1, <2>1, <2>2
<1> QED  BY <1>1, <1>2

LEMMA CtrlOf == \A c, x : /\ Ctrl(c) \in {0, 1} /\ Wire(c) \in {No, Yes} /\ Kept(c) \in {No, Yes}
                          /\ Ctrl(c) = 0 => Wire(c) = No /\ Kept(c) = No
                          /\ H!HasController(c) => Ctrl(c) = 1 /\ Shown(c, x) = x
BY DEF Ctrl, Wire, Kept, Shown

LEMMA ServingFields ==
    ASSUME NEW c, NEW s, NEW v, NEW x, NEW y, NEW z
    PROVE  LET p == Serving(c, s, v, x, y, z)
           IN  /\ p.class = c /\ p.processing = TRUE /\ p.setup = s /\ p.view = v
               /\ p.patch = x /\ p.ctl = y /\ p.shown = z /\ p.misused = {}
BY DEF Serving, Object, Yes, Clean

LEMMA HostingFields ==
    ASSUME NEW c, NEW s, NEW v
    PROVE  LET h == Hosting(c, s, v)
           IN  /\ h.component = TRUE /\ h.loaded = TRUE /\ h.class = c /\ h.setup = s
               /\ h.scratch = s.frames /\ h.view = v /\ h.maps = H!Mapped(c)
BY DEF Hosting, Yes

LEMMA HostingShape ==
    ASSUME InstancesAreFit, NEW c \in Classes, NEW s \in H!Setups, NEW v \in {No, Yes}
    PROVE  Hosting(c, s, v) \in
               [module : BOOLEAN, component : BOOLEAN, loaded : BOOLEAN, class : H!Kinds,
                setup : H!Setups \cup {H!NoSetup}, scratch : PluginSizes \cup {0},
                maps : BOOLEAN, view : BOOLEAN]
<1>1. c \in H!Kinds /\ s.frames \in PluginSizes  BY HostParts
<1>2. v \in BOOLEAN /\ Yes \in BOOLEAN  BY DEF No, Yes
<1>3. H!Mapped(c) \in BOOLEAN  BY <1>1 DEF H!Mapped, H!Kinds, H!HasController
<1> QED  BY <1>1, <1>2, <1>3 DEF Hosting

\* Whatever there is of a plug-in, a teardown leaves nothing.
LEMMA TornDownIsWhole == ASSUME HostInv  PROVE H!TornDown = H!NoPlugin
<1>1. CASE Vacant  BY <1>1 DEF Vacant, H!TornDown
<1>2. CASE AtWork
  <2>1. PICK c \in Classes, s \in H!Setups, v \in {No, Yes}, x \in Patches, y \in Patches, z \in Patches \cup {0} :
            host = Hosting(c, s, v) /\ plugin = Serving(c, s, v, x, y, z)
    BY <1>2 DEF AtWork, At
  <2>2. /\ Ctrl(c) \in {0, 1} /\ Wire(c) \in {No, Yes} /\ Kept(c) \in {No, Yes}
        /\ Ctrl(c) = 0 => Wire(c) = No /\ Kept(c) = No
    BY CtrlOf
  <2>3. H!TeardownPlugin(Serving(c, s, v, x, y, z))
        = Object(c, 0, 0, No, No, s, {0}, No, No, No, x, y, z, Stopping(Yes))
    BY <2>2, TeardownOf DEF Serving
  <2>4. H!Released(H!TeardownPlugin(Serving(c, s, v, x, y, z))) = H!NoPlugin
    BY <2>3, StoppingIs, ReleasedOf
  <2> QED  BY <2>1, <2>4, HostingFields DEF H!TornDown
<1> QED  BY <1>1, <1>2 DEF HostInv

LEMMA NotMisused == ASSUME HostInv  PROVE plugin.misused = {}
<1>1. H!NoPlugin.misused = {}  BY DEF H!NoPlugin, H!Created
<1>2. ASSUME NEW c, NEW s, NEW v, NEW x, NEW y, NEW z, plugin = Serving(c, s, v, x, y, z)
      PROVE  plugin.misused = {}
  BY <1>2 DEF Serving, Object, Clean
<1> QED  BY <1>1, <1>2 DEF HostInv, Vacant, AtWork, At

\* A plug-in given up on the way to work is let go of whole, and what it did not allow is
\* known.
LEMMA GivenUpIsWhole ==
    ASSUME HostInv, UNCHANGED <<file, turned>>, NEW processor, NEW n \in {0, 1}, NEW comp \in {0, 0 - 1}, NEW p,
           NEW c, NEW s, NEW bus, NEW x, NEW y, NEW shown, NEW worse,
           p.misused = Clean, p.component = n,
           H!TakenDown(p, processor) = Object(c, comp, 0, No, No, s, bus, No, No, No, x, y, shown, worse),
           \A call \in worse : <<n, call>> \in {<<0, "deactivate">>, <<0, "noComponent">>, <<1, "stop">>},
           H!GivenUp(p, processor)
    PROVE  HostInv'
<1> DEFINE end == Object(c, comp, 0, No, No, s, bus, No, No, No, x, y, shown, worse)
<1>1. [end EXCEPT !.misused = p.misused] = Object(c, comp, 0, No, No, s, bus, No, No, No, x, y, shown, Clean)
  BY DEF Object
<1>2. end.misused = worse  BY DEF Object
<1> HIDE DEF end
<1>3. plugin' = H!NoPlugin  BY <1>1, ReleasedOf DEF H!GivenUp, end
<1>4. spurned' = spurned \cup {<<n, call>> : call \in worse \ Clean}  BY <1>2 DEF H!GivenUp, end
<1>5. SpurnedShape'  BY <1>4 DEF SpurnedShape, HostInv
<1>6. host' = [host EXCEPT !.component = FALSE, !.loaded = FALSE, !.view = FALSE]  BY DEF H!GivenUp
<1>7. HostShape'  BY <1>6 DEF HostInv, HostShape
<1>8. Vacant'  BY <1>3, <1>6 DEF HostInv, HostShape, Vacant
<1>9. FileShape'  BY DEF HostInv, FileShape
<1> QED  BY <1>5, <1>7, <1>8, <1>9 DEF HostInv

LEMMA LoadModuleKeeps == ASSUME HostInv, H!LoadModule \/ H!Unload  PROVE HostInv'
<1>1. FileShape' /\ SpurnedShape'
  BY DEF H!LoadModule, H!Unload, HostInv, FileShape, SpurnedShape
<1>2. H!NoClass \in H!Kinds  BY DEF H!NoClass, H!Kinds
<1>3. HostShape' /\ Vacant'
  <2>1. CASE H!LoadModule
    <3>1. PICK found \in BOOLEAN : host' = [H!Unloaded EXCEPT !.module = found]  BY <2>1 DEF H!LoadModule
    <3> QED  BY <1>2, <2>1, <3>1, TornDownIsWhole DEF H!LoadModule, H!Unloaded, HostShape, Vacant
  <2>2. CASE H!Unload  BY <1>2, <2>2, TornDownIsWhole DEF H!Unload, H!Unloaded, HostShape, Vacant
  <2> QED  BY <2>1, <2>2
<1> QED  BY <1>1, <1>3 DEF HostInv

LEMMA InstantiateKeeps ==
    ASSUME InstancesAreFit, HostInv, NEW c \in Classes, NEW s \in H!Setups, H!Instantiate(c, s)
    PROVE  HostInv'
<1> DEFINE bad == H!TornDown.misused
           p0 == [H!NoPlugin EXCEPT !.misused = bad]
           On(p) == [p EXCEPT !.misused = @ \cup p0.misused]
<1>1. H!NoPlugin.misused = {} /\ bad = {}  BY TornDownIsWhole DEF H!NoPlugin, H!Created
<1>2. p0 = H!NoPlugin /\ p0.misused = {}
  BY <1>1, NoMisuse, CreatedOf DEF H!NoPlugin
<1>3. \A n, ctrl, proc, t, bus, wired, handler, x, y, shown :
          On(Object(c, n, ctrl, proc, proc, t, bus, wired, handler, No, x, y, shown, Clean))
          = Object(c, n, ctrl, proc, proc, t, bus, wired, handler, No, x, y, shown, Clean)
  BY <1>2, NoMisuse
<1> HIDE DEF On, p0
<1>4. plugin.misused = {}  BY NotMisused
<1>5. ASSUME NEW n \in {0, 1}, NEW ctrl, NEW bus, NEW wired, NEW handler, NEW x, NEW y, NEW shown,
             NEW processor, NEW comp \in {0, 0 - 1}, NEW worse, UNCHANGED turned,
             H!TakenDown(Object(c, n, ctrl, No, No, H!NoSetup, bus, wired, handler, No, x, y, shown, Clean), processor)
             = Object(c, comp, 0, No, No, H!NoSetup, bus, No, No, No, x, y, shown, worse),
             \A call \in worse : <<n, call>> \in {<<0, "deactivate">>, <<0, "noComponent">>, <<1, "stop">>},
             H!GivenUp(On(Object(c, n, ctrl, No, No, H!NoSetup, bus, wired, handler, No, x, y, shown, Clean)), processor)
      PROVE  HostInv'
  <2> DEFINE p == Object(c, n, ctrl, No, No, H!NoSetup, bus, wired, handler, No, x, y, shown, Clean)
  <2>1. p.misused = Clean /\ p.component = n  BY DEF Object
  <2>2. H!GivenUp(p, processor)  BY <1>3, <1>5
  <2>3. UNCHANGED <<file, turned>>  BY <1>5 DEF H!Instantiate
  <2> HIDE DEF p
  <2>4. H!TakenDown(p, processor) = Object(c, comp, 0, No, No, H!NoSetup, bus, No, No, No, x, y, shown, worse)
    BY <1>5 DEF p
  <2> QED  BY <1>5, <2>1, <2>2, <2>3, <2>4, GivenUpIsWhole
<1>6. ASSUME host' = [host EXCEPT !.component = FALSE, !.loaded = FALSE, !.view = FALSE], plugin' = p0,
             UNCHANGED <<spurned, turned>>
      PROVE  HostInv'
  <2>1. HostShape' /\ Vacant'  BY <1>2, <1>6 DEF HostInv, HostShape, Vacant
  <2>2. FileShape' /\ SpurnedShape'  BY <1>6 DEF HostInv, FileShape, SpurnedShape, H!Instantiate
  <2> QED  BY <2>1, <2>2 DEF HostInv
<1>7. ASSUME H!GivenUp(On(H!Made(c)), FALSE), UNCHANGED turned  PROVE HostInv'
  <2> DEFINE worse == (Clean \cup {"deactivate"}) \cup {"noComponent"}
             below == 0 - 1
  <2>1. H!Made(c) = Object(c, 0, 0, No, No, H!NoSetup, {}, No, No, No, 0, 0, 0, Clean)
    BY <1>4, CreatedOf, NoMisuse DEF H!Made
  <2>2. \A call \in worse : <<0, call>> \in {<<0, "deactivate">>, <<0, "noComponent">>, <<1, "stop">>}
    BY DEF Clean
  <2>3. H!TakenDown(Object(c, 0, 0, No, No, H!NoSetup, {}, No, No, No, 0, 0, 0, Clean), FALSE)
        = Object(c, below, 0, No, No, H!NoSetup, {}, No, No, No, 0, 0, 0, worse)
    BY NotBuiltOf
  <2>4. below \in {0, 0 - 1}  OBVIOUS
  <2> HIDE DEF worse, below
  <2> QED  BY <1>5, <1>7, <2>1, <2>2, <2>3, <2>4
<1>8. ASSUME H!GivenUp(On(H!Initialized(c)), FALSE), UNCHANGED turned  PROVE HostInv'
  <2>1. H!TakenDown(H!Initialized(c), FALSE)
        = Object(c, 0, 0, No, No, H!NoSetup, {}, No, No, No, 0, 0, 0, Clean)
    BY <1>4, InitializedOf, NotBuiltOf
  <2>2. \A call \in Clean : <<1, call>> \in {<<0, "deactivate">>, <<0, "noComponent">>, <<1, "stop">>}
    BY DEF Clean
  <2> QED  BY <1>4, <1>5, <1>8, <2>1, <2>2, InitializedOf
<1>9. ASSUME NEW x, H!GivenUp(On(H!Wired(c, x)), TRUE) \/ H!GivenUp(On(H!Bused(c, x)), TRUE), UNCHANGED turned
      PROVE  HostInv'
  <2>1. \A call \in Stopping(No) : <<1, call>> \in {<<0, "deactivate">>, <<0, "noComponent">>, <<1, "stop">>}
    BY StoppingIs DEF Clean
  <2>2. /\ Ctrl(c) \in {0, 1} /\ Wire(c) \in {No, Yes} /\ Kept(c) \in {No, Yes}
        /\ Ctrl(c) = 0 => Wire(c) = No /\ Kept(c) = No
    BY CtrlOf
  <2>3. \A bus : H!TeardownPlugin(Wired(c, x, bus))
                 = Object(c, 0, 0, No, No, H!NoSetup, bus, No, No, No, x, x, Shown(c, x), Stopping(No))
    BY <2>2, TeardownOf DEF Wired
  <2>4. PICK bus : H!GivenUp(On(Wired(c, x, bus)), TRUE)  BY <1>4, <1>9, WiredOf
  <2>5. H!TakenDown(Wired(c, x, bus), TRUE)
        = Object(c, 0, 0, No, No, H!NoSetup, bus, No, No, No, x, x, Shown(c, x), Stopping(No))
    BY <2>3 DEF H!TeardownPlugin
  <2> QED  BY <1>5, <1>9, <2>1, <2>4, <2>5 DEF Wired
<1>10. ASSUME NEW x \in Patches, plugin' = On(H!Start(H!Setup(H!Bused(c, x), s))), host' = H!Running(c, s),
              turned' = FALSE, UNCHANGED spurned
       PROVE  HostInv'
  <2>1. plugin' = Serving(c, s, No, x, x, Shown(c, x))
    <3>1. H!Start(H!Setup(H!Bused(c, x), s)) = Serving(c, s, No, x, x, Shown(c, x))
      BY <1>4, WiredOf, SetUpOf, HostParts DEF Wired, Serving
    <3> QED  BY <1>3, <1>10, <3>1 DEF Serving
  <2>2. host' = Hosting(c, s, No)  BY <1>10 DEF Hosting, H!Running, No, Yes
  <2>3. No # Yes /\ Shown(c, x) \in Patches \cup {0}  BY DEF No, Yes, Shown
  <2>4. AtWork'  BY <2>1, <2>2, <2>3 DEF AtWork, At
  <2>5. HostShape'  BY <2>2, HostingShape DEF HostShape
  <2>6. FileShape' /\ SpurnedShape'  BY <1>10 DEF HostInv, FileShape, SpurnedShape, H!Instantiate
  <2> QED  BY <2>4, <2>5, <2>6 DEF HostInv
<1> QED  BY <1>6, <1>7, <1>8, <1>9, <1>10 DEF H!Instantiate, On, p0, bad

LEMMA ReconfigureKeeps ==
    ASSUME InstancesAreFit, HostInv, NEW s \in H!Setups, H!Reconfigure(s)
    PROVE  HostInv'
<1>1. PICK c \in Classes, t \in H!Setups, v \in {No, Yes}, x \in Patches, y \in Patches, z \in Patches \cup {0} :
          At(c, t, v, x, y, z)
  BY DEF HostInv, Vacant, AtWork, H!Reconfigure
<1>2. ASSUME NEW u \in H!Setups  PROVE H!SetupAtRest(plugin, u) = Serving(c, u, v, x, y, z)
  <2> DEFINE Of(on, proc, w) ==
                 Object(c, 1, Ctrl(c), on, proc, w, {0}, Wire(c), Kept(c), v, x, y, z, Clean)
  <2>1. H!Call(Of(Yes, Yes, t), "stop") = Of(Yes, No, t)  BY CallsOnObject
  <2>2. H!Call(Of(Yes, No, t), "deactivate") = Of(No, No, t)  BY CallsOnObject
  <2>3. H!Start(H!Setup(Of(No, No, t), u)) = Of(Yes, Yes, u)  BY SetUpOf, HostParts
  <2>4. plugin = Of(Yes, Yes, t) /\ Serving(c, u, v, x, y, z) = Of(Yes, Yes, u)
    BY <1>1 DEF Serving, At
  <2> HIDE DEF Of
  <2> QED  BY <2>1, <2>2, <2>3, <2>4 DEF H!SetupAtRest, H!Rest
<1>3. host.setup = t  BY <1>1 DEF Hosting, At
<1>4. [host EXCEPT !.setup = s, !.scratch = s.frames] = Hosting(c, s, v)
  <2> DEFINE of(w, n) == [module |-> Yes, component |-> Yes, loaded |-> Yes, class |-> c, setup |-> w,
                          scratch |-> n, maps |-> H!Mapped(c), view |-> v]
  <2>1. host = of(t, t.frames) /\ Hosting(c, s, v) = of(s, s.frames)  BY <1>1 DEF Hosting, At
  <2>2. [host EXCEPT !.setup = s] = of(s, t.frames)  BY <2>1
  <2>3. [of(s, t.frames) EXCEPT !.scratch = s.frames] = of(s, s.frames)  OBVIOUS
  <2>4. [host EXCEPT !.setup = s, !.scratch = s.frames]
        = [[host EXCEPT !.setup = s] EXCEPT !.scratch = s.frames]
    OBVIOUS
  <2> HIDE DEF of
  <2> QED  BY <2>1, <2>2, <2>3, <2>4
<1>5. PICK u \in H!Setups : host' = Hosting(c, u, v) /\ plugin' = Serving(c, u, v, x, y, z)
  BY <1>1, <1>2, <1>3, <1>4 DEF H!Reconfigure, H!SetupRefused, At
<1>6. AtWork'
  <2>1. UNCHANGED turned  BY DEF H!Reconfigure
  <2> QED  BY <1>1, <1>5, <2>1 DEF AtWork, At
<1>7. HostShape'  BY <1>5, HostingShape DEF HostShape
<1>8. FileShape' /\ SpurnedShape'  BY DEF HostInv, FileShape, SpurnedShape, H!Reconfigure
<1> QED  BY <1>6, <1>7, <1>8 DEF HostInv

\* The steps that leave the objects of the plug-in as they are.
LEMMA AtWorkKeeps ==
    ASSUME InstancesAreFit, HostInv, UNCHANGED <<file, spurned>>,
           NEW c \in Classes, NEW s \in H!Setups, NEW v \in {No, Yes}, NEW x \in Patches, NEW y \in Patches,
           NEW z \in Patches \cup {0}, host' = Hosting(c, s, v), plugin' = Serving(c, s, v, x, y, z),
           v = Yes => H!HasController(c), (turned' /\ H!HasController(c)) \/ z = Shown(c, x)
    PROVE  HostInv'
<1>1. AtWork'  BY DEF AtWork, At
<1>2. HostShape'  BY HostingShape DEF HostShape
<1>3. FileShape' /\ SpurnedShape'  BY DEF HostInv, FileShape, SpurnedShape
<1> QED  BY <1>1, <1>2, <1>3 DEF HostInv

Repatched(p, a, d) == [p EXCEPT !.patch = a, !.shown = d]
Controlling(p, a)  == [p EXCEPT !.ctl = a]
Showing(p, a)      == [p EXCEPT !.shown = a]

LEMMA PatchOf ==
    ASSUME NEW c, NEW s, NEW v, NEW x, NEW y, NEW z, NEW a, NEW d
    PROVE  /\ Repatched(Serving(c, s, v, x, y, z), a, d) = Serving(c, s, v, a, y, d)
           /\ Controlling(Serving(c, s, v, x, y, z), a) = Serving(c, s, v, x, a, z)
           /\ Showing(Serving(c, s, v, x, y, z), d) = Serving(c, s, v, x, y, d)
<1> DEFINE e == Clean
           bus == {0}
           one == 1
           Of(k, l, m) ==
    [class |-> c, component |-> one, controller |-> Ctrl(c), active |-> Yes, processing |-> Yes,
     setup |-> s, buses |-> bus, wired |-> Wire(c), handler |-> Kept(c), view |-> v,
     patch |-> k, ctl |-> l, shown |-> m, mapped |-> No, misused |-> e]
<1>1. \A k, l, m : Serving(c, s, v, k, l, m) = Of(k, l, m)  BY DEF Serving, Object
<1> HIDE DEF e, bus, one
<1>2. [Of(x, y, z) EXCEPT !.patch = a] = Of(a, y, z)  OBVIOUS
<1>3. [Of(a, y, z) EXCEPT !.shown = d] = Of(a, y, d)  OBVIOUS
<1>4. [Of(x, y, z) EXCEPT !.ctl = a] = Of(x, a, z)  OBVIOUS
<1>5. [Of(x, y, z) EXCEPT !.patch = a, !.shown = d] = [[Of(x, y, z) EXCEPT !.patch = a] EXCEPT !.shown = d]
  OBVIOUS
<1>6. [Of(x, y, z) EXCEPT !.shown = d] = Of(x, y, d)  OBVIOUS
<1> HIDE DEF Of
<1>7. Repatched(Of(x, y, z), a, d) = Of(a, y, d)  BY <1>2, <1>3, <1>5 DEF Repatched
<1>8. Controlling(Of(x, y, z), a) = Of(x, a, z)  BY <1>4 DEF Controlling
<1>9. Showing(Of(x, y, z), d) = Of(x, y, d)  BY <1>6 DEF Showing
<1> QED  BY <1>1, <1>7, <1>8, <1>9

LEMMA HostStep ==
    ASSUME InstancesAreFit, HostInv, H!Next \/ UNCHANGED hVars
    PROVE  HostInv'
<1>1. ASSUME host.loaded \/ host.view \/ plugin.view
      PROVE  \E c \in Classes, s \in H!Setups, v \in {No, Yes}, x \in Patches, y \in Patches, z \in Patches \cup {0} :
                At(c, s, v, x, y, z)
  <2>1. H!NoPlugin.view = FALSE  BY DEF H!NoPlugin, H!Created
  <2> QED  BY <1>1, <2>1 DEF HostInv, Vacant, AtWork, At
<1>2. ASSUME NEW c \in Classes, NEW s \in H!Setups, NEW v \in {No, Yes}, NEW x \in Patches, NEW y \in Patches,
             NEW z \in Patches \cup {0}, At(c, s, v, x, y, z),
             \/ H!OpenEditor \/ H!CloseEditor \/ H!Turn \/ H!LoadState
             \/ \E n \in PluginSizes : H!Process(n)
      PROVE  HostInv'
  <2>0. host = Hosting(c, s, v) /\ plugin = Serving(c, s, v, x, y, z)  BY <1>2 DEF At
  <2>9. (v = Yes => H!HasController(c)) /\ ((turned /\ H!HasController(c)) \/ z = Shown(c, x))
    BY <1>2 DEF At
  <2>1. /\ host.view = v /\ plugin.view = v /\ host.class = c /\ plugin.class = c /\ host.setup = s
        /\ plugin.setup = s /\ plugin.processing = Yes /\ host.scratch = s.frames
        /\ host.maps = H!Mapped(c) /\ plugin.shown = z
    BY <2>0 DEF Hosting, Serving, Object
  <2>2. \A w : [host EXCEPT !.view = w] = Hosting(c, s, w)  BY <2>0 DEF Hosting
  <2> DEFINE Of(w) ==
                 Object(c, 1, Ctrl(c), Yes, Yes, s, {0}, Wire(c), Kept(c), w, x, y, z, Clean)
  <2>3. \A w : Serving(c, s, w, x, y, z) = Of(w)  BY DEF Serving
  <2>4. CASE H!OpenEditor
    <3>1. H!HasController(c) /\ v = No  BY <2>1, <2>4 DEF H!OpenEditor, No, Yes
    <3>2. Ctrl(c) = 1  BY <3>1, CtrlOf
    <3>3. H!Call(Of(No), "attach") = Of(Yes)  BY <3>2, CallsOnObject
    <3> HIDE DEF Of
    <3>4. plugin' = Serving(c, s, Yes, x, y, z)  BY <2>0, <2>3, <2>4, <3>1, <3>3 DEF H!OpenEditor
    <3>5. host' = Hosting(c, s, Yes)  BY <2>2, <2>4 DEF H!OpenEditor, Yes
    <3> QED  BY <2>0, <2>9, <2>4, <3>1, <3>4, <3>5, AtWorkKeeps DEF H!OpenEditor
  <2>5. CASE H!CloseEditor
    <3>1. H!Call(Of(v), "detach") = Of(No)  BY CallsOnObject
    <3>2. v = No => Of(v) = Of(No)  OBVIOUS
    <3> HIDE DEF Of
    <3>3. H!TeardownEditor(plugin) = Of(No)
      BY <2>0, <2>1, <2>3, <3>1, <3>2, CallIfOf DEF H!TeardownEditor
    <3>4. plugin' = Serving(c, s, No, x, y, z)  BY <2>3, <2>5, <3>3 DEF H!CloseEditor
    <3>5. host' = Hosting(c, s, No)  BY <2>2, <2>5 DEF H!CloseEditor, No
    <3>6. No # Yes  BY DEF No, Yes
    <3> QED  BY <2>0, <2>9, <2>5, <3>4, <3>5, <3>6, AtWorkKeeps DEF H!CloseEditor
  <2>6. CASE H!Turn
    <3>1. v = Yes /\ H!HasController(c)  BY <2>0, <2>9, <2>1, <2>6 DEF H!Turn, No, Yes
    <3>2. PICK a \in Patches :
              \/ plugin' = Showing(plugin, a) /\ turned' = TRUE
              \/ plugin' = Repatched(plugin, a, a) /\ turned' = FALSE
              \/ plugin' = Controlling(plugin, a) /\ UNCHANGED turned
      BY <2>6 DEF H!Turn, Repatched, Controlling, Showing
    <3>3. Shown(c, a) = a  BY <3>1, CtrlOf
    <3>4. host' = Hosting(c, s, v) /\ UNCHANGED <<file, spurned>>  BY <2>0, <2>6 DEF H!Turn
    <3>5. CASE plugin' = Showing(plugin, a) /\ turned' = TRUE
      <4>1. Showing(Serving(c, s, v, x, y, z), a) = Serving(c, s, v, x, y, a)  BY PatchOf
      <4>2. plugin' = Serving(c, s, v, x, y, a)  BY <2>0, <3>5, <4>1
      <4> QED  BY <3>1, <3>4, <3>5, <4>2, AtWorkKeeps
    <3>6. CASE plugin' = Repatched(plugin, a, a) /\ turned' = FALSE
      <4>1. plugin' = Serving(c, s, v, a, y, a)  BY <2>0, <3>6, PatchOf
      <4> QED  BY <3>1, <3>3, <3>4, <4>1, AtWorkKeeps
    <3>7. CASE plugin' = Controlling(plugin, a) /\ UNCHANGED turned
      <4>1. plugin' = Serving(c, s, v, x, a, z)  BY <2>0, <3>7, PatchOf
      <4> QED  BY <2>0, <2>9, <3>1, <3>4, <3>7, <4>1, AtWorkKeeps
    <3> QED  BY <3>2, <3>5, <3>6, <3>7
  <2>7. CASE H!LoadState
    <3>1. host' = Hosting(c, s, v) /\ UNCHANGED <<file, spurned>>  BY <2>0, <2>7 DEF H!LoadState
    <3>2. CASE UNCHANGED <<plugin, turned>>  BY <2>0, <2>9, <3>1, <3>2, AtWorkKeeps
    <3>3. CASE H!Readable /\ plugin' = H!Given /\ turned' = FALSE
      <4>1. file.comp \in Patches /\ file.ctl \in Patches \cup {0}
        BY <3>3 DEF HostInv, FileShape, H!Readable
      <4> DEFINE d == IF H!HasController(host.class) THEN file.comp ELSE plugin.shown
                 told == Repatched(plugin, file.comp, d)
                 k == IF file.size >= 14 THEN file.ctl ELSE 0
      <4>2. d = Shown(c, file.comp) /\ d \in Patches \cup {0}
        BY <2>0, <2>9, <2>1, <4>1 DEF Shown
      <4>3. told = Serving(c, s, v, file.comp, y, d)
        <5> HIDE DEF d
        <5> QED  BY <2>0, PatchOf
      <4>4. CASE H!HasController(host.class) /\ file.ctl # 0
        <5>1. k \in Patches
          <6>1. file.size >= 14  BY <3>3, <4>4 DEF H!Readable, HostInv, FileShape
          <6> QED  BY <4>1, <4>4, <6>1
        <5>2. plugin' = Controlling(told, k)
          BY <3>3, <4>4 DEF H!Given, Repatched, Controlling
        <5>3. plugin' = Serving(c, s, v, file.comp, k, d)
          <6> HIDE DEF told, k, d
          <6> QED  BY <4>3, <5>2, PatchOf
        <5> HIDE DEF k, d
        <5> QED  BY <2>0, <2>9, <3>1, <4>1, <4>2, <5>1, <5>3, AtWorkKeeps
      <4>5. CASE ~(H!HasController(host.class) /\ file.ctl # 0)
        <5>1. plugin' = told  BY <3>3, <4>5 DEF H!Given, Repatched
        <5> HIDE DEF told, d
        <5> QED  BY <2>0, <2>9, <3>1, <4>1, <4>2, <4>3, <5>1, AtWorkKeeps
      <4> QED  BY <4>4, <4>5
    <3> QED  BY <2>7, <3>2, <3>3 DEF H!LoadState
  <2>8. ASSUME NEW n \in PluginSizes, H!Process(n)  PROVE HostInv'
    <3>1. n \in Nat /\ s.frames \in Nat  BY HostParts DEF InstancesAreFit, H!PluginHostAssumption
    <3>2. H!Cut(n) <= s.frames  BY <2>1, <3>1 DEF H!Cut
    <3>3. host.maps => plugin.class.maps  BY <2>1 DEF H!Mapped
    <3>4. plugin.processing  BY <2>1 DEF Yes
    <3>5. plugin' = plugin  BY <2>1, <2>8, <3>2, <3>3, <3>4 DEF H!Process
    <3> QED  BY <2>0, <2>9, <2>8, <3>5, AtWorkKeeps DEF H!Process
  <2> QED  BY <1>2, <2>4, <2>5, <2>6, <2>7, <2>8
<1>3. CASE H!OpenEditor \/ H!CloseEditor \/ H!Turn \/ H!LoadState \/ \E n \in PluginSizes : H!Process(n)
  <2>1. host.loaded \/ host.view \/ plugin.view
    BY <1>3 DEF H!OpenEditor, H!CloseEditor, H!Turn, H!LoadState, H!Process
  <2> QED  BY <1>1, <1>2, <1>3, <2>1
<1>4. ASSUME UNCHANGED <<host, plugin, spurned, turned>>, FileShape'  PROVE HostInv'
  BY <1>4 DEF HostInv, HostShape, SpurnedShape, Vacant, AtWork, At
<1>5. CASE H!SaveState
  <2>1. PICK c \in Classes, s \in H!Setups, v \in {No, Yes}, x \in Patches, y \in Patches, w \in Patches \cup {0} :
            plugin = Serving(c, s, v, x, y, w)
    BY <1>1, <1>5 DEF H!SaveState, At
  <2>2. plugin.patch = x /\ plugin.ctl = y  BY <2>1 DEF Serving, Object
  <2>3. PICK z \in Patches \cup {0} :
            file' = [magic |-> TRUE, comp |-> x, ctl |-> z, size |-> 12 + 1 + (IF z = 0 THEN 0 ELSE 1)]
    BY <1>5, <2>2 DEF H!SaveState
  <2>4. FileShape'  BY <2>3 DEF FileShape
  <2> QED  BY <1>4, <1>5, <2>4 DEF H!SaveState
<1>6. CASE H!Damage
  <2>1. FileShape'
    <3>1. CASE file' = [file EXCEPT !.magic = FALSE]  BY <3>1 DEF HostInv, FileShape
    <3>2. ASSUME NEW n \in {0, 11, 12, 13}, file' = [file EXCEPT !.size = n]  PROVE FileShape'
      BY <3>2 DEF HostInv, FileShape
    <3> QED  BY <1>6, <3>1, <3>2 DEF H!Damage
  <2> QED  BY <1>4, <1>6, <2>1 DEF H!Damage
<1>7. CASE UNCHANGED hVars
  <2>1. FileShape'  BY <1>7 DEF hVars, HostInv, FileShape
  <2> QED  BY <1>4, <1>7, <2>1 DEF hVars
<1> QED  BY <1>3, <1>5, <1>6, <1>7, LoadModuleKeeps, InstantiateKeeps, ReconfigureKeeps DEF H!Next

LEMMA HostInvServes ==
    ASSUME HostInv
    PROVE  H!CallsAreAllowed /\ H!PatchIsWhole
<1>1. CASE Vacant
  <2>1. plugin.misused = {}  BY NotMisused
  <2> QED  BY <1>1, <2>1 DEF Vacant, H!CallsAreAllowed, H!PatchIsWhole, HostInv, SpurnedShape
<1>2. CASE AtWork
  <2>1. PICK c \in Classes, s \in H!Setups, v \in {No, Yes}, x \in Patches, y \in Patches, z \in Patches \cup {0} :
            At(c, s, v, x, y, z)
    BY <1>2 DEF AtWork
  <2>2. /\ host.component /\ host.loaded /\ host.class = c /\ host.setup = s
        /\ plugin.processing /\ plugin.setup = s /\ plugin.patch = x /\ plugin.ctl = y
        /\ plugin.shown = z /\ ((turned /\ H!HasController(c)) \/ z = Shown(c, x))
    BY <2>1 DEF Hosting, Serving, Object, Yes, At
  <2>3. plugin.misused = {}  BY NotMisused
  <2> QED  BY <2>2, <2>3, CtrlOf DEF H!CallsAreAllowed, H!PatchIsWhole, HostInv, SpurnedShape
<1> QED  BY <1>1, <1>2 DEF HostInv

-----------------------------------------------------------------------------
(* Ump: messages in the two protocols.                                       *)

\* The upper half of a word, whose nibbles come back one by one.
Upper(g, s, c) == 4 * 4096 + g * 256 + s * 16 + c
LEMMA Nibbles ==
    ASSUME NEW g \in 0..15, NEW s \in 0..15, NEW c \in 0..15
    PROVE  /\ Upper(g, s, c) \div 4096 = 4 /\ (Upper(g, s, c) \div 256) % 16 = g
           /\ (Upper(g, s, c) \div 16) % 16 = s /\ Upper(g, s, c) % 16 = c
<1> DEFINE w == Upper(g, s, c)
<1>1. w = 4096 * 4 + (g * 256 + s * 16 + c) /\ g * 256 + s * 16 + c \in 0..4095  BY DEF Upper
<1>2. w \div 4096 = 4  BY <1>1
<1>3. w \div 256 = 64 + g  BY DEF Upper
<1>4. w \div 16 = 1024 + g * 16 + s  BY DEF Upper
<1>5. w % 16 = c  BY DEF Upper
<1>6. (64 + g) % 16 = g /\ (1024 + g * 16 + s) % 16 = s  OBVIOUS
<1> QED  BY <1>2, <1>3, <1>4, <1>5, <1>6

\* A byte holds a number of seven bits as it is, and so does a nibble its four.
LEMMA SmallNumbers ==
    /\ \A x \in 0..15 : x % 16 = x
    /\ \A x \in 0..127 : x % 128 = x /\ ((x * 256) \div 256) % 256 = x
OBVIOUS

\* A status names one kind of message, and is a nibble.
LEMMA KindOfStatus ==
    ASSUME NEW kind \in U!Kinds, NEW s, s = U!Statuses[kind]
    PROVE  s \in 0..15 /\ U!KindOf(s) = kind
<1>1. \A j, k \in U!Kinds : U!Statuses[j] = U!Statuses[k] => j = k  BY DEF U!Kinds, U!Statuses
<1>2. s \in 0..15  BY DEF U!Kinds, U!Statuses
<1>3. U!KindOf(s) = kind  BY <1>1 DEF U!KindOf
<1> QED  BY <1>2, <1>3

\* What the engine makes of a message: the key matters only where there is one.
LEMMA PushedOf ==
    ASSUME NEW m, NEW n, m.kind = n.kind, m.channel = n.channel, m.amount = n.amount,
           m.kind \in U!Keyed => m.key = n.key
    PROVE  U!Pushed(m) = U!Pushed(n)
BY DEF U!Pushed, U!Control, U!Keyed

\* Every message of MIDI 2.0 is read back as it was made.
LEMMA MadeComesBack ==
    ASSUME U!UmpAssumption, NEW kind \in U!Kinds, NEW group \in Groups, NEW chan \in UmpChannels,
           NEW key \in UmpKeys, NEW amount
    PROVE  /\ U!Words(U!Made(group, kind, chan, key, amount)) = 2
           /\ U!parseMidi2Cv(U!Made(group, kind, chan, key, amount))
                = [kind |-> kind, group |-> group, channel |-> chan, amount |-> amount,
                   key |-> IF kind \in U!Keyed THEN key ELSE 0]
<1> DEFINE u == U!Made(group, kind, chan, key, amount)
           s == U!Statuses[kind]
           keyed == IF kind \in U!Keyed THEN (key % 128) * 256 ELSE 0
           w == 4 * 4096 + (group % 16) * 256 + (s % 16) * 16 + (chan % 16)
<1>1. group \in 0..15 /\ chan \in 0..15 /\ key \in 0..127 /\ s \in 0..15
  BY KindOfStatus DEF U!UmpAssumption
<1>2. group % 16 = group /\ chan % 16 = chan /\ s % 16 = s /\ key % 128 = key
  BY <1>1, SmallNumbers
<1>3. u.word0.hi = w /\ u.word0.lo = keyed /\ u.word1 = amount  BY DEF U!Made, U!cv2Word0
<1>4. w = Upper(group, s, chan)  BY <1>1, <1>2 DEF Upper
<1> HIDE DEF u, s, w
<1>5. w \div 4096 = 4 /\ (w \div 256) % 16 = group /\ (w \div 16) % 16 = s /\ w % 16 = chan
  BY <1>1, <1>4, Nibbles
<1>6. (keyed \div 256) % 256 = IF kind \in U!Keyed THEN key ELSE 0  BY <1>1, <1>2, SmallNumbers
<1>7. U!Words(u) = 2  BY <1>3, <1>5 DEF U!Words
<1>8. U!KindOf((u.word0.hi \div 16) % 16) = kind
  BY <1>3, <1>5, KindOfStatus DEF s
<1> HIDE DEF keyed
<1>9. U!parseMidi2Cv(u) = [kind |-> kind, group |-> group, channel |-> chan, amount |-> amount,
                           key |-> IF kind \in U!Keyed THEN key ELSE 0]
  BY <1>3, <1>5, <1>6, <1>8 DEF U!parseMidi2Cv
<1> QED  BY <1>7, <1>9 DEF u

\* Every message is read back and, where both protocols have it, plays the same event.
LEMMA MessagesAgree == U!UmpAssumption => U!ProtocolsAgree /\ U!MessagesComeBack
<1> SUFFICES ASSUME U!UmpAssumption  PROVE U!ProtocolsAgree /\ U!MessagesComeBack  OBVIOUS
<1>1. U!MessagesComeBack  BY MadeComesBack DEF U!MessagesComeBack
<1>2. ASSUME NEW kind \in U!InBoth, NEW chan \in UmpChannels, NEW key \in UmpKeys,
             NEW amount \in U!Amounts
      PROVE  LET b == U!Bytes(kind, chan, key, amount)
             IN  /\ \A group \in Groups : U!sendUmp(U!Made(group, kind, chan, key, amount)) = U!send(b)
                 /\ U!send(b) = U!Pushed(U!ParsedBytes(b))
  <2> DEFINE b == U!Bytes(kind, chan, key, amount)
             s == U!Statuses[kind]
             m == [kind |-> kind, channel |-> chan, key |-> key, amount |-> amount]
  <2>0. kind \in U!Kinds /\ amount \in Nat  BY DEF U!InBoth, U!Amounts, U!UmpAssumption
  <2>1. chan \in 0..15 /\ key \in 0..127 /\ s \in 0..15
    BY <2>0, KindOfStatus DEF U!UmpAssumption
  <2>2. chan % 16 = chan /\ key % 128 = key  BY <2>1, SmallNumbers
  <2>3. b.status = s * 16 + chan /\ b.data1 = key /\ b.data2 = amount  BY <2>2 DEF U!Bytes
  <2> HIDE DEF b
  <2>4. b.status \div 16 = s /\ b.status % 16 = chan  BY <2>1, <2>3
  <2>5. U!KindOf(b.status \div 16) = kind  BY <2>0, <2>4, KindOfStatus
  <2>6. U!send(b) = U!Pushed(m)  BY <2>3, <2>4, <2>5 DEF U!send
  <2>7. U!Pushed(U!ParsedBytes(b)) = U!Pushed(m)
    <3>1. U!ParsedBytes(b) = [kind |-> IF kind = "noteOn" /\ amount = 0 THEN "noteOff" ELSE kind,
                              channel |-> chan, key |-> key, amount |-> amount]
      BY <2>3, <2>4, <2>5 DEF U!ParsedBytes
    <3>2. CASE kind = "noteOn" /\ amount = 0  BY <3>1, <3>2 DEF U!Pushed
    <3>3. CASE ~(kind = "noteOn" /\ amount = 0)  BY <3>1, <3>3
    <3> QED  BY <3>2, <3>3
  <2>8. ASSUME NEW group \in Groups
        PROVE  U!sendUmp(U!Made(group, kind, chan, key, amount)) = U!Pushed(m)
    <3> DEFINE u == U!Made(group, kind, chan, key, amount)
               p == U!parseMidi2Cv(u)
    <3>1. U!Words(u) = 2 /\ p = [kind |-> kind, group |-> group, channel |-> chan, amount |-> amount,
                                 key |-> IF kind \in U!Keyed THEN key ELSE 0]
      BY <2>0, MadeComesBack
    <3> HIDE DEF u
    <3>2. p.kind = m.kind /\ p.channel = m.channel /\ p.amount = m.amount
            /\ (p.kind \in U!Keyed => p.key = m.key)
      BY <3>1
    <3> HIDE DEF p, m
    <3>3. U!Pushed(p) = U!Pushed(m)  BY <3>2, PushedOf
    <3> QED  BY <3>1, <3>3 DEF U!sendUmp, u, p
  <2> QED  BY <2>6, <2>7, <2>8 DEF b
<1> QED  BY <1>1, <1>2 DEF U!ProtocolsAgree
-----------------------------------------------------------------------------
(* Knobs: the mapping, the parameters and their files.                       *)

Params == [Targets -> Nat]
OneToOne(maps) == \A b, c \in maps : b # c => b.cc # c.cc /\ b.target # c.target

\* The newest parameters are the last in the queue, or the synthesizer's own.
SynthHears ==
    /\ synthParams \in Params /\ changes \in Seq(Params)
    /\ ~full => IF changes = <<>> THEN m_params = synthParams
                ELSE changes[Len(changes)] = synthParams

\* What the files hold: a mapping that was one to one, parameters that were written.
MapFile(f)    == f = P!None \/ \E maps : f = [kind |-> "map", maps |-> maps] /\ OneToOne(maps)
PresetFile(f) == f = P!None \/ \E p \in Params : f = [kind |-> "preset", params |-> P!Written(p)]
FilesHold     == /\ DOMAIN stored = {"map", "preset"}
                 /\ MapFile(stored.map) /\ PresetFile(stored.preset)

KnobsInv == OneToOne(m_mappings) /\ SynthHears /\ FilesHold /\ P!PresetsAreStable

\* Values are numbers, and so is what a preset of the program holds.
LEMMA ValuesAreParams ==
    P!KnobsAssumption => /\ Values \subseteq Nat /\ P!Defaults \in Params /\ Presets \subseteq Params
BY DEF P!KnobsAssumption, P!Defaults, Params

\* Six digits written twice are the same six digits, and loading takes them all.
LEMMA WrittenTwice ==
    ASSUME NEW p \in Params
    PROVE  /\ P!Written(p) \in Params
           /\ P!Taken(P!Written(p)) = P!Written(p)
           /\ P!Written(P!Written(p)) = P!Written(p)
<1>1. \A n \in Nat : (n \div 2) * 2 \in Nat /\ (((n \div 2) * 2) \div 2) * 2 = (n \div 2) * 2
  OBVIOUS
<1>2. P!Written(p) \in Params  BY <1>1 DEF P!Written, Params
<1>3. P!Taken(P!Written(p)) = P!Written(p)  BY DEF P!Written, P!Taken
<1>4. \A x \in Targets : ((P!Written(p)[x] \div 2) * 2) = P!Written(p)[x]
  BY <1>1 DEF P!Written, Params
<1>5. P!Written(P!Written(p)) = P!Written(p)  BY <1>4 DEF P!Written
<1> QED  BY <1>2, <1>3, <1>5

\* A knob learnt leaves the mapping one to one, and so does anything taken from it.
LEMMA BindKeeps ==
    ASSUME NEW maps, NEW cc, NEW x, OneToOne(maps)
    PROVE  OneToOne(P!bind(maps, cc, x))
BY DEF OneToOne, P!bind
LEMMA FewerKeep ==
    ASSUME NEW maps, NEW fewer \in SUBSET maps, OneToOne(maps)
    PROVE  OneToOne(fewer)
BY DEF OneToOne

\* New parameters are the last in the queue unless it refused them.
LEMMA SetParamsIsHeard ==
    ASSUME SynthHears, NEW p \in Params, P!setParams(p)
    PROVE  SynthHears'
<1>1. Len(changes) \in Nat  BY LenProperties DEF SynthHears
<1>2. ParamQueueSize \in Nat  BY InstancesAreFit DEF P!KnobsAssumption
<1>3. CASE Len(changes) < ParamQueueSize
  <2>1. changes' = Append(changes, p) /\ synthParams' = p  BY <1>3 DEF P!setParams
  <2>2. Append(changes, p) \in Seq(Params) /\ Append(changes, p) # <<>>
          /\ Append(changes, p)[Len(Append(changes, p))] = p
    BY AppendProperties DEF SynthHears
  <2> QED  BY <2>1, <2>2 DEF SynthHears
<1>4. CASE ~(Len(changes) < ParamQueueSize)
  <2>1. changes' = changes /\ synthParams' = p  BY <1>4 DEF P!setParams
  <2>2. Len(changes) >= ParamQueueSize  BY <1>1, <1>2, <1>4
  <2>3. full'  BY Zenon, <2>2 DEF P!setParams
  <2> QED  BY <2>1, <2>3 DEF SynthHears
<1> QED  BY <1>3, <1>4

LEMMA KnobsInit == P!KnobsAssumption /\ P!Init => KnobsInv
<1> SUFFICES ASSUME P!KnobsAssumption, P!Init  PROVE KnobsInv  OBVIOUS
<1>1. OneToOne(m_mappings)  BY DEF P!Init, OneToOne
<1>2. SynthHears
  <2>1. P!Defaults \in Params  BY ValuesAreParams
  <2> QED  BY <2>1 DEF P!Init, SynthHears
<1>3. FilesHold  BY DEF P!Init, FilesHold, MapFile, PresetFile
<1>4. P!PresetsAreStable  BY DEF P!Init, P!PresetsAreStable, P!NoTarget
<1> QED  BY <1>1, <1>2, <1>3, <1>4 DEF KnobsInv

\* What an operation leaves alone.
LEMMA KnobsAtRest ==
    /\ OneToOne(m_mappings) /\ m_mappings' = m_mappings => OneToOne(m_mappings)'
    /\ SynthHears /\ UNCHANGED <<synthParams, changes, full, m_params>> => SynthHears'
    /\ FilesHold /\ stored' = stored => FilesHold'
    /\ read' = P!NoTarget => P!PresetsAreStable'
BY DEF OneToOne, SynthHears, FilesHold, P!PresetsAreStable, P!NoTarget

\* No operation of the panel, the controller, the files or the engine breaks it.
LEMMA KnobsStep ==
    ASSUME P!KnobsAssumption, KnobsInv, P!Next \/ UNCHANGED pVars
    PROVE  KnobsInv'
<1> USE DEF KnobsInv, P!synthVars
<1>1. CASE UNCHANGED pVars
  BY <1>1 DEF pVars, OneToOne, SynthHears, FilesHold, P!PresetsAreStable
<1>2. ASSUME NEW cc \in Ccs, NEW v \in Values, P!ControlChange(cc, v)  PROVE KnobsInv'
  <2>0. /\ read' = P!NoTarget /\ stored' = stored /\ m_params' = m_params
    BY <1>2 DEF P!ControlChange, P!Count
  <2>1. CASE learnTarget # P!NoTarget
    <3>1. /\ m_mappings' = P!bind(m_mappings, cc, learnTarget)
          /\ UNCHANGED <<synthParams, changes, full>>
      BY <1>2, <2>1 DEF P!ControlChange
    <3>2. OneToOne(m_mappings)'  BY <3>1, BindKeeps
    <3> QED  BY <2>0, <3>1, <3>2, KnobsAtRest
  <2>2. CASE learnTarget = P!NoTarget
    <3>1. m_mappings' = m_mappings  BY <1>2, <2>2 DEF P!ControlChange
    <3>2. CASE P!Found(cc) = {}
      BY <1>2, <2>0, <2>2, <3>1, <3>2, KnobsAtRest DEF P!ControlChange
    <3>3. CASE P!Found(cc) # {}
      <4>1. PICK x \in P!Found(cc) : P!setParams([synthParams EXCEPT ![x] = v])
        BY <1>2, <2>2, <3>3 DEF P!ControlChange
      <4>2. [synthParams EXCEPT ![x] = v] \in Params  BY ValuesAreParams DEF SynthHears, Params
      <4>3. SynthHears'  BY <4>1, <4>2, SetParamsIsHeard
      <4> QED  BY <2>0, <3>1, <4>3, KnobsAtRest
    <3> QED  BY <3>2, <3>3
  <2> QED  BY <2>1, <2>2
<1>3. ASSUME NEW x \in Targets, P!Learn(x)  PROVE KnobsInv'
  BY <1>3, KnobsAtRest DEF P!Learn, P!Count
<1>4. ASSUME NEW x \in Targets, P!clearTarget(x)  PROVE KnobsInv'
  <2>1. m_mappings' \in SUBSET m_mappings  BY <1>4 DEF P!clearTarget
  <2>2. OneToOne(m_mappings)'  BY <2>1 DEF OneToOne
  <2> QED  BY <1>4, <2>2, KnobsAtRest DEF P!clearTarget, P!Count
<1>5. ASSUME P!clearAll  PROVE KnobsInv'
  <2>1. OneToOne(m_mappings)'  BY <1>5 DEF P!clearAll, OneToOne
  <2> QED  BY <1>5, <2>1, KnobsAtRest DEF P!clearAll, P!Count
<1>6. ASSUME NEW p \in Params, P!Shown(p)  PROVE KnobsInv'
  <2>1. SynthHears'  BY <1>6, SetParamsIsHeard DEF P!Shown
  <2> QED  BY <1>6, <2>1, KnobsAtRest DEF P!Shown, P!Count
<1>7. ASSUME NEW x \in Targets, NEW v \in Values, P!Slide(x, v)  PROVE KnobsInv'
  <2>1. [synthParams EXCEPT ![x] = v] \in Params  BY ValuesAreParams DEF SynthHears, Params
  <2> QED  BY <1>6, <1>7, <2>1 DEF P!Slide
<1>8. ASSUME P!LoadBuiltin  PROVE KnobsInv'  BY <1>6, <1>8, ValuesAreParams DEF P!LoadBuiltin
<1>9. ASSUME NEW what \in SUBSET {"map", "preset"}, P!Save(what)  PROVE KnobsInv'
  <2>1. /\ DOMAIN stored' = DOMAIN stored
        /\ stored'.map = IF "map" \in what THEN [kind |-> "map", maps |-> m_mappings] ELSE stored.map
        /\ stored'.preset = IF "preset" \in what THEN [kind |-> "preset", params |-> P!Presetted]
                            ELSE stored.preset
    BY <1>9 DEF P!Save, FilesHold
  <2>2. MapFile(stored'.map)
    <3>1. MapFile([kind |-> "map", maps |-> m_mappings])  BY DEF MapFile
    <3> QED  BY <2>1, <3>1 DEF FilesHold
  <2>3. PresetFile(stored'.preset)
    <3>1. PresetFile([kind |-> "preset", params |-> P!Presetted])
      BY DEF PresetFile, P!Presetted, SynthHears
    <3> QED  BY <2>1, <3>1 DEF FilesHold
  <2>4. FilesHold'  BY <2>1, <2>2, <2>3 DEF FilesHold
  <2> QED  BY <1>9, <2>4, KnobsAtRest DEF P!Save, P!Count
<1>10. ASSUME stored.preset # P!None, P!setParams(P!Taken(stored.preset.params))
       PROVE  SynthHears' /\ stored.preset.params = P!Written(synthParams')
  <2>1. PICK p \in Params : stored.preset = [kind |-> "preset", params |-> P!Written(p)]
    BY <1>10 DEF FilesHold, PresetFile
  <2>2. stored.preset.params = P!Written(p)  BY <2>1
  <2>3. P!Taken(P!Written(p)) = P!Written(p) /\ P!Written(p) \in Params
          /\ P!Written(P!Written(p)) = P!Written(p)
    BY WrittenTwice
  <2>4. P!setParams(P!Written(p))  BY <1>10, <2>2, <2>3
  <2>5. SynthHears'  BY <2>3, <2>4, SetParamsIsHeard
  <2>6. synthParams' = P!Written(p)  BY <2>4 DEF P!setParams
  <2> QED  BY <2>2, <2>3, <2>5, <2>6
<1>11. ASSUME P!LoadPreset  PROVE KnobsInv'
  <2>1. SynthHears' /\ stored.preset.params = P!Written(synthParams')
    BY <1>10, <1>11 DEF P!LoadPreset
  <2>2. P!PresetsAreStable'
    BY <1>11, <2>1 DEF P!LoadPreset, P!PresetsAreStable, P!Written
  <2> QED  BY <1>11, <2>1, <2>2, KnobsAtRest DEF P!LoadPreset
<1>12. ASSUME stored.map # P!None  PROVE OneToOne(stored.map.maps)
  BY <1>12 DEF FilesHold, MapFile
<1>13. ASSUME P!LoadMap  PROVE KnobsInv'
  <2>1. OneToOne(m_mappings)'  BY <1>12, <1>13 DEF P!LoadMap, OneToOne
  <2> QED  BY <1>13, <2>1, KnobsAtRest DEF P!LoadMap, P!Count
<1>14. ASSUME P!LoadProject  PROVE KnobsInv'
  <2>1. OneToOne(m_mappings)'  BY <1>12, <1>14 DEF P!LoadProject, OneToOne
  <2>2. SynthHears'  BY <1>10, <1>14 DEF P!LoadProject
  <2> QED  BY <1>14, <2>1, <2>2, KnobsAtRest DEF P!LoadProject, P!Count
<1>15. ASSUME P!Pop  PROVE KnobsInv'
  <2>1. /\ changes # <<>> /\ m_params' = Head(changes) /\ changes' = Tail(changes)
        /\ full' = full /\ synthParams' = synthParams
    BY <1>15 DEF P!Pop
  <2>2. SynthHears'
    <3>1. changes \in Seq(Params) /\ changes # <<>>  BY <2>1 DEF SynthHears
    <3>2. /\ Tail(changes) \in Seq(Params) /\ Len(Tail(changes)) = Len(changes) - 1
          /\ Len(changes) \in Nat /\ Len(changes) # 0
          /\ \A i \in 1 .. Len(Tail(changes)) : Tail(changes)[i] = changes[i + 1]
          /\ Head(changes) = changes[1]
      BY <3>1, HeadTailProperties, EmptySeq, LenProperties
    <3>3. CASE Len(changes) = 1
      <4>1. Tail(changes) = <<>>
        <5>1. \A q \in Seq(Params) : q # <<>> => Len(q) # 0  BY EmptySeq
        <5>2. Tail(changes) # <<>> => Len(Tail(changes)) # 0  BY Zenon, <3>2, <5>1
        <5>3. Len(Tail(changes)) = 0  BY <3>2, <3>3
        <5> QED  BY Zenon, <5>2, <5>3
      <4> QED  BY <2>1, <3>2, <3>3, <4>1 DEF SynthHears
    <3>4. CASE Len(changes) # 1
      <4>1. Tail(changes) # <<>>
              /\ Tail(changes)[Len(Tail(changes))] = changes[Len(changes)]
        BY <3>2, <3>4, EmptySeq
      <4> QED  BY <2>1, <3>2, <4>1 DEF SynthHears
    <3> QED  BY <3>3, <3>4
  <2> QED  BY <1>15, <2>2, KnobsAtRest DEF P!Pop
<1>16. ASSUME P!OpenOrClose  PROVE KnobsInv'
  BY <1>16, KnobsAtRest DEF P!OpenOrClose, P!Count
<1> QED
  BY <1>1, <1>2, <1>3, <1>4, <1>5, <1>7, <1>8, <1>9, <1>11, <1>13, <1>14, <1>15, <1>16 DEF P!Next

LEMMA KnobsInvServes ==
    ASSUME KnobsInv
    PROVE  P!MappingIsOneToOne /\ P!SynthHasWhatIsShown /\ P!PresetsAreStable
BY DEF KnobsInv, SynthHears, OneToOne, P!MappingIsOneToOne, P!SynthHasWhatIsShown
-----------------------------------------------------------------------------
(* MidiIO: keys that sound and who will end them.                            *)

Message == [key : K!ChannelKeys, on : BOOLEAN]
Live    == sounding \ orphans

KeysShape ==
    /\ inQueue \in Seq(Message) /\ pendingOffs \in Seq(K!ChannelKeys)
    /\ m_active \in Outputs /\ isOpen \in [Outputs -> BOOLEAN] /\ softThru \in BOOLEAN
    /\ sounding \subseteq [at : Outputs, key : K!ChannelKeys] /\ track \in MidiChannels
    /\ typed \in [TypingKeys -> K!ChannelKeys \cup {K!None}]

\* A Note On in the queue is of a key that is down, or its Note Off is behind it, or lost.
OnsAreFollowed ==
    \A i \in DOMAIN inQueue : inQueue[i].on =>
        \/ inQueue[i].key \in down \cup lost
        \/ \E j \in DOMAIN inQueue : j > i /\ inQueue[j].key = inQueue[i].key /\ ~inQueue[j].on

\* What sounds does so at the output in use, which is open, and someone will end it: without
\* thru only someone on the screen.
LiveHasEnder ==
    \A x \in Live :
        /\ x.at = m_active /\ isOpen[m_active]
        /\ x.key \in down \cup K!OffsUnderWay \cup K!OnScreen \cup lost
        /\ ~softThru => x.key \in K!OnScreen

KeysInv == KeysShape /\ OnsAreFollowed /\ LiveHasEnder

\* A handler that sends: what lives afterwards lived and was not named, or was left on.
LEMMA SendLeaves ==
    ASSUME KeysShape, LiveHasEnder, NEW named \in SUBSET K!ChannelKeys, NEW on \in SUBSET named,
           NEW open \in BOOLEAN, K!Send(named, on, open)
    PROVE  /\ sounding' \subseteq [at : Outputs, key : K!ChannelKeys]
           /\ \A x \in Live' : \/ x \in Live /\ (open => x.key \notin named)
                               \/ open /\ x.at = m_active /\ x.key \in on
<1>1. CASE open
  <2>1. /\ sounding' = (sounding \ K!At(m_active, named)) \cup K!At(m_active, on)
        /\ orphans' = orphans \ K!At(m_active, named)
    BY <1>1 DEF K!Send
  <2>2. \A x \in K!At(m_active, on) :
            x \in [at : Outputs, key : K!ChannelKeys] /\ x.at = m_active /\ x.key \in on
    BY DEF K!At, KeysShape
  <2>3. \A x \in Live : x.key \in named => x \in K!At(m_active, named)
    <3> SUFFICES ASSUME NEW x \in Live, x.key \in named  PROVE x \in K!At(m_active, named)
      OBVIOUS
    <3>1. x \in [at : Outputs, key : K!ChannelKeys] /\ x.at = m_active
      BY DEF Live, KeysShape, LiveHasEnder
    <3>2. x = [at |-> m_active, key |-> x.key]  BY <3>1
    <3> QED  BY <3>2 DEF K!At
  <2>4. sounding' \subseteq [at : Outputs, key : K!ChannelKeys]  BY <2>1, <2>2 DEF KeysShape
  <2>5. \A x \in Live' :
        \/ x \in Live /\ x \notin K!At(m_active, named)
        \/ x \in K!At(m_active, on)
    BY <2>1 DEF Live
  <2> QED  BY <1>1, <2>2, <2>3, <2>4, <2>5
<1>2. CASE ~open
  <2>1. sounding' = sounding /\ orphans' = orphans  BY <1>2 DEF K!Send
  <2> QED  BY <1>2, <2>1 DEF Live, KeysShape
<1> QED  BY <1>1, <1>2

LEMMA KeysInit == K!Init => KeysInv
<1> SUFFICES ASSUME K!Init  PROVE KeysInv  OBVIOUS
<1>1. <<>> \in Seq(Message) /\ <<>> \in Seq(K!ChannelKeys)  BY EmptySeq
<1>2. KeysShape  BY <1>1 DEF K!Init, KeysShape
<1>3. OnsAreFollowed  BY EmptySeq DEF K!Init, OnsAreFollowed
<1>4. LiveHasEnder  BY DEF K!Init, LiveHasEnder, Live
<1> QED  BY <1>2, <1>3, <1>4 DEF KeysInv

\* A message at the end of the queue, or gone for want of room: the keyboard has pressed or
\* let go of its key by then.
LEMMA CallbackKeeps ==
    ASSUME KeysInv, NEW key \in K!ChannelKeys, NEW on \in BOOLEAN,
           K!rtCallback([key |-> key, on |-> on]),
           down' = IF on THEN down \cup {key} ELSE down \ {key}
    PROVE  KeysInv'
<1> DEFINE message == [key |-> key, on |-> on]
           queue == Append(inQueue, message)
<1> USE DEF KeysInv
<1>0. UNCHANGED <<m_active, isOpen, sounding, orphans, softThru, track, typed, pendingOffs>>
  BY DEF K!rtCallback, K!outVars, K!uiVars
<1>a. message \in Message /\ message.key = key /\ message.on = on  BY DEF Message
<1> HIDE DEF message
<1>1. CASE inputOpen /\ Len(inQueue) < InputQueueSize
  <2>1. inQueue' = queue /\ lost' = IF on THEN lost \ {key} ELSE lost
    BY <1>1, <1>a DEF K!rtCallback, message
  <2>2. /\ queue \in Seq(Message) /\ Len(inQueue) \in Nat
        /\ DOMAIN queue = 1 .. Len(inQueue) + 1 /\ DOMAIN inQueue = 1 .. Len(inQueue)
        /\ queue[Len(inQueue) + 1] = message
        /\ \A i \in 1 .. Len(inQueue) : queue[i] = inQueue[i]
    BY <1>a, AppendProperties, LenProperties DEF KeysShape
  <2> HIDE DEF queue
  <2>3. KeysShape'  BY <1>0, <2>1, <2>2 DEF KeysShape
  <2>4. down \cup lost \subseteq down' \cup lost' \cup {key} /\ (on => key \in down')
    BY <2>1
  <2>5. OnsAreFollowed'
    <3> SUFFICES ASSUME NEW i \in DOMAIN queue, queue[i].on
                 PROVE  \/ queue[i].key \in down' \cup lost'
                        \/ \E j \in DOMAIN queue : j > i /\ queue[j].key = queue[i].key /\ ~queue[j].on
      BY <2>1 DEF OnsAreFollowed
    <3>1. CASE i = Len(inQueue) + 1
      BY <1>a, <2>2, <2>4, <3>1
    <3>2. CASE i \in DOMAIN inQueue /\ queue[i].key = key
      <4>1. CASE on  BY <2>4, <3>2, <4>1
      <4>2. CASE ~on
        <5>1. Len(inQueue) + 1 > i /\ Len(inQueue) + 1 \in DOMAIN queue  BY <2>2, <3>2
        <5> QED  BY <1>a, <2>2, <3>2, <4>2, <5>1
      <4> QED  BY <4>1, <4>2
    <3>3. CASE i \in DOMAIN inQueue /\ queue[i].key # key
      <4>1. inQueue[i].on /\ queue[i] = inQueue[i]  BY <2>2, <3>3
      <4>2. CASE inQueue[i].key \in down \cup lost  BY <2>4, <3>3, <4>1, <4>2
      <4>3. CASE \E j \in DOMAIN inQueue :
                     j > i /\ inQueue[j].key = inQueue[i].key /\ ~inQueue[j].on
        <5>1. PICK j \in DOMAIN inQueue :
                  j > i /\ inQueue[j].key = inQueue[i].key /\ ~inQueue[j].on
          BY <4>3
        <5>2. j \in DOMAIN queue /\ queue[j] = inQueue[j]  BY <2>2
        <5> QED  BY <4>1, <5>1, <5>2
      <4> QED  BY <3>3, <4>1, <4>2, <4>3 DEF OnsAreFollowed
    <3> QED  BY <2>2, <3>1, <3>2, <3>3
  <2>6. K!OffsUnderWay \subseteq K!OffsUnderWay' /\ (~on => key \in K!OffsUnderWay')
    <3>1. ASSUME NEW k \in K!OffsUnderWay  PROVE k \in K!OffsUnderWay'
      <4>1. PICK i \in DOMAIN inQueue : ~inQueue[i].on /\ k = inQueue[i].key  BY DEF K!OffsUnderWay
      <4>2. i \in DOMAIN queue /\ queue[i] = inQueue[i]  BY <2>2
      <4> QED  BY <2>1, <4>1, <4>2 DEF K!OffsUnderWay
    <3>2. ASSUME ~on  PROVE key \in K!OffsUnderWay'
      <4>1. Len(inQueue) + 1 \in DOMAIN queue  BY <2>2
      <4> QED  BY <1>a, <2>1, <2>2, <3>2, <4>1 DEF K!OffsUnderWay
    <3> QED  BY <3>1, <3>2
  <2>7. LiveHasEnder'
    <3>1. K!OnScreen' = K!OnScreen /\ Live' = Live  BY <1>0 DEF K!OnScreen, K!Typed, Live
    <3>2. key \in down' \cup K!OffsUnderWay'  BY <2>4, <2>6
    <3> QED  BY <1>0, <2>4, <2>6, <3>1, <3>2 DEF LiveHasEnder
  <2> QED  BY <2>3, <2>5, <2>7
<1>2. CASE ~(inputOpen /\ Len(inQueue) < InputQueueSize)
  <2>1. inQueue' = inQueue /\ lost' = IF on THEN lost ELSE lost \cup {key}
    BY <1>2, <1>a DEF K!rtCallback, message
  <2>2. down \cup lost \subseteq down' \cup lost'  BY <2>1
  <2>3. KeysShape'  BY <1>0, <2>1 DEF KeysShape
  <2>4. OnsAreFollowed'  BY <2>1, <2>2 DEF OnsAreFollowed
  <2>5. K!OnScreen' = K!OnScreen /\ Live' = Live /\ K!OffsUnderWay' = K!OffsUnderWay
    BY <1>0, <2>1 DEF K!OnScreen, K!Typed, K!OffsUnderWay, Live
  <2>6. LiveHasEnder'  BY <1>0, <2>2, <2>5 DEF LiveHasEnder
  <2> QED  BY <2>3, <2>4, <2>6
<1> QED  BY <1>1, <1>2

\* A poll takes the messages before the limit, and one more that is gone.
LEMMA PumpKeeps ==
    ASSUME KeysInv, K!pumpMonitor
    PROVE  KeysInv'
<1> DEFINE first  == IF Len(inQueue) < FrameLimit THEN Len(inQueue) ELSE FrameLimit
           some   == SubSeq(inQueue, 1, first)
           rest   == SubSeq(inQueue, FrameLimit + 2, Len(inQueue))
           open   == softThru /\ isOpen[m_active]
           beyond == {inQueue[i].key : i \in {j \in DOMAIN inQueue : j = FrameLimit + 1 /\ ~inQueue[j].on}}
<1> USE DEF KeysInv
<1>1. /\ inQueue' = rest /\ lost' = lost \cup beyond
      /\ K!Send(K!Named(some), K!LeftOn(some), open)
      /\ UNCHANGED <<down, m_active, isOpen, softThru, track, typed, pendingOffs>>
  BY DEF K!pumpMonitor, K!uiVars
<1>2. /\ FrameLimit \in Nat /\ Len(inQueue) \in Nat /\ first \in Nat
      /\ first <= Len(inQueue) /\ first <= FrameLimit
      /\ DOMAIN inQueue = 1 .. Len(inQueue) /\ inQueue \in Seq(Message)
      /\ \A i \in DOMAIN inQueue : inQueue[i].key \in K!ChannelKeys
  <2>1. FrameLimit \in Nat  BY InstancesAreFit DEF K!MidiIOAssumption
  <2>2. inQueue \in Seq(Message)  BY DEF KeysShape
  <2>3. Len(inQueue) \in Nat /\ DOMAIN inQueue = 1 .. Len(inQueue)  BY <2>2, LenProperties
  <2>4. \A i \in DOMAIN inQueue : inQueue[i].key \in K!ChannelKeys
    <3>1. \A i \in DOMAIN inQueue : inQueue[i] \in Message  BY <2>2, ElementOfSeq, <2>3
    <3>2. \A m \in Message : m.key \in K!ChannelKeys  BY DEF Message
    <3> QED  BY <3>1, <3>2
  <2> QED  BY <2>1, <2>2, <2>3, <2>4
<1>3. /\ DOMAIN some = 1 .. first
      /\ \A i \in 1 .. first : some[i] = inQueue[i]
  BY <1>2, SubSeqProperties
<1>4. /\ rest \in Seq(Message)
      /\ DOMAIN rest = 1 .. IF FrameLimit + 1 < Len(inQueue) THEN Len(inQueue) - FrameLimit - 1 ELSE 0
      /\ \A i \in DOMAIN rest : rest[i] = inQueue[i + (FrameLimit + 1)]
  BY <1>2, SubSeqProperties
\* What is neither of the two is still in the queue.
<1>5. ASSUME NEW i \in DOMAIN inQueue
      PROVE  \/ i \in 1 .. first
             \/ i = FrameLimit + 1
             \/ i > FrameLimit + 1 /\ i - (FrameLimit + 1) \in DOMAIN rest
                  /\ rest[i - (FrameLimit + 1)] = inQueue[i]
  <2>1. CASE i > FrameLimit + 1
    <3>1. i - (FrameLimit + 1) \in DOMAIN rest  BY <1>2, <1>4, <2>1
    <3>2. (i - (FrameLimit + 1)) + (FrameLimit + 1) = i  BY <1>2
    <3> QED  BY <1>4, <2>1, <3>1, <3>2
  <2> QED  BY <1>2, <2>1
<1>6. \A i \in DOMAIN rest : i + (FrameLimit + 1) \in DOMAIN inQueue  BY <1>2, <1>4
<1> HIDE DEF first, some, rest, open
\* A Note Off is in the first messages, lost, or still on its way.
<1>7. ASSUME NEW i \in DOMAIN inQueue, ~inQueue[i].on, i \notin 1 .. first
      PROVE  inQueue[i].key \in lost' \cup K!OffsUnderWay'
  <2>1. CASE i = FrameLimit + 1  BY <1>1, <1>7, <2>1
  <2>2. CASE i > FrameLimit + 1
    <3>1. i - (FrameLimit + 1) \in DOMAIN rest /\ rest[i - (FrameLimit + 1)] = inQueue[i]
      BY <1>2, <1>5, <2>2
    <3> QED  BY <1>1, <1>7, <3>1 DEF K!OffsUnderWay
  <2> QED  BY <1>2, <1>5, <1>7, <2>1, <2>2
<1> HIDE DEF beyond
<1>8. K!Named(some) \in SUBSET K!ChannelKeys /\ K!LeftOn(some) \in SUBSET K!Named(some)
  <2>1. \A i \in 1 .. first : inQueue[i].key \in K!ChannelKeys  BY <1>2
  <2> QED  BY <1>3, <2>1 DEF K!Named, K!LeftOn
<1>9. /\ sounding' \subseteq [at : Outputs, key : K!ChannelKeys]
      /\ \A x \in Live' : \/ x \in Live /\ (open => x.key \notin K!Named(some))
                          \/ open /\ x.at = m_active /\ x.key \in K!LeftOn(some)
  <2>1. open \in BOOLEAN  BY DEF open, KeysShape
  <2> QED  BY <1>1, <1>8, <2>1, SendLeaves
<1>10. KeysShape'  BY <1>1, <1>4, <1>9 DEF KeysShape
<1>11. OnsAreFollowed'
  <2> SUFFICES ASSUME NEW i \in DOMAIN rest, rest[i].on
               PROVE  \/ rest[i].key \in down \cup lost'
                      \/ \E j \in DOMAIN rest : j > i /\ rest[j].key = rest[i].key /\ ~rest[j].on
    BY <1>1 DEF OnsAreFollowed
  <2>1. i + (FrameLimit + 1) \in DOMAIN inQueue /\ rest[i] = inQueue[i + (FrameLimit + 1)]
    BY <1>4, <1>6
  <2>2. CASE rest[i].key \in down \cup lost  BY <1>1, <2>2
  <2>3. CASE rest[i].key \notin down \cup lost
    <3>1. PICK j \in DOMAIN inQueue : /\ j > i + (FrameLimit + 1)
                                      /\ inQueue[j].key = rest[i].key /\ ~inQueue[j].on
      BY <2>1, <2>3 DEF OnsAreFollowed
    <3>2. j > FrameLimit + 1 /\ j - (FrameLimit + 1) > i  BY <1>2, <1>4, <3>1
    <3>3. j - (FrameLimit + 1) \in DOMAIN rest /\ rest[j - (FrameLimit + 1)] = inQueue[j]
      BY <1>2, <1>5, <3>2
    <3> QED  BY <3>1, <3>2, <3>3
  <2> QED  BY <2>2, <2>3
<1>12. LiveHasEnder'
  <2>0. K!OnScreen' = K!OnScreen  BY <1>1 DEF K!OnScreen, K!Typed
  <2> SUFFICES ASSUME NEW x \in Live'
               PROVE  /\ x.at = m_active /\ isOpen[m_active]
                      /\ x.key \in down \cup K!OffsUnderWay' \cup K!OnScreen \cup lost'
                      /\ ~softThru => x.key \in K!OnScreen
    BY <1>1, <2>0 DEF LiveHasEnder
  <2>1. CASE x \in Live /\ (open => x.key \notin K!Named(some))
    <3>1. /\ x.at = m_active /\ isOpen[m_active]
          /\ x.key \in down \cup K!OffsUnderWay \cup K!OnScreen \cup lost
          /\ ~softThru => x.key \in K!OnScreen
      BY <2>1 DEF LiveHasEnder
    <3>2. CASE x.key \in K!OffsUnderWay /\ softThru
      <4>1. PICK i \in DOMAIN inQueue : ~inQueue[i].on /\ inQueue[i].key = x.key
        BY <3>2 DEF K!OffsUnderWay
      <4>2. x.key \notin K!Named(some)  BY <2>1, <3>1, <3>2 DEF open
      <4>3. i \notin 1 .. first  BY <1>3, <4>1, <4>2 DEF K!Named
      <4> QED  BY <1>7, <3>1, <3>2, <4>1, <4>3
    <3> QED  BY <1>1, <3>1, <3>2
  <2>2. CASE open /\ x.at = m_active /\ x.key \in K!LeftOn(some)
    <3>1. PICK i \in DOMAIN some : /\ some[i].on /\ some[i].key = x.key
                                   /\ \A k \in DOMAIN some : k > i => some[k].key # x.key
      BY <2>2 DEF K!LeftOn
    <3>2. i \in DOMAIN inQueue /\ some[i] = inQueue[i]  BY <1>2, <1>3
    <3>3. CASE x.key \in down \cup lost  BY <1>1, <2>2, <3>3 DEF open
    <3>4. CASE x.key \notin down \cup lost
      <4>1. PICK j \in DOMAIN inQueue : j > i /\ inQueue[j].key = x.key /\ ~inQueue[j].on
        BY <3>1, <3>2, <3>4 DEF OnsAreFollowed
      <4>2. j \notin 1 .. first  BY <1>3, <3>1, <4>1
      <4>3. x.key \in lost' \cup K!OffsUnderWay'  BY <1>7, <4>1, <4>2
      <4> QED  BY <2>2, <4>3 DEF open
    <3> QED  BY <3>3, <3>4
  <2> QED  BY <1>9, <2>1, <2>2
<1> QED  BY <1>10, <1>11, <1>12

\* What an operation of the screen leaves alone.
LEMMA QueueAtRest ==
    ASSUME OnsAreFollowed, UNCHANGED <<inQueue, down, lost>>
    PROVE  OnsAreFollowed' /\ K!OffsUnderWay' = K!OffsUnderWay
BY DEF OnsAreFollowed, K!OffsUnderWay

\* Of two notes that end by themselves one is left when the other has ended.
LEMMA OthersRemain ==
    ASSUME NEW S, NEW s \in Seq(S), NEW i \in DOMAIN s
    PROVE  /\ K!RemoveAt(s, i) \in Seq(S)
           /\ \A x \in K!ToSet(s) : x = s[i] \/ x \in K!ToSet(K!RemoveAt(s, i))
<1> DEFINE a == SubSeq(s, 1, i - 1)
           b == SubSeq(s, i + 1, Len(s))
           c == a \o b
<1>1. Len(s) \in Nat /\ i \in 1 .. Len(s) /\ DOMAIN s = 1 .. Len(s)  BY LenProperties
<1>2. /\ a \in Seq(S) /\ Len(a) = i - 1 /\ \A j \in 1 .. i - 1 : a[j] = s[j]
  BY <1>1, SubSeqProperties
<1>3. /\ b \in Seq(S) /\ Len(b) = Len(s) - i
      /\ \A j \in 1 .. Len(s) - i : b[j] = s[j + i]
  BY <1>1, SubSeqProperties
<1> HIDE DEF a, b
<1>4. /\ c \in Seq(S) /\ Len(c) = Len(a) + Len(b)
      /\ \A j \in 1 .. Len(a) + Len(b) : c[j] = IF j <= Len(a) THEN a[j] ELSE b[j - Len(a)]
  <2>1. a \in Seq(S) /\ b \in Seq(S)  BY <1>2, <1>3
  <2> QED  BY <2>1, ConcatProperties
<1>5. K!RemoveAt(s, i) = c  BY DEF K!RemoveAt, a, b
<1> HIDE DEF c
<1>6. DOMAIN c = 1 .. Len(s) - 1
  <2>1. DOMAIN c = 1 .. Len(c)  BY <1>4, LenProperties
  <2> QED  BY <1>1, <1>2, <1>3, <1>4, <2>1
<1>7. /\ \A j \in 1 .. i - 1 : c[j] = s[j]
      /\ \A j \in 1 .. Len(s) - i : c[j + i - 1] = s[j + i]
  <2>1. ASSUME NEW j \in 1 .. i - 1  PROVE c[j] = s[j]
    <3>1. j \in 1 .. Len(a) + Len(b) /\ j <= Len(a)  BY <1>1, <1>2, <1>3
    <3> QED  BY <1>2, <1>4, <3>1
  <2>2. ASSUME NEW j \in 1 .. Len(s) - i  PROVE c[j + i - 1] = s[j + i]
    <3>1. /\ j + i - 1 \in 1 .. Len(a) + Len(b) /\ ~(j + i - 1 <= Len(a))
          /\ (j + i - 1) - Len(a) = j
      BY <1>1, <1>2, <1>3
    <3>2. c[j + i - 1] = b[(j + i - 1) - Len(a)]  BY <1>4, <3>1
    <3> QED  BY <1>3, <3>1, <3>2
  <2> QED  BY <2>1, <2>2
<1>8. ASSUME NEW j \in DOMAIN s, j # i  PROVE s[j] \in K!ToSet(c)
  <2>1. CASE j < i
    <3>1. j \in DOMAIN c /\ c[j] = s[j]  BY <1>1, <1>6, <1>7, <2>1
    <3> QED  BY <3>1 DEF K!ToSet
  <2>2. CASE j > i
    <3>1. j - i \in 1 .. Len(s) - i /\ (j - i) + i - 1 = j - 1 /\ (j - i) + i = j /\ j - 1 \in DOMAIN c
      BY <1>1, <1>6, <2>2
    <3>2. c[j - 1] = s[j]  BY <1>7, <3>1
    <3> QED  BY <3>1, <3>2 DEF K!ToSet
  <2> QED  BY <1>1, <1>8, <2>1, <2>2
<1> QED  BY <1>4, <1>5, <1>8 DEF K!ToSet

LEMMA AppendRemains ==
    ASSUME NEW S, NEW s \in Seq(S), NEW x \in S
    PROVE  Append(s, x) \in Seq(S) /\ K!ToSet(s) \cup {x} \subseteq K!ToSet(Append(s, x))
<1> DEFINE c == Append(s, x)
<1>1. /\ Len(s) \in Nat /\ DOMAIN s = 1 .. Len(s) /\ c \in Seq(S) /\ DOMAIN c = 1 .. Len(s) + 1
      /\ c[Len(s) + 1] = x /\ \A i \in 1 .. Len(s) : c[i] = s[i]
  BY AppendProperties, LenProperties
<1> HIDE DEF c
<1>2. Len(s) + 1 \in DOMAIN c /\ \A i \in DOMAIN s : i \in DOMAIN c /\ c[i] = s[i]  BY <1>1
<1>3. K!ToSet(s) \cup {x} \subseteq K!ToSet(c)  BY <1>1, <1>2 DEF K!ToSet
<1> QED  BY <1>1, <1>3 DEF c

\* What is cut off from its key lives no more: the whole of it, where the output is left.
LEMMA AbandonAll ==
    ASSUME LiveHasEnder, orphans' = orphans \cup K!Sounds(m_active), sounding' = sounding
    PROVE  Live' = {}
BY DEF LiveHasEnder, Live, K!Sounds

\* A note struck on the screen, by a typing key or a button, lives there.
LEMMA StrikeKeeps ==
    ASSUME KeysInv, NEW key \in K!ChannelKeys, NEW open \in {TRUE, isOpen[m_active]},
           isOpen' = [isOpen EXCEPT ![m_active] = open], K!Send({key}, {key}, open),
           K!OnScreen \cup {key} \subseteq K!OnScreen',
           pendingOffs' \in Seq(K!ChannelKeys), typed' \in [TypingKeys -> K!ChannelKeys \cup {K!None}],
           UNCHANGED <<m_active, softThru, track, inQueue, down, lost>>
    PROVE  KeysInv'
<1> USE DEF KeysInv
<1>1. isOpen' \in [Outputs -> BOOLEAN] /\ isOpen'[m_active] = open
  BY DEF KeysShape
<1>9. open \in BOOLEAN  BY DEF KeysShape
<1>2. {key} \in SUBSET K!ChannelKeys  OBVIOUS
<1> DEFINE one == {key}
<1> HIDE DEF one
<1>3. one \in SUBSET K!ChannelKeys /\ one \in SUBSET one /\ K!Send(one, one, open)
  BY <1>2 DEF one
<1>4. /\ sounding' \subseteq [at : Outputs, key : K!ChannelKeys]
      /\ \A x \in Live' : \/ x \in Live /\ (open => x.key \notin one)
                          \/ open /\ x.at = m_active /\ x.key \in one
  BY <1>3, <1>9, SendLeaves
<1>5. KeysShape'  BY <1>1, <1>4 DEF KeysShape
<1>6. OnsAreFollowed' /\ K!OffsUnderWay' = K!OffsUnderWay  BY QueueAtRest
<1>7. ASSUME NEW x \in Live'
      PROVE  /\ x.at = m_active /\ isOpen'[m_active]
             /\ x.key \in down \cup K!OffsUnderWay \cup K!OnScreen' \cup lost
             /\ ~softThru => x.key \in K!OnScreen'
  <2>1. CASE x \in Live
    <3>1. /\ x.at = m_active /\ isOpen[m_active]
          /\ x.key \in down \cup K!OffsUnderWay \cup K!OnScreen \cup lost
          /\ ~softThru => x.key \in K!OnScreen
      BY <2>1 DEF LiveHasEnder
    <3>2. isOpen'[m_active]  BY Zenon, <1>1, <3>1
    <3> QED  BY <3>1, <3>2
  <2>2. CASE open /\ x.at = m_active /\ x.key \in one
    <3>1. isOpen'[m_active]  BY Zenon, <1>1, <2>2
    <3> QED  BY <2>2, <3>1 DEF one
  <2> QED  BY <1>4, <2>1, <2>2
<1>8. LiveHasEnder'  BY <1>6, <1>7 DEF LiveHasEnder
<1> QED  BY <1>5, <1>6, <1>8

\* Notes ended on the screen: what still lives has an ender that has not ended it.
LEMMA EndKeeps ==
    ASSUME KeysInv, NEW keys \in SUBSET K!ChannelKeys, K!Send(keys, {}, isOpen[m_active]),
           K!OnScreen \subseteq K!OnScreen' \cup keys,
           pendingOffs' \in Seq(K!ChannelKeys), typed' \in [TypingKeys -> K!ChannelKeys \cup {K!None}],
           UNCHANGED <<m_active, isOpen, softThru, track, inQueue, down, lost>>
    PROVE  KeysInv'
<1> USE DEF KeysInv
<1> DEFINE none == {}
<1> HIDE DEF none
<1>1. none \in SUBSET keys /\ K!Send(keys, none, isOpen[m_active])  BY DEF none
<1>7. isOpen[m_active] \in BOOLEAN  BY DEF KeysShape
<1>2. /\ sounding' \subseteq [at : Outputs, key : K!ChannelKeys]
      /\ \A x \in Live' : \/ x \in Live /\ (isOpen[m_active] => x.key \notin keys)
                          \/ isOpen[m_active] /\ x.at = m_active /\ x.key \in none
  BY <1>1, <1>7, SendLeaves
<1>3. KeysShape'  BY <1>2 DEF KeysShape
<1>4. OnsAreFollowed' /\ K!OffsUnderWay' = K!OffsUnderWay  BY QueueAtRest
<1>5. \A x \in Live' : x \in Live /\ x.key \notin keys
  BY <1>2 DEF none, LiveHasEnder
<1>6. LiveHasEnder'  BY <1>4, <1>5 DEF LiveHasEnder
<1> QED  BY <1>3, <1>4, <1>6

\* An operation that neither sends nor ends anything, but may leave something to itself.
LEMMA RestKeeps ==
    ASSUME KeysInv, Live' \subseteq Live, sounding' = sounding,
           softThru' \in BOOLEAN, track' \in MidiChannels,
           ~softThru' => \A x \in Live' : x.key \in K!OnScreen,
           Live' # {} => m_active' = m_active /\ isOpen' = isOpen,
           m_active' \in Outputs, isOpen' \in [Outputs -> BOOLEAN],
           UNCHANGED <<inQueue, down, lost, typed, pendingOffs>>
    PROVE  KeysInv'
<1> USE DEF KeysInv
<1>1. OnsAreFollowed' /\ K!OffsUnderWay' = K!OffsUnderWay  BY QueueAtRest
<1>2. K!OnScreen' = K!OnScreen  BY DEF K!OnScreen, K!Typed
<1>3. KeysShape'  BY DEF KeysShape
<1>4. LiveHasEnder'  BY <1>1, <1>2 DEF LiveHasEnder
<1> QED  BY <1>1, <1>3, <1>4

\* No operation of the keyboards, the buttons and the device window breaks it.
LEMMA KeysStep ==
    ASSUME KeysInv, K!Next \/ UNCHANGED kVars
    PROVE  KeysInv'
<1> USE DEF KeysInv
<1>1. CASE UNCHANGED kVars
  <2>1. KeysShape'  BY <1>1 DEF kVars, KeysShape
  <2>2. OnsAreFollowed'  BY <1>1 DEF kVars, OnsAreFollowed
  <2>3. LiveHasEnder'
    BY <1>1 DEF kVars, LiveHasEnder, Live, K!OffsUnderWay, K!OnScreen, K!Typed
  <2> QED  BY <2>1, <2>2, <2>3
<1>2. ASSUME NEW o \in Outputs, K!SwitchTarget(o)  PROVE KeysInv'
  <2>1. Live' = {}  BY <1>2, AbandonAll DEF K!SwitchTarget, K!Abandon
  <2> QED  BY <1>2, <2>1, RestKeeps DEF K!SwitchTarget, K!inVars, K!uiVars, KeysShape
<1>3. ASSUME K!OpenOrClose  PROVE KeysInv'
  <2>1. /\ sounding' = sounding
        /\ orphans' = orphans \cup (IF isOpen[m_active] THEN K!Sounds(m_active) ELSE {})
    BY <1>3 DEF K!OpenOrClose, K!Abandon
  <2>2. Live' = {}
    <3>1. CASE isOpen[m_active]  BY <2>1, <3>1, AbandonAll
    <3>2. CASE ~isOpen[m_active]  BY <2>1, <3>2 DEF Live, LiveHasEnder
    <3> QED  BY <3>1, <3>2
  <2>3. isOpen' \in [Outputs -> BOOLEAN]  BY <1>3 DEF K!OpenOrClose, KeysShape
  <2> QED  BY <1>3, <2>2, <2>3, RestKeeps DEF K!OpenOrClose, K!inVars, K!uiVars, KeysShape
<1>4. ASSUME K!OpenOrCloseInput  PROVE KeysInv'
  BY <1>4, RestKeeps DEF K!OpenOrCloseInput, K!outVars, K!uiVars, KeysShape, Live, LiveHasEnder
<1>5. ASSUME K!ToggleThru  PROVE KeysInv'
  <2>1. /\ sounding' = sounding /\ softThru' = ~softThru
        /\ orphans' = orphans \cup
             IF softThru THEN {x \in K!Sounds(m_active) : x.key \notin K!OnScreen} ELSE {}
        /\ UNCHANGED <<m_active, isOpen, track, inQueue, down, lost, typed, pendingOffs>>
    BY <1>5 DEF K!ToggleThru, K!Abandon, K!inVars
  <2>2. Live' \subseteq Live  BY <2>1 DEF Live
  <2>3. ASSUME softThru, NEW x \in Live'  PROVE x.key \in K!OnScreen
    <3>1. x \in sounding /\ x.at = m_active  BY <2>1, <2>2 DEF Live, LiveHasEnder
    <3> QED  BY <2>1, <2>3, <3>1 DEF Live, K!Sounds
  <2>4. softThru' \in BOOLEAN  BY <2>1 DEF KeysShape
  <2>5. ~softThru' => \A x \in Live' : x.key \in K!OnScreen  BY <2>1, <2>3 DEF KeysShape
  <2> QED  BY <2>1, <2>2, <2>4, <2>5, RestKeeps DEF KeysShape
<1>6. ASSUME NEW key \in K!ChannelKeys, K!Press(key)  PROVE KeysInv'
  <2>1. K!Parsed(key, "on", 1) = [key |-> key, on |-> TRUE]  BY DEF K!Parsed, K!On
  <2> DEFINE yes == TRUE
  <2>2. yes \in BOOLEAN /\ K!rtCallback([key |-> key, on |-> yes])
    BY <1>6, <2>1 DEF K!Press
  <2>3. down' = IF yes THEN down \cup {key} ELSE down \ {key}  BY <1>6 DEF K!Press
  <2> HIDE DEF yes
  <2> QED  BY <2>2, <2>3, CallbackKeeps
<1>7. ASSUME NEW key \in K!ChannelKeys, K!Release(key)  PROVE KeysInv'
  <2>1. /\ K!Parsed(key, "on", 0) = [key |-> key, on |-> FALSE]
        /\ K!Parsed(key, "off", 0) = [key |-> key, on |-> FALSE]
    BY DEF K!Parsed, K!Off
  <2> DEFINE no == FALSE
  <2>2. no \in BOOLEAN /\ K!rtCallback([key |-> key, on |-> no])
    BY <1>7, <2>1 DEF K!Release
  <2>3. down' = IF no THEN down \cup {key} ELSE down \ {key}  BY <1>7 DEF K!Release
  <2> HIDE DEF no
  <2> QED  BY <2>2, <2>3, CallbackKeeps
<1>8. ASSUME K!pumpMonitor  PROVE KeysInv'  BY <1>8, PumpKeeps
<1>9. ASSUME NEW key \in K!ChannelKeys, K!triggerNote(key)  PROVE KeysInv'
  <2>1. PICK open \in {TRUE, isOpen[m_active]} :
            isOpen' = [isOpen EXCEPT ![m_active] = open] /\ K!Send({key}, {key}, open)
    BY <1>9 DEF K!triggerNote
  <2>2. /\ pendingOffs' = Append(pendingOffs, key)
        /\ UNCHANGED <<m_active, softThru, track, typed, inQueue, down, lost>>
    BY <1>9 DEF K!triggerNote, K!inVars
  <2>3. pendingOffs' \in Seq(K!ChannelKeys) /\ K!ToSet(pendingOffs) \cup {key} \subseteq K!ToSet(pendingOffs')
    BY <2>2, AppendRemains DEF KeysShape
  <2>4. K!OnScreen \cup {key} \subseteq K!OnScreen'  BY <2>2, <2>3 DEF K!OnScreen, K!Typed
  <2> QED  BY <2>1, <2>2, <2>3, <2>4, StrikeKeeps DEF KeysShape
<1>10. ASSUME K!updatePendingNotes  PROVE KeysInv'
  <2>1. PICK i \in DOMAIN pendingOffs :
            /\ pendingOffs' = K!RemoveAt(pendingOffs, i)
            /\ K!Send({pendingOffs[i]}, {}, isOpen[m_active])
            /\ UNCHANGED <<m_active, isOpen, softThru, track, typed, inQueue, down, lost>>
    BY <1>10 DEF K!updatePendingNotes, K!inVars
  <2>2. /\ pendingOffs' \in Seq(K!ChannelKeys)
        /\ \A x \in K!ToSet(pendingOffs) : x = pendingOffs[i] \/ x \in K!ToSet(pendingOffs')
    BY <2>1, OthersRemain DEF KeysShape
  <2>3. {pendingOffs[i]} \in SUBSET K!ChannelKeys  BY ElementOfSeq, LenProperties DEF KeysShape
  <2>4. K!OnScreen \subseteq K!OnScreen' \cup {pendingOffs[i]}
    BY <2>1, <2>2 DEF K!OnScreen, K!Typed
  <2> QED  BY <2>1, <2>2, <2>3, <2>4, EndKeeps DEF KeysShape
<1>11. ASSUME NEW k \in TypingKeys, K!Type(k)  PROVE KeysInv'
  <2> DEFINE key == <<track, K!NoteOf(k)>>
  <2>1. /\ typed[k] = K!None /\ K!NoteOf(k) \in MidiNotes
        /\ typed' = [typed EXCEPT ![k] = key]
        /\ UNCHANGED <<m_active, softThru, track, pendingOffs, inQueue, down, lost>>
    BY <1>11 DEF K!Type, K!inVars
  <2>2. PICK open \in {TRUE, isOpen[m_active]} :
            isOpen' = [isOpen EXCEPT ![m_active] = open] /\ K!Send({key}, {key}, open)
    BY <1>11 DEF K!Type
  <2>3. key \in K!ChannelKeys /\ key # K!None  BY <2>1 DEF KeysShape, K!ChannelKeys, K!None
  <2> HIDE DEF key
  <2>4. K!OnScreen \cup {key} \subseteq K!OnScreen'
    BY <2>1, <2>3 DEF KeysShape, K!OnScreen, K!Typed
  <2>5. typed' \in [TypingKeys -> K!ChannelKeys \cup {K!None}]  BY <2>1, <2>3 DEF KeysShape
  <2> QED  BY <2>1, <2>2, <2>3, <2>4, <2>5, StrikeKeeps DEF KeysShape
<1>12. ASSUME NEW ks \in SUBSET TypingKeys, K!LetGo(ks)  PROVE KeysInv'
  <2>1. /\ typed' = [k \in TypingKeys |-> IF k \in ks THEN K!None ELSE typed[k]]
        /\ K!Send(K!Offs(ks), {}, isOpen[m_active])
        /\ UNCHANGED <<m_active, isOpen, softThru, track, pendingOffs, inQueue, down, lost>>
    BY <1>12 DEF K!LetGo, K!inVars
  <2>2. K!Typed \subseteq K!Typed' \cup K!Offs(ks)
    <3> SUFFICES ASSUME NEW k \in TypingKeys, typed[k] # K!None
                 PROVE  typed[k] \in K!Typed' \cup K!Offs(ks)
      BY DEF K!Typed
    <3>1. CASE k \in ks  BY <3>1 DEF K!Offs
    <3>2. CASE k \notin ks  BY <2>1, <3>2 DEF K!Typed
    <3> QED  BY <3>1, <3>2
  <2>3. K!OnScreen \subseteq K!OnScreen' \cup K!Offs(ks)  BY <2>1, <2>2 DEF K!OnScreen
  <2>4. K!Offs(ks) \in SUBSET K!ChannelKeys  BY DEF K!Offs, KeysShape
  <2>5. typed' \in [TypingKeys -> K!ChannelKeys \cup {K!None}]  BY <2>1 DEF KeysShape
  <2> QED  BY <2>1, <2>3, <2>4, <2>5, EndKeeps DEF KeysShape
<1>13. ASSUME NEW k \in TypingKeys, K!ReleaseTyped(k)  PROVE KeysInv'
  BY <1>12, <1>13 DEF K!ReleaseTyped
<1>14. ASSUME K!TypingOff  PROVE KeysInv'  BY <1>12, <1>14 DEF K!TypingOff
<1>15. ASSUME K!Untouched, track' \in MidiChannels  PROVE KeysInv'
  BY <1>15, RestKeeps DEF K!Untouched, K!inVars, K!outVars, KeysShape, Live, LiveHasEnder
<1>16. ASSUME K!TypingOn \/ K!ChangeOctave  PROVE KeysInv'
  BY <1>15, <1>16 DEF K!TypingOn, K!ChangeOctave, KeysShape
<1>17. ASSUME NEW c \in MidiChannels, K!SelectTrack(c)  PROVE KeysInv'
  BY <1>15, <1>17 DEF K!SelectTrack
<1> QED
  BY <1>1, <1>2, <1>3, <1>4, <1>5, <1>6, <1>7, <1>8, <1>9, <1>10, <1>11, <1>13, <1>14, <1>16, <1>17
     DEF K!Next

LEMMA KeysInvServes == KeysInv => K!KeysAreReleased
BY DEF KeysInv, LiveHasEnder, Live, K!KeysAreReleased

-----------------------------------------------------------------------------
(* ClipClock: blocks of the audio clips.                                     *)

\* Where the next block begins: behind the last one, unless the GUI has put the head
\* elsewhere; a block under way stores its own end.
ClipInv ==
    /\ cpc \in {"out", "list", "mixed"}
    /\ m_audioSample \in Nat /\ base \in Nat
    /\ cpc = "mixed" => heard.from = base
    /\ cpc # "mixed" /\ asked = C!None /\ heard.from # C!None
         => m_audioSample = heard.from + ClipFrames

LEMMA ClipInit == C!ClipClockAssumption /\ C!Init => ClipInv
BY DEF C!ClipClockAssumption, C!Init, C!Nothing, ClipInv

\* No step of the callback or the GUI breaks it, and blocks join.
LEMMA ClipStep ==
    ASSUME C!ClipClockAssumption, ClipInv, C!Next \/ UNCHANGED cVars
    PROVE  /\ ClipInv'
           /\ heard.from # C!None /\ heard'.from # C!None /\ heard'.block # heard.block
                /\ asked = C!None => heard'.from = heard.from + ClipFrames
<1> DEFINE Join == heard.from # C!None /\ heard'.from # C!None /\ heard'.block # heard.block
                     /\ asked = C!None => heard'.from = heard.from + ClipFrames
<1>0. /\ ClipFrames \in Nat /\ MaxPos \in Nat /\ \A p \in HeadPositions : p \in Nat /\ p # C!None
  BY DEF C!ClipClockAssumption, C!None
<1> USE DEF ClipInv
<1>1. CASE UNCHANGED cVars  BY <1>1 DEF cVars
<1>2. CASE C!Idle  BY <1>2 DEF C!Idle, C!Nothing
<1>3. CASE C!LoadList  BY <1>3 DEF C!LoadList
<1>4. CASE C!PassEmpty
  <2>1. heard'.from = m_audioSample  BY <1>4 DEF C!PassEmpty, C!Block
  <2> QED  BY <1>0, <1>4, <2>1 DEF C!PassEmpty
<1>5. CASE C!LoadPosition
  <2>1. heard'.from = m_audioSample  BY <1>5 DEF C!LoadPosition, C!Block
  <2> QED  BY <1>5, <2>1 DEF C!LoadPosition
<1>6. CASE C!StorePosition  BY <1>0, <1>6 DEF C!StorePosition
<1>7. CASE C!stopAudio  BY <1>7 DEF C!stopAudio
<1>8. ASSUME NEW list \in ClipLists, C!setAudioMix(list)  PROVE ClipInv' /\ Join
  BY <1>8 DEF C!setAudioMix
<1>9. ASSUME NEW p \in HeadPositions, C!startAudio(p) \/ C!seekAudio(p)  PROVE ClipInv' /\ Join
  BY <1>0, <1>9 DEF C!startAudio, C!seekAudio
<1> QED  BY <1>1, <1>2, <1>3, <1>4, <1>5, <1>6, <1>7, <1>8, <1>9 DEF C!Next

-----------------------------------------------------------------------------
(* OneShots: clicks and drum samples.                                        *)

\* A slot plays a note of its own, as far as the note has been heard; while notes come that
\* is as far as blocks have been mixed since it began.
SlotsPlay ==
    /\ slots \in [O!Slot -> [note : 0 .. triggered, pos : Nat]]
    /\ \A s \in O!Slot : slots[s].note = 0 => slots[s] = O!Free
    /\ \A s \in O!Slot : slots[s].note # 0 =>
         /\ slots[s].pos = played[slots[s].note] /\ slots[s].pos <= ShotFrames
         /\ now < MaxShotFrames => slots[s].pos + born[slots[s].note] = now
         /\ \A w \in O!Slot : slots[w].note = slots[s].note => w = s

\* Every note that came is in a slot, was cut, or was heard to the end.
ShotsInv ==
    /\ triggered \in Nat /\ now \in Nat /\ triggered <= MaxTriggers
    /\ played \in [1 .. MaxTriggers -> Nat] /\ born \in [1 .. MaxTriggers -> Nat]
    /\ \A i \in 1 .. MaxTriggers : i > triggered => played[i] = 0
    /\ SlotsPlay
    /\ \A i \in 1 .. triggered :
         (\E s \in O!Slot : slots[s].note = i) \/ i \in cut \/ played[i] = ShotFrames

LEMMA ShotsInit == O!OneShotsAssumption /\ O!Init => ShotsInv
<1> SUFFICES ASSUME O!OneShotsAssumption, O!Init  PROVE ShotsInv  OBVIOUS
<1>1. O!Free.note = 0 /\ O!Free \in [note : 0 .. triggered, pos : Nat]  BY DEF O!Free, O!Init
<1>2. SlotsPlay  BY <1>1 DEF O!Init, SlotsPlay
<1>3. MaxTriggers \in Nat  BY DEF O!OneShotsAssumption
<1> QED  BY <1>2, <1>3 DEF O!Init, ShotsInv

\* A note that comes takes a slot, and the note that loses it began in the earliest block.
LEMMA TriggerKeeps ==
    ASSUME O!OneShotsAssumption, ShotsInv, O!Trigger
    PROVE  /\ ShotsInv'
           /\ \A s \in O!Slot : slots[s] # O!Free /\ slots'[s].note > slots[s].note =>
                 \A w \in O!Slot : born[slots[w].note] >= born[slots[s].note]
<1> DEFINE new == triggered + 1
           voice == [note |-> new, pos |-> 0]
<1>0. /\ MaxTriggers \in Nat /\ MaxShotFrames \in Nat /\ ShotFrames \in Nat
      /\ triggered \in Nat /\ now \in Nat /\ new \in 1 .. MaxTriggers /\ now < MaxShotFrames
      /\ triggered' = new /\ born' = [born EXCEPT ![new] = now] /\ played' = played /\ now' = now
      /\ new \in Nat /\ new # 0
  BY DEF O!OneShotsAssumption, ShotsInv, O!Trigger
<1>1. PICK s \in O!Slot : /\ O!Chosen(s) /\ slots' = [slots EXCEPT ![s] = voice]
                          /\ cut' = IF slots[s] = O!Free THEN cut ELSE cut \cup {slots[s].note}
  BY <1>0 DEF O!Trigger
<1>2. voice.note = new /\ voice.pos = 0 /\ voice \in [note : 0 .. new, pos : Nat]  BY <1>0
<1> HIDE DEF voice, new
<1>3. slots'[s] = voice /\ \A w \in O!Slot : w # s => slots'[w] = slots[w]
  BY <1>1 DEF ShotsInv, SlotsPlay
<1>4. \A w \in O!Slot : slots[w].note \in Nat /\ slots[w].note <= triggered /\ slots[w].note # new
        /\ slots[w] \in [note : 0 .. new, pos : Nat]
  BY <1>0 DEF ShotsInv, SlotsPlay, new
<1>5. born'[new] = now /\ \A i \in 1 .. MaxTriggers : i # new => born'[i] = born[i]
  BY <1>0 DEF ShotsInv
<1>6. played[new] = 0  BY <1>0 DEF ShotsInv, new
<1>7. SlotsPlay'
  <2>1. slots' \in [O!Slot -> [note : 0 .. new, pos : Nat]]
    BY <1>1, <1>2, <1>4 DEF ShotsInv, SlotsPlay
  <2>2. ASSUME NEW w \in O!Slot, slots'[w].note = 0  PROVE slots'[w] = O!Free
    BY <1>0, <1>2, <1>3, <2>2 DEF ShotsInv, SlotsPlay
  <2>3. ASSUME NEW w \in O!Slot, slots'[w].note # 0
        PROVE  /\ slots'[w].pos = played[slots'[w].note] /\ slots'[w].pos <= ShotFrames
               /\ now < MaxShotFrames => slots'[w].pos + born'[slots'[w].note] = now
               /\ \A v \in O!Slot : slots'[v].note = slots'[w].note => v = w
    <3>1. CASE w = s  BY <1>0, <1>2, <1>3, <1>4, <1>5, <1>6, <3>1
    <3>2. CASE w # s
      <4>1. slots'[w] = slots[w] /\ slots[w].note \in 1 .. MaxTriggers
        BY <1>0, <1>3, <1>4, <2>3, <3>2 DEF ShotsInv
      <4>2. born'[slots[w].note] = born[slots[w].note]  BY <1>4, <1>5, <4>1
      <4>3. \A v \in O!Slot : slots'[v].note = slots[w].note => v = w
        <5>1. SUFFICES ASSUME NEW v \in O!Slot, slots'[v].note = slots[w].note  PROVE v = w  OBVIOUS
        <5>2. v # s  BY <1>2, <1>3, <1>4, <5>1
        <5>3. slots[v].note = slots[w].note /\ slots[w].note # 0  BY <1>3, <2>3, <4>1, <5>1, <5>2
        <5> QED  BY <5>3 DEF ShotsInv, SlotsPlay
      <4>4. /\ slots[w].pos = played[slots[w].note] /\ slots[w].pos <= ShotFrames
            /\ now < MaxShotFrames => slots[w].pos + born[slots[w].note] = now
        BY <2>3, <4>1 DEF ShotsInv, SlotsPlay
      <4> QED  BY <4>1, <4>2, <4>3, <4>4
    <3> QED  BY <3>1, <3>2
  <2> QED  BY <1>0, <2>1, <2>2, <2>3 DEF SlotsPlay
<1>8. ASSUME NEW i \in 1 .. new
      PROVE  (\E w \in O!Slot : slots'[w].note = i) \/ i \in cut' \/ played[i] = ShotFrames
  <2>1. CASE i = new  BY <1>2, <1>3, <2>1
  <2>2. CASE i # new
    <3>1. i \in 1 .. triggered  BY <1>0, <2>2 DEF new
    <3>2. CASE \E w \in O!Slot : slots[w].note = i
      <4>1. PICK w \in O!Slot : slots[w].note = i  BY <3>2
      <4>2. CASE w = s
        <5>1. slots[s] # O!Free  BY <4>1, <4>2 DEF O!Free
        <5> QED  BY <1>1, <4>1, <4>2, <5>1
      <4> QED  BY <1>3, <4>1, <4>2
    <3>3. cut \subseteq cut'  BY <1>1
    <3> QED  BY <3>1, <3>2, <3>3 DEF ShotsInv
  <2> QED  BY <2>1, <2>2
<1>9. ShotsInv'
  <2>1. played \in [1 .. MaxTriggers -> Nat] /\ born' \in [1 .. MaxTriggers -> Nat]
    BY <1>0 DEF ShotsInv
  <2>2. \A i \in 1 .. MaxTriggers : i > new => played[i] = 0  BY <1>0 DEF ShotsInv, new
  <2>3. new <= MaxTriggers  BY <1>0
  <2> QED  BY <1>0, <1>7, <1>8, <2>1, <2>2, <2>3 DEF ShotsInv
<1>10. ASSUME NEW v \in O!Slot, slots[v] # O!Free, slots'[v].note > slots[v].note, NEW w \in O!Slot
       PROVE  born[slots[w].note] >= born[slots[v].note]
  <2>1. v = s
    <3> SUFFICES ASSUME v # s  PROVE FALSE  OBVIOUS
    <3>1. slots'[v] = slots[v]  BY <1>3
    <3> QED  BY <1>4, <1>10, <3>1
  <2>2. \A u \in O!Slot : slots[u] # O!Free /\ slots[u].pos <= slots[s].pos
    BY <1>1, <1>10, <2>1 DEF O!Chosen
  <2>3. \A u \in O!Slot : /\ slots[u].note \in 1 .. MaxTriggers
                          /\ slots[u].pos + born[slots[u].note] = now /\ slots[u].pos \in Nat
    <3>1. \A u \in O!Slot : slots[u].note # 0 /\ slots[u].pos \in Nat  BY <2>2 DEF ShotsInv, SlotsPlay
    <3>2. \A u \in O!Slot : slots[u].note \in 1 .. MaxTriggers  BY <1>0, <1>4, <3>1 DEF ShotsInv
    <3> QED  BY <1>0, <3>1, <3>2 DEF ShotsInv, SlotsPlay
  <2>4. born[slots[w].note] \in Nat /\ born[slots[s].note] \in Nat  BY <2>3 DEF ShotsInv
  <2> QED  BY <1>0, <2>1, <2>2, <2>3, <2>4
<1> QED  BY <1>9, <1>10

\* A block takes every slot on by its frames, to the end of the clip at most, and gives it
\* back with the note heard to the end.
LEMMA MixKeeps ==
    ASSUME O!OneShotsAssumption, ShotsInv, NEW n \in ShotBlocks, O!Mix(n)
    PROVE  /\ ShotsInv'
           /\ \A s \in O!Slot : ~(slots'[s].note > slots[s].note)
<1>0. /\ MaxTriggers \in Nat /\ MaxShotFrames \in Nat /\ ShotFrames \in Nat /\ n \in Nat
      /\ triggered \in Nat /\ now \in Nat /\ triggered <= MaxTriggers
      /\ triggered' = triggered /\ born' = born /\ cut' = cut
  BY DEF O!OneShotsAssumption, ShotsInv, O!Mix
<1> DEFINE heard1(i) == O!Capped(played[i] + n, ShotFrames)
<1>1. /\ \A i \in 1 .. MaxTriggers : played[i] \in Nat
      /\ played' \in [1 .. MaxTriggers -> Nat]
      /\ \A i \in 1 .. MaxTriggers :
           played'[i] = IF \A s \in O!Slot : slots[s].note # i THEN played[i] ELSE heard1(i)
  <2>1. \A i \in 1 .. MaxTriggers : played[i] \in Nat  BY DEF ShotsInv
  <2>2. \A i \in 1 .. MaxTriggers : heard1(i) \in Nat  BY <1>0, <2>1 DEF O!Capped
  <2>3. played' = [i \in 1 .. MaxTriggers |->
          IF \A s \in O!Slot : slots[s].note # i THEN played[i] ELSE heard1(i)]
    BY DEF O!Mix, ShotsInv
  <2> HIDE DEF heard1
  <2> QED  BY <2>1, <2>2, <2>3
<1>2. now' \in Nat /\ (now' < MaxShotFrames => now < MaxShotFrames /\ now' = now + n)
  BY <1>0 DEF O!Mix, O!Capped
<1>3. O!Free.note = 0 /\ O!Free.pos = 0 /\ O!Free \in [note : 0 .. triggered, pos : Nat]
  BY <1>0 DEF O!Free
\* A slot afterwards: free, or the same note further on.
<1>4. ASSUME NEW s \in O!Slot
      PROVE  \/ /\ slots'[s] = O!Free
                /\ slots[s].note # 0 => slots[s].pos + n > ShotFrames
             \/ /\ slots[s].note # 0 /\ slots'[s].note = slots[s].note
                /\ slots'[s].pos = slots[s].pos + n /\ slots[s].pos + n <= ShotFrames
                /\ slots'[s] \in [note : 0 .. triggered, pos : Nat]
  <2>1. slots[s] \in [note : 0 .. triggered, pos : Nat] /\ (slots[s].note = 0 => slots[s] = O!Free)
    BY DEF ShotsInv, SlotsPlay
  <2>2. slots'[s] = IF slots[s] = O!Free \/ slots[s].pos + n > ShotFrames THEN O!Free
                    ELSE [slots[s] EXCEPT !.pos = @ + n]
    BY DEF O!Mix
  <2>3. CASE slots[s] = O!Free
    <3>1. slots'[s] = O!Free /\ slots[s].note = 0  BY <1>3, <2>2, <2>3
    <3> QED  BY <3>1
  <2>4. CASE slots[s] # O!Free /\ slots[s].pos + n > ShotFrames
    BY <1>0, <2>1, <2>2, <2>4
  <2>5. CASE slots[s] # O!Free /\ ~(slots[s].pos + n > ShotFrames)
    <3>1. slots[s].pos \in Nat /\ slots[s].note \in 0 .. triggered  BY <2>1
    <3> DEFINE far == slots[s].pos + n
    <3>2. far \in Nat /\ far <= ShotFrames  BY <1>0, <2>5, <3>1
    <3>3. slots'[s] = [slots[s] EXCEPT !.pos = far]  BY <2>2, <2>5
    <3> HIDE DEF far
    <3>4. slots'[s].note = slots[s].note /\ slots'[s].pos = far
            /\ slots'[s] \in [note : 0 .. triggered, pos : Nat]
      BY <2>1, <3>1, <3>2, <3>3
    <3> QED  BY <2>1, <2>5, <3>2, <3>4 DEF far
  <2> QED  BY <2>3, <2>4, <2>5
\* What a note in a slot has been heard by then.
<1>5. ASSUME NEW s \in O!Slot, slots[s].note # 0
      PROVE  /\ slots[s].note \in 1 .. MaxTriggers /\ slots[s].note \in 1 .. triggered
             /\ slots[s].pos \in Nat
             /\ played'[slots[s].note] = IF slots[s].pos + n > ShotFrames THEN ShotFrames
                                         ELSE slots[s].pos + n
  <2>1. slots[s].note \in 1 .. triggered /\ slots[s].pos \in Nat /\ slots[s].pos = played[slots[s].note]
    BY <1>0, <1>5 DEF ShotsInv, SlotsPlay
  <2>2. slots[s].note \in 1 .. MaxTriggers  BY <1>0, <2>1
  <2>3. played'[slots[s].note] = heard1(slots[s].note)  BY <1>1, <2>2
  <2> QED  BY <2>1, <2>2, <2>3 DEF O!Capped
<1> HIDE DEF heard1
<1>6. SlotsPlay'
  <2>1. slots' \in [O!Slot -> [note : 0 .. triggered, pos : Nat]]
    <3>1. \A s \in O!Slot : slots'[s] \in [note : 0 .. triggered, pos : Nat]  BY <1>3, <1>4
    <3>2. slots' = [s \in O!Slot |-> slots'[s]]  BY DEF O!Mix
    <3> QED  BY <3>1, <3>2
  <2>2. \A s \in O!Slot : slots'[s].note = 0 => slots'[s] = O!Free  BY <1>4
  <2>3. ASSUME NEW s \in O!Slot, slots'[s].note # 0
        PROVE  /\ slots'[s].pos = played'[slots'[s].note] /\ slots'[s].pos <= ShotFrames
               /\ now' < MaxShotFrames => slots'[s].pos + born[slots'[s].note] = now'
               /\ \A w \in O!Slot : slots'[w].note = slots'[s].note => w = s
    <3>1. /\ slots[s].note # 0 /\ slots'[s].note = slots[s].note
          /\ slots'[s].pos = slots[s].pos + n /\ slots[s].pos + n <= ShotFrames
      BY <1>3, <1>4, <2>3
    <3>2. slots'[s].pos = played'[slots'[s].note] /\ slots'[s].pos <= ShotFrames
      BY <1>0, <1>5, <3>1
    <3>3. now' < MaxShotFrames => slots'[s].pos + born[slots'[s].note] = now'
      <4>1. now < MaxShotFrames => slots[s].pos + born[slots[s].note] = now
        BY <3>1 DEF ShotsInv, SlotsPlay
      <4>2. slots[s].pos \in Nat /\ born[slots[s].note] \in Nat  BY <1>5, <3>1 DEF ShotsInv
      <4> QED  BY <1>0, <1>2, <3>1, <4>1, <4>2
    <3>4. ASSUME NEW w \in O!Slot, slots'[w].note = slots'[s].note  PROVE w = s
      <4>1. slots[w].note = slots[s].note  BY <1>3, <1>4, <2>3, <3>1, <3>4
      <4> QED  BY <3>1, <4>1 DEF ShotsInv, SlotsPlay
    <3> QED  BY <3>2, <3>3, <3>4
  <2> QED  BY <1>0, <2>1, <2>2, <2>3 DEF SlotsPlay
<1>7. ASSUME NEW i \in 1 .. triggered
      PROVE  (\E s \in O!Slot : slots'[s].note = i) \/ i \in cut \/ played'[i] = ShotFrames
  <2>1. CASE \E s \in O!Slot : slots[s].note = i
    <3>1. PICK s \in O!Slot : slots[s].note = i  BY <2>1
    <3>2. i # 0  BY <1>0
    <3>3. CASE slots'[s].note = i  BY <3>3
    <3>4. CASE slots'[s].note # i
      <4>1. slots[s].pos + n > ShotFrames  BY <1>4, <3>1, <3>2, <3>4
      <4> QED  BY <1>5, <3>1, <3>2, <4>1
    <3> QED  BY <3>3, <3>4
  <2>2. CASE \A s \in O!Slot : slots[s].note # i
    <3>1. i \in 1 .. MaxTriggers  BY <1>0
    <3>2. played'[i] = played[i]  BY <1>1, <2>2, <3>1
    <3> QED  BY <2>2, <3>2 DEF ShotsInv
  <2> QED  BY <2>1, <2>2
<1>8. ASSUME NEW i \in 1 .. MaxTriggers, i > triggered  PROVE played'[i] = 0
  <2>1. \A s \in O!Slot : slots[s].note # i  BY <1>0, <1>8 DEF ShotsInv, SlotsPlay
  <2> QED  BY <1>1, <1>8, <2>1 DEF ShotsInv
<1>9. ShotsInv'
  <2>1. born \in [1 .. MaxTriggers -> Nat]  BY DEF ShotsInv
  <2> QED  BY <1>0, <1>1, <1>2, <1>6, <1>7, <1>8, <2>1 DEF ShotsInv
<1>10. ASSUME NEW s \in O!Slot  PROVE ~(slots'[s].note > slots[s].note)
  <2>1. slots[s].note \in Nat  BY <1>0 DEF ShotsInv, SlotsPlay
  <2> QED  BY <1>3, <1>4, <2>1
<1> QED  BY <1>9, <1>10

LEMMA ShotsStep ==
    ASSUME O!OneShotsAssumption, ShotsInv, O!Next \/ UNCHANGED oVars
    PROVE  /\ ShotsInv'
           /\ \A s \in O!Slot : slots[s] # O!Free /\ slots'[s].note > slots[s].note =>
                 \A w \in O!Slot : born[slots[w].note] >= born[slots[s].note]
<1>1. CASE UNCHANGED oVars
  <2>1. ShotsInv'  BY <1>1 DEF oVars, ShotsInv, SlotsPlay
  <2>2. \A s \in O!Slot : slots[s].note \in Nat  BY DEF ShotsInv, SlotsPlay
  <2> QED  BY <1>1, <2>1, <2>2 DEF oVars
<1>2. CASE O!Trigger  BY <1>2, TriggerKeeps
<1>3. ASSUME NEW n \in ShotBlocks, O!Mix(n)
      PROVE  ShotsInv' /\ \A s \in O!Slot : ~(slots'[s].note > slots[s].note)
  BY <1>3, MixKeeps
<1> QED  BY <1>1, <1>2, <1>3 DEF O!Next

LEMMA ShotsInvServes == O!OneShotsAssumption /\ ShotsInv => O!WholeClipHeard
<1> SUFFICES ASSUME O!OneShotsAssumption, ShotsInv, NEW i \in 1 .. triggered
             PROVE  \/ \E s \in O!Slot : slots[s].note = i /\ slots[s].pos = played[i]
                    \/ i \in cut
                    \/ played[i] = ShotFrames
  BY DEF O!WholeClipHeard
<1>1. CASE \E s \in O!Slot : slots[s].note = i
  <2>1. PICK s \in O!Slot : slots[s].note = i  BY <1>1
  <2>2. i # 0  BY DEF ShotsInv
  <2> QED  BY <2>1, <2>2 DEF ShotsInv, SlotsPlay
<1> QED  BY <1>1 DEF ShotsInv

-----------------------------------------------------------------------------
(* Render: what a sound passes on its way out.                               *)

MidiRaw(t)  == W!Raw(t, "midi")
AudioRaw(t) == W!Raw(t, "audio")

\* The clips, the sleeping buses and the faders are what the GUI's last frame sent.
SentByFrame ==
    /\ mix = W!rebuildAudioMix
    /\ \A b \in Buses : /\ busAsleep[b] = W!Asleep(b)
                        /\ W!OnBus(b) # {} => gain[b] = W!Fader(b, muted)

\* A frozen clip holds the track's notes: its own instrument's and the synthesizer's before
\* the fader, and the notes have been heard through fader and chain.
BouncesHold ==
    /\ bounce = [t \in RenderTracks |-> bounce[t]] /\ live = [t \in RenderTracks |-> live[t]]
    /\ \A t \in RenderTracks :
         /\ bounce[t] \subseteq {MidiRaw(t), W!Faded(MidiRaw(t))}
         /\ bounce[t] # {} => t \in frozen
         /\ t \in frozen /\ W!Player(t) \in {"own", "synth"} =>
              bounce[t] = {MidiRaw(t)} /\ live[t] = {W!Chained(W!Faded(MidiRaw(t)))}

RenderInv ==
    /\ channel \in [RenderTracks -> Buses] /\ midi \subseteq RenderTracks /\ audio \subseteq RenderTracks
    /\ plays \in RenderSetups
    /\ muted \subseteq RenderTracks /\ frozen \subseteq midi
    /\ gain \in [Buses -> {"off", "fader", "unity"}] /\ busAsleep \in [Buses -> BOOLEAN]
    /\ BouncesHold
    /\ synced => SentByFrame

\* Whose a sound is and of what kind, whatever it has passed.
LEMMA SoundsOf ==
    ASSUME NEW t, NEW kind
    PROVE  /\ W!Raw(t, kind).track = t /\ W!Raw(t, kind).kind = kind
           /\ W!Faded(W!Raw(t, kind)).track = t /\ W!Faded(W!Raw(t, kind)).kind = kind
           /\ W!Chained(W!Faded(W!Raw(t, kind))).track = t
           /\ W!Chained(W!Faded(W!Raw(t, kind))).kind = kind
           /\ W!Chained(W!Raw(t, kind)).track = t /\ W!Chained(W!Raw(t, kind)).kind = kind
BY DEF W!Raw, W!Faded, W!Chained

LEMMA SoundsFit ==
    ASSUME NEW t \in RenderTracks
    PROVE  MidiRaw(t) \in W!Sound /\ W!Faded(MidiRaw(t)) \in W!Sound
BY DEF MidiRaw, W!Raw, W!Faded, W!Sound

\* The notes of a track arrive as they are, faded, or not at all.
LEMMA ScaledSounds ==
    ASSUME NEW t, NEW gains
    PROVE  W!Scaled(t, gains) \subseteq {MidiRaw(t), W!Faded(MidiRaw(t))}
BY DEF W!Scaled, MidiRaw

\* At a place where one track's notes are played, or none.
LEMMA NotesAtOne ==
    ASSUME NEW t, NEW notes, NEW p, NEW gains, t \in notes, W!PlaceOf(t) = p,
           \A u \in notes : W!PlaceOf(u) = p => u = t,
           ~(W!Player(t) = "own" /\ busAsleep[channel[t]])
    PROVE  W!NotesAt(p, notes, gains) = W!Scaled(t, gains)
BY Zenon DEF W!NotesAt

LEMMA NotesAtNone ==
    ASSUME NEW notes, NEW p, NEW gains, \A u \in notes : W!PlaceOf(u) # p
    PROVE  W!NotesAt(p, notes, gains) = {}
BY Zenon DEF W!NotesAt

LEMMA NotesAtOnly ==
    ASSUME NEW notes, NEW p, NEW gains, NEW s \in W!NotesAt(p, notes, gains)
    PROVE  \E t \in notes : W!PlaceOf(t) = p /\ s \in W!Scaled(t, gains)
BY Zenon DEF W!NotesAt

\* Buses are channels, neither of the global instrument's other places.
LEMMA PlacesDiffer == W!RenderAssumption => "none" \notin Buses /\ "master" \notin Buses
BY DEF W!RenderAssumption

\* Without a global instrument the notes of a track are played at its channel, as are those
\* of its own instrument and the synthesizer.
LEMMA PlaceIsChannel ==
    ASSUME NEW t, W!Player(t) # "global"
    PROVE  W!PlaceOf(t) = channel[t]
BY DEF W!PlaceOf

LEMMA NoGlobalPlayer ==
    ASSUME NEW t, plays.global = "none"
    PROVE  W!Player(t) # "global"
BY DEF W!Player

\* Scaled as the instrument's bus, or the synthesizer's channel, says.
LEMMA ScaledAt ==
    ASSUME NEW t, NEW gains, W!Player(t) \in {"own", "synth"}, channel[t] \in Buses
    PROVE  LET g == IF W!Player(t) = "synth" THEN gains.synth[channel[t]] ELSE gains.bus[channel[t]]
           IN  /\ g = "unity" => W!Scaled(t, gains) = {MidiRaw(t)}
               /\ g = "fader" => W!Scaled(t, gains) = {W!Faded(MidiRaw(t))}
BY PlaceIsChannel DEF W!Scaled, MidiRaw

\* What freezing bakes: the notes of an awake bus before its chain and at unity gain.
LEMMA BakedSound ==
    ASSUME W!RenderAssumption, RenderInv, synced, NEW t \in midi \ frozen
    PROVE  /\ W!Baked(t) \subseteq {MidiRaw(t), W!Faded(MidiRaw(t))}
           /\ W!Player(t) \in {"own", "synth"} =>
                W!Baked(t) = {MidiRaw(t)} /\ W!Heard(t) = {W!Chained(W!Faded(MidiRaw(t)))}
<1> DEFINE ch == channel[t]
           one == {t}
           none == {}
           g == [gain EXCEPT ![ch] = "unity"]
           off == W!Offline(g)
           up == [bus |-> W!AllAre("fader"), synth |-> W!AllAre("fader")]
<1>1. t \in RenderTracks /\ ch \in Buses  BY DEF RenderInv
<1>2. t \in W!OnBus(ch)  BY <1>1 DEF W!OnBus
<1>3. ~busAsleep[ch]
  <2>1. ~W!Asleep(ch)  BY <1>2 DEF W!Asleep
  <2> QED  BY <1>1, <2>1 DEF RenderInv, SentByFrame
<1>4. \A b : W!ClipsAt(b, none) = {}  BY DEF W!ClipsAt
<1>5. W!Baked(t) = W!NotesAt(ch, one, off)  BY <1>4 DEF W!Baked, W!PreFx
<1>6. t \in one /\ \A u \in one : u = t  OBVIOUS
<1>7. g[ch] = "unity"  BY <1>1 DEF RenderInv
<1>8. off.bus[ch] = "unity" /\ off.synth[ch] = "unity"  BY <1>1, <1>7 DEF W!Offline
<1>9. up.bus[ch] = "fader" /\ up.synth[ch] = "fader"  BY <1>1 DEF W!AllAre
<1>10. W!Heard(t) = UNION {W!PostFx(b, one, up, none) : b \in Buses} \cup W!NotesAt("master", one, up)
  BY DEF W!Heard
<1> HIDE DEF one, none, off, up, g
<1>11. W!Baked(t) \subseteq {MidiRaw(t), W!Faded(MidiRaw(t))}
  BY <1>5, <1>6, NotesAtOnly, ScaledSounds
<1>12. ASSUME W!Player(t) \in {"own", "synth"}
       PROVE  W!Baked(t) = {MidiRaw(t)} /\ W!Heard(t) = {W!Chained(W!Faded(MidiRaw(t)))}
  <2>1. W!PlaceOf(t) = ch  BY <1>12, PlaceIsChannel
  <2>2. \A gains : W!NotesAt(ch, one, gains) = W!Scaled(t, gains)
    BY <1>3, <1>6, <2>1, NotesAtOne
  <2>3. W!Scaled(t, off) = {MidiRaw(t)}  BY <1>1, <1>8, <1>12, ScaledAt
  <2>4. W!Scaled(t, up) = {W!Faded(MidiRaw(t))}  BY <1>1, <1>9, <1>12, ScaledAt
  <2>5. W!NotesAt("master", one, up) = {}
    <3>1. ch # "master"  BY <1>1, PlacesDiffer
    <3> QED  BY <1>6, <2>1, <3>1, NotesAtNone
  <2>6. W!PostFx(ch, one, up, none) = {W!Chained(W!Faded(MidiRaw(t)))}
    <3>1. W!PreFx(ch, one, up, none) = {W!Faded(MidiRaw(t))}  BY <1>4, <2>2, <2>4 DEF W!PreFx
    <3> QED  BY Zenon, <3>1 DEF W!PostFx
  <2>7. ASSUME NEW b \in Buses, b # ch  PROVE W!PostFx(b, one, up, none) = {}
    <3>1. W!NotesAt(b, one, up) = {}  BY <1>6, <2>1, <2>7, NotesAtNone
    <3>2. W!PreFx(b, one, up, none) = {}  BY <1>4, <3>1 DEF W!PreFx
    <3> QED  BY Zenon, <3>2 DEF W!PostFx
  <2>8. UNION {W!PostFx(b, one, up, none) : b \in Buses} = {W!Chained(W!Faded(MidiRaw(t)))}
    BY Zenon, <1>1, <2>6, <2>7
  <2> QED  BY <1>5, <1>10, <2>2, <2>3, <2>5, <2>8
<1> QED  BY <1>11, <1>12

LEMMA RenderInit == W!RenderAssumption /\ W!Init => RenderInv
<1> SUFFICES ASSUME W!Init  PROVE RenderInv  OBVIOUS
<1>1. BouncesHold  BY DEF W!Init, BouncesHold
<1> QED  BY <1>1 DEF W!Init, RenderInv

\* Faders are on, off or at unity.
LEMMA FadersFit ==
    /\ \A b, silent : W!Fader(b, silent) \in {"off", "fader", "unity"}
    /\ RenderInv => \A rendered : W!ExportGains(rendered) \in [Buses -> {"off", "fader", "unity"}]
<1>1. \A b, silent : W!Fader(b, silent) \in {"off", "fader", "unity"}  BY DEF W!Fader
<1> QED  BY <1>1 DEF W!ExportGains, RenderInv

\* A change that the next frame will send.
LEMMA UnsentKeeps ==
    ASSUME RenderInv, synced' = FALSE, muted' \subseteq RenderTracks,
           gain' \in [Buses -> {"off", "fader", "unity"}],
           UNCHANGED <<channel, midi, audio, plays, frozen, bounce, live, busAsleep>>
    PROVE  RenderInv'
<1>1. BouncesHold'  BY DEF RenderInv, BouncesHold, W!Player
<1> QED  BY <1>1 DEF RenderInv

\* No operation of the GUI, no frame and no export breaks it.
LEMMA RenderStep ==
    ASSUME W!RenderAssumption, RenderInv, W!Next \/ UNCHANGED wVars
    PROVE  RenderInv'
<1>1. CASE UNCHANGED wVars
  <2>1. UNCHANGED <<channel, midi, audio, plays, sends, muted, frozen, bounce, gain, busAsleep, mix,
                    synced, live>>
    BY Zenon, <1>1 DEF wVars
  <2>2. BouncesHold'  BY <2>1 DEF RenderInv, BouncesHold, W!Player
  <2>3. SentByFrame => SentByFrame'
    <3>1. W!rebuildAudioMix' = W!rebuildAudioMix  BY <2>1 DEF W!rebuildAudioMix, W!Clips
    <3>2. \A b : W!OnBus(b)' = W!OnBus(b) /\ W!Asleep(b)' = W!Asleep(b)
                 /\ W!Fader(b, muted)' = W!Fader(b, muted)
      BY <2>1 DEF W!OnBus, W!Asleep, W!Fader
    <3> QED  BY Zenon, <2>1, <3>1, <3>2 DEF SentByFrame
  <2> QED  BY <2>1, <2>2, <2>3 DEF RenderInv
<1>2. CASE W!Frame
  <2>1. UNCHANGED <<channel, midi, audio, plays, sends, muted, frozen, bounce, live>>
    BY Zenon, <1>2 DEF W!Frame, W!song
  <2>2. /\ gain' = [b \in Buses |-> IF W!OnBus(b) = {} THEN gain[b] ELSE W!Fader(b, muted)]
        /\ busAsleep' = [b \in Buses |-> W!Asleep(b)]
        /\ mix' = W!rebuildAudioMix
    BY <1>2 DEF W!Frame
  <2>3. BouncesHold'  BY <2>1 DEF RenderInv, BouncesHold, W!Player
  <2>4. gain' \in [Buses -> {"off", "fader", "unity"}]
    <3>1. \A b \in Buses : gain[b] \in {"off", "fader", "unity"}  BY DEF RenderInv
    <3> QED  BY <2>2, <3>1, FadersFit
  <2>5. busAsleep' \in [Buses -> BOOLEAN]
    <3>1. \A b \in Buses : W!Asleep(b) \in BOOLEAN  BY Zenon DEF W!Asleep
    <3> QED  BY Zenon, <2>2, <3>1
  <2>6. W!rebuildAudioMix' = W!rebuildAudioMix  BY <2>1 DEF W!rebuildAudioMix, W!Clips
  <2>7. \A b : W!OnBus(b)' = W!OnBus(b) /\ W!Asleep(b)' = W!Asleep(b)
               /\ W!Fader(b, muted)' = W!Fader(b, muted)
    BY <2>1 DEF W!OnBus, W!Asleep, W!Fader
  <2>8. SentByFrame'
    <3>1. \A b \in Buses : busAsleep'[b] = W!Asleep(b)  BY Zenon, <2>2
    <3>2. \A b \in Buses : W!OnBus(b) # {} => gain'[b] = W!Fader(b, muted)  BY <2>2
    <3> QED  BY Zenon, <2>2, <2>6, <2>7, <3>1, <3>2 DEF SentByFrame
  <2> QED  BY <2>1, <2>3, <2>4, <2>5, <2>8 DEF RenderInv
<1>3. ASSUME NEW t \in RenderTracks, W!Mute(t)  PROVE RenderInv'
  <2>1. UNCHANGED <<channel, midi, audio, plays, frozen, bounce, live, busAsleep, gain>>
          /\ synced' = FALSE
    BY Zenon, <1>3 DEF W!Mute, W!song
  <2>2. muted' \subseteq RenderTracks  BY <1>3 DEF W!Mute, RenderInv
  <2>3. gain' \in [Buses -> {"off", "fader", "unity"}]  BY <2>1 DEF RenderInv
  <2> QED  BY <2>1, <2>2, <2>3, UnsentKeeps
<1>4. ASSUME NEW rendered, gain' = W!ExportGains(rendered), synced' = FALSE,
             UNCHANGED <<channel, midi, audio, plays, muted, frozen, bounce, live, busAsleep>>
      PROVE  RenderInv'
  <2>1. muted' \subseteq RenderTracks /\ gain' \in [Buses -> {"off", "fader", "unity"}]
    BY <1>4, FadersFit DEF RenderInv
  <2> QED  BY <1>4, <2>1, UnsentKeeps
<1>5. CASE W!ExportMaster
  <2> DEFINE nobody == {}
  <2>1. gain' = W!ExportGains(nobody) /\ synced' = FALSE
          /\ UNCHANGED <<channel, midi, audio, plays, muted, frozen, bounce, live, busAsleep>>
    BY Zenon, <1>5 DEF W!ExportMaster, W!song
  <2> HIDE DEF nobody
  <2> QED  BY <1>4, <2>1
<1>6. CASE W!ExportStems
  <2> DEFINE last == {W!Last({t \in RenderTracks \ muted : W!HasContent(t)})}
  <2>1. gain' = W!ExportGains(last) /\ synced' = FALSE
          /\ UNCHANGED <<channel, midi, audio, plays, muted, frozen, bounce, live, busAsleep>>
    BY Zenon, <1>6 DEF W!ExportStems, W!song
  <2> HIDE DEF last
  <2> QED  BY <1>4, <2>1
<1>7. ASSUME NEW t \in RenderTracks, W!ExportSelected(t)  PROVE RenderInv'
  <2> DEFINE one == {t}
  <2>1. gain' = W!ExportGains(one) /\ synced' = FALSE
          /\ UNCHANGED <<channel, midi, audio, plays, muted, frozen, bounce, live, busAsleep>>
    BY Zenon, <1>7 DEF W!ExportSelected, W!song
  <2> HIDE DEF one
  <2> QED  BY <1>4, <2>1
<1>8. ASSUME NEW t \in RenderTracks, W!freezeTrack(t)  PROVE RenderInv'
  <2>1. /\ synced /\ t \in midi \ frozen /\ synced' = FALSE
        /\ bounce' = [bounce EXCEPT ![t] = W!Baked(t)] /\ live' = [live EXCEPT ![t] = W!Heard(t)]
        /\ frozen' = frozen \cup {t} /\ gain' = [gain EXCEPT ![channel[t]] = "unity"]
        /\ UNCHANGED <<channel, midi, audio, plays, muted, busAsleep>>
    BY Zenon, <1>8 DEF W!freezeTrack, W!song
  <2>2. /\ W!Baked(t) \subseteq {MidiRaw(t), W!Faded(MidiRaw(t))}
        /\ W!Player(t) \in {"own", "synth"} =>
             W!Baked(t) = {MidiRaw(t)} /\ W!Heard(t) = {W!Chained(W!Faded(MidiRaw(t)))}
    BY <2>1, BakedSound
  <2>3. BouncesHold'
    <3>0. \A u : W!Player(u)' = W!Player(u)  BY <2>1 DEF W!Player
    <3>1. bounce = [u \in RenderTracks |-> bounce[u]] /\ live = [u \in RenderTracks |-> live[u]]
      BY DEF RenderInv, BouncesHold
    <3>2. bounce' = [u \in RenderTracks |-> bounce'[u]] /\ live' = [u \in RenderTracks |-> live'[u]]
      BY Zenon, <2>1, <3>1
    <3>3. /\ bounce'[t] = W!Baked(t) /\ live'[t] = W!Heard(t)
          /\ \A u \in RenderTracks : u # t => bounce'[u] = bounce[u] /\ live'[u] = live[u]
      BY <2>1, <3>1
    <3> QED  BY <2>1, <2>2, <3>0, <3>2, <3>3 DEF RenderInv, BouncesHold
  <2>4. gain' \in [Buses -> {"off", "fader", "unity"}]  BY <2>1 DEF RenderInv
  <2> QED  BY <2>1, <2>3, <2>4 DEF RenderInv
<1>9. ASSUME NEW t \in RenderTracks, W!unfreezeTrack(t)  PROVE RenderInv'
  <2>1. /\ synced' = FALSE
        /\ bounce' = [bounce EXCEPT ![t] = {}] /\ live' = [live EXCEPT ![t] = {}]
        /\ frozen' = frozen \ {t}
        /\ UNCHANGED <<channel, midi, audio, plays, muted, busAsleep, gain>>
    BY Zenon, <1>9 DEF W!unfreezeTrack, W!song
  <2>2. BouncesHold'
    <3>0. \A u : W!Player(u)' = W!Player(u)  BY <2>1 DEF W!Player
    <3>1. bounce = [u \in RenderTracks |-> bounce[u]] /\ live = [u \in RenderTracks |-> live[u]]
      BY DEF RenderInv, BouncesHold
    <3>2. bounce' = [u \in RenderTracks |-> bounce'[u]] /\ live' = [u \in RenderTracks |-> live'[u]]
      BY Zenon, <2>1, <3>1
    <3>3. /\ bounce'[t] = {}
          /\ \A u \in RenderTracks : u # t => bounce'[u] = bounce[u] /\ live'[u] = live[u]
      BY <2>1, <3>1
    <3> QED  BY <2>1, <3>0, <3>2, <3>3 DEF RenderInv, BouncesHold
  <2> QED  BY <2>1, <2>2 DEF RenderInv
<1> QED  BY <1>1, <1>2, <1>3, <1>5, <1>6, <1>7, <1>8, <1>9 DEF W!Next

LEMMA RenderTypeServes == RenderInv => W!RenderTypeOK
<1> SUFFICES ASSUME RenderInv, NEW t \in RenderTracks
             PROVE  bounce[t] \subseteq W!Sound /\ (bounce[t] # {} => t \in frozen)
  BY DEF W!RenderTypeOK, RenderInv
<1> QED  BY SoundsFit DEF RenderInv, BouncesHold

\* A clip of the mix: an imported clip's or a frozen track's, and of the track its sound names.
LEMMA ClipsOfMix ==
    ASSUME RenderInv, SentByFrame, NEW c \in mix
    PROVE  /\ c.muted <=> c.sound.track \in muted
           /\ c.sound.track \in RenderTracks
           /\ \/ c.sound.track \in audio /\ c.sound = AudioRaw(c.sound.track)
              \/ c.sound \in bounce[c.sound.track] /\ c.sound.kind = "midi"
<1>1. c \in W!Clips /\ (c.muted = (c.sound.track \in muted))
  BY Zenon DEF SentByFrame, W!rebuildAudioMix
<1>2. c.sound \in {W!Raw(t, "audio") : t \in audio} \cup UNION {bounce[t] : t \in RenderTracks}
  BY <1>1 DEF W!Clips
<1>3. c.muted <=> c.sound.track \in muted  BY Zenon, <1>1
<1>4. CASE c.sound \in {W!Raw(t, "audio") : t \in audio}
  BY <1>3, <1>4, SoundsOf DEF AudioRaw, RenderInv
<1>5. CASE c.sound \in UNION {bounce[t] : t \in RenderTracks}
  <2>1. PICK t \in RenderTracks : c.sound \in bounce[t]  BY <1>5
  <2>2. c.sound \in {MidiRaw(t), W!Faded(MidiRaw(t))}  BY <2>1 DEF RenderInv, BouncesHold
  <2>3. c.sound.track = t /\ c.sound.kind = "midi"  BY <2>2, SoundsOf DEF MidiRaw
  <2> QED  BY <1>3, <2>1, <2>3
<1> QED  BY <1>2, <1>4, <1>5

\* The clip of what a track has frozen is in the mix, and not muted unless the track is.
LEMMA ClipIsMixed ==
    ASSUME RenderInv, SentByFrame, NEW t \in RenderTracks \ muted, MidiRaw(t) \in bounce[t]
    PROVE  \E c \in mix : c.sound = MidiRaw(t) /\ ~c.muted
<1> DEFINE c == [sound |-> MidiRaw(t), muted |-> (t \in muted)]
<1>1. c.sound = MidiRaw(t) /\ c.sound.track = t /\ c.muted = (t \in muted)
  BY SoundsOf DEF MidiRaw
<1>2. (t \in muted) \in BOOLEAN  OBVIOUS
<1>3. MidiRaw(t) \in UNION {bounce[u] : u \in RenderTracks}  OBVIOUS
<1>4. c \in W!Clips  BY Zenon, <1>2, <1>3 DEF W!Clips
<1> HIDE DEF c
<1>5. c \in mix  BY Zenon, <1>1, <1>4 DEF SentByFrame, W!rebuildAudioMix
<1> QED  BY Zenon, <1>1, <1>5

\* A frozen track comes through the fader and the chain of its bus once.
LEMMA FrozenServes ==
    ASSUME W!RenderAssumption, RenderInv
    PROVE  W!FrozenSoundsTheSame
<1> SUFFICES ASSUME NEW t \in frozen \ muted, synced, W!Player(t) \in {"own", "synth"}
             PROVE  LET baked == {s \in W!Master({}, W!Offline(gain), mix) : s.track = t /\ s.kind = "midi"}
                    IN  baked = live[t] /\ baked # {}
  BY DEF W!FrozenSoundsTheSame
<1> DEFINE none == {}
           off == W!Offline(gain)
           sound == W!Chained(W!Faded(MidiRaw(t)))
           master == W!Master(none, off, mix)
<1>1. SentByFrame /\ t \in RenderTracks  BY DEF RenderInv
<1>2. bounce[t] = {MidiRaw(t)} /\ live[t] = {sound}  BY <1>1 DEF RenderInv, BouncesHold
<1>3. sound.track = t /\ sound.kind = "midi"  BY SoundsOf DEF MidiRaw
<1>4. \A p : W!NotesAt(p, none, off) = {}  BY NotesAtNone
<1>5. \A s : s \in master <=> \E b \in Buses : \E x \in W!ClipsAt(b, mix) : s = W!Chained(x)
  <2>1. master = UNION {W!PostFx(b, none, off, mix) : b \in Buses}  BY <1>4 DEF W!Master
  <2>2. \A b \in Buses : W!PostFx(b, none, off, mix) = {W!Chained(x) : x \in W!ClipsAt(b, mix)}
    BY <1>4 DEF W!PostFx, W!PreFx
  <2> HIDE DEF master, none, off
  <2> QED  BY Zenon, <2>1, <2>2
<1> HIDE DEF none, off, sound
<1>6. sound \in master
  <2>1. PICK c \in mix : c.sound = MidiRaw(t) /\ ~c.muted  BY <1>1, <1>2, ClipIsMixed
  <2>2. MidiRaw(t).track = t /\ channel[t] \in Buses  BY <1>1, SoundsOf DEF MidiRaw, RenderInv
  <2>3. W!Faded(MidiRaw(t)) \in W!ClipsAt(channel[t], mix)  BY <2>1, <2>2 DEF W!ClipsAt
  <2> QED  BY <1>5, <2>2, <2>3 DEF sound
<1>7. ASSUME NEW s \in master, s.track = t, s.kind = "midi"  PROVE s = sound
  <2>1. PICK b \in Buses : \E x \in W!ClipsAt(b, mix) : s = W!Chained(x)  BY <1>5
  <2>2. PICK c \in mix : s = W!Chained(W!Faded(c.sound))  BY <2>1 DEF W!ClipsAt
  <2>3. s.track = c.sound.track /\ s.kind = c.sound.kind
    <3>1. \/ c.sound = AudioRaw(c.sound.track)
          \/ c.sound \in {MidiRaw(c.sound.track), W!Faded(MidiRaw(c.sound.track))}
      BY <1>1, ClipsOfMix DEF RenderInv, BouncesHold
    <3> QED  BY <2>2, <3>1 DEF AudioRaw, MidiRaw, W!Raw, W!Faded, W!Chained
  <2>4. c.sound \in bounce[t]
    <3>1. AudioRaw(t).kind = "audio"  BY SoundsOf DEF AudioRaw
    <3> QED  BY <1>1, <1>7, <2>3, <3>1, ClipsOfMix
  <2> QED  BY <1>2, <2>2, <2>4 DEF sound
<1>8. {s \in master : s.track = t /\ s.kind = "midi"} = {sound}  BY <1>3, <1>6, <1>7
<1> QED  BY <1>2, <1>8 DEF none, off

\* Tracks with a channel each share none.
LEMMA OwnChannels ==
    ASSUME W!RenderAssumption, RenderInv,
           W!Cardinality({channel[t] : t \in RenderTracks}) = W!Cardinality(RenderTracks)
    PROVE  \A t, u \in RenderTracks : channel[t] = channel[u] => t = u
<1> DEFINE T == {channel[t] : t \in RenderTracks}
<1>1. IsFiniteSet(RenderTracks)
  BY DEF W!RenderAssumption, W!IsFiniteSet, IsFiniteSet
<1>2. Cardinality(T) = Cardinality(RenderTracks)  BY Zenon DEF W!Cardinality, Cardinality
<1>3. channel \in Surjection(RenderTracks, T)  BY DEF RenderInv, Surjection
<1> HIDE DEF T
<1>4. channel \in Injection(RenderTracks, T)  BY <1>1, <1>2, <1>3, FS_Surjection
<1> QED  BY <1>4 DEF Injection, IsInjective

LEMMA LastOfOne ==
    ASSUME NEW t \in Nat
    PROVE  W!Last({t}) = t
BY DEF W!Last

\* The export of the stems, with a channel for each track and no global instrument.
LEMMA StemsServe ==
    ASSUME W!RenderAssumption, RenderInv, W!ExportStems, plays.global = "none",
           W!Cardinality({channel[t] : t \in RenderTracks}) = W!Cardinality(RenderTracks)
    PROVE  /\ UNION {files'.stems[t] : t \in RenderTracks}
                = W!Master(W!Played \ muted, W!Offline(gain), mix)
           /\ \A t, u \in RenderTracks : t # u => files'.stems[t] \cap files'.stems[u] = {}
<1> DEFINE rendered == {t \in RenderTracks \ muted : W!HasContent(t)}
           notes == W!Played \ muted
           off == W!Offline(gain)
           stems == [t \in RenderTracks |-> IF t \in rendered THEN W!Stem(t) ELSE {}]
           alone(t) == {t} \cap W!Played
           gains(t) == W!Offline(W!ExportGains({t}))
<1>1. SentByFrame  BY DEF W!ExportStems, RenderInv
<1>2. \A t, u \in RenderTracks : channel[t] = channel[u] => t = u  BY OwnChannels
<1>3. \A t \in RenderTracks : channel[t] \in Buses /\ t \in Nat  BY DEF RenderInv, W!RenderAssumption
<1>4. \A t : W!PlaceOf(t) = channel[t]  BY NoGlobalPlayer, PlaceIsChannel
<1>5. W!Played \subseteq RenderTracks /\ notes \subseteq rendered
  BY DEF W!Played, W!HasContent, RenderInv
<1>6. files'.stems = stems
  <2> DEFINE reverb == IF sends \subseteq muted THEN {}
                       ELSE W!Return(W!Played \ muted, W!Offline(W!ExportGains({})), mix)
  <2>1. files' = [W!Nothing EXCEPT !.stems = stems, !.reverb = reverb]
    BY Zenon DEF W!ExportStems
  <2> HIDE DEF stems, reverb
  <2> QED  BY <2>1 DEF W!Nothing
\* Of a track that is rendered, the bus is the same in its stem and in the mix.
<1>7. ASSUME NEW t \in rendered
      PROVE  W!Stem(t) = W!PostFx(channel[t], notes, off, mix)
  <2>1. t \in RenderTracks /\ t \notin muted /\ channel[t] \in Buses /\ t \in Nat  BY <1>3
  <2>2. W!OnBus(channel[t]) = {t}  BY <1>2, <2>1 DEF W!OnBus
  <2>3. \A silent : W!Fader(channel[t], silent) = IF t \in silent THEN "off" ELSE "fader"
    BY <2>1, <2>2, LastOfOne DEF W!Fader
  <2>4. gain[channel[t]] = "fader"
    <3>1. gain[channel[t]] = W!Fader(channel[t], muted)  BY <1>1, <2>1, <2>2 DEF SentByFrame
    <3> QED  BY <2>1, <2>3, <3>1
  <2>5. W!ExportGains({t})[channel[t]] = "fader"
    <3>1. W!Fader(channel[t], muted \ {t}) = "fader"  BY <2>3
    <3> QED  BY <2>1, <2>2, <2>4, <3>1 DEF W!ExportGains
  <2>6. /\ gains(t).bus[channel[t]] = off.bus[channel[t]]
        /\ gains(t).synth[channel[t]] = off.synth[channel[t]]
    BY <2>1, <2>4, <2>5 DEF W!Offline
  <2> HIDE DEF off, gains
  <2>7. W!Scaled(t, gains(t)) = W!Scaled(t, off)  BY <1>4, <2>6 DEF W!Scaled
  <2>8. W!NotesAt(channel[t], alone(t), gains(t)) = W!NotesAt(channel[t], notes, off)
    <3>1. CASE t \in W!Played
      <4>1. ~busAsleep[channel[t]]
        <5>1. t \notin frozen  BY <3>1 DEF W!Played
        <5>2. ~W!Asleep(channel[t])  BY <2>2, <5>1 DEF W!Asleep
        <5> QED  BY <1>1, <2>1, <5>2 DEF SentByFrame
      <4>2. t \in alone(t) /\ \A u \in alone(t) : u = t  BY <3>1
      <4>3. t \in notes /\ \A u \in notes : channel[u] = channel[t] => u = t
        BY <1>2, <1>5, <2>1, <3>1
      <4> HIDE DEF alone, notes
      <4>4. W!NotesAt(channel[t], alone(t), gains(t)) = W!Scaled(t, gains(t))
        BY <1>4, <4>1, <4>2, NotesAtOne
      <4>5. W!NotesAt(channel[t], notes, off) = W!Scaled(t, off)
        BY <1>4, <4>1, <4>3, NotesAtOne
      <4> QED  BY <2>7, <4>4, <4>5
    <3>2. CASE t \notin W!Played
      <4>1. \A u \in notes : channel[u] # channel[t]  BY <1>2, <1>5, <2>1, <3>2
      <4>2. alone(t) = {}  BY <3>2
      <4> HIDE DEF alone, notes
      <4>3. W!NotesAt(channel[t], notes, off) = {}  BY <1>4, <4>1, NotesAtNone
      <4>4. W!NotesAt(channel[t], alone(t), gains(t)) = {}  BY <4>2, NotesAtNone
      <4> QED  BY <4>3, <4>4
    <3> QED  BY <3>1, <3>2
  <2>9. W!Stem(t) = W!PostFx(channel[t], alone(t), gains(t), mix)  BY Zenon DEF W!Stem, gains
  <2> HIDE DEF alone, notes
  <2> QED  BY <2>8, <2>9 DEF W!PostFx, W!PreFx
\* Where none is rendered nothing sounds.
<1>8. ASSUME NEW b \in Buses, \A t \in rendered : channel[t] # b
      PROVE  W!PostFx(b, notes, off, mix) = {}
  <2>1. W!NotesAt(b, notes, off) = {}
    <3>1. \A u \in notes : W!PlaceOf(u) # b  BY <1>4, <1>5, <1>8
    <3> QED  BY <3>1, NotesAtNone
  <2>2. W!ClipsAt(b, mix) = {}
    <3> SUFFICES ASSUME NEW c \in mix, ~c.muted, channel[c.sound.track] = b  PROVE FALSE
      BY DEF W!ClipsAt
    <3>1. /\ c.sound.track \notin muted /\ c.sound.track \in RenderTracks
          /\ c.sound.track \in audio \/ c.sound \in bounce[c.sound.track]
      BY <1>1, ClipsOfMix
    <3>2. W!HasContent(c.sound.track)  BY <3>1 DEF W!HasContent
    <3> QED  BY <1>8, <3>1, <3>2
  <2>3. W!PreFx(b, notes, off, mix) = {}  BY <2>1, <2>2 DEF W!PreFx
  <2> QED  BY Zenon, <2>3 DEF W!PostFx
\* What a stem holds is its track's.
<1>9. ASSUME NEW t \in rendered, NEW s \in W!Stem(t)
      PROVE  s.track = t
  <2>1. PICK x \in W!PreFx(channel[t], alone(t), gains(t), mix) : s = W!Chained(x)
    BY Zenon DEF W!Stem, W!PostFx
  <2>2. CASE x \in W!NotesAt(channel[t], alone(t), gains(t))
    <3>1. PICK u \in alone(t) : x \in W!Scaled(u, gains(t))  BY <2>2, NotesAtOnly
    <3>2. x \in {MidiRaw(t), W!Faded(MidiRaw(t))}  BY <3>1, ScaledSounds
    <3> QED  BY <2>1, <3>2, SoundsOf DEF MidiRaw
  <2>3. CASE x \in W!ClipsAt(channel[t], mix)
    <3>1. PICK c \in mix : x = W!Faded(c.sound) /\ channel[c.sound.track] = channel[t]
      BY <2>3 DEF W!ClipsAt
    <3>2. /\ c.sound.track = t
          /\ \/ c.sound = AudioRaw(t)
             \/ c.sound \in {MidiRaw(t), W!Faded(MidiRaw(t))}
      BY <1>1, <1>2, <3>1, ClipsOfMix DEF RenderInv, BouncesHold
    <3> QED  BY <2>1, <3>1, <3>2 DEF AudioRaw, MidiRaw, W!Raw, W!Faded, W!Chained
  <2> QED  BY <2>1, <2>2, <2>3 DEF W!PreFx
<1>10. W!Master(notes, off, mix) = UNION {W!PostFx(b, notes, off, mix) : b \in Buses}
  <2>1. \A u \in notes : W!PlaceOf(u) # "master"  BY <1>3, <1>4, <1>5, PlacesDiffer
  <2>2. W!NotesAt("master", notes, off) = {}  BY <2>1, NotesAtNone
  <2> QED  BY <2>2 DEF W!Master
<1>11. \A t \in RenderTracks : stems[t] = IF t \in rendered THEN W!Stem(t) ELSE {}  OBVIOUS
<1>12. rendered \subseteq RenderTracks  OBVIOUS
<1> HIDE DEF rendered, notes, off, stems, alone, gains
<1>13. UNION {stems[t] : t \in RenderTracks} = UNION {W!PostFx(b, notes, off, mix) : b \in Buses}
  <2>1. ASSUME NEW t \in RenderTracks, NEW s \in stems[t]
        PROVE  \E b \in Buses : s \in W!PostFx(b, notes, off, mix)
    <3>1. t \in rendered /\ s \in W!Stem(t)  BY <1>11, <2>1
    <3> QED  BY <1>3, <1>7, <3>1
  <2>2. ASSUME NEW b \in Buses, NEW s \in W!PostFx(b, notes, off, mix)
        PROVE  \E t \in RenderTracks : s \in stems[t]
    <3>1. PICK t \in rendered : channel[t] = b  BY <1>8, <2>2
    <3> QED  BY <1>7, <1>11, <1>12, <2>2, <3>1
  <2> QED  BY Zenon, <2>1, <2>2
<1>14. \A t, u \in RenderTracks : t # u => stems[t] \cap stems[u] = {}
  BY <1>9, <1>11
<1> QED  BY <1>6, <1>10, <1>13, <1>14 DEF notes, off

-----------------------------------------------------------------------------
(* The engine.                                                               *)

EngineVars == <<part, voiceVars, nVars, vars, tapVars, oVars, cVars, wVars, kVars, pVars, hVars>>

\* A step of the engine is a step of one part and none of the others.
LEMMA StepsOfParts ==
    ASSUME EngineNext \/ UNCHANGED EngineVars
    PROVE  /\ N!Next \/ UNCHANGED nVars
           /\ H!Next \/ UNCHANGED hVars
           /\ K!Next \/ UNCHANGED kVars
           /\ P!Next \/ UNCHANGED pVars
           /\ O!Next \/ UNCHANGED oVars
           /\ C!Next \/ UNCHANGED cVars
           /\ W!Next \/ UNCHANGED wVars
BY Zenon DEF EngineNext, EngineVars

\* Instruments as plug-ins, for every bus, key, list, class and patch: a key that sounds in
\* a plug-in is in its host's table whatever is loaded, cleared, frozen and thawed, one that
\* is up sounds nowhere, nothing sounds after all notes off (renderBlock and Vst3Host's
\* activeNote).  Through every refusal of reconfigure and loadState the plug-in is called only
\* as it allows and terminated as often as initialised.  A refusal on the way to work is taken
\* down with at most three calls that are not allowed: a component that would not initialize
\* is deactivated and terminated, a processor that was never active is told to stop.  The
\* window shows the patch that plays, until a knob is turned that the component does not
\* hear of.
THEOREM PluginsAlwaysServed == EngineSpec => []PluginsAreServed
<1>1. EngineInit => NotesInv /\ HostInv  BY InstancesAreFit, NotesInit, HostInit DEF EngineInit
<1>2. NotesInv /\ HostInv /\ [EngineNext]_EngineVars => (NotesInv /\ HostInv)'
  BY InstancesAreFit, StepsOfParts, NotesStep, HostStep
<1>3. NotesInv /\ HostInv => PluginsAreServed  BY NotesInvServes, HostInvServes DEF PluginsAreServed
<1> QED  BY <1>1, <1>2, <1>3, PTL DEF EngineSpec, EngineVars

\* MIDI input, the computer keyboard and the knobs, for every output, channel, note, knob,
\* parameter and length of a queue: whatever sounds through octave and track changes, late
\* polls, reopened ports and dropped messages has someone who will end it, unless it was cut
\* off from its key (RtMidiInput, updateMusicalTyping, updatePendingNotes); a message plays
\* the same in either protocol and is read back as it was made; the mapping stays one to one,
\* the synthesizer has what the panel shows, and a preset comes back as it was saved.
THEOREM InputsAlwaysReachTheSynth == EngineSpec => []InputsReachTheSynth
<1>1. EngineInit => KeysInv /\ KnobsInv  BY InstancesAreFit, KeysInit, KnobsInit DEF EngineInit
<1>2. KeysInv /\ KnobsInv /\ [EngineNext]_EngineVars => (KeysInv /\ KnobsInv)'
  BY InstancesAreFit, StepsOfParts, KeysStep, KnobsStep
<1>3. KeysInv /\ KnobsInv => InputsReachTheSynth
  BY InstancesAreFit, KeysInvServes, KnobsInvServes, MessagesAgree DEF InputsReachTheSynth
<1> QED  BY <1>1, <1>2, <1>3, PTL DEF EngineSpec, EngineVars

\* One-shots and audio clips, for every number of slots and notes, length of a clip and sizes
\* of the blocks: a note whose slot was not taken is heard to the end, and the slot that is
\* taken is of a note that began in the earliest block (triggerClick, triggerDrumSample);
\* blocks of the audio clips join unless the GUI has put the head elsewhere, however its calls
\* fall between what mixAudioClips loads and stores.
THEOREM SamplesAlwaysHeard == EngineSpec => SamplesAreHeard
<1>1. EngineInit => ShotsInv /\ ClipInv  BY InstancesAreFit, ShotsInit, ClipInit DEF EngineInit
<1>2. ShotsInv /\ ClipInv /\ [EngineNext]_EngineVars => (ShotsInv /\ ClipInv)'
  BY InstancesAreFit, StepsOfParts, ShotsStep, ClipStep
<1>3. ShotsInv => (part = "shots" => O!WholeClipHeard)  BY InstancesAreFit, ShotsInvServes
<1>4. ShotsInv /\ [EngineNext]_EngineVars
        => [\A s \in O!Slot : slots[s] # O!Free /\ slots'[s].note > slots[s].note =>
              \A w \in O!Slot : born[slots[w].note] >= born[slots[s].note]]_O!vars
  BY InstancesAreFit, StepsOfParts, ShotsStep
<1>5. ClipInv /\ [EngineNext]_EngineVars
        => [heard.from # C!None /\ heard'.from # C!None /\ heard'.block # heard.block
              /\ asked = C!None => heard'.from = heard.from + ClipFrames]_C!vars
  BY InstancesAreFit, StepsOfParts, ClipStep
<1> QED
  BY <1>1, <1>2, <1>3, <1>4, <1>5, PTL
     DEF EngineSpec, EngineVars, SamplesAreHeard, O!OldestIsCut, C!BlocksJoin

\* Freezing and export, for every set of tracks, buses and set-ups: a frozen track passes the
\* fader and the chain of its bus once, as it did before (freezeTrack, renderBlock), and where
\* tracks do not share channels the stems hold what the mix holds, each sound in one stem and
\* at the same level (runOfflineExport).
THEOREM RendersAreAlwaysTheMix == EngineSpec => RendersAreTheMix
<1>1. EngineInit => RenderInv  BY InstancesAreFit, RenderInit DEF EngineInit
<1>2. RenderInv /\ [EngineNext]_EngineVars => RenderInv'
  BY InstancesAreFit, StepsOfParts, RenderStep
<1>3. RenderInv => (part = "render" => W!RenderTypeOK /\ W!FrozenSoundsTheSame)
  BY InstancesAreFit, RenderTypeServes, FrozenServes
<1>4. RenderInv /\ [EngineNext]_EngineVars
        => [W!ExportStems /\ plays.global = "none"
              /\ W!Cardinality({channel[t] : t \in RenderTracks}) = W!Cardinality(RenderTracks)
            => /\ UNION {files.stems[t] : t \in RenderTracks}'
                    = W!Master(W!Played \ muted, W!Offline(gain), mix)
               /\ \A t, u \in RenderTracks : t # u => (files.stems[t] \cap files.stems[u])' = {}]_W!vars
  BY InstancesAreFit, StemsServe
<1> QED
  BY <1>1, <1>2, <1>3, <1>4, PTL DEF EngineSpec, EngineVars, RendersAreTheMix, W!StemsAreTheMix

===============================================================================
