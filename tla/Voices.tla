-------------------------------- MODULE Voices --------------------------------
(***************************************************************************)
(* The voice pool of the built-in synthesizer (Synth), which only the      *)
(* audio callback touches.  A Note On takes a free voice or the one that   *)
(* has played longest; a Note Off, which names a channel and a key and not *)
(* a voice, must reach the voices that still play them and no other.       *)
(* Percussion on the drum channel is one-shot: Note Offs pass it by.       *)
(***************************************************************************)
EXTENDS Naturals, Sequences

CONSTANTS MaxVoices,              \* kMaxVoices
          Channels, DrumChannel,  \* MIDI channels; the one percussion is played on
          Keys, DrumKeys,         \* keys; those the drum map has a sound for
          Bends,                  \* pitch bends other than the neutral one
          MaxNotes                \* bound: Note Ons in a behaviour

VoicesAssumption == /\ MaxVoices \in Nat \ {0} /\ MaxNotes \in Nat
                    /\ DrumKeys \subseteq Keys
                    /\ "neutral" \notin Bends

VARIABLES voices,          \* m_voices
          m_orderCounter,
          held,            \* history: the Note Ons not released, as <<order, channel, key>>
          bends            \* history: per Note On, the last bend sent to it

voiceVars == <<voices, m_orderCounter, held, bends>>

Pool == 1 .. MaxVoices
Bend == Bends \cup {"neutral"}
Voice == [active : BOOLEAN, channel : Channels, note : Keys, drum : BOOLEAN,
          startOrder : 0 .. MaxNotes, env : {"idle", "held", "release"},
          bendNorm : Bend, perNoteBendNorm : Bend]

Unused(c, k) == [active |-> FALSE, channel |-> c, note |-> k, drum |-> FALSE,
                 startOrder |-> 0, env |-> "idle",
                 bendNorm |-> "neutral", perNoteBendNorm |-> "neutral"]

VoicesInit == /\ \E c \in Channels, k \in Keys : voices = [v \in Pool |-> Unused(c, k)]
              /\ m_orderCounter = 0
              /\ held = {}
              /\ bends = << >>

IsDrum(c, k) == c = DrumChannel /\ k \in DrumKeys
Matches(v, c, k) == voices[v].active /\ voices[v].channel = c /\ voices[v].note = k

-----------------------------------------------------------------------------
(* Note messages. *)

\* (defect: the newest voice is stolen)
NewestStolen(v) ==
    IF \E w \in Pool : ~voices[w].active
    THEN ~voices[v].active
    ELSE \A w \in Pool : voices[w].startOrder <= voices[v].startOrder

\* The first inactive voice, or else the first of those started earliest.
findFreeVoice(v) ==
    IF \E w \in Pool : ~voices[w].active
    THEN ~voices[v].active /\ \A w \in 1 .. v - 1 : voices[w].active
    ELSE \A w \in Pool : voices[v].startOrder <= voices[w].startOrder

\* noteOn and noteOnFloat: the voice starts afresh; a drum leaves the envelope alone.
noteOn(c, k) ==
    /\ m_orderCounter < MaxNotes
    /\ m_orderCounter' = m_orderCounter + 1
    /\ \E v \in Pool :
        /\ findFreeVoice(v)
        /\ voices' = [voices EXCEPT ![v] =
              [active |-> TRUE, channel |-> c, note |-> k, drum |-> IsDrum(c, k),
               startOrder |-> m_orderCounter',
               env |-> IF IsDrum(c, k) THEN @.env ELSE "held",
               bendNorm |-> "neutral", perNoteBendNorm |-> "neutral"]]
    /\ held' = IF IsDrum(c, k) THEN held ELSE held \cup {<<m_orderCounter', c, k>>}
    /\ bends' = Append(bends, "neutral")

\* Adsr::noteOff
Released(voice) == IF voice.env = "idle" THEN voice ELSE [voice EXCEPT !.env = "release"]

noteOff(c, k) ==
    /\ voices' = [v \in Pool |-> IF Matches(v, c, k) /\ ~voices[v].drum
                                 THEN Released(voices[v]) ELSE voices[v]]
    /\ held' = {h \in held : h[2] # c \/ h[3] # k}
    /\ UNCHANGED <<m_orderCounter, bends>>

allNotesOff ==
    /\ voices' = [v \in Pool |-> IF voices[v].active THEN Released(voices[v]) ELSE voices[v]]
    /\ held' = {}
    /\ UNCHANGED <<m_orderCounter, bends>>

\* allSoundOff, and prepare when a stream opens: every voice stops where it is.
allSoundOff ==
    /\ voices' = [v \in Pool |-> [voices[v] EXCEPT !.active = FALSE]]
    /\ held' = {}
    /\ UNCHANGED <<m_orderCounter, bends>>

-----------------------------------------------------------------------------
(* Expression, and the end of a voice. *)

Heard(i) == \E v \in Pool : voices[v].active /\ voices[v].startOrder = i
VoiceOf(i) == CHOOSE v \in Pool : voices[v].active /\ voices[v].startOrder = i

setPitchBend(c, b) ==
    /\ voices' = [v \in Pool |-> IF voices[v].active /\ voices[v].channel = c
                                 THEN [voices[v] EXCEPT !.bendNorm = b] ELSE voices[v]]
    /\ bends' = [i \in DOMAIN bends |->
                    IF Heard(i) /\ voices[VoiceOf(i)].channel = c THEN b ELSE bends[i]]
    /\ UNCHANGED <<m_orderCounter, held>>

setPerNotePitchBend(c, k, b) ==
    /\ voices' = [v \in Pool |-> IF Matches(v, c, k)
                                 THEN [voices[v] EXCEPT !.perNoteBendNorm = b] ELSE voices[v]]
    /\ UNCHANGED <<m_orderCounter, held, bends>>

\* renderBuses: a voice whose release, or whose drum sound, has died away is taken back.
VoiceEnds(v) ==
    /\ voices[v].active
    /\ \/ voices[v].drum /\ voices' = [voices EXCEPT ![v].active = FALSE]
       \/ /\ ~voices[v].drum /\ voices[v].env = "release"
          /\ voices' = [voices EXCEPT ![v].active = FALSE, ![v].env = "idle"]
    /\ UNCHANGED <<m_orderCounter, held, bends>>

VoicesNext == \/ \E c \in Channels, k \in Keys : noteOn(c, k) \/ noteOff(c, k)
              \/ \E c \in Channels, b \in Bend : setPitchBend(c, b)
              \/ \E c \in Channels, k \in Keys, b \in Bend : setPerNotePitchBend(c, k, b)
              \/ allNotesOff \/ allSoundOff
              \/ \E v \in Pool : VoiceEnds(v)

VoicesSpec == VoicesInit /\ [][VoicesNext]_voiceVars

-----------------------------------------------------------------------------
(* Properties. *)

\* Every variable keeps its shape.
VoicesTypeOK ==
    /\ voices \in [Pool -> Voice]
    /\ m_orderCounter \in 0 .. MaxNotes
    /\ held \subseteq (1 .. MaxNotes) \X Channels \X Keys
    /\ bends \in Seq(Bend) /\ Len(bends) = m_orderCounter

\* A voice that sounds at full level belongs to a key that is down: no Note Off that came
\* after its Note On has passed it by, whatever was stolen in between.
HeldVoiceHasItsKey ==
    \A v \in Pool : voices[v].active /\ ~voices[v].drum /\ voices[v].env # "release" =>
        <<voices[v].startOrder, voices[v].channel, voices[v].note>> \in held

\* Stealing takes only what is oldest: a key that is down and among the newest
\* MaxVoices notes sounds, in spite of every other note's Note Off.
NewestKeysSound ==
    \A h \in held : m_orderCounter - h[1] < MaxVoices =>
        \E v \in Pool : /\ voices[v].active /\ ~voices[v].drum /\ voices[v].env = "held"
                        /\ voices[v].startOrder = h[1]
                        /\ voices[v].channel = h[2] /\ voices[v].note = h[3]

\* A note is bent by what was sent since it began, not by what its voice, or its channel,
\* was bent to before.
BentSinceStart ==
    \A v \in Pool : voices[v].active => voices[v].bendNorm = bends[voices[v].startOrder]

\* What the pool plays follows from the keys and the bends.
VoicesFollowKeys == VoicesTypeOK /\ HeldVoiceHasItsKey /\ NewestKeysSound /\ BentSinceStart
===============================================================================
