----------------------------- MODULE MCSpscQueue -----------------------------
(***************************************************************************)
(* The engine's event queue, the mixer that sends its faders through it,    *)
(* and the audio streams that empty it, checked side by side: a behaviour   *)
(* chooses one of the three.                                                *)
(*                                                                          *)
(* Two producer threads share a ring of four slots (three usable) and push  *)
(* often enough to fill it, be refused, and wrap around it.  Two faders     *)
(* with two positions share a queue of two events with the notes.  Two      *)
(* WASAPI outputs prefer different rates, and one of them knows both; of    *)
(* two ASIO drivers the second picks its block size; of two plug-ins the    *)
(* second may be one that refuses a new setup.                              *)
(***************************************************************************)
EXTENDS SpscQueue, AudioStreams

CONSTANTS lead, bass, unity, muted, speakers, headset, asio1, asio2

MCPreferred == [d \in OutDevices |-> IF d = speakers THEN 48 ELSE 44]
MCSupported == [d \in OutDevices |-> IF d = speakers THEN {44, 48} ELSE {44}]
MCAsioConfigs == [d \in AsioDevices |->
                    IF d = asio1 THEN {[rate |-> 48, frames |-> 1]}
                    ELSE {[rate |-> 44, frames |-> n] : n \in Sizes}]

VARIABLES part, fader, m_lastCh, queue, m_ch, m_busGain, mode, lost, prepared

mix == <<fader, m_lastCh, queue, m_ch, m_busGain, mode, lost, prepared>>

M == INSTANCE ChannelMix WITH Channels <- {lead, bass}, Mixes <- {unity, muted},
         Unity <- unity, Notes <- TRUE, Room <- 2

ASSUME MixIsFit == M!MixAssumption

EitherInit == /\ part \in {"queue", "mix", "streams"} /\ Init /\ M!Init /\ StreamsInit
              /\ part # "mix" => fader = [c \in {lead, bass} |-> unity]
EitherNext == \/ part = "queue" /\ Next /\ UNCHANGED <<part, mix, streamVars>>
              \/ part = "mix" /\ M!Next /\ UNCHANGED <<part, vars, streamVars>>
              \/ part = "streams" /\ StreamsNext /\ UNCHANGED <<part, vars, mix>>

\* The fairness of the part that runs.
Queueing(Step) == part = "queue" /\ Step
Mixing(Step)   == part = "mix" /\ Step
EitherSpec ==
    /\ EitherInit /\ [][EitherNext]_<<part, vars, mix, streamVars>>
    /\ WF_vars(Queueing(PopRead)) /\ WF_vars(Queueing(PopPublish))
    /\ SF_vars(Queueing(PopChecked /\ tailSeen' = m_tail))
    /\ \A p \in Producers : WF_vars(Queueing(Push(p)))
    /\ WF_mix(Mixing(M!Pop)) /\ \A c \in {lead, bass} : WF_mix(Mixing(M!SendFader(c)))

\* What a fader shows is on its way to the bus, and then to the synthesizer too; a
\* fader that rests reaches its bus, unless its event is dropped or the stream closes.
MixArrives == [](part = "mix" => M!MixIsOnItsWay) /\ M!MixArrives

\* The comment that the mixer applies to synthesizer tracks too.
SynthFollowsMixer == M!SynthFollowsMixer
==============================================================================
