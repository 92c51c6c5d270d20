------------------------------ MODULE ChannelMix ------------------------------
(***************************************************************************)
(* How a mixer fader reaches the sound.  Every GUI frame hands the volume  *)
(* and pan of each track's channel to RtAudioEngine::setChannelMix, which  *)
(* remembers the last value and queues an event only when it changed.  The *)
(* audio callback applies the event twice: to the built-in synthesizer's   *)
(* own channel gains and to the gains of the VST buses.  The synthesizer's *)
(* gains go back to unity whenever a stream is opened or an offline render *)
(* begins (Synth::prepare); the bus gains and the cache do not.            *)
(*                                                                         *)
(* The queue is the bounded FIFO that SpscQueue is shown to implement; the *)
(* other events that share it are notes, of which only the place they take *)
(* matters here.                                                           *)
(***************************************************************************)
EXTENDS Naturals, SequencesExt

CONSTANTS Channels,
          Mixes, Unity,   \* volume and pan pairs; full volume, centred
          Notes,          \* whether notes share the queue
          Room            \* events the queue can hold

MixAssumption == "none" \notin Channels /\ Unity \in Mixes /\ Notes \in BOOLEAN /\ Room \in Nat

VARIABLES
    fader,       \* fader[c]: what the mixer shows for channel c
    m_lastCh,    \* m_lastChGain and m_lastChPan: the cache of setChannelMix
    queue,       \* events accepted and not yet popped
    m_ch,        \* m_chGain and m_chPan: what the synthesizer plays with
    m_busGain,   \* what the VST bus of the channel plays with
    mode,        \* "closed", "running" stream, or "offline" render
    lost,        \* history: the channel's newest event was dropped
    prepared     \* history: Synth::prepare ran after the channel's last event

vars == <<fader, m_lastCh, queue, m_ch, m_busGain, mode, lost, prepared>>

Note == [channel |-> "none"]
MixEvent(c, mix) == [channel |-> c, value |-> mix]
Events == [channel : Channels, value : Mixes]

AllUnity == [c \in Channels |-> Unity]

Init == /\ fader \in [Channels -> Mixes]
        /\ m_lastCh = AllUnity
        /\ queue = << >>
        /\ m_ch = AllUnity
        /\ m_busGain = AllUnity
        /\ mode = "closed"
        /\ lost = [c \in Channels |-> FALSE]
        /\ prepared = [c \in Channels |-> FALSE]

-----------------------------------------------------------------------------
(* The control thread. *)

\* The user, an automation curve, undo or a loaded song moves a fader.
MoveFader(c) ==
    /\ \E mix \in Mixes \ {fader[c]} : fader' = [fader EXCEPT ![c] = mix]
    /\ UNCHANGED <<m_lastCh, queue, m_ch, m_busGain, mode, lost, prepared>>

\* pushEvent: the queue takes the event, or drops it.
HasRoom == Len(queue) < Room

\* setChannelMix with a value that differs from the last one.
SetChannelMix(c, mix) ==
    /\ m_lastCh[c] # mix
    /\ m_lastCh' = [m_lastCh EXCEPT ![c] = mix]
    /\ queue' = IF HasRoom THEN Append(queue, MixEvent(c, mix)) ELSE queue
    /\ lost' = [lost EXCEPT ![c] = ~HasRoom]
    /\ UNCHANGED <<fader, m_ch, m_busGain, prepared>>

\* applyTransportState, once per frame, and the export's automation.
SendFader(c) == SetChannelMix(c, fader[c]) /\ UNCHANGED mode

\* A note is played, or dropped.
SendNote ==
    /\ Notes /\ HasRoom
    /\ queue' = Append(queue, Note)
    /\ UNCHANGED <<fader, m_lastCh, m_ch, m_busGain, mode, lost, prepared>>

\* Synth::prepare.
Prepare == /\ m_ch' = AllUnity
           /\ prepared' = [c \in Channels |-> TRUE]

\* openPort and startAsio, resumeStreams included.
OpenStream ==
    /\ mode = "closed"
    /\ Prepare
    /\ mode' = "running"
    /\ UNCHANGED <<fader, m_lastCh, queue, m_busGain, lost>>

\* closePort, stopAsio, suspendStreams; endOfflineRender leaves the streams closed
\* until it resumes them.
CloseStream ==
    /\ mode # "closed"
    /\ mode' = "closed"
    /\ UNCHANGED <<fader, m_lastCh, queue, m_ch, m_busGain, lost, prepared>>

\* beginOfflineRender, for an export: the streams were suspended.
BeginRender ==
    /\ mode = "closed"
    /\ Prepare
    /\ mode' = "offline"
    /\ UNCHANGED <<fader, m_lastCh, queue, m_busGain, lost>>

\* Freezing a track asks for a mix of unity before it renders.
Freeze(c) == mode # "offline" /\ SetChannelMix(c, Unity) /\ UNCHANGED mode

-----------------------------------------------------------------------------
(* The audio callback, or the offline render in its place. *)

\* (defect: the bus gains are not updated)
ApplyToSynthOnly(e) ==
    /\ m_ch' = [m_ch EXCEPT ![e.channel] = e.value]
    /\ prepared' = [prepared EXCEPT ![e.channel] = FALSE]
    /\ UNCHANGED m_busGain

\* EngineEvent::Type::ChannelMix
ApplyMix(e) ==
    /\ m_ch' = [m_ch EXCEPT ![e.channel] = e.value]
    /\ m_busGain' = [m_busGain EXCEPT ![e.channel] = e.value]
    /\ prepared' = [prepared EXCEPT ![e.channel] = FALSE]

\* renderBlock pops the queue.
Pop ==
    /\ mode # "closed" /\ queue # << >>
    /\ IF Head(queue) = Note THEN UNCHANGED <<m_ch, m_busGain, prepared>>
                             ELSE ApplyMix(Head(queue))
    /\ queue' = Tail(queue)
    /\ UNCHANGED <<fader, m_lastCh, mode, lost>>

-----------------------------------------------------------------------------
Next == \/ \E c \in Channels : MoveFader(c) \/ SendFader(c) \/ Freeze(c)
        \/ SendNote \/ OpenStream \/ CloseStream \/ BeginRender \/ Pop

Spec == Init /\ [][Next]_vars

\* Frames keep coming, and so do the callbacks of a running stream.
Fairness == WF_vars(Pop) /\ \A c \in Channels : WF_vars(SendFader(c))

FairSpec == Spec /\ Fairness

-----------------------------------------------------------------------------
(* Properties *)

TypeOK == /\ fader \in [Channels -> Mixes] /\ m_lastCh \in [Channels -> Mixes]
          /\ queue \in Seq(Events \cup {Note}) /\ Len(queue) =< Room
          /\ m_ch \in [Channels -> Mixes] /\ m_busGain \in [Channels -> Mixes]
          /\ mode \in {"closed", "running", "offline"}
          /\ lost \in [Channels -> BOOLEAN] /\ prepared \in [Channels -> BOOLEAN]

\* The events of channel c under way; what c's bus will have once the queue is empty is the
\* value of the newest, if there is one.
Sent(c) == {k \in DOMAIN queue : queue[k].channel = c}
WillArrive(c, mix) ==
    IF Sent(c) = {} THEN m_busGain[c] = mix
    ELSE \A k \in Sent(c) : (\A j \in Sent(c) : j =< k) => queue[k].value = mix

\* The cache may suppress an event only because the value is already on its way:
\* unless the queue dropped the newest event, what it holds is what will arrive.
CacheIsOnItsWay == \A c \in Channels : ~lost[c] => WillArrive(c, m_lastCh[c])

\* The synthesizer and the VST bus of a channel play with the same mix, except
\* between Synth::prepare and the next change of that channel.
SynthAgreesWithBus == \A c \in Channels : ~prepared[c] => m_ch[c] = m_busGain[c]

\* What the mixer last showed is on its way to the bus, and then to the synthesizer too.
MixIsOnItsWay == TypeOK /\ CacheIsOnItsWay /\ SynthAgreesWithBus

\* A fader's position reaches the channel's bus, unless the fader moves again, its
\* event is dropped, or the stream is closed.
MixArrives ==
    \A c \in Channels, mix \in Mixes :
        (mode = "running" /\ fader[c] = mix) ~>
            (m_busGain[c] = mix \/ fader[c] # mix \/ lost[c] \/ mode # "running")

\* All the mixer has sent has arrived, and a callback plays.
Settled == mode # "closed" /\ queue = << >> /\ m_lastCh = fader

\* The claim of Panels.cpp line 664: the mixer applies to synthesizer tracks too.
SynthFollowsMixer == Settled => m_ch = fader
==============================================================================
