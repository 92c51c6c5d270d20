----------------------------- MODULE AudioStreams -----------------------------
(***************************************************************************)
(* The audio streams of audio/RtAudioEngine.cpp: a WASAPI output, a WASAPI *)
(* input and an ASIO duplex stream that may be opened, closed, reopened    *)
(* with other settings, and suspended while a plug-in is loaded or a mix   *)
(* is rendered offline.  Each running output stream is a callback thread   *)
(* that renders through all the plug-ins, so two of them must never run,   *)
(* and plug-ins may change only while none does.                           *)
(*                                                                         *)
(* A stream is represented by what its driver runs it with, a sample rate  *)
(* and a block size.  A function of the engine is an operator that gives   *)
(* the set of the states it may leave the engine in: drivers are external  *)
(* and may refuse to open or to start, and choose the block size.          *)
(***************************************************************************)
EXTENDS Naturals

CONSTANTS Rates, Sizes,        \* sample rates, block sizes
          OutDevices,          \* WASAPI outputs
          DefaultDevice,       \* the system's default output
          Preferred,           \* Preferred[d]: the rate WASAPI output d prefers
          Supported,           \* Supported[d]: the rates it supports
          AsioDevices,         \* ASIO drivers
          NoDevice,            \* no ASIO driver used so far
          AsioConfigs,         \* AsioConfigs[d]: what ASIO driver d may run with
          Mute,                \* ASIO drivers that may report no output channel
          Refusing,            \* drivers that may be gone, or refuse to open or start
          StartRate, StartSize,\* m_sampleRate and m_bufferFrames at launch
          PluginSlots,         \* places for a plug-in
          Stubborn             \* those whose plug-in refuses a new setup

Configs == [rate : Rates, frames : Sizes]
NoConfig == [rate |-> 0, frames |-> 0]      \* no stream, no plug-in

ASSUME RatesAssumption == Rates \subseteq Nat \ {0} /\ Sizes \subseteq Nat \ {0}
ASSUME DevicesAssumption ==
    /\ DefaultDevice \in OutDevices
    /\ Preferred \in [OutDevices -> Rates]
    /\ Supported \in [OutDevices -> SUBSET Rates]
    /\ NoDevice \notin AsioDevices
    /\ AsioConfigs \in [AsioDevices -> SUBSET Configs]
    /\ Mute \subseteq Refusing
    /\ StartRate \in Rates /\ StartSize \in Sizes

VARIABLES
    engine,    \* the engine's fields
    upc,       \* the UI thread: "idle", "edit" or "render" while suspended
    saved      \* the StreamSuspend of the operation under way

streamVars == <<engine, upc, saved>>

Engines == [wasapi : Configs \cup {NoConfig},        \* the WASAPI output stream
            asio : Configs \cup {NoConfig},          \* the ASIO stream
            input : Rates \cup {0},                  \* the WASAPI input's rate
            rate : Rates, frames : Sizes,            \* m_sampleRate, m_bufferFrames
            monitor : BOOLEAN,                       \* m_monitor
            device : OutDevices,                     \* m_deviceId
            wanted : Rates \cup {0},                 \* m_preferredSampleRate
            asioDevice : AsioDevices \cup {NoDevice},\* m_asioDeviceIndex
            plugins : [PluginSlots -> Configs \cup {NoConfig}], \* what each was set up with
            touchedLive : BOOLEAN]                   \* history: changed under a callback

\* isOpen: somebody calls renderBlock.
IsOpen(e) == e.wasapi # NoConfig \/ e.asio # NoConfig

\* What a new plug-in, or a new stream, is set up with.
Current(e) == [rate |-> e.rate, frames |-> e.frames]

\* What driver d's refusals may leave; nothing when it never refuses.
OnFault(d, S) == IF d \in Refusing THEN S ELSE {}

-----------------------------------------------------------------------------
(* The engine's functions. *)

\* (defect: the plug-ins are not told)
ReconfigureNothing(e) == e

\* reconfigurePlugins: every loaded plug-in is set up for the engine's rate and
\* block size; one that refuses keeps its old setup.
ReconfigurePlugins(e) ==
    [e EXCEPT !.plugins = [s \in PluginSlots |->
                  IF e.plugins[s] = NoConfig \/ s \in Stubborn
                  THEN e.plugins[s] ELSE Current(e)],
              !.touchedLive = @ \/ IsOpen(e)]

\* The outputs openPort may choose: the user's, or the default if that is gone.
OutputsFor(e) == {e.device} \cup OnFault(e.device, {DefaultDevice})

\* (defect: the user's rate is asked for unconditionally)
OpenRateWanted(e, d) == e.wanted

\* The rate openPort asks for: the user's when the device has it, else the device's.
OpenRate(e, d) == IF e.wanted \in Supported[d] THEN e.wanted ELSE Preferred[d]

\* openPort of output d, nothing open, with a block size of f frames: no device
\* answers; or openStream refuses; or startStream refuses; or the stream runs.
OpenOutputOf(e, d, f) ==
    LET asked == [e EXCEPT !.rate = OpenRate(e, d)]
        opened == ReconfigurePlugins([asked EXCEPT !.frames = f])
    IN  OnFault(d, {e, asked, opened}) \cup {[opened EXCEPT !.wasapi = Current(opened)]}

OpenWasapi(e) == UNION {UNION {OpenOutputOf(e, d, f) : f \in Sizes} : d \in OutputsFor(e)}

\* openPort
OpenPort(e) == IF IsOpen(e) THEN {e} ELSE OpenWasapi(e)

ClosePort(e) == [e EXCEPT !.wasapi = NoConfig]

StopInput(e) == [e EXCEPT !.input = 0]

\* startInput opens the input at the engine's sample rate, or is refused.
StartInput(e) ==
    IF e.input # 0 THEN {e}
    ELSE {e, [e EXCEPT !.input = e.rate]}

\* stopAsioInternal(restoreOutput)
StopAsio(e, restore) ==
    LET stopped == [e EXCEPT !.asio = NoConfig, !.monitor = FALSE]
    IN  IF restore THEN OpenPort(stopped) ELSE {stopped}

\* (defect: the WASAPI streams are left running)
CloseNothing(e) == e

\* startAsio closes both WASAPI streams first.
CloseWasapi(e) == StopInput(ClosePort(e))

\* startAsio of another driver than the running one: the driver reports no output;
\* or openStream or startStream is refused and the WASAPI output reopened; or open.
OpenAsio(e, d) ==
    LET chosen == [e EXCEPT !.asioDevice = d]
        closed == CloseWasapi(chosen)
        opened(c) == ReconfigurePlugins([closed EXCEPT !.rate = c.rate, !.frames = c.frames])
    IN  (IF d \in Mute THEN {chosen} ELSE {})
        \cup OnFault(d, OpenPort(closed))
        \cup (UNION {OnFault(d, OpenPort(opened(c))) : c \in AsioConfigs[d]})
        \cup {[opened(c) EXCEPT !.asio = c, !.monitor = TRUE] : c \in AsioConfigs[d]}

\* startAsio: nothing when there is no driver; a running driver is kept.
StartAsio(e, d) ==
    IF e.asio # NoConfig /\ d = e.asioDevice THEN {[e EXCEPT !.monitor = TRUE]}
    ELSE OnFault(d, {e}) \cup
         (IF e.asio = NoConfig THEN OpenAsio(e, d)
          ELSE UNION {OpenAsio(s, d) : s \in StopAsio(e, FALSE)})

\* (defect: only an ASIO stream is suspended)
SuspendAsioOnly(e) == IF e.asio # NoConfig THEN StopAsio(e, FALSE) ELSE {e}

\* suspendStreams: what it leaves, and what it remembers.
SuspendStreams(e) == IF e.asio # NoConfig THEN StopAsio(e, FALSE) ELSE {ClosePort(e)}

StreamSuspend(e) == [wasAsio |-> e.asio # NoConfig, asioDevice |-> e.asioDevice,
                     wasWasapi |-> e.asio = NoConfig /\ e.wasapi # NoConfig]

\* (defect: only a WASAPI output is restored)
ResumeWasapiOnly(e, s) == IF s.wasWasapi THEN OpenPort(e) ELSE {e}

\* resumeStreams
ResumeStreams(e, s) ==
    IF s.wasAsio THEN StartAsio(e, s.asioDevice)
    ELSE IF s.wasWasapi THEN OpenPort(e) ELSE {e}

\* setBufferFrames and setPreferredSampleRate close the WASAPI streams, change a
\* field (changed is the engine after that), and start what e had running again:
\* the output, then the input.
Restart(e, changed) ==
    LET output == IF e.wasapi # NoConfig THEN OpenPort(changed) ELSE {changed}
    IN  IF e.input # 0 THEN UNION {StartInput(o) : o \in output} ELSE output

-----------------------------------------------------------------------------
StreamsInit ==
    /\ engine = [wasapi |-> NoConfig, asio |-> NoConfig, input |-> 0,
                 rate |-> StartRate, frames |-> StartSize, monitor |-> FALSE,
                 device |-> DefaultDevice, wanted |-> 0, asioDevice |-> NoDevice,
                 plugins |-> [s \in PluginSlots |-> NoConfig], touchedLive |-> FALSE]
    /\ upc = "idle"
    /\ saved = StreamSuspend(engine)

\* An operation of the idle UI thread leaves the engine in one of the states S.
Operation(S) == upc = "idle" /\ engine' \in S /\ UNCHANGED <<upc, saved>>

\* Playback, a note or the settings open the output when it is closed.
OpenOutput == ~IsOpen(engine) /\ Operation(OpenPort(engine))

CloseOutput == IsOpen(engine) /\ Operation({ClosePort(engine)})

\* setOutputDevice reopens the output if the WASAPI stream is open.
SetOutputDevice(d) ==
    /\ d # engine.device
    /\ LET chosen == [engine EXCEPT !.device = d]
       IN  Operation(IF engine.wasapi # NoConfig THEN OpenPort(ClosePort(chosen))
                                                 ELSE {chosen})

\* setBufferFrames, which the preferences offer while ASIO is off.
SetBufferFrames(n) ==
    /\ n # engine.frames /\ engine.asio = NoConfig
    /\ Operation(Restart(engine, [CloseWasapi(engine) EXCEPT !.frames = n]))

\* setPreferredSampleRate; 0 is the device's own rate.
SetPreferredSampleRate(hz) ==
    /\ hz # engine.wanted
    /\ Operation(IF engine.asio # NoConfig THEN {[engine EXCEPT !.wanted = hz]}
                 ELSE Restart(engine, [CloseWasapi(engine) EXCEPT !.wanted = hz]))

\* startAsio, when a track asks for the low-latency input.
TakeAsio(d) == Operation(StartAsio(engine, d))

\* stopAsio, when the track gives it back.
StopAsioInput == engine.asioDevice # NoDevice /\ Operation(StopAsio(engine, TRUE))

\* The practice mode needs an input: ASIO, or else the WASAPI input.
StartPractice(d) ==
    /\ engine.asio = NoConfig /\ engine.input = 0
    /\ Operation(UNION {IF s.asio # NoConfig THEN {s} ELSE StartInput(s) :
                           s \in StartAsio(engine, d)})

\* setInputDevice and setInputChannelMode reopen a running input.
RestartInput ==
    /\ engine.input # 0 /\ engine.asio = NoConfig
    /\ Operation(StartInput(StopInput(engine)))

\* The end of a recording closes the WASAPI input.
CloseInput == engine.asio = NoConfig /\ Operation({StopInput(engine)})

\* The operations that load, remove or move plug-ins, and beginOfflineRender,
\* start with suspendStreams.
Suspend(activity) ==
    /\ upc = "idle"
    /\ engine' \in SuspendStreams(engine)
    /\ saved' = StreamSuspend(engine)
    /\ upc' = activity

BeginEdit == Suspend("edit")
BeginOfflineRender == Suspend("render")

\* A plug-in is loaded (set up for the engine's rate and block size), unloaded, or
\* moved in its chain.
Edit(s) ==
    /\ upc = "edit"
    /\ \E setup \in {NoConfig, Current(engine), engine.plugins[s]} :
          engine' = [engine EXCEPT !.plugins[s] = setup, !.touchedLive = @ \/ IsOpen(engine)]
    /\ UNCHANGED <<upc, saved>>

\* They end, as endOfflineRender does, with resumeStreams.
Resume ==
    /\ upc # "idle"
    /\ engine' \in ResumeStreams(engine, saved)
    /\ upc' = "idle"
    /\ UNCHANGED saved

StreamsNext ==
    \/ OpenOutput \/ CloseOutput \/ StopAsioInput \/ RestartInput \/ CloseInput
    \/ BeginEdit \/ BeginOfflineRender \/ Resume
    \/ \E d \in OutDevices : SetOutputDevice(d)
    \/ \E n \in Sizes : SetBufferFrames(n)
    \/ \E hz \in Rates \cup {0} : SetPreferredSampleRate(hz)
    \/ \E d \in AsioDevices : TakeAsio(d) \/ StartPractice(d)
    \/ \E s \in PluginSlots : Edit(s)

StreamsSpec == StreamsInit /\ [][StreamsNext]_streamVars

-----------------------------------------------------------------------------
(* Properties *)

StreamsTypeOK ==
    /\ engine \in Engines
    /\ upc \in {"idle", "edit", "render"}
    /\ saved \in [wasAsio : BOOLEAN, asioDevice : AsioDevices \cup {NoDevice},
                  wasWasapi : BOOLEAN]

\* Never two output callbacks, which would render into the same buffers (isOpen,
\* lines 217-219), nor two input callbacks feeding the recorder and the tap.
OneCallback ==
    engine.asio # NoConfig => engine.wasapi = NoConfig /\ engine.input = 0

\* Plug-ins are loaded, unloaded, moved and set up only while no output callback
\* runs (reconfigurePlugins, line 1393; the effect chains, line 1406).
NeverTouchedLive == ~engine.touchedLive

\* Whatever sequence of devices, rates, drivers, suspensions and refusals came
\* before, a running stream calls every plug-in with the rate and the block size
\* it was set up for, except one that refused the setup.
PluginsMatchStream ==
    \A s \in PluginSlots \ Stubborn :
        engine.plugins[s] # NoConfig =>
            /\ engine.wasapi \in {NoConfig, engine.plugins[s]}
            /\ engine.asio \in {NoConfig, engine.plugins[s]}

\* The input is passed through to the output exactly while ASIO runs: a failed
\* start, a suspension or a change of driver never leaves it on without ASIO.
MonitorFollowsAsio == engine.monitor = (engine.asio # NoConfig)

\* The claim of RtAudioEngine.h line 414: whatever was done while they were suspended,
\* the streams that ran are brought back as they were, on a driver that never refuses.
RestoredExactly ==
    [][upc # "idle" /\ upc' = "idle" =>
          /\ saved.wasAsio /\ saved.asioDevice \notin Refusing =>
                engine'.asio # NoConfig /\ engine'.asioDevice = saved.asioDevice
          /\ saved.wasWasapi /\ engine.device \notin Refusing => engine'.wasapi # NoConfig
          /\ ~saved.wasAsio =>
                /\ engine'.asio = NoConfig /\ engine'.input = engine.input
                /\ ~saved.wasWasapi => engine'.wasapi = NoConfig]_streamVars

==============================================================================
