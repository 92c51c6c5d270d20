-------------------------------- MODULE Knobs --------------------------------
(***************************************************************************)
(* The parameters of the built-in synthesizer and the knobs of a controller *)
(* that move them: MIDI Learn, the mapping, the sliders, presets, and the    *)
(* files of all three (mapping/MidiMap, audio/SynthPreset, gui/Panels.cpp,   *)
(* gui/App.cpp).                                                            *)
(*                                                                          *)
(* The synthesizer hears of a parameter through the engine's event queue,    *)
(* which nobody empties while no stream is open.  A float is written with    *)
(* six digits: a value is twice what the file shows, plus what it loses.     *)
(***************************************************************************)
EXTENDS Integers, Sequences

CONSTANTS Ccs, Targets, Values, Default, Presets,
          QueueSize,   \* events that the engine's queue holds
          MaxSteps

KnobsAssumption ==
    /\ Values \subseteq Nat /\ Default \in Values /\ QueueSize \in Nat \ {0} /\ MaxSteps \in Nat
    /\ Presets \subseteq [Targets -> Values]

Defaults == [x \in Targets |-> Default]
NoTarget == "none"

VARIABLES
    m_mappings,     \* MidiMap's entries [cc, target], whose order nothing shows
    learnTarget,    \* what waits for a knob
    synthParams,    \* what the panel shows
    queue, m_params,  \* parameters on their way, and the synthesizer's own
    m_open,         \* a stream empties the queue
    refused,        \* history: the newest parameters found no room
    files,          \* the mapping and the parameters on disk, or None
    read,           \* history: which file the last step has read
    steps

vars == <<m_mappings, learnTarget, synthParams, queue, m_params, m_open, refused, files,
          read, steps>>
synthVars == <<synthParams, queue, refused>>

None == [kind |-> "none"]
Count == steps < MaxSteps /\ steps' = steps + 1 /\ read' = NoTarget

\* setParams: the parameters as a whole; a full queue takes no more.
setParams(p) ==
    /\ synthParams' = p
    /\ queue' = IF Len(queue) < QueueSize THEN Append(queue, p) ELSE queue
    /\ refused' = (Len(queue) >= QueueSize)

------------------------------------------------------------------------------
(* The mapping.                                                             *)

\* bind: whatever used the knob or the parameter goes.
\* (defect: only the knob's old parameter goes)
BindKnob(maps, cc, x) == {b \in maps : b.cc # cc} \cup {[cc |-> cc, target |-> x]}
bind(maps, cc, x) ==
    {b \in maps : b.cc # cc /\ b.target # x} \cup {[cc |-> cc, target |-> x]}

\* findTarget
Found(cc) == {b.target : b \in {m \in m_mappings : m.cc = cc}}

\* pumpMonitor: a knob that moves is learnt, or moves what it is bound to.
ControlChange(cc, v) ==
    /\ Count /\ UNCHANGED <<m_params, m_open, files>>
    /\ IF learnTarget # NoTarget
       THEN /\ m_mappings' = bind(m_mappings, cc, learnTarget) /\ learnTarget' = NoTarget
            /\ UNCHANGED synthVars
       ELSE /\ UNCHANGED <<m_mappings, learnTarget>>
            /\ IF Found(cc) = {} THEN UNCHANGED synthVars
               ELSE \E x \in Found(cc) : setParams([synthParams EXCEPT ![x] = v])

\* learnableSlider: the button, its right click, and the slider.
Learn(x) ==
    /\ Count /\ learnTarget' = IF learnTarget = x THEN NoTarget ELSE x
    /\ UNCHANGED <<m_mappings, synthVars, m_params, m_open, files>>
clearTarget(x) ==
    /\ Count /\ m_mappings' = {b \in m_mappings : b.target # x}
    /\ UNCHANGED <<learnTarget, synthVars, m_params, m_open, files>>
clearAll ==
    /\ Count /\ m_mappings' = {}
    /\ UNCHANGED <<learnTarget, synthVars, m_params, m_open, files>>
Shown(p) == Count /\ setParams(p) /\ UNCHANGED <<m_mappings, learnTarget, m_params, m_open, files>>
Slide(x, v) == v # synthParams[x] /\ Shown([synthParams EXCEPT ![x] = v])
LoadBuiltin == \E p \in Presets : Shown(p)

------------------------------------------------------------------------------
(* Files.                                                                   *)

\* Six digits of a value.
Written(p) == [x \in Targets |-> (p[x] \div 2) * 2]
Presetted  == Written(synthParams)

\* saveProjectTo writes both sections, the menus of the panel one of them each.
Save(what) ==
    /\ Count /\ UNCHANGED <<m_mappings, learnTarget, synthVars, m_params, m_open>>
    /\ files' = [f \in DOMAIN files |->
                    IF f \notin what THEN files[f]
                    ELSE IF f = "map" THEN [kind |-> "map", maps |-> m_mappings]
                    ELSE [kind |-> "preset", params |-> Presetted]]

\* deserialize begins with the defaults and takes what it finds; a file of the other kind
\* changes nothing.
Taken(params) == [x \in Targets |-> IF x \in DOMAIN params THEN params[x] ELSE Default]
LoadPreset ==
    /\ files.preset # None /\ steps < MaxSteps /\ steps' = steps + 1 /\ read' = "preset"
    /\ setParams(Taken(files.preset.params))
    /\ UNCHANGED <<m_mappings, learnTarget, m_params, m_open, files>>
LoadMap ==
    /\ files.map # None /\ Count /\ m_mappings' = files.map.maps
    /\ UNCHANGED <<learnTarget, synthVars, m_params, m_open, files>>
LoadProject ==
    /\ files.preset # None /\ files.map # None /\ Count
    /\ m_mappings' = files.map.maps /\ setParams(Taken(files.preset.params))
    /\ UNCHANGED <<learnTarget, m_params, m_open, files>>

------------------------------------------------------------------------------
(* The engine.                                                              *)

Pop ==
    /\ m_open /\ queue # <<>> /\ m_params' = Head(queue) /\ queue' = Tail(queue)
    /\ read' = NoTarget
    /\ UNCHANGED <<m_mappings, learnTarget, synthParams, m_open, refused, files, steps>>
OpenOrClose ==
    /\ Count /\ m_open' = ~m_open
    /\ UNCHANGED <<m_mappings, learnTarget, synthVars, m_params, files>>

\* run() sends the parameters once before the first frame.
Init ==
    /\ m_mappings = {} /\ learnTarget = NoTarget /\ synthParams = Defaults
    /\ queue = <<Defaults>> /\ m_params = Defaults /\ m_open = FALSE /\ refused = FALSE
    /\ files = [map |-> None, preset |-> None] /\ read = NoTarget /\ steps = 0

Next ==
    \/ \E cc \in Ccs, v \in Values : ControlChange(cc, v)
    \/ \E x \in Targets : Learn(x) \/ clearTarget(x) \/ \E v \in Values : Slide(x, v)
    \/ clearAll \/ LoadBuiltin
    \/ \E what \in (SUBSET {"map", "preset"}) \ {{}} : Save(what)
    \/ LoadPreset \/ LoadMap \/ LoadProject
    \/ Pop \/ OpenOrClose

Spec == Init /\ [][Next]_vars

------------------------------------------------------------------------------
(* Properties *)

\* The comment of bind: a knob moves one parameter and a parameter has one knob, through
\* learning, clearing and the files the program has written.
MappingIsOneToOne ==
    \A b, c \in m_mappings : b # c => b.cc # c.cc /\ b.target # c.target

\* The synthesizer has what the panel shows as soon as the queue is empty, unless the
\* newest parameters were refused by a full queue.
SynthHasWhatIsShown == queue = <<>> /\ ~refused => m_params = synthParams

\* A preset gives back what was saved up to its six digits, and saving it again changes
\* nothing.
PresetsAreStable == read = "preset" => files.preset.params = Written(synthParams)
==============================================================================
