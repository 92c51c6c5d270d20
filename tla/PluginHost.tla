------------------------------ MODULE PluginHost ------------------------------
(***************************************************************************)
(* A plug-in and its host, Vst3Host: loading a module, building one of its  *)
(* classes step by step, any of which may be refused, a new setup, the     *)
(* editor window, the patch and its file, blocks of sound, and taking all  *)
(* of it down.  The host runs on the UI thread while no stream runs, and   *)
(* process on the audio thread, so an operation is one step; it is written *)
(* as the calls it makes on the plug-in, each of which is judged by what   *)
(* the plug-in allows then.  A patch is a number, a section of a patch     *)
(* file one byte or none, and what surrounds the sections twelve bytes.    *)
(* A separate controller does not refuse initialize, whose answer the host *)
(* does not look at.                                                       *)
(***************************************************************************)
EXTENDS Integers

CONSTANTS Classes,      \* the module's classes: their controller and buses
          Rates, Sizes, \* sample rates, block sizes
          Patches       \* patches, above 0

\* A class's controller is another object, the component itself, or missing; `wires'
\* are its connection points, `maps' that it maps MIDI controllers to parameters.
Kinds == [controller : {"own", "self", "none"}, wires : BOOLEAN, maps : BOOLEAN,
          ins : 0 .. 2, outs : 0 .. 2]

PluginHostAssumption ==
    /\ Classes # {} /\ Classes \subseteq Kinds
    /\ Rates \subseteq Nat \ {0} /\ Sizes \subseteq Nat \ {0} /\ Patches \subseteq Nat \ {0}

VARIABLES host,    \* Vst3Host::Impl
          plugin,  \* the plug-in's objects
          file,    \* the patch file written by saveState, as far as it is on disk
          spurned, \* calls made on refused plug-ins that did not allow them (history)
          turned   \* the window shows a turn that the component has not heard of (history)

hostVars == <<host, plugin, file, spurned, turned>>

NoSetup == [rate |-> 0, frames |-> 0]
Setups  == [rate : Rates, frames : Sizes]
Empty   == [magic |-> FALSE, size |-> 0, comp |-> 0, ctl |-> 0]
NoClass == [controller |-> "none", wires |-> FALSE, maps |-> FALSE, ins |-> 0, outs |-> 0]

Unloaded == [module |-> FALSE, component |-> FALSE, loaded |-> FALSE, class |-> NoClass,
             setup |-> NoSetup, scratch |-> 0, maps |-> FALSE, view |-> FALSE]

\* A class that has just been created: how often each object is initialised and not yet
\* terminated, and what it has been told.
Created(c) ==
    [class |-> c, component |-> 0, controller |-> 0, active |-> FALSE, processing |-> FALSE,
     setup |-> NoSetup, buses |-> {}, wired |-> FALSE, handler |-> FALSE, view |-> FALSE,
     patch |-> 0, ctl |-> 0, shown |-> 0, mapped |-> FALSE, misused |-> {}]

NoPlugin == Created(NoClass)

-----------------------------------------------------------------------------
(* The plug-in's side. *)

\* What the plug-in allows when, by the comments on the interfaces of the SDK.
Allows(p, call) ==
    CASE call = "setup"        -> p.component > 0 /\ ~p.active
      [] call = "activate"     -> p.setup # NoSetup /\ p.buses # {}
      [] call = "start"        -> p.active
      [] call = "stop"         -> p.active
      [] call = "deactivate"   -> p.component > 0 /\ ~p.processing
      [] call = "wire"         -> p.handler
      [] call = "getState"     -> p.component > 0
      [] call = "attach"       -> p.controller > 0 /\ ~p.view
      [] call = "noController" -> p.controller > 0 /\ ~p.view /\ ~p.wired /\ ~p.handler
      [] call = "noComponent"  -> p.component > 0 /\ ~p.active /\ ~p.wired
      [] OTHER                 -> TRUE

Done(p, call) ==
    CASE call = "component"    -> [p EXCEPT !.component = @ + 1]
      [] call = "controller"   -> [p EXCEPT !.controller = @ + 1]
      [] call = "handler"      -> [p EXCEPT !.handler = TRUE]
      [] call = "noHandler"    -> [p EXCEPT !.handler = FALSE]
      [] call = "wire"         -> [p EXCEPT !.wired = TRUE]
      [] call = "unwire"       -> [p EXCEPT !.wired = FALSE]
      [] call = "getState"     -> [p EXCEPT !.shown = p.patch]
      [] call = "buses"        -> [p EXCEPT !.buses = {0}]
      [] call = "activate"     -> [p EXCEPT !.active = TRUE]
      [] call = "deactivate"   -> [p EXCEPT !.active = FALSE]
      [] call = "start"        -> [p EXCEPT !.processing = TRUE]
      [] call = "stop"         -> [p EXCEPT !.processing = FALSE]
      [] call = "attach"       -> [p EXCEPT !.view = TRUE]
      [] call = "detach"       -> [p EXCEPT !.view = FALSE]
      [] call = "noController" -> [p EXCEPT !.controller = @ - 1]
      [] call = "noComponent"  -> [p EXCEPT !.component = @ - 1]
      [] OTHER                 -> p

Call(p, call) ==
    IF Allows(p, call) THEN Done(p, call) ELSE [Done(p, call) EXCEPT !.misused = @ \cup {call}]

CallIf(condition, p, call) == IF condition THEN Call(p, call) ELSE p

Setup(p, s) == [Call(p, "setup") EXCEPT !.setup = s]

Start(p) == Call(Call(p, "activate"), "start")
Rest(p)  == Call(Call(p, "stop"), "deactivate")

HasController(c) == c.controller # "none"

-----------------------------------------------------------------------------
(* The host's side. *)

TeardownEditor(p) == CallIf(p.view, p, "detach")

\* A controller that is the component is terminated once for either role, as it is
\* initialised.
EndController(p) == IF p.controller > 0 THEN Call(Call(p, "noHandler"), "noController") ELSE p

\* What ends the objects of a plug-in at rest.
EndObjects(p) == Call(EndController(CallIf(p.wired, p, "unwire")), "noComponent")

\* (defect: the component is terminated while it still processes)
TeardownAtOnce(p) == EndObjects(TeardownEditor(p))

\* The processor, if there is one, is stopped and the component deactivated, whatever they
\* have been told before.
TakenDown(p, processor) ==
    EndObjects(Call(CallIf(processor, TeardownEditor(p), "stop"), "deactivate"))

\* teardownPlugin ends what there is of the plug-in.
TeardownPlugin(p) == TakenDown(p, TRUE)

\* What is left of the plug-in when its objects are let go: every object was terminated
\* as often as initialised.
Released(p) ==
    [NoPlugin EXCEPT !.misused =
        p.misused \cup (IF p.component > 0 \/ p.controller > 0 THEN {"leak"} ELSE {})]

\* The plug-in after a teardown, if there is any.
TornDown == IF host.component THEN Released(TeardownPlugin(plugin)) ELSE plugin

\* loadModule and unload take the old plug-in down first.
LoadModule ==
    /\ \E found \in BOOLEAN : host' = [Unloaded EXCEPT !.module = found]
    /\ plugin' = TornDown
    /\ UNCHANGED <<file, spurned, turned>>

Unload == host' = Unloaded /\ plugin' = TornDown /\ UNCHANGED <<file, spurned, turned>>

\* The controller is initialised, given its handler, connected, and told the state.
Controlled(p) ==
    LET c == p.class
    IN  IF ~HasController(c) THEN p
        ELSE Call(CallIf(c.wires, Call(Call(p, "controller"), "handler"), "wire"), "getState")

\* The steps of instantiate at which it may stop, and the plug-in at each.
Made(c)         == [Created(c) EXCEPT !.misused = plugin.misused]
Initialized(c)  == Call(Made(c), "component")
WithPatch(c, x) == [Initialized(c) EXCEPT !.patch = x, !.ctl = x]
Wired(c, x)     == Controlled(WithPatch(c, x))
Bused(c, x)     == Call(Wired(c, x), "buses")

\* (defect: a plug-in that is refused is left as it is)
GivenUpAsIs(p, processor) ==
    /\ host' = [host EXCEPT !.component = FALSE, !.loaded = FALSE, !.view = FALSE]
    /\ plugin' = Released(p) /\ UNCHANGED spurned

\* A refusal on the way takes down what was built, as if it had come to run, and leaves the
\* host without plug-in.  What is done to a component that was not initialised, or not
\* activated, it does not allow; that is told apart from all other calls.
GivenUp(p, processor) ==
    LET end == TakenDown(p, processor)
    IN  /\ host' = [host EXCEPT !.component = FALSE, !.loaded = FALSE, !.view = FALSE]
        /\ plugin' = Released([end EXCEPT !.misused = p.misused])
        /\ spurned' = spurned \cup {<<p.component, call>> : call \in end.misused \ p.misused}

\* (defect: the parameters of the class loaded before are kept)
MappedBefore(c) == host.maps \/ c.maps

\* The table of MIDI controllers is emptied before it is filled.
Mapped(c) == HasController(c) /\ c.maps

\* The end of instantiate readies the buffers of every bus, and the host is loaded.
Running(c, s) == [module |-> TRUE, component |-> TRUE, loaded |-> TRUE, class |-> c,
                  setup |-> s, scratch |-> s.frames, maps |-> Mapped(c), view |-> FALSE]

\* instantiate: no such class, or createInstance refused; initialize refused; no processor;
\* no audio output; setupProcessing refused; or the plug-in runs.
Instantiate(c, s) ==
    /\ host.module
    /\ UNCHANGED file
    /\ LET p0 == [NoPlugin EXCEPT !.misused = TornDown.misused]
           On(p) == [p EXCEPT !.misused = @ \cup p0.misused]
       IN  \/ /\ plugin' = p0 /\ UNCHANGED <<spurned, turned>>
              /\ host' = [host EXCEPT !.component = FALSE, !.loaded = FALSE, !.view = FALSE]
           \/ GivenUp(On(Made(c)), FALSE) /\ UNCHANGED turned
           \/ GivenUp(On(Initialized(c)), FALSE) /\ UNCHANGED turned
           \/ \E x \in Patches :
                 \/ c.outs = 0 /\ GivenUp(On(Wired(c, x)), TRUE) /\ UNCHANGED turned
                 \/ c.outs > 0 /\ GivenUp(On(Bused(c, x)), TRUE) /\ UNCHANGED turned
                 \/ /\ c.outs > 0
                    /\ plugin' = On(Start(Setup(Bused(c, x), s)))
                    /\ host' = Running(c, s) /\ turned' = FALSE /\ UNCHANGED spurned

\* (defect: a plug-in is set up while it is active)
SetupLive(p, s) == Setup(p, s)

\* A new setup is for a plug-in at rest; one that refuses it goes on with the old one.
SetupAtRest(p, s) == Start(Setup(Rest(p), s))

\* (defect: the host takes the new size though the plug-in refused it)
SetupTaken(s) == [host EXCEPT !.setup = s, !.scratch = s.frames]

SetupRefused(s) == host

\* reconfigure
Reconfigure(s) ==
    /\ host.loaded /\ s # host.setup
    /\ \/ /\ plugin' = SetupAtRest(plugin, s)
          /\ host' = [host EXCEPT !.setup = s, !.scratch = s.frames]
       \/ /\ plugin' = SetupAtRest(plugin, host.setup)
          /\ host' = SetupRefused(s)
    /\ UNCHANGED <<file, spurned, turned>>

\* A block of n frames with a MIDI controller in it: addControlChange and process, which
\* cuts the block to the size of the setup; buses that are not used share a buffer.
Cut(n) == IF n > host.setup.frames THEN host.setup.frames ELSE n
Process(n) ==
    /\ host.loaded
    /\ LET other == plugin.class.outs > 1 \/ plugin.class.ins > 1
           fits == /\ plugin.processing /\ Cut(n) <= plugin.setup.frames
                   /\ other => Cut(n) <= host.scratch
                   /\ host.maps => plugin.class.maps
       IN  plugin' = IF fits THEN plugin ELSE [plugin EXCEPT !.misused = @ \cup {"process"}]
    /\ UNCHANGED <<host, file, spurned, turned>>

\* openEditor, whose view may be refused; the window's close button only hides it.
OpenEditor ==
    /\ host.loaded /\ HasController(host.class) /\ ~host.view
    /\ plugin' = Call(plugin, "attach")
    /\ host' = [host EXCEPT !.view = TRUE]
    /\ UNCHANGED <<file, spurned, turned>>

CloseEditor ==
    /\ host.view
    /\ plugin' = TeardownEditor(plugin)
    /\ host' = [host EXCEPT !.view = FALSE]
    /\ UNCHANGED <<file, spurned, turned>>

\* The user turns a knob of the plug-in's window.  The host's handler drops what the
\* controller reports (performEdit), so the component hears of it only past the host, as the
\* same object or over the connection; or the knob is one that only the controller keeps.
Turn ==
    /\ plugin.view
    /\ \E x \in Patches :
          \/ plugin' = [plugin EXCEPT !.shown = x] /\ turned' = TRUE
          \/ /\ plugin.class.controller = "self" \/ plugin.wired
             /\ plugin' = [plugin EXCEPT !.patch = x, !.shown = x] /\ turned' = FALSE
          \/ plugin' = [plugin EXCEPT !.ctl = x] /\ UNCHANGED turned
    /\ UNCHANGED <<host, file, spurned>>

\* saveState: the component's section, and the controller's if it gives one.
SaveState ==
    /\ host.loaded
    /\ \E ctl \in {0} \cup (IF HasController(host.class) THEN {plugin.ctl} ELSE {}) :
          file' = [magic |-> TRUE, comp |-> plugin.patch, ctl |-> ctl,
                   size |-> 12 + 1 + (IF ctl = 0 THEN 0 ELSE 1)]
    /\ UNCHANGED <<host, plugin, spurned, turned>>

\* The file on disk is another one, or cut short.
Damage ==
    /\ file # Empty
    /\ file' \in {[file EXCEPT !.magic = FALSE]} \cup {[file EXCEPT !.size = n] : n \in {0, 11, 12, 13}}
    /\ file'.size <= file.size
    /\ UNCHANGED <<host, plugin, spurned, turned>>

\* (defect: the controller's section may be missing)
CompReadable == file.magic /\ file.size >= 12 + 1

\* loadState looks at the mark and at the length of both sections before it gives any
\* to the plug-in.
Readable == file.magic /\ file.size >= 12 + 1 + (IF file.ctl = 0 THEN 0 ELSE 1)

\* (defect: the controller is not told)
GivenQuietly == [plugin EXCEPT !.patch = file.comp]

\* The component's section, and the controller's side: told the component's, then its own
\* (0 stands for what would be read past the end of the file).
Given ==
    LET told == [plugin EXCEPT !.patch = file.comp, !.shown = IF HasController(host.class)
                                                              THEN file.comp ELSE @]
    IN  IF HasController(host.class) /\ file.ctl # 0
        THEN [told EXCEPT !.ctl = IF file.size >= 14 THEN file.ctl ELSE 0] ELSE told

\* loadState: nothing, if the file cannot be read or the component refuses it.
LoadState ==
    /\ host.loaded
    /\ \/ UNCHANGED <<plugin, turned>>
       \/ Readable /\ plugin' = Given /\ turned' = FALSE
    /\ UNCHANGED <<host, file, spurned>>

Init == host = Unloaded /\ plugin = NoPlugin /\ file = Empty /\ spurned = {} /\ turned = FALSE

Next == \/ LoadModule \/ Unload \/ OpenEditor \/ CloseEditor \/ Turn
        \/ SaveState \/ Damage \/ LoadState
        \/ \E c \in Classes, s \in Setups : Instantiate(c, s)
        \/ \E s \in Setups : Reconfigure(s)
        \/ \E n \in Sizes : Process(n)

Spec == Init /\ [][Next]_hostVars

-----------------------------------------------------------------------------
(* Properties *)

\* Whatever is refused on the way, no call reaches the plug-in in a state it does not
\* allow (the comments at lines 422 and 607), and every object is terminated, but for what
\* teardownPlugin does to a plug-in that was refused: it deactivates and terminates a
\* component that refused to initialize, and stops a processor that was never active.
CallsAreAllowed ==
    /\ plugin.misused = {}
    /\ spurned \subseteq {<<0, "deactivate">>, <<0, "noComponent">>, <<1, "stop">>}
    /\ host.loaded => plugin.processing /\ plugin.setup = host.setup
    /\ ~host.component => plugin = NoPlugin

\* What the window shows is what the component plays, after any load of a patch, until the
\* user turns a knob that the component does not hear of; and a file that is cut or foreign
\* never reaches the plug-in in part.
PatchIsWhole ==
    /\ host.loaded /\ HasController(host.class) /\ ~turned => plugin.shown = plugin.patch
    /\ host.loaded => plugin.patch \in Patches /\ plugin.ctl \in Patches
==============================================================================
