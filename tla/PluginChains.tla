---------------------------- MODULE PluginChains -----------------------------
(***************************************************************************)
(* The plug-ins of a track are kept twice: the song lists them with the     *)
(* track (Track::plugins, which is saved), the engine runs them in a chain  *)
(* and an instrument slot of the track's channel (m_trackFx, m_trackInst).   *)
(* The panels change both and find their way from one to the other by       *)
(* counting; opening a project rebuilds the chains from the lists and then   *)
(* gives each plug-in its patch from a file named after its place in the     *)
(* chain (gui/PanelsTrackView.cpp, gui/PanelsMixer.cpp, gui/App.cpp,         *)
(* audio/RtAudioEngine.cpp).                                                 *)
(*                                                                          *)
(* How the engine stops its streams around a change is AudioStreams'.        *)
(***************************************************************************)
EXTENDS Integers, SequencesExt

CONSTANTS Effects,      \* plug-ins with an effect class
          Instruments,  \* plug-ins with an instrument class
          Eq,           \* the built-in effect, it saves its parameters in the list
          Channels,     \* 0..n, tracks are given them in turn
          MaxTracks, MaxPlugins, MaxEdits

Plugins == Effects \cup Instruments
PluginChainsAssumption ==
    /\ {MaxTracks, MaxPlugins, MaxEdits} \subseteq Nat
    /\ \E n \in Channels : n \in Nat /\ Channels = 0..n
    /\ Eq \notin Plugins /\ Effects \cap Instruments = {}

VARIABLES
    tracks,   \* the song: [channel, plugins], a list item as below
    chain,    \* m_trackFx: the effects of each channel
    inst,     \* m_trackInst: at most one instrument of each channel
    undo,     \* the copies of `tracks' that undo puts back
    file,     \* the project file: the lists, and the patches in its side folder
    usable,   \* the plug-ins that load on this machine
    shown,    \* builtinFxCh, builtinFxIdx: the effect whose window is open
    parted,   \* history: channels where chain and lists have gone apart
    opened,   \* history: what the last opening gave, see Open
    before,   \* history: the chains before the last edit, when that moved an effect
    edits

chainsVars == <<tracks, chain, inst, undo, file, usable, shown, parted, opened, before, edits>>

\* A patch remembers which plug-in made it; a built-in keeps its parameters instead.
Factory(p) == [of |-> p, v |-> 0]
Item(p, on, v) == [plugin |-> p, on |-> on, v |-> v]
Host(p) == [plugin |-> p, on |-> TRUE, patch |-> Factory(p)]
IsEffect(it) == it.plugin \notin Instruments

NoFile   == [lists |-> <<>>, patches |-> {}, kept |-> <<>>, whole |-> FALSE]
NoWindow == <<-1, 0>>

\* A first track, with the EQ that every new track gets.
ChainsInit ==
    /\ tracks = <<[channel |-> 0, plugins |-> <<Item(Eq, TRUE, 0)>>]>>
    /\ chain = [c \in Channels |-> IF c = 0 THEN <<Host(Eq)>> ELSE <<>>]
    /\ inst = [c \in Channels |-> <<>>] /\ undo = <<>> /\ file = NoFile /\ usable = Plugins
    /\ shown = NoWindow /\ parted = {} /\ opened = "none" /\ before = <<>> /\ edits = 0

------------------------------------------------------------------------------
(* From a place in the chain to the item in the lists.                      *)

EffectPlaces(list) == {i \in DOMAIN list : IsEffect(list[i])}
InstPlaces(list)   == {i \in DOMAIN list : ~IsEffect(list[i])}

\* The k-th place of S, counted from the front, and what a list has at the places of S.
Nth(S, k)       == CHOOSE i \in S : Cardinality({j \in S : j <= i}) = k
Picked(list, S) == [k \in 1..Cardinality(S) |-> list[Nth(S, k)]]
EffectsIn(list) == Picked(list, EffectPlaces(list))

\* (defect: the instrument of the track is counted as well)
RawIndex(list, k) == IF k \in DOMAIN list THEN k ELSE 0

\* fxPluginIndex: the item of the k-th effect, 0 when the list has fewer.
FxIndex(list, k) ==
    IF Cardinality(EffectPlaces(list)) < k THEN 0 ELSE Nth(EffectPlaces(list), k)

Of(ts, c) == {t \in DOMAIN ts : ts[t].channel = c}

\* What the lists of all tracks on a channel name, in order.
Listed(ts, c) == FoldLeft(LAMBDA list, t : IF t.channel = c THEN list \o t.plugins ELSE list,
                          <<>>, ts)

Shared(ts) == {c \in Channels : Cardinality(Of(ts, c)) > 1}

\* trackFxPlugin: counts through every track of the channel.
WithParam(ts, c, k, v) ==
    [t \in DOMAIN ts |->
        LET earlier == Len(EffectsIn(Listed(SubSeq(ts, 1, t - 1), c)))
            i      == IF k > earlier THEN FxIndex(ts[t].plugins, k - earlier) ELSE 0
        IN  IF ts[t].channel # c \/ i = 0 THEN ts[t] ELSE [ts[t] EXCEPT !.plugins[i].v = v]]

------------------------------------------------------------------------------
(* The panels.                                                              *)

\* What one hears: each channel's effects with their patches.
Patches(ch) == [c \in Channels |-> [k \in DOMAIN ch[c] |-> <<ch[c][k].plugin, ch[c][k].on, ch[c][k].patch>>]]

Edit == edits < MaxEdits /\ edits' = edits + 1 /\ before' = <<>>
Snapshot == undo' = Append(undo, tracks)
Ch(t) == tracks[t].channel
Room(t) == Len(tracks[t].plugins) < MaxPlugins /\ Len(chain[Ch(t)]) < MaxPlugins

\* A channel with two tracks is not one list any more.
Part(cs) == parted' = parted \cup cs

\* addTrackEq: a channel that has the EQ already gives the new track none.
HasEq(c) == \E i \in DOMAIN chain[c] : chain[c][i].plugin = Eq

\* addTrack: the channel is the number of tracks, whoever has it already.
AddTrack ==
    /\ Edit /\ Len(tracks) < MaxTracks
    /\ LET c == Len(tracks) % Cardinality(Channels)
       IN  /\ tracks' = Append(tracks, [channel |-> c,
                                        plugins |-> IF HasEq(c) THEN <<>> ELSE <<Item(Eq, TRUE, 0)>>])
           /\ chain' = IF HasEq(c) THEN chain ELSE [chain EXCEPT ![c] = Append(@, Host(Eq))]
           /\ Part(IF Of(tracks, c) # {} \/ chain[c] # <<>> \/ inst[c] # <<>> THEN {c} ELSE {})
    /\ Snapshot /\ UNCHANGED <<inst, file, usable, shown, opened>>

\* deleteTrack: the channel is cleared when no other track is on it.
DeleteTrack(t) ==
    /\ Edit /\ Snapshot /\ tracks' = RemoveAt(tracks, t)
    /\ LET gone == IF Of(tracks, Ch(t)) = {t} THEN {Ch(t)} ELSE {}
       IN  /\ chain' = [c \in Channels |-> IF c \in gone THEN <<>> ELSE chain[c]]
           /\ inst'  = [c \in Channels |-> IF c \in gone THEN <<>> ELSE inst[c]]
           /\ parted' = parted \ gone
    /\ UNCHANGED <<file, usable, shown, opened>>

\* Added from the menu of a track: no copy for undo is kept.
AddEffect(t, p) ==
    /\ Edit /\ Room(t) /\ p \in usable \cup {Eq}
    /\ chain' = [chain EXCEPT ![Ch(t)] = Append(@, Host(p))]
    /\ tracks' = [tracks EXCEPT ![t].plugins = Append(@, Item(p, TRUE, 0))]
    /\ Part(IF Ch(t) \in Shared(tracks) THEN {Ch(t)} ELSE {})
    /\ shown' = IF p = Eq THEN <<Ch(t), Len(chain[Ch(t)]) + 1>> ELSE shown
    /\ UNCHANGED <<inst, undo, file, usable, opened>>

\* The browser's buttons add a built-in effect to the chain and not to the list.
BrowserEffect(t) ==
    /\ Edit /\ Room(t)
    /\ chain' = [chain EXCEPT ![Ch(t)] = Append(@, Host(Eq))] /\ Part({Ch(t)})
    /\ UNCHANGED <<tracks, inst, undo, file, usable, shown, opened>>

\* loadTrackInstrument empties the slot before it tries the new plug-in.
AddInstrument(t, p) ==
    /\ Edit /\ Room(t)
    /\ inst' = [inst EXCEPT ![Ch(t)] = IF p \in usable THEN <<Host(p)>> ELSE <<>>]
    /\ tracks' = IF p \in usable
                 THEN [tracks EXCEPT ![t].plugins = Append(EffectsIn(@), Item(p, TRUE, 0))]
                 ELSE tracks
    /\ Part(IF Ch(t) \in Shared(tracks) \/ (p \notin usable /\ inst[Ch(t)] # <<>>)
            THEN {Ch(t)} ELSE {})
    /\ UNCHANGED <<chain, undo, file, usable, shown, opened>>

RemoveInstrument(t) ==
    /\ Edit /\ inst[Ch(t)] # <<>>
    /\ inst' = [inst EXCEPT ![Ch(t)] = <<>>]
    /\ tracks' = [tracks EXCEPT ![t].plugins = EffectsIn(@)]
    /\ Part(IF Ch(t) \in Shared(tracks) THEN {Ch(t)} ELSE {})
    /\ UNCHANGED <<chain, undo, file, usable, shown, opened>>

\* The check box of the k-th row.
Toggle(t, k) ==
    /\ Edit /\ k \in DOMAIN chain[Ch(t)]
    /\ LET i  == FxIndex(tracks[t].plugins, k)
           on == ~chain[Ch(t)][k].on
       IN  /\ chain' = [chain EXCEPT ![Ch(t)][k].on = on]
           /\ tracks' = IF i = 0 THEN tracks ELSE [tracks EXCEPT ![t].plugins[i].on = on]
    /\ Part(IF Ch(t) \in Shared(tracks) THEN {Ch(t)} ELSE {})
    /\ UNCHANGED <<inst, undo, file, usable, shown, opened>>

RemoveEffect(t, k) ==
    /\ Edit /\ k \in DOMAIN chain[Ch(t)]
    /\ LET i == FxIndex(tracks[t].plugins, k)
       IN  /\ chain' = [chain EXCEPT ![Ch(t)] = RemoveAt(@, k)]
           /\ tracks' = IF i = 0 THEN tracks ELSE [tracks EXCEPT ![t].plugins = RemoveAt(@, i)]
    /\ Part(IF Ch(t) \in Shared(tracks) THEN {Ch(t)} ELSE {})
    /\ UNCHANGED <<inst, undo, file, usable, shown, opened>>

Swapped(s, a, b) == [s EXCEPT ![a] = s[b], ![b] = s[a]]

\* A row dragged over others is a chain of swaps of neighbours; here, of one.
MoveEffect(t, k) ==
    /\ edits < MaxEdits /\ edits' = edits + 1 /\ before' = <<Patches(chain)>>
    /\ {k, k + 1} \subseteq DOMAIN chain[Ch(t)] /\ Snapshot
    /\ LET a == FxIndex(tracks[t].plugins, k)
           b == FxIndex(tracks[t].plugins, k + 1)
       IN  /\ chain' = [chain EXCEPT ![Ch(t)] = Swapped(@, k, k + 1)]
           /\ tracks' = IF 0 \in {a, b} THEN tracks
                        ELSE [tracks EXCEPT ![t].plugins = Swapped(@, a, b)]
    /\ Part(IF Ch(t) \in Shared(tracks) THEN {Ch(t)} ELSE {})
    /\ UNCHANGED <<inst, file, usable, shown, opened>>

\* A double click opens the window of a built-in effect, by channel and place.
OpenWindow(t, k) ==
    /\ k \in DOMAIN chain[Ch(t)] /\ chain[Ch(t)][k].plugin = Eq
    /\ shown' = <<Ch(t), k>>
    /\ UNCHANGED <<tracks, chain, inst, undo, file, usable, parted, opened, before, edits>>

\* Its sliders set the effect that is at that place now, and the list's item for it.
SetParam(v) ==
    /\ Edit /\ shown # NoWindow
    /\ LET c == shown[1]  k == shown[2]
       IN  IF k \in DOMAIN chain[c] /\ chain[c][k].plugin = Eq
           THEN /\ chain' = [chain EXCEPT ![c][k].patch.v = v]
                /\ tracks' = WithParam(tracks, c, k, v) /\ shown' = shown
           ELSE shown' = NoWindow /\ UNCHANGED <<chain, tracks>>
    /\ UNCHANGED <<inst, undo, file, usable, parted, opened>>

\* The user turns a knob in the plug-in's own editor.
TurnKnob(c, k) ==
    /\ Edit /\ k \in DOMAIN chain[c] /\ chain[c][k].plugin # Eq
    /\ chain' = [chain EXCEPT ![c][k].patch.v = 1]
    /\ UNCHANGED <<tracks, inst, undo, file, usable, shown, parted, opened>>

\* Undo gives the song its old lists; nothing rebuilds the chains.
Undo ==
    /\ Edit /\ undo # <<>>
    /\ tracks' = Last(undo) /\ undo' = Front(undo)
    /\ Part(Shared(tracks') \cup {c \in Channels : Listed(tracks, c) # Listed(tracks', c)})
    /\ UNCHANGED <<chain, inst, file, usable, shown, opened>>

\* So do a new song and an opened .mid file.
NewSong ==
    /\ Edit /\ Snapshot /\ tracks' = <<>>
    /\ Part({c \in Channels : chain[c] # <<>> \/ inst[c] # <<>>})
    /\ UNCHANGED <<chain, inst, file, usable, shown, opened>>

------------------------------------------------------------------------------
(* The project file.                                                        *)

Gone(p) == /\ p \in usable /\ usable' = usable \ {p}
           /\ UNCHANGED <<tracks, chain, inst, undo, file, shown, parted, opened, before, edits>>

\* saveVstStates: files named after the place in the chain, none for a built-in.
PatchFiles == UNION {{<<c, k, chain[c][k].patch>> : k \in {j \in DOMAIN chain[c] : chain[c][j].plugin # Eq}}
                        : c \in Channels}

Save == /\ Edit
        /\ file' = [lists |-> tracks, patches |-> PatchFiles, kept |-> Patches(chain),
                    whole |-> parted = {}]
        /\ UNCHANGED <<tracks, chain, inst, undo, usable, shown, parted, opened>>

\* loadProjectFrom: what does not load leaves the list.
Loads(it) == it.plugin \in usable \cup {Eq}
Found(list) == Picked(list, {i \in DOMAIN list : Loads(list[i])})

Rebuilt(ts, c) == [k \in DOMAIN EffectsIn(Listed(ts, c)) |->
    LET it == EffectsIn(Listed(ts, c))[k]
    IN  [plugin |-> it.plugin, on |-> it.on,
         patch |-> IF it.plugin = Eq THEN [of |-> Eq, v |-> it.v] ELSE Factory(it.plugin)]]

\* The slot takes one instrument after another; one that does not load leaves it empty.
LastInst(list) == LET at == InstPlaces(list)  last == list[Nth(at, Cardinality(at))]
                  IN  IF at # {} /\ Loads(last) THEN <<Host(last.plugin)>> ELSE <<>>

\* (defect: the patch files count the plug-ins without the built-in effects)
PatchedByCount(hosts, c) ==
    [k \in DOMAIN hosts |->
        IF hosts[k].plugin = Eq THEN hosts[k]
        ELSE LET n  == Cardinality({j \in 1..k : hosts[j].plugin # Eq})
                 of == {f \in file.patches : f[1] = c /\ f[2] = n}
             IN  IF of = {} THEN hosts[k] ELSE [hosts[k] EXCEPT !.patch = (CHOOSE f \in of : TRUE)[3]]]

\* loadVstStates: the file for the place, if there is one.
Patched(hosts, c) ==
    [k \in DOMAIN hosts |->
        IF hosts[k].plugin = Eq THEN hosts[k]
        ELSE LET of == {f \in file.patches : f[1] = c /\ f[2] = k}
             IN  IF of = {} THEN hosts[k] ELSE [hosts[k] EXCEPT !.patch = (CHOOSE f \in of : TRUE)[3]]]

Open == /\ Edit /\ file # NoFile /\ Snapshot
        /\ tracks' = [t \in DOMAIN file.lists |-> [file.lists[t] EXCEPT !.plugins = Found(@)]]
        /\ chain' = [c \in Channels |-> Patched(Rebuilt(tracks', c), c)]
        /\ inst'  = [c \in Channels |-> LastInst(Listed(file.lists, c))]
        /\ parted' = Shared(tracks')
        /\ opened' = IF file.whole /\ Shared(tracks') = {} /\ tracks' = file.lists THEN "whole" ELSE "part"
        /\ UNCHANGED <<file, usable, shown>>

ChainsNext ==
    \/ AddTrack \/ Undo \/ NewSong \/ Save \/ Open
    \/ \E t \in DOMAIN tracks :
         \/ DeleteTrack(t) \/ BrowserEffect(t) \/ RemoveInstrument(t)
         \/ \E p \in Effects \cup {Eq} : AddEffect(t, p)
         \/ \E p \in Instruments : AddInstrument(t, p)
         \/ \E k \in 1..MaxPlugins : \/ Toggle(t, k) \/ RemoveEffect(t, k) \/ MoveEffect(t, k)
                                     \/ OpenWindow(t, k)
    \/ SetParam(1)
    \/ \E c \in Channels, k \in 1..MaxPlugins : TurnKnob(c, k)
    \/ \E p \in Plugins : Gone(p)

ChainsSpec == ChainsInit /\ [][ChainsNext]_chainsVars

------------------------------------------------------------------------------
(* Properties *)

\* What runs on a channel is what the song lists for it: the same effects in the same
\* order, each as enabled as its item and a built-in with the parameters of its item,
\* and the same instrument (the counting of fxPluginIndex, trackFxPlugin, swapFx and
\* of the loader).  Channels where the program lets the two go apart are excepted:
\* two tracks on a channel, an undone edit, a new song over loaded plug-ins, the
\* browser's buttons and a failed change of instrument.
Runs(list, row, slot) ==
    LET fx == EffectsIn(list)
    IN  /\ Len(fx) = Len(row)
        /\ \A k \in DOMAIN fx : /\ fx[k].plugin = row[k].plugin /\ fx[k].on = row[k].on
                                /\ fx[k].plugin = Eq => fx[k].v = row[k].patch.v
        /\ Cardinality(InstPlaces(list)) = Len(slot)
        /\ \A i \in InstPlaces(list) : list[i].plugin = slot[1].plugin
ListsMatchChains == \A c \in Channels \ parted : Runs(Listed(tracks, c), chain[c], inst[c])

\* A project whose plug-ins all load sounds as it did when it was saved: every effect has
\* its own patch again although built-in effects stand between the plug-ins
\* (saveVstStates and loadVstStates name files by the place in the chain).
PatchesComeBack == [][Open /\ opened' = "whole" => Patches(chain') = file.kept]_chainsVars

\* The claim of PanelsMixer.cpp line 444: a changed order can be undone.
ReorderIsUndone ==
    [][Undo /\ before # <<>> => Patches(chain') = before[1]]_chainsVars
==============================================================================
