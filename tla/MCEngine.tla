------------------------------- MODULE MCEngine -------------------------------
(***************************************************************************)
(* The parts of the audio engine that share no state with one another are  *)
(* checked side by side: a behaviour chooses one of them at its start and  *)
(* takes only that part's steps.  Every property is stated in the module   *)
(* of its part and named here for the run, but for those of the voices and  *)
(* the input, whose modules this one extends.                              *)
(***************************************************************************)
EXTENDS Voices, Recording

\* The constants of the parts, those of the voices and the input aside.
CONSTANTS
    Buses, DrumBus, PluginKeys, OneShotKeys, ListSize,                \* PluginNotes, Render
    ShotSlots, ShotFrames, ShotBlocks, MaxTriggers, MaxShotFrames,    \* OneShots
    ClipFrames, HeadPositions, ClipLists, EmptyList, MaxPos,          \* ClipClock
    RenderTracks, RenderSetups,                                       \* Render
    Outputs, MidiChannels, MidiNotes, TypingKeys, InputQueueSize, FrameLimit, MaxKeySteps,
    Ccs, Targets, Values, Default, Presets, ParamQueueSize, MaxKnobSteps,
    Full, Groups, UmpChannels, UmpKeys,
    Classes, PluginRates, PluginSizes, Patches,                       \* PluginHost
    ch1, ch10  \* the channels of the instance, the second the drum channel

VARIABLES part,
          loaded, eventList, activeNote, m_busFrozen, playing, synthNotes, inBlock,
          pressed, moved, refused, quiet,
          slots, triggered, played, born, now, cut,
          m_audioPlaying, m_audioSample, m_mixClips, cpc, base, clips, heard, asked,
          channel, midi, audio, plays, sends, muted, frozen, bounce, gain, m_busSend,
          busAsleep, mix, synced, files, live,
          inputOpen, inQueue, down, m_active, isOpen, softThru, musicalTyping, mtOctave,
          track, typed, pendingOffs, sounding, orphans, lost, keySteps,
          m_mappings, learnTarget, synthParams, changes, m_params, m_open, full, stored,
          read, knobSteps,
          host, plugin, file, spurned, turned

N == INSTANCE PluginNotes WITH DrumChannel <- DrumBus, Keys <- PluginKeys,
         OneShots <- OneShotKeys
O == INSTANCE OneShots WITH Slots <- ShotSlots, Frames <- ShotFrames, Blocks <- ShotBlocks,
         MaxFrames <- MaxShotFrames
C == INSTANCE ClipClock WITH Frames <- ClipFrames, Positions <- HeadPositions,
         Lists <- ClipLists, Empty <- EmptyList
W == INSTANCE Render WITH Tracks <- RenderTracks, Setups <- RenderSetups,
         m_busFrozen <- busAsleep, m_mixClips <- mix
K == INSTANCE MidiIO WITH Channels <- MidiChannels, Notes <- MidiNotes,
         QueueSize <- InputQueueSize, MaxSteps <- MaxKeySteps,
         queue <- inQueue, pressed <- down, channel <- track, held <- typed,
         steps <- keySteps
P == INSTANCE Knobs WITH QueueSize <- ParamQueueSize, MaxSteps <- MaxKnobSteps,
         queue <- changes, refused <- full, files <- stored, steps <- knobSteps
U == INSTANCE Ump WITH Channels <- UmpChannels, Keys <- UmpKeys
H == INSTANCE PluginHost WITH Rates <- PluginRates, Sizes <- PluginSizes

\* What may be loaded when tracks are frozen and rendered.
Loaded(own, global, samples, automated) ==
    [own |-> own, global |-> global, samples |-> samples, automated |-> automated]
MCSetups == {Loaded({}, "none", FALSE, TRUE), Loaded({ch1}, "none", TRUE, FALSE),
             Loaded({ch1, ch10}, ch10, FALSE, FALSE), Loaded({ch10}, "master", FALSE, TRUE),
             Loaded({}, ch1, TRUE, FALSE)}

MCPresets == {[cutoff |-> 4, attack |-> 2]}

\* A synthesizer with a controller of its own, an instrument in one object with two
\* outputs, an effect without controller, and a class without output.
Class(controller, wires, maps, ins, outs) ==
    [controller |-> controller, wires |-> wires, maps |-> maps, ins |-> ins, outs |-> outs]
MCClasses == {Class("own", TRUE, TRUE, 1, 1), Class("self", TRUE, FALSE, 0, 2),
              Class("none", FALSE, FALSE, 2, 1), Class("own", FALSE, FALSE, 0, 0)}

ASSUME InstancesAreFit ==
    /\ H!PluginHostAssumption /\ K!MidiIOAssumption /\ P!KnobsAssumption /\ U!UmpAssumption
    /\ VoicesAssumption /\ N!PluginNotesAssumption /\ RecordingAssumption
    /\ TapAssumption /\ O!OneShotsAssumption /\ C!ClipClockAssumption /\ W!RenderAssumption

nVars == <<loaded, eventList, activeNote, m_busFrozen, playing, synthNotes, inBlock,
           pressed, moved, refused, quiet>>
oVars == <<slots, triggered, played, born, now, cut>>
cVars == <<m_audioPlaying, m_audioSample, m_mixClips, cpc, base, clips, heard, asked>>
wVars == <<channel, midi, audio, plays, sends, muted, frozen, bounce, gain, m_busSend,
           busAsleep, mix, synced, files, live>>
kVars == <<inputOpen, inQueue, down, m_active, isOpen, softThru, musicalTyping, mtOctave,
           track, typed, pendingOffs, sounding, orphans, lost, keySteps>>
pVars == <<m_mappings, learnTarget, synthParams, changes, m_params, m_open, full, stored,
           read, knobSteps>>
hVars == <<host, plugin, file, spurned, turned>>

EngineInit ==
    /\ part \in {"voices", "notes", "recording", "tap", "shots", "clips", "render",
                "keys", "knobs", "host"}
    /\ VoicesInit /\ N!Init /\ Init /\ TapInit /\ O!Init /\ C!Init /\ W!Init /\ K!Init /\ P!Init /\ H!Init
    \* Each part that does not run is in one state of its choice.
    /\ part # "voices" => \A v \in DOMAIN voices : voices[v].channel = 0 /\ voices[v].note = 36
    /\ part # "tap" => m_inTapPos = 0
    /\ m_active = "synth" /\ track = 0 /\ inputOpen
    /\ part # "keys" => musicalTyping /\ \A o \in DOMAIN isOpen : isOpen[o]
    /\ part # "render" => /\ channel = [t \in RenderTracks |-> DrumBus]
                          /\ midi = RenderTracks /\ audio = {} /\ sends = {}
                          /\ plays = CHOOSE p \in RenderSetups : TRUE

EngineNext ==
    \/ part = "voices" /\ VoicesNext /\ UNCHANGED <<part, nVars, vars, tapVars, oVars, cVars, wVars, kVars, pVars, hVars>>
    \/ part = "notes" /\ N!Next /\ UNCHANGED <<part, voiceVars, vars, tapVars, oVars, cVars, wVars, kVars, pVars, hVars>>
    \/ part = "recording" /\ Next /\ UNCHANGED <<part, voiceVars, nVars, tapVars, oVars, cVars, wVars, kVars, pVars, hVars>>
    \/ part = "tap" /\ TapNext /\ UNCHANGED <<part, voiceVars, nVars, vars, oVars, cVars, wVars, kVars, pVars, hVars>>
    \/ part = "shots" /\ O!Next /\ UNCHANGED <<part, voiceVars, nVars, vars, tapVars, cVars, wVars, kVars, pVars, hVars>>
    \/ part = "clips" /\ C!Next /\ UNCHANGED <<part, voiceVars, nVars, vars, tapVars, oVars, wVars, kVars, pVars, hVars>>
    \/ part = "render" /\ W!Next /\ UNCHANGED <<part, voiceVars, nVars, vars, tapVars, oVars, cVars, kVars, pVars, hVars>>
    \/ part = "keys" /\ K!Next /\ UNCHANGED <<part, voiceVars, nVars, vars, tapVars, oVars, cVars, wVars, pVars, hVars>>
    \/ part = "knobs" /\ P!Next /\ UNCHANGED <<part, voiceVars, nVars, vars, tapVars, oVars, cVars, wVars, kVars, hVars>>
    \/ part = "host" /\ H!Next /\ UNCHANGED <<part, voiceVars, nVars, vars, tapVars, oVars, cVars, wVars, kVars, pVars>>

EngineSpec == EngineInit /\ [][EngineNext]_<<part, voiceVars, nVars, vars, tapVars, oVars, cVars, wVars, kVars, pVars, hVars>>

-----------------------------------------------------------------------------

\* Vst3Host and renderBlock: what a plug-in plays is in its host's table, a key that is up
\* does not sound, and nothing does after all notes off; it is called only as it allows,
\* a plug-in that was refused excepted as CallsAreAllowed says, and taken down whole, and a
\* patch reaches it whole or not at all.
PluginsAreServed ==
    /\ part = "notes" => /\ N!PluginNotesTypeOK /\ N!PlayingIsActive /\ N!KeyUpIsSilent /\ N!QuietAfterAllNotesOff
    /\ part = "host" => H!CallsAreAllowed /\ H!PatchIsWhole

\* MIDI input and knobs: whatever sounds has someone who will end it, either protocol plays
\* the same, a knob moves one parameter, and the synthesizer has what the panel shows.
InputsReachTheSynth ==
    /\ part = "keys" => K!KeysAreReleased
    /\ part = "knobs" /\ knobSteps = 0 => U!ProtocolsAgree /\ U!MessagesComeBack  \* no state
    /\ part = "knobs" => P!MappingIsOneToOne /\ P!SynthHasWhatIsShown /\ P!PresetsAreStable

\* One-shots and audio clips: the oldest one-shot is cut and the others are heard to the
\* end; blocks of the clips join.
SamplesAreHeard == [](part = "shots" => O!WholeClipHeard) /\ O!OldestIsCut /\ C!BlocksJoin

\* A frozen track sounds as it did, and the stems hold what the mix holds.
RendersAreTheMix == [](part = "render" => W!RenderTypeOK /\ W!FrozenSoundsTheSame) /\ W!StemsAreTheMix

\* Audio clips: a position the GUI has put holds.
SeekIsKept == C!SeekIsKept
\* Export: the comment that a muted track that is selected is rendered.
SelectedStemSounds == W!SelectedStemSounds
\* Drum samples: the comment that the fader of the track applies.
VolumeReachesSamples == W!VolumeReachesSamples
===============================================================================
