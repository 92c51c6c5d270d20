\* The audio engine, part by part.
SPECIFICATION EngineSpec
CONSTANTS
    ch1 = ch1
    ch10 = ch10
    Buses = {ch1, ch10}
    DrumBus = ch10
    PluginKeys = {36}
    OneShotKeys = {36}
    ListSize = 2
    ShotSlots = 3
    ShotFrames = 5
    ShotBlocks = {1, 2}
    MaxTriggers = 5
    MaxShotFrames = 8
    ClipFrames = 2
    HeadPositions = {0, 5}
    ClipLists = {"empty", "A", "B"}
    EmptyList = "empty"
    MaxPos = 9
    RenderTracks = {1, 2}
    RenderSetups <- MCSetups
    Outputs = {"hardware", "synth"}
    MidiChannels = {0, 1}
    MidiNotes = {0, 12}
    TypingKeys = {0, 12}
    InputQueueSize = 4
    FrameLimit = 2
    MaxKeySteps = 3
    Ccs = {1, 2}
    Targets = {"cutoff", "attack"}
    Values = {2, 3, 4}
    Default = 2
    Presets <- MCPresets
    ParamQueueSize = 2
    MaxKnobSteps = 5
    Full = 2
    Groups = {0, 9}
    UmpChannels = {0, 15}
    UmpKeys = {0, 60, 74, 120, 123, 127}
    Classes <- MCClasses
    PluginRates = {44}
    PluginSizes = {1, 2}
    Patches = {1, 2}
    MaxVoices = 2
    Channels = {0, 9}
    DrumChannel = 9
    Keys = {36, 60}
    DrumKeys = {36}
    Bends = {"up"}
    MaxNotes = 4
    ChunkFrames = 2
    MaxChunks = 4
    BlockSizes = {1, 2}
    MaxSamples = 8
    MaxTakes = 2
    TapSize = 4
    Guard = 1
    Word = 16
    Lengths = {1, 3}
    MaxWrites = 14
INVARIANTS
    VoicesFollowKeys
    PluginsAreServed
    InputsReachTheSynth
PROPERTIES
    InputIsKept
    SamplesAreHeard
    RendersAreTheMix
\* The recorder stops at its bounds of samples and takes, the one-shots at theirs.
CHECK_DEADLOCK FALSE
