SPECIFICATION Spec
CONSTANTS
    Parts = {"chains"}
    Metronomes <- MCMetronomes
    ClickStarts = {2}
    ClickCountIns = {0, 8}
    ClickLoops <- MCClickLoops
    Ppqn = 8
    Steps = {3}
    MaxClickTick = 10
    MaxTick = 7
    Jump = 1
    Spots = {1, 5}
    SongLoops <- MCSongLoops
    CountIns = {0, 1}
    SongBar = 4
    MaxTakes = 1
    MaxCommands = 4
    Effects = {"amp", "comp"}
    Instruments = {"piano"}
    Eq = "eq"
    Channels = {0, 1}
    MaxTracks = 2
    MaxPlugins = 3
    MaxChainEdits = 4
    SongFile = "song"
    Sounds = {"a", "b"}
    MaxClips = 2
    MaxVersions = 2
    MaxWorkEdits = 3
    MaxFaults = 1
    Scores <- MCScores
    Edits <- MCEdits
    LaneBar = 1920
    Starts = {0, 960}
    Frames = {600, 1400}
    Patience = 600
    Times = {110, 300}
    Offsets = {100}
    Bars = {2}
    CountIn = 1
    Beats = 2
    Enough = 2
    MaxFrames = 5
    MaxClicks = 3
PROPERTY
    ReorderIsUndone
CHECK_DEADLOCK FALSE
