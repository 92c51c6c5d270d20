\* A loop of one bar, played for two rounds, and a player who is never heard.
SPECIFICATION Spec
CONSTANTS
    Parts = {"practice"}
    Metronomes <- MCMetronomes
    ClickStarts = {2}
    ClickCountIns = {0, 8}
    ClickLoops <- MCClickLoops
    Ppqn = 8
    Steps = {3}
    MaxClickTick = 10
    MaxTick = 7
    Jump = 1
    Spots = {1, 5}
    SongLoops <- MCSongLoops
    CountIns = {0, 1}
    SongBar = 4
    MaxTakes = 1
    MaxCommands = 4
    Effects = {"amp", "comp"}
    Instruments = {"piano"}
    Eq = "eq"
    Channels = {0, 1}
    MaxTracks = 2
    MaxPlugins = 3
    MaxChainEdits = 4
    SongFile = "song"
    Sounds = {"a", "b"}
    MaxClips = 2
    MaxVersions = 2
    MaxWorkEdits = 3
    MaxFaults = 1
    Scores <- MCOneBar
    Edits = {}
    LaneBar = 1920
    Starts = {0, 960}
    Frames = {300}
    Patience = 300
    Times = {0}
    Offsets = {}
    Bars = {2}
    CountIn = 1
    Beats = 2
    Enough = 2
    MaxFrames = 14
    MaxClicks = 3
INVARIANT
    LoopsAreJudgedAgain
CHECK_DEADLOCK FALSE
