SPECIFICATION EditorSpec
CONSTANTS
    BarTicks = 4
    Fades = {1}
    Gains = {2}
    MaxDepth = 2
    MaxObjects = 6
    MaxSteps = 3
    MaxTracks = 3
    MaxVersions = 1
    Places = {0, 2, 5}
    Songs <- StartSongs
    Speeds = {1, 2}
    Pitches = {0, 1}
    Ticks = {0, 2}
    Velocities = {64}
    InitialTracks <- StartTracks
    Ppqn = 2
    NoteLen = 1
    Grids = {2}
    Percents = {100}
    MaxEvents = 8
    MaxClips = 2
    MaxNoteSteps = 4
    InitialSongs <- ScoreSongs
    Scores <- TwoScores
    Tabs <- Texts
    ScorePlaces = {0, 17}
    HandNotes <- StrayNotes
    ScorePpqn = 4
    MaxScoreTracks = 4
    MaxScoreSteps = 4
PROPERTY
    ArrangementMovesClips
CHECK_DEADLOCK FALSE
