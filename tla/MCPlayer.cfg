SPECIFICATION FairSpec
CONSTANTS
    low = low
    high = high
    piano = piano
    organ = organ
    Songs <- MCSongs
    Notes = {low, high}
    Programs = {piano, organ}
    Starts = {2}
    PreRolls = {0, 2}
    KeepAlives = {TRUE, FALSE}
    Loops <- MCLoops
    Metros <- MCNoMetro
    Ppqn = 8
    Steps = {1, 3}
    MaxTick = 7
INVARIANTS
    SoundFitsPosition
    CaughtUp
PROPERTIES
    RewindShowsCountIn
    PlaybackEnds
