SPECIFICATION EitherSpec
CONSTANTS
    Capacity = 4
    Producers = {ui, player}
    NoThread = NoThread
    MaxPushes = 6
    lead = lead
    bass = bass
    unity = unity
    muted = muted
    speakers = speakers
    headset = headset
    asio1 = asio1
    asio2 = asio2
    NoDevice = NoDevice
    Rates = {44, 48}
    Sizes = {1, 2}
    OutDevices = {speakers, headset}
    DefaultDevice = speakers
    Preferred <- MCPreferred
    Supported <- MCSupported
    AsioDevices = {asio1, asio2}
    AsioConfigs <- MCAsioConfigs
    Mute = {asio2}
    Refusing = {headset, asio2}
    StartRate = 44
    StartSize = 2
    PluginSlots = {lead, bass}
    Stubborn = {bass}
INVARIANTS
    TypeOK
    NoSlotRace
    StreamsTypeOK
    OneCallback
    NeverTouchedLive
    PluginsMatchStream
PROPERTIES
    ImplementsFifo
    AcceptedIsDelivered
    MixArrives
    RestoredExactly
\* The producers stop at their bound of pushes.
CHECK_DEADLOCK FALSE
