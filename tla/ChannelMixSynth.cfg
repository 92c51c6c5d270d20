SPECIFICATION Spec
CONSTANTS
    Channels = {lead}
    Mixes = {unity, muted}
    Unity = unity
    Notes = FALSE
    Room = 3
INVARIANTS
    SynthFollowsMixer
