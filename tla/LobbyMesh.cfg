\* Three players, none of whom probes.
CONSTANTS
    Client = {h, g1, g2}
    Host = h
    MaxPlayers = 3
    Match = match
    ForcedRelay = TRUE
    Nobody = Nobody
    Unset = Unset
    Code = x
    Build = v
    Losses = 0
    Flight = 5
SPECIFICATION WorkSpec
SYMMETRY SameGuests
INVARIANT RosterAgrees
INVARIANT PlayersMeet
PROPERTY ReachesAgreement
