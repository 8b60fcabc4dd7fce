\* Two players who probe each other.
CONSTANTS
    Client = {h, g}
    Host = h
    MaxPlayers = 2
    Match = match
    ForcedRelay = FALSE
    Nobody = Nobody
    Unset = Unset
    Code = x
    Build = v
    Losses = 0
    Flight = 4
SPECIFICATION Spec
INVARIANT DirectMeansAnswered
PROPERTY ReachesAgreement
