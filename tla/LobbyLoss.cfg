\* Three players, one packet lost.
CONSTANTS
    Client = {h, g1, g2}
    Host = h
    MaxPlayers = 3
    Match = match
    ForcedRelay = TRUE
    Nobody = Nobody
    Unset = Unset
    Code = x
    Build = v
    Losses = 1
    Flight = 5
SPECIFICATION PromptSpec
PROPERTY EveryoneReady
