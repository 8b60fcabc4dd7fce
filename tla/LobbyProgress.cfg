\* Two players, two packets lost.
CONSTANTS
    Client = {h, g}
    Host = h
    MaxPlayers = 2
    Match = match
    ForcedRelay = FALSE
    Nobody = Nobody
    Unset = Unset
    Code = x
    Build = v
    Losses = 2
    Flight = 4
SPECIFICATION PromptSpec
PROPERTY EveryoneReady MatchAcknowledged
