\* One session of two players, with deadlines of different length.
CONSTANTS
    NumSessions = 1
    MaxPlayers = 2
    Endpoint = {a, b}
    SessionId = {x}
    Version = {v}
    Params = {p}
    LobbyExpiry = 1
    StartedExpiry = 1
    RelayExpiry = 2
    RefanPeriod = 1
    Nobody = Nobody
    Unset = Unset
    Pool <- LastSent
SPECIFICATION FairSpec
INVARIANT TypeOK
PROPERTY NotReapedEarly MatchReclaimed RelayReclaimed LobbyReclaimed
