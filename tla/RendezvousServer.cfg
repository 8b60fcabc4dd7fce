\* Two table entries, three endpoints: sessions side by side and entries used
\* again, or one session of up to three with every packet in every order.
CONSTANTS
    NumSessions = 2
    MaxPlayers = 3
    Endpoint = {a, b, c}
    SessionId = {x, y}
    Version = {v1, v2}
    Params = {p}
    LobbyExpiry = 0
    StartedExpiry = 0
    RelayExpiry = 0
    RefanPeriod = 0
    Nobody = Nobody
    Unset = Unset
    Pool <- Outcome
SPECIFICATION ServerSpec
ACTION_CONSTRAINT Separable
SYMMETRY Interchangeable
INVARIANT IdsDistinct OneLobbyPerHost MembershipOrdered NoStaleRoute RunningMeansEveryone
PROPERTY DecisionsKept StartOnlyToUnacked
