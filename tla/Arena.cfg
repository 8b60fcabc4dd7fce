SPECIFICATION Spec
CONSTANTS
    NumSlots = 3
    NumPlayers = 3
    NumBombs = 2
    NumBlasts = 1
    MaxLive = 2
    StartHp = 2
    SpreadTicks = 1
    FuseTicks = 1
    AttachTicks = 1
    BlastTtl = 3
    TumbleTicks = 2
    InvulnTicks = 1
    RespawnTicks = 2
    RoundTicks = 1
    CountdownTicks = 1
    RoundEndTicks = 1
    RoundsToWin = 1
    AirTicks = 1
    TimerCap = 3
    Presses <- OneMover
INVARIANTS
    TypeOK
    LiveBombsCounted
    HandsMatch
    OneChampion
PROPERTIES
    RoundWonByLast
    OncePerBlast
