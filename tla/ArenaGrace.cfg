SPECIFICATION FairSpec
CONSTANTS
    NumSlots = 2
    NumPlayers = 2
    NumBombs = 2
    NumBlasts = 1
    MaxLive = 2
    StartHp = 2
    SpreadTicks = 1
    FuseTicks = 1
    AttachTicks = 1
    BlastTtl = 1
    TumbleTicks = 1
    InvulnTicks = 1
    RespawnTicks = 1
    RoundTicks = 1
    CountdownTicks = 1
    RoundEndTicks = 1
    RoundsToWin = 1
    AirTicks = 1
    TimerCap = 2
    Presses <- OneMover
PROPERTIES
    InvulnerabilityEnds
