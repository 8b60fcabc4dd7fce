\* Two peers, guesses up to two ticks ahead, a ring that forgets, a history
\* that ends before the match.
CONSTANTS
    Player = {p, q}
    Input = {x, y}
    NoInput = NoInput
    NoState = NoState
    Nobody = Nobody
    Window = 2
    Delay = 0
    HistTicks = 3
    RingSize = 3
    Length = 4
SPECIFICATION TurnSpec
SYMMETRY Alike
INVARIANT TypeOK HistoryConfirmed SettledHashesAgree ReplayNamesTheTick DesyncIsReal
PROPERTY RollbackInvisible
CHECK_DEADLOCK FALSE
