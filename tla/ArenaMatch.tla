----------------------------- MODULE ArenaMatch -----------------------------
(***************************************************************************)
(* The rules of the arena (src/arena/arena_sim.c): phases of a match, what *)
(* players do with bombs, how bombs go off and blasts chain and hurt.      *)
(*                                                                         *)
(* A tick is one call of arena_tick, a fixed sequence of loops.  One       *)
(* action is one pass of a loop body, and `at' says which is next, so the  *)
(* order is the code's and nothing is optional.  A tick begins and ends    *)
(* at <<"phase", 1>>.                                                      *)
(*                                                                         *)
(* Where bodies are is left out: who touches or reaches whom is a choice.  *)
(* Heights are kept as far as rules depend on them: nothing but a jump and *)
(* a blast lifts a player, so `air' counts the moves until landing.        *)
(* Slot i and bomb i of the code are slot i + 1 and bomb i + 1 here, which *)
(* is how held_bomb numbers bombs already.                                 *)
(***************************************************************************)
EXTENDS Integers, FiniteSets

CONSTANTS
    NumSlots,       \* ARENA_MAX_PLAYERS
    NumPlayers,     \* num_players: slots 1 .. NumPlayers are taken
    NumBombs,       \* ARENA_MAX_BOMBS
    NumBlasts,      \* ARENA_MAX_BLASTS
    MaxLive,        \* TUNE_MAX_LIVE_BOMBS
    StartHp,        \* TUNE_START_HP
    SpreadTicks,    \* and the durations of the same names, in ticks
    FuseTicks,
    AttachTicks,
    BlastTtl,
    TumbleTicks,
    InvulnTicks,
    RespawnTicks,
    RoundTicks,
    CountdownTicks,
    RoundEndTicks,
    RoundsToWin,
    AirTicks,       \* the most moves a jump or a blast keeps one in the air
    TimerCap,       \* where a player's timer saturates (0xFFFF)
    Presses         \* Presses[i]: the buttons the player in slot i may press

ASSUME CountAssumption ==
    /\ NumSlots \in Nat \ {0} /\ NumPlayers \in 1 .. NumSlots
    /\ NumBombs \in Nat \ {0} /\ NumBlasts \in Nat \ {0}
    /\ MaxLive \in Nat
    /\ StartHp \in Nat \ {0} /\ RoundsToWin \in Nat \ {0}
ASSUME TickAssumption ==
    /\ {SpreadTicks, AttachTicks, BlastTtl, TumbleTicks, InvulnTicks,
        RespawnTicks, RoundTicks, CountdownTicks, RoundEndTicks} \subseteq Nat
    /\ FuseTicks \in Nat \ {0} /\ AirTicks \in Nat \ {0}
    /\ TimerCap \in Nat /\ SpreadTicks <= TimerCap
    /\ TumbleTicks + InvulnTicks <= TimerCap /\ RespawnTicks <= TimerCap

ASSUME PressAssumption ==
    Presses \in [1 .. NumSlots -> SUBSET [jump : BOOLEAN, bomb : BOOLEAN, set : BOOLEAN]]

VARIABLES
    phase,      \* s->phase
    clock,      \* s->phase_timer
    players,    \* s->players
    bombs,      \* s->bombs
    blasts,     \* s->blasts
    at          \* the loop of arena_tick and the pass that is next

vars == <<phase, clock, players, bombs, blasts, at>>

Slot    == 1 .. NumSlots
Taken   == 1 .. NumPlayers
Bomb    == 1 .. NumBombs
BlastId == 1 .. NumBlasts
NoBomb  == 0

Phase      == {"countdown", "play", "sudden", "roundend"}
\* IDLE and RUN differ in speed only and are one here.
Stance     == {"idle", "jump", "tumble", "dead"}
BombState  == {"free", "held", "airborne", "falling", "settled", "sliding",
               "exploding"}
Buttons    == [jump : BOOLEAN, bomb : BOOLEAN, set : BOOLEAN]
Released   == [jump |-> FALSE, bomb |-> FALSE, set |-> FALSE]

Player ==
    [ state : Stance,
      hp    : 0 .. StartHp,
      timer : 0 .. TimerCap,        \* of the hold, the stun, the grace or death
      won   : Nat,                  \* stocks_won
      held  : Bomb \cup {NoBomb},   \* held_bomb
      live  : Nat,                  \* live_bombs
      last  : Buttons,              \* last_input
      air   : 0 .. AirTicks + 1 ]

BombRecord ==
    [ state : BombState, owner : Slot, fuse : 0 .. FuseTicks,
      attach : 0 .. AttachTicks ]

\* The players a blast has hurt are remembered for OncePerBlast alone.
BlastRecord == [ ttl : 0 .. BlastTtl, hurt : SUBSET Slot ]

\* What nobody reads in a free bomb or a spent blast has one value.
FreeBomb   == [state |-> "free", owner |-> 1, fuse |-> 0, attach |-> 0]
SpentBlast == [ttl |-> 0, hurt |-> {}]

\* Mutant of Lower: the timer is not stopped at zero.
LowerBare(n) == n - 1

Lower(n) == IF n > 0 THEN n - 1 ELSE 0

-----------------------------------------------------------------------------
(* Control: the loops of arena_tick in their order. *)

Loop == {"phase", "player", "bomb", "detonate", "blast", "end"}

Passes(loop) ==
    CASE loop = "player"               -> NumSlots
      [] loop \in {"bomb", "detonate"} -> NumBombs
      [] loop = "blast"                -> NumBlasts
      [] OTHER                         -> 1

Follows ==
    [ phase |-> "player", player |-> "bomb", bomb |-> "detonate",
      detonate |-> "blast", blast |-> "end", end |-> "phase" ]

Pass(loop, i) ==
    /\ at = <<loop, i>>
    /\ at' = IF i < Passes(loop) THEN <<loop, i + 1>> ELSE <<Follows[loop], 1>>

Gameplay == phase \in {"play", "sudden"}

-----------------------------------------------------------------------------
(* Rounds. *)

\* A player at the start of a round.  Slots beyond num_players are dead.
Fresh(i, won) ==
    [ state |-> IF i \in Taken THEN "idle" ELSE "dead",
      hp    |-> IF i \in Taken THEN StartHp ELSE 0,
      timer |-> 0, won |-> won, held |-> NoBomb, live |-> 0,
      last  |-> Released, air |-> 0 ]

Init ==
    /\ phase = "countdown" /\ clock = CountdownTicks
    /\ players = [i \in Slot |-> Fresh(i, 0)]
    /\ bombs = [b \in Bomb |-> FreeBomb]
    /\ blasts = [k \in BlastId |-> SpentBlast]
    /\ at = <<"phase", 1>>

Countdown ==
    /\ phase = "countdown"
    /\ clock' = Lower(clock)
    /\ phase' = IF clock' = 0 THEN "play" ELSE phase
    /\ UNCHANGED <<players, bombs, blasts>>

Playing ==
    /\ phase = "play"
    /\ clock' = clock + 1
    /\ phase' = IF clock' >= RoundTicks THEN "sudden" ELSE phase
    /\ UNCHANGED <<players, bombs, blasts>>

\* The clock of a sudden death only moves the walls.
SuddenDeath ==
    /\ phase = "sudden"
    /\ UNCHANGED <<phase, clock, players, bombs, blasts>>

\* Mutant of MatchOver: one round too many is played.
MatchOverLate == \E i \in Taken : players[i].won > RoundsToWin

MatchOver == \E i \in Taken : players[i].won >= RoundsToWin

RoundGoesOn ==
    /\ phase = "roundend"
    /\ Lower(clock) > 0 \/ MatchOver
    /\ clock' = Lower(clock)
    /\ UNCHANGED <<phase, players, bombs, blasts>>

\* Mutant of Restart: the phase stays for good once its time is over.
RestartNever ==
    /\ phase = "roundend" /\ Lower(clock) = 0 /\ ~ MatchOver
    /\ clock' = Lower(clock)
    /\ UNCHANGED <<phase, players, bombs, blasts>>

\* round_reset: only rounds won survive.
Restart ==
    /\ phase = "roundend" /\ Lower(clock) = 0 /\ ~ MatchOver
    /\ phase' = "countdown" /\ clock' = CountdownTicks
    /\ players' = [i \in Slot |-> Fresh(i, players[i].won)]
    /\ bombs' = [b \in Bomb |-> FreeBomb]
    /\ blasts' = [k \in BlastId |-> SpentBlast]

PhaseLogic ==
    /\ Pass("phase", 1)
    /\ Countdown \/ Playing \/ SuddenDeath \/ RoundGoesOn \/ Restart

-----------------------------------------------------------------------------
(* player_tick.  Each part takes player i's record p and the bombs bs and  *)
(* gives the records after it; a part with a choice gives a set of them.   *)

Free(bs) == {b \in Bomb : bs[b].state = "free"}

\* find_free_bomb, n times over: the n lowest free bombs.
LowestFree(bs, n) ==
    {S \in SUBSET Free(bs) :
        /\ Cardinality(S) = n
        /\ \A b \in S, c \in Free(bs) \ S : b < c}

InFlight(i) == [state |-> "airborne", owner |-> i, fuse |-> 0, attach |-> 0]

\* Not while the spread is wound up.
Jumps(p, in) ==
    /\ Gameplay /\ p.state # "tumble" /\ p.air = 0
    /\ in.jump /\ ~ p.last.jump
    /\ ~ (p.held # NoBomb /\ p.timer >= SpreadTicks)

Jumped(p, in) ==
    IF Jumps(p, in) THEN [p EXCEPT !.state = "jump", !.air = AirTicks + 1] ELSE p

CanDrawBomb(p) == p.held = NoBomb /\ p.live < MaxLive

Grabs(p, in) == in.bomb /\ ~ p.last.bomb /\ CanDrawBomb(p)

Grabbed(i, p, bs) ==
    {[p  |-> [p EXCEPT !.held = b, !.live = @ + 1, !.timer = 0],
      bs |-> [bs EXCEPT ![b] = [InFlight(i) EXCEPT !.state = "held"]]] :
        b \in UNION LowestFree(bs, 1)}

WoundUp(p) == [p EXCEPT !.timer = IF @ < TimerCap THEN @ + 1 ELSE @]

Least(m, n) == IF m <= n THEN m ELSE n

Spare(p) == IF p.live < MaxLive THEN MaxLive - p.live ELSE 0

\* How many a throw adds to the bomb in hand: a fan has at most four.
Extras(p, bs) ==
    IF p.timer < SpreadTicks THEN 0
    ELSE Least(3, Least(Spare(p), Cardinality(Free(bs))))

\* Mutant of Thrown: a fan is one live bomb.
ThrownUncounted(i, p, bs) ==
    {[p  |-> [p EXCEPT !.held = NoBomb, !.timer = 0],
      bs |-> [b \in Bomb |-> IF b = p.held \/ b \in S THEN InFlight(i) ELSE bs[b]]] :
        S \in LowestFree(bs, Extras(p, bs))}

Thrown(i, p, bs) ==
    {[p  |-> [p EXCEPT !.live = @ + Extras(p, bs), !.held = NoBomb, !.timer = 0],
      bs |-> [b \in Bomb |-> IF b = p.held \/ b \in S THEN InFlight(i) ELSE bs[b]]] :
        S \in LowestFree(bs, Extras(p, bs))}

\* Grab, hold or release.
Hands(i, p, bs, in) ==
    IF Grabs(p, in) /\ Free(bs) # {} THEN Grabbed(i, p, bs)
    ELSE IF in.bomb /\ p.held # NoBomb THEN {[p |-> WoundUp(p), bs |-> bs]}
    ELSE IF ~ in.bomb /\ p.last.bomb /\ p.held # NoBomb THEN Thrown(i, p, bs)
    ELSE {[p |-> p, bs |-> bs]}

\* A bomb laid in the air rides the hands, then falls.
Laid(i, aloft) ==
    [ state  |-> IF aloft THEN "falling" ELSE "settled", owner |-> i,
      fuse   |-> FuseTicks, attach |-> IF aloft THEN AttachTicks ELSE 0 ]

Lays(p, in) == in.set /\ ~ p.last.set /\ CanDrawBomb(p)

Set(i, p, bs, in, aloft) ==
    IF Lays(p, in) /\ Free(bs) # {}
    THEN {[p |-> [p EXCEPT !.live = @ + 1], bs |-> [bs EXCEPT ![b] = Laid(i, aloft)]] :
            b \in UNION LowestFree(bs, 1)}
    ELSE {[p |-> p, bs |-> bs]}

Acts(p) == Gameplay /\ p.state # "tumble"

\* What the buttons do: a player in the air at the start of the tick lays
\* in the air, one that jumps in this very tick still stands.
Played(i, p, bs, in) ==
    IF Acts(p)
    THEN UNION {Set(i, w.p, w.bs, in, p.air > 0) : w \in Hands(i, Jumped(p, in), bs, in)}
    ELSE {[p |-> p, bs |-> bs]}

\* The stun ends on the ground once only the grace is left of the timer; the
\* grace then runs down while the player stands or runs empty-handed.
Upkeep(p) ==
    CASE p.state = "tumble" ->
            LET left == Lower(p.timer)
            IN  [p EXCEPT !.timer = left,
                          !.state = IF left <= InvulnTicks /\ p.air = 0 THEN "idle" ELSE @]
      [] p.state = "jump" /\ p.air = 0 -> [p EXCEPT !.state = "idle"]
      [] p.state = "idle" /\ p.held = NoBomb -> [p EXCEPT !.timer = Lower(@)]
      [] OTHER -> p

Moved(p, in) == [Upkeep([p EXCEPT !.air = Lower(@)]) EXCEPT !.last = in]

Revived(p) ==
    [p EXCEPT !.state = "idle", !.hp = StartHp, !.timer = InvulnTicks, !.held = NoBomb]

\* A dead player waits, if there is a respawn at all.
Waited(p) ==
    IF ~ Gameplay \/ RespawnTicks = 0 THEN p
    ELSE IF Lower(p.timer) = 0 THEN Revived(p)
    ELSE [p EXCEPT !.timer = Lower(@)]

\* Nobody presses buttons for a slot that is not taken (sync_frame).
Inputs(i) == IF i \in Taken THEN Presses[i] ELSE {Released}

PlayerTick(i) ==
    /\ Pass("player", i)
    /\ \E in \in Inputs(i) :
        \/ /\ players[i].state = "dead"
           /\ players' = [players EXCEPT ![i] = [Waited(@) EXCEPT !.last = in]]
           /\ bombs' = bombs
        \/ /\ players[i].state # "dead"
           /\ \E w \in Played(i, players[i], bombs, in) :
                /\ players' = [players EXCEPT ![i] = Moved(w.p, in)]
                /\ bombs' = w.bs
    /\ UNCHANGED <<phase, clock, blasts>>

-----------------------------------------------------------------------------
(* Bombs. *)

Burnt(b) ==
    [b EXCEPT !.fuse  = Lower(@),
              !.state = IF Lower(b.fuse) = 0 THEN "exploding" ELSE @]

\* Whoever walks into a settled bomb sends it off, and its fuse waits.
CanKick(i) == players[i].state \notin {"dead", "tumble"}

\* The hands that carried it are gone.
Dropped(b) ==
    IF players[b.owner].state \in {"dead", "tumble"} THEN [b EXCEPT !.attach = 0] ELSE b

\* It rides along, or falls and may come to lie.
Falls(b) ==
    IF b.attach > 0 THEN {[b EXCEPT !.attach = @ - 1]}
    ELSE {b, [b EXCEPT !.state = "settled"]}

\* Mutant of BombAfter: the fuse does not burn while a bomb slides.
BombAfterSlow(b) ==
    CASE b.state = "airborne" -> {b, [b EXCEPT !.state = "exploding"]}
      [] b.state = "falling"  -> {Burnt(c) : c \in Falls(Dropped(b))}
      [] b.state = "sliding"  -> {b, [b EXCEPT !.state = "exploding"]}
      [] b.state = "settled"  ->
            {Burnt(b)} \cup {[b EXCEPT !.state = "sliding"] : i \in {j \in Taken : CanKick(j)}}
      [] OTHER -> {b}

\* Where one pass of the loop can leave a bomb: in flight it may meet
\* something, lying it may be kicked, and a lit fuse burns.
BombAfter(b) ==
    CASE b.state = "airborne" -> {b, [b EXCEPT !.state = "exploding"]}
      [] b.state = "falling"  -> {Burnt(c) : c \in Falls(Dropped(b))}
      [] b.state = "sliding"  -> {Burnt(b), [b EXCEPT !.state = "exploding"]}
      [] b.state = "settled"  ->
            {Burnt(b)} \cup {[b EXCEPT !.state = "sliding"] : i \in {j \in Taken : CanKick(j)}}
      [] OTHER -> {b}

BombTick(b) ==
    /\ Pass("bomb", b)
    /\ \E c \in BombAfter(bombs[b]) : bombs' = [bombs EXCEPT ![b] = c]
    /\ UNCHANGED <<phase, clock, players, blasts>>

\* find_free_blast: without a free entry the bomb goes off without a blast.
IsFirstSpent(k) ==
    blasts[k].ttl = 0 /\ \A h \in BlastId : blasts[h].ttl = 0 => k <= h

Detonate(b) ==
    /\ Pass("detonate", b)
    /\ IF bombs[b].state = "exploding"
       THEN /\ blasts' = [k \in BlastId |->
                    IF IsFirstSpent(k) THEN [ttl |-> BlastTtl, hurt |-> {}] ELSE blasts[k]]
            /\ players' = [players EXCEPT ![bombs[b].owner].live = Lower(@)]
            /\ bombs' = [bombs EXCEPT ![b] = FreeBomb]
       ELSE UNCHANGED <<blasts, players, bombs>>
    /\ UNCHANGED <<phase, clock>>

-----------------------------------------------------------------------------
(* Blasts. *)

Reachable == {b \in Bomb :
                bombs[b].state \in {"settled", "airborne", "sliding", "falling"}}

Vulnerable(i) ==
    /\ players[i].state \notin {"dead", "tumble"} /\ players[i].hp > 0
    /\ players[i].timer = 0

\* Mutant of Struck: the hit leaves the bomb in the hands.
StruckHolding(p, air) ==
    IF p.hp = 1
    THEN [p EXCEPT !.hp = 0, !.state = "dead", !.timer = RespawnTicks, !.air = 0]
    ELSE [p EXCEPT !.hp = @ - 1, !.state = "tumble",
                   !.timer = TumbleTicks + InvulnTicks, !.air = air]

\* Mutant of Struck: the stun is forgotten and only the grace is set.
StruckShortly(p, air) ==
    IF p.hp = 1
    THEN [p EXCEPT !.hp = 0, !.state = "dead", !.timer = RespawnTicks,
                   !.held = NoBomb, !.air = 0]
    ELSE [p EXCEPT !.hp = @ - 1, !.state = "tumble", !.timer = InvulnTicks,
                   !.held = NoBomb, !.air = air]

\* A hit: a stun and a grace, or death; what was in the hands is dropped.
\* The height of the dead matters to nobody.
Struck(p, air) ==
    IF p.hp = 1
    THEN [p EXCEPT !.hp = 0, !.state = "dead", !.timer = RespawnTicks,
                   !.held = NoBomb, !.air = 0]
    ELSE [p EXCEPT !.hp = @ - 1, !.state = "tumble",
                   !.timer = TumbleTicks + InvulnTicks, !.held = NoBomb, !.air = air]

BlastTick(k) ==
    /\ Pass("blast", k)
    /\ IF blasts[k].ttl = 0
       THEN UNCHANGED <<blasts, bombs, players>>
       ELSE \E chained \in SUBSET Reachable,
               hit \in SUBSET {i \in Taken : Vulnerable(i)},
               air \in 2 .. AirTicks + 1 :
            /\ blasts' = [blasts EXCEPT ![k] =
                    [ttl |-> @.ttl - 1, hurt |-> IF @.ttl = 1 THEN {} ELSE @.hurt \cup hit]]
            /\ players' = [i \in Slot |->
                    IF i \in hit THEN Struck(players[i], air) ELSE players[i]]
            /\ bombs' = [b \in Bomb |->
                    IF b \in chained THEN [bombs[b] EXCEPT !.state = "exploding"]
                    ELSE IF \E i \in hit : players[i].held = b
                    THEN [bombs[b] EXCEPT !.state = "settled", !.fuse = FuseTicks]
                    ELSE bombs[b]]
    /\ UNCHANGED <<phase, clock>>

-----------------------------------------------------------------------------
(* The end of a tick. *)

Standing == {i \in Taken : players[i].state # "dead"}

\* Mutant of RoundDecided: also after the round has ended.
RoundDecidedAgain == Cardinality(Standing) <= 1

RoundDecided == Gameplay /\ Cardinality(Standing) <= 1

RoundEnd ==
    /\ Pass("end", 1)
    /\ IF RoundDecided
       THEN /\ players' = [i \in Slot |->
                    IF i \in Standing THEN [players[i] EXCEPT !.won = @ + 1] ELSE players[i]]
            /\ phase' = "roundend" /\ clock' = RoundEndTicks
       ELSE UNCHANGED <<players, phase, clock>>
    /\ UNCHANGED <<bombs, blasts>>

Next ==
    \/ PhaseLogic
    \/ \E i \in Slot : PlayerTick(i)
    \/ \E b \in Bomb : BombTick(b)
    \/ \E b \in Bomb : Detonate(b)
    \/ \E k \in BlastId : BlastTick(k)
    \/ RoundEnd

Spec == Init /\ [][Next]_vars

\* The session keeps calling arena_tick; of players nothing is assumed.
FairSpec == Spec /\ WF_vars(Next)

-----------------------------------------------------------------------------
(* Properties. *)

\* Types: timers never pass below zero or above their width.
TypeOK ==
    /\ phase \in Phase /\ clock \in Nat
    /\ players \in [Slot -> Player]
    /\ bombs \in [Bomb -> BombRecord]
    /\ blasts \in [BlastId -> BlastRecord]
    /\ \E loop \in Loop : \E i \in 1 .. Passes(loop) : at = <<loop, i>>

Owned(i, bs) == {b \in Bomb : bs[b].state # "free" /\ bs[b].owner = i}

\* live_bombs, which grab, set, spread and detonate each count by themselves,
\* is the number of bombs of that player in the pool, and within the cap.
LiveBombsCounted ==
    \A i \in Slot : /\ players[i].live = Cardinality(Owned(i, bombs))
                    /\ players[i].live <= MaxLive

\* held_bomb and BSTATE_HELD say the same: a player holds one bomb, its own,
\* a held bomb is in its owner's hands, and the stunned and the dead hold none.
HandsMatch ==
    /\ \A i \in Slot : players[i].held # NoBomb =>
            /\ bombs[players[i].held].state = "held"
            /\ bombs[players[i].held].owner = i
            /\ players[i].state \notin {"tumble", "dead"}
    /\ \A b \in Bomb : bombs[b].state = "held" => players[bombs[b].owner].held = b

\* Nobody wins more rounds than a match has, at most one player wins the
\* match, and with that the last round has ended.
OneChampion ==
    LET champions == {i \in Slot : players[i].won >= RoundsToWin}
    IN  /\ champions # {} => phase = "roundend"
        /\ \A i, j \in champions : i = j /\ players[i].won = RoundsToWin

\* Rounds won change only where a round ends, by one, for the last player
\* standing; a double knock-out is nobody's.
RoundWonByLast ==
    [][\A i \in Slot : players'[i].won # players[i].won =>
            /\ Gameplay /\ phase' = "roundend"
            /\ Standing = {i} /\ players'[i].won = players[i].won + 1]_vars

\* One blast hurts a player once, though it burns on: the stun outlasts it,
\* whatever the player does to the timer afterwards.
OncePerBlast ==
    [][\A k \in BlastId, i \in Slot :
            at = <<"blast", k>> /\ players'[i].hp < players[i].hp => i \notin blasts[k].hurt]_vars

\* A lit bomb goes off in bounded time: kicked, falling or dropped, its fuse
\* keeps burning.
LitBombsGoOff ==
    \A b \in Bomb : bombs[b].state \in {"settled", "sliding", "falling"}
                        ~> bombs[b].state = "free"

\* Until the match is over, every player is time and again in a position to
\* act: no phase, stun or death is for good.
NobodyStuck ==
    \A i \in Taken :
        []<>(MatchOver \/ (Gameplay /\ players[i].state \in {"idle", "jump"}))

\* Being out of reach of blasts while free to act: what stands in the way of a
\* hit is a timer that is not zero.
Protected(i) == Gameplay /\ players[i].state \in {"idle", "jump"} /\ players[i].timer > 0

\* "Brief post-hit invulnerability (60 ticks)", says the design: nobody who is
\* free to act stays out of reach for good.  The code does not keep that, for
\* the timer is also the counter of a hold.
InvulnerabilityEnds == \A i \in Taken : Protected(i) ~> ~ Protected(i)
=============================================================================
