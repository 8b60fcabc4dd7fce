---------------------------- MODULE ArenaProofs ----------------------------
(* Theorems about ArenaMatch, for every number of slots, players, bombs    *)
(* and blasts, every cap on live bombs and all durations.                  *)
(*                                                                         *)
(* The inductive invariant IInv says of each player and the pool what      *)
(* PlayerOK says.  What a player does touches its own bombs and free ones  *)
(* only (Keeps), so that PlayerOK of the others is kept (Others).          *)
EXTENDS ArenaMatch, FiniteSetTheorems, TLAPS

Pool == [Bomb -> BombRecord]

PlayerOK(i, p, bs) ==
    /\ p \in Player
    /\ p.state = "dead" <=> p.hp = 0
    /\ p.live = Cardinality(Owned(i, bs)) /\ p.live <= MaxLive
    /\ p.held # NoBomb =>
            /\ bs[p.held].state = "held" /\ bs[p.held].owner = i
            /\ p.state \notin {"tumble", "dead"}
    /\ \A b \in Bomb : bs[b].state = "held" /\ bs[b].owner = i => p.held = b

\* From bs to cs only free bombs and those of player i change, and player i
\* owns what has changed.
Keeps(i, bs, cs) ==
    \A b \in Bomb : cs[b] # bs[b] =>
        /\ bs[b].state = "free" \/ bs[b].owner = i
        /\ cs[b].state = "free" \/ cs[b].owner = i

AtOK == \E loop \in Loop : \E i \in 1 .. Passes(loop) : at = <<loop, i>>

Scores ==
    /\ \A i \in Slot \ Taken : players[i].won = 0
    /\ phase # "roundend" => \A i \in Slot : players[i].won < RoundsToWin
    /\ \A i \in Slot : players[i].won <= RoundsToWin
    /\ \A i, j \in Slot : players[i].won = RoundsToWin /\ players[j].won = RoundsToWin => i = j

IInv ==
    /\ phase \in Phase /\ clock \in Nat
    /\ players \in [Slot -> Player]
    /\ bombs \in Pool
    /\ blasts \in [BlastId -> BlastRecord]
    /\ AtOK
    /\ \A i \in Slot : PlayerOK(i, players[i], bombs)
    /\ Scores

USE CountAssumption

-----------------------------------------------------------------------------
(* Small facts. *)

LEMMA LowerNat ==
  ASSUME NEW n \in Nat
  PROVE  Lower(n) \in Nat /\ Lower(n) <= n /\ (n > 0 => Lower(n) = n - 1)
  BY DEF Lower

\* A pass leads to a pass.
LEMMA PassOK ==
  ASSUME NEW loop \in Loop, NEW i \in 1 .. Passes(loop), Pass(loop, i)
  PROVE  AtOK'
<1>1. \A l \in Loop : Passes(l) \in Nat /\ 1 \in 1 .. Passes(l)
  BY DEF Loop, Passes
<1>2. Follows[loop] \in Loop
  BY DEF Loop, Follows
<1>3. CASE i < Passes(loop)
  <2>1. at' = <<loop, i + 1>> /\ i + 1 \in 1 .. Passes(loop)
    BY <1>1, <1>3 DEF Pass
  <2>2. QED
    BY <2>1 DEF AtOK, Passes
<1>4. CASE ~ (i < Passes(loop))
  <2>1. at' = <<Follows[loop], 1>>
    BY <1>4 DEF Pass
  <2>2. QED
    BY <2>1, <1>1, <1>2 DEF AtOK, Passes
<1>5. QED
  BY <1>3, <1>4

LEMMA OwnedFinite ==
  ASSUME NEW i, NEW bs
  PROVE  IsFiniteSet(Owned(i, bs)) /\ Cardinality(Owned(i, bs)) \in Nat
<1>1. IsFiniteSet(Bomb)
  <2>1. 1 \in Int /\ NumBombs \in Int
    OBVIOUS
  <2>2. QED
    BY <2>1, FS_Interval DEF Bomb
<1>2. Owned(i, bs) \in SUBSET Bomb
  BY DEF Owned
<1>3. QED
  BY <1>1, <1>2, FS_Subset, FS_CardinalityType

\* PlayerOK is kept when the player's bombs stay his and in his hands.
LEMMA Others ==
  ASSUME NEW i \in Slot, NEW j \in Slot, i # j, NEW p, NEW bs \in Pool, NEW cs \in Pool,
         Keeps(i, bs, cs), PlayerOK(j, p, bs)
  PROVE  PlayerOK(j, p, cs)
<1>1. \A b \in Bomb : bs[b].state # "free" /\ bs[b].owner = j => cs[b] = bs[b]
  BY DEF Keeps
<1>2. \A b \in Bomb : cs[b].state # "free" /\ cs[b].owner = j => cs[b] = bs[b]
  BY DEF Keeps
<1>3. Owned(j, cs) = Owned(j, bs)
  BY <1>1, <1>2 DEF Owned
<1>4. p.held # NoBomb => p.held \in Bomb
  BY DEF PlayerOK, Player
<1>5. p.held # NoBomb => cs[p.held] = bs[p.held]
  BY <1>1, <1>4 DEF PlayerOK
<1>6. QED
  BY <1>2, <1>3, <1>5 DEF PlayerOK

LEMMA KeepsBoth ==
  ASSUME NEW i \in Slot, NEW bs, NEW cs, NEW ds, Keeps(i, bs, cs), Keeps(i, cs, ds)
  PROVE  Keeps(i, bs, ds)
  BY DEF Keeps

-----------------------------------------------------------------------------
(* What a player does. *)

\* The other facts of PlayerOK hang on these fields of the player alone.
LEMMA SameHands ==
  ASSUME NEW i \in Slot, NEW bs, NEW p, NEW q \in Player, PlayerOK(i, p, bs),
         q.live = p.live, q.held = p.held,
         q.state = "dead" <=> q.hp = 0,
         p.state \in {"tumble", "dead"} \/ q.state \notin {"tumble", "dead"}
  PROVE  PlayerOK(i, q, bs)
  BY DEF PlayerOK

LEMMA JumpedOK ==
  ASSUME NEW i \in Slot, NEW bs, NEW p, NEW in \in Buttons, PlayerOK(i, p, bs),
         p.state \notin {"tumble", "dead"}
  PROVE  /\ PlayerOK(i, Jumped(p, in), bs) /\ Jumped(p, in).won = p.won
         /\ Jumped(p, in).state \notin {"tumble", "dead"}
<1>1. p \in Player
  BY DEF PlayerOK
<1> DEFINE q == [p EXCEPT !.state = "jump", !.air = AirTicks + 1]
<1>2. "jump" \in Stance /\ AirTicks + 1 \in 0 .. AirTicks + 1
  BY TickAssumption DEF Stance
<1>3. q \in Player
  BY <1>1, <1>2, Zenon DEF Player
<1>4. /\ q.live = p.live /\ q.held = p.held /\ q.hp = p.hp /\ q.won = p.won
      /\ q.state = "jump"
  BY <1>1 DEF Player
<1>5. p.hp # 0
  BY DEF PlayerOK
<1> HIDE DEF q
<1>6. PlayerOK(i, q, bs)
  <2>1. q.state \notin {"tumble", "dead"} /\ (q.state = "dead" <=> q.hp = 0)
    BY <1>4, <1>5
  <2>2. QED
    BY <1>3, <1>4, <2>1, SameHands
<1>7. CASE Jumps(p, in)
  <2>1. Jumped(p, in) = q
    BY <1>7 DEF Jumped, q
  <2>2. QED
    BY <1>4, <1>6, <2>1
<1>8. CASE ~ Jumps(p, in)
  BY <1>8 DEF Jumped
<1>9. QED
  BY <1>7, <1>8

\* What Hands and Set hand on, of a player i with record p and bombs bs.
Handled(i, p, bs, w) ==
    /\ PlayerOK(i, w.p, w.bs) /\ w.bs \in Pool /\ Keeps(i, bs, w.bs)
    /\ w.p.won = p.won /\ w.p.state \notin {"tumble", "dead"}

LEMMA LowestAreFree ==
  ASSUME NEW bs, NEW n \in Nat, NEW S \in LowestFree(bs, n)
  PROVE  S \subseteq Free(bs) /\ Cardinality(S) = n
  BY DEF LowestFree

LEMMA GrabbedOK ==
  ASSUME NEW i \in Slot, NEW bs \in Pool, NEW p, PlayerOK(i, p, bs), CanDrawBomb(p),
         p.state \notin {"tumble", "dead"}, NEW w \in Grabbed(i, p, bs)
  PROVE  Handled(i, p, bs, w)
<1>1. PICK b \in UNION LowestFree(bs, 1) :
        w = [p  |-> [p EXCEPT !.held = b, !.live = @ + 1, !.timer = 0],
             bs |-> [bs EXCEPT ![b] = [InFlight(i) EXCEPT !.state = "held"]]]
  BY DEF Grabbed
<1>2. b \in Bomb /\ bs[b].state = "free"
  BY LowestAreFree DEF Free
<1> DEFINE q  == [p EXCEPT !.held = b, !.live = @ + 1, !.timer = 0]
           c  == [InFlight(i) EXCEPT !.state = "held"]
           cs == [bs EXCEPT ![b] = c]
<1>3. p \in Player /\ p.live \in Nat /\ p.live + 1 \in Nat
  BY DEF PlayerOK, Player
<1>4. b \in Bomb \cup {NoBomb} /\ 0 \in 0 .. TimerCap
  BY <1>2, TickAssumption
<1>5. q \in Player
  BY <1>3, <1>4, Zenon DEF Player
<1>6. InFlight(i) \in BombRecord /\ InFlight(i).owner = i
  BY TickAssumption DEF InFlight, BombRecord, BombState
<1>7. c \in BombRecord /\ c.state = "held" /\ c.owner = i
  BY <1>6 DEF BombRecord, BombState
<1>8. cs \in Pool /\ cs[b] = c /\ \A d \in Bomb : d # b => cs[d] = bs[d]
  BY <1>2, <1>7 DEF Pool
<1>9. /\ q.held = b /\ q.live = p.live + 1 /\ q.state = p.state /\ q.hp = p.hp
      /\ q.won = p.won
  BY <1>3 DEF Player
<1>10. b \notin Owned(i, bs) /\ Owned(i, cs) = Owned(i, bs) \cup {b}
  BY <1>2, <1>7, <1>8 DEF Owned
<1>11. Cardinality(Owned(i, cs)) = Cardinality(Owned(i, bs)) + 1
  BY <1>10, OwnedFinite, FS_AddElement
<1>12. q.live = Cardinality(Owned(i, cs)) /\ q.live <= MaxLive
  BY <1>3, <1>9, <1>11 DEF PlayerOK, CanDrawBomb
<1>13. \A d \in Bomb : cs[d].state = "held" /\ cs[d].owner = i => d = b
  <2>1. \A d \in Bomb : bs[d].state = "held" /\ bs[d].owner = i => d = 0
    BY DEF PlayerOK, CanDrawBomb, NoBomb
  <2>2. \A d \in Bomb : d # 0
    BY DEF Bomb
  <2>3. QED
    BY <1>8, <2>1, <2>2
<1>14. PlayerOK(i, q, cs)
  BY <1>5, <1>7, <1>8, <1>9, <1>12, <1>13 DEF PlayerOK
<1>15. Keeps(i, bs, cs)
  BY <1>2, <1>7, <1>8 DEF Keeps
<1>16. w.p = q /\ w.bs = cs
  BY <1>1
<1>17. QED
  BY <1>8, <1>9, <1>14, <1>15, <1>16 DEF Handled

LEMMA ExtrasBound ==
  ASSUME NEW i \in Slot, NEW bs, NEW p, PlayerOK(i, p, bs)
  PROVE  Extras(p, bs) \in Nat /\ p.live + Extras(p, bs) <= MaxLive
<1>1. p.live \in Nat /\ p.live <= MaxLive /\ p.timer \in Nat
  BY DEF PlayerOK, Player
<1>2. Cardinality(Free(bs)) \in Nat
  <2>1. 1 \in Int /\ NumBombs \in Int
    OBVIOUS
  <2>2. IsFiniteSet(Bomb)
    BY <2>1, FS_Interval DEF Bomb
  <2>3. Free(bs) \in SUBSET Bomb
    BY DEF Free
  <2>4. QED
    BY <2>2, <2>3, FS_Subset, FS_CardinalityType
<1>3. Spare(p) \in Nat /\ p.live + Spare(p) <= MaxLive
  BY <1>1 DEF Spare
<1>4. QED
  BY <1>1, <1>2, <1>3 DEF Extras, Least

LEMMA ThrownOK ==
  ASSUME NEW i \in Slot, NEW bs \in Pool, NEW p, PlayerOK(i, p, bs), p.held # NoBomb,
         NEW w \in Thrown(i, p, bs)
  PROVE  Handled(i, p, bs, w)
<1> DEFINE n == Extras(p, bs)
<1>1. PICK S \in LowestFree(bs, n) :
        w = [p  |-> [p EXCEPT !.live = @ + n, !.held = NoBomb, !.timer = 0],
             bs |-> [b \in Bomb |-> IF b = p.held \/ b \in S THEN InFlight(i) ELSE bs[b]]]
  BY DEF Thrown
<1> DEFINE q  == [p EXCEPT !.live = @ + n, !.held = NoBomb, !.timer = 0]
           cs == [b \in Bomb |-> IF b = p.held \/ b \in S THEN InFlight(i) ELSE bs[b]]
<1>2. n \in Nat /\ p.live + n <= MaxLive
  BY ExtrasBound
<1>3. S \subseteq Free(bs) /\ Cardinality(S) = n
  BY <1>2, LowestAreFree
<1> HIDE DEF n
<1>4. p \in Player /\ p.live \in Nat /\ p.live + n \in Nat /\ p.held \in Bomb
  <2>1. p \in Player
    BY DEF PlayerOK
  <2>2. p.live \in Nat /\ p.held \in Bomb \cup {NoBomb}
    BY <2>1 DEF Player
  <2>3. QED
    BY <1>2, <2>1, <2>2
<1>5. NoBomb \in Bomb \cup {NoBomb} /\ 0 \in 0 .. TimerCap
  BY TickAssumption
<1>6. q \in Player
  BY <1>4, <1>5, Zenon DEF Player
<1>7. /\ q.held = NoBomb /\ q.live = p.live + n /\ q.state = p.state /\ q.hp = p.hp
      /\ q.won = p.won
  BY <1>4 DEF Player
<1>8. /\ InFlight(i) \in BombRecord /\ InFlight(i).owner = i
      /\ InFlight(i).state = "airborne"
  BY TickAssumption DEF InFlight, BombRecord, BombState
<1>9. cs \in Pool
  BY <1>8 DEF Pool
<1>10. /\ \A b \in Bomb : b = p.held \/ b \in S => cs[b] = InFlight(i)
       /\ \A b \in Bomb : b # p.held /\ b \notin S => cs[b] = bs[b]
  OBVIOUS
<1> HIDE DEF q, cs
<1>11. Owned(i, cs) = Owned(i, bs) \cup S /\ Owned(i, bs) \cap S = {}
  <2>1. p.held \in Owned(i, bs)
    BY <1>4 DEF Owned, PlayerOK
  <2>2. \A b \in Owned(i, bs) : b \notin S
    BY <1>3 DEF Owned, Free
  <2>3. \A b \in S : b \in Bomb
    BY <1>3 DEF Free
  <2>4. QED
    BY <1>8, <1>10, <2>1, <2>2, <2>3 DEF Owned
<1>12. Cardinality(Owned(i, cs)) = Cardinality(Owned(i, bs)) + n
  <2>1. 1 \in Int /\ NumBombs \in Int
    OBVIOUS
  <2>2. IsFiniteSet(Bomb) /\ S \in SUBSET Bomb
    BY <2>1, <1>3, FS_Interval DEF Bomb, Free
  <2>3. IsFiniteSet(S)
    BY <2>2, FS_Subset
  <2>4. Cardinality(Owned(i, bs) \cup S)
          = Cardinality(Owned(i, bs)) + Cardinality(S) - Cardinality({})
    BY <2>3, <1>11, OwnedFinite, FS_Union
  <2>5. Cardinality({}) = 0
    BY FS_EmptySet
  <2>6. QED
    BY <1>2, <1>3, <1>11, <2>4, <2>5, OwnedFinite
<1>13. q.live = Cardinality(Owned(i, cs)) /\ q.live <= MaxLive
  BY <1>2, <1>7, <1>12 DEF PlayerOK
<1>14. \A b \in Bomb : ~ (cs[b].state = "held" /\ cs[b].owner = i)
  BY <1>8, <1>10 DEF PlayerOK
<1>15. p.state \notin {"tumble", "dead"} /\ (p.state = "dead" <=> p.hp = 0)
  BY DEF PlayerOK
<1>16. PlayerOK(i, q, cs)
  BY <1>6, <1>7, <1>13, <1>14, <1>15 DEF PlayerOK
<1>17. Keeps(i, bs, cs)
  BY <1>3, <1>8, <1>10 DEF Keeps, Free, PlayerOK
<1>18. w.p = q /\ w.bs = cs
  BY <1>1 DEF q, cs
<1>19. QED
  BY <1>7, <1>9, <1>15, <1>16, <1>17, <1>18 DEF Handled

LEMMA HandsOK ==
  ASSUME NEW i \in Slot, NEW bs \in Pool, NEW p, NEW in \in Buttons,
         PlayerOK(i, p, bs), p.state \notin {"tumble", "dead"},
         NEW w \in Hands(i, p, bs, in)
  PROVE  Handled(i, p, bs, w)
<1>1. CASE Grabs(p, in) /\ Free(bs) # {}
  BY <1>1, GrabbedOK DEF Hands, Grabs
<1>2. CASE /\ ~ (Grabs(p, in) /\ Free(bs) # {})
           /\ in.bomb /\ p.held # NoBomb
  <2> DEFINE t == IF p.timer < TimerCap THEN p.timer + 1 ELSE p.timer
             q == [p EXCEPT !.timer = t]
  <2>1. p \in Player
    BY DEF PlayerOK
  <2>2. t \in 0 .. TimerCap
    BY <2>1, TickAssumption DEF Player
  <2> HIDE DEF t
  <2>3. q \in Player /\ q.live = p.live /\ q.held = p.held /\ q.state = p.state
          /\ q.hp = p.hp /\ q.won = p.won
    BY <2>1, <2>2 DEF Player
  <2>4. w = [p |-> q, bs |-> bs]
    BY <1>2 DEF Hands, WoundUp, t
  <2> HIDE DEF q
  <2>5. q.state = "dead" <=> q.hp = 0
    BY <2>3 DEF PlayerOK
  <2>6. PlayerOK(i, q, bs)
    BY <2>3, <2>5, SameHands
  <2>7. w.p = q /\ w.bs = bs
    BY <2>4
  <2>8. QED
    BY <2>3, <2>6, <2>7 DEF Handled, Keeps
<1>3. CASE /\ ~ (Grabs(p, in) /\ Free(bs) # {})
           /\ ~ in.bomb /\ p.last.bomb /\ p.held # NoBomb
  BY <1>3, ThrownOK DEF Hands
<1>4. CASE /\ ~ (Grabs(p, in) /\ Free(bs) # {}) /\ ~ (in.bomb /\ p.held # NoBomb)
           /\ ~ (~ in.bomb /\ p.last.bomb /\ p.held # NoBomb)
  <2>1. w = [p |-> p, bs |-> bs]
    BY <1>4 DEF Hands
  <2>2. QED
    BY <2>1 DEF Handled, Keeps
<1>5. QED
  BY <1>1, <1>2, <1>3, <1>4

LEMMA SetOK ==
  ASSUME NEW i \in Slot, NEW bs \in Pool, NEW p, NEW in \in Buttons, NEW aloft \in BOOLEAN,
         PlayerOK(i, p, bs), p.state \notin {"tumble", "dead"},
         NEW w \in Set(i, p, bs, in, aloft)
  PROVE  Handled(i, p, bs, w)
<1>1. CASE Lays(p, in) /\ Free(bs) # {}
  <2>1. PICK b \in UNION LowestFree(bs, 1) :
          w = [p |-> [p EXCEPT !.live = @ + 1], bs |-> [bs EXCEPT ![b] = Laid(i, aloft)]]
    BY <1>1 DEF Set
  <2>2. b \in Bomb /\ bs[b].state = "free"
    BY LowestAreFree DEF Free
  <2> DEFINE q  == [p EXCEPT !.live = @ + 1]
             cs == [bs EXCEPT ![b] = Laid(i, aloft)]
  <2>3. p \in Player
    BY DEF PlayerOK
  <2>4. p.live \in Nat /\ p.live + 1 \in Nat /\ p.live + 1 <= MaxLive
    <3>1. p.live \in Nat
      BY <2>3 DEF Player
    <3>2. p.live < MaxLive
      BY <1>1 DEF Lays, CanDrawBomb
    <3>3. QED
      BY <3>1, <3>2
  <2>5. /\ q \in Player /\ q.live = p.live + 1 /\ q.held = p.held /\ q.state = p.state
        /\ q.hp = p.hp /\ q.won = p.won
    BY <2>3, <2>4 DEF Player
  <2>6. /\ Laid(i, aloft) \in BombRecord /\ Laid(i, aloft).owner = i
        /\ Laid(i, aloft).state \in {"falling", "settled"}
    BY TickAssumption DEF Laid, BombRecord, BombState
  <2>7. cs \in Pool /\ cs[b] = Laid(i, aloft) /\ \A d \in Bomb : d # b => cs[d] = bs[d]
    BY <2>2, <2>6 DEF Pool
  <2>8. w.p = q /\ w.bs = cs
    BY <2>1
  <2> HIDE DEF q, cs
  <2>9. b \notin Owned(i, bs) /\ Owned(i, cs) = Owned(i, bs) \cup {b}
    BY <2>2, <2>6, <2>7 DEF Owned
  <2>10. Cardinality(Owned(i, cs)) = Cardinality(Owned(i, bs)) + 1
    BY <2>9, OwnedFinite, FS_AddElement
  <2>11. q.live = Cardinality(Owned(i, cs)) /\ q.live <= MaxLive
    BY <2>4, <2>5, <2>10 DEF PlayerOK
  <2>12. p.held = NoBomb
    BY <1>1 DEF Lays, CanDrawBomb
  <2>13. \A d \in Bomb : ~ (cs[d].state = "held" /\ cs[d].owner = i)
    <3>1. \A d \in Bomb : ~ (bs[d].state = "held" /\ bs[d].owner = i)
      BY <2>12 DEF PlayerOK, Bomb, NoBomb
    <3>2. QED
      BY <2>6, <2>7, <3>1
  <2>14. PlayerOK(i, q, cs)
    BY <2>5, <2>11, <2>12, <2>13 DEF PlayerOK
  <2>15. Keeps(i, bs, cs)
    BY <2>2, <2>6, <2>7 DEF Keeps
  <2>16. QED
    BY <2>5, <2>7, <2>8, <2>14, <2>15 DEF Handled
<1>2. CASE ~ (Lays(p, in) /\ Free(bs) # {})
  <2>1. w = [p |-> p, bs |-> bs]
    BY <1>2 DEF Set
  <2>2. QED
    BY <2>1 DEF Handled, Keeps
<1>3. QED
  BY <1>1, <1>2

\* Playing leaves the player's record and the pool in order.
LEMMA PlayedOK ==
  ASSUME NEW i \in Slot, NEW bs \in Pool, NEW p, NEW in \in Buttons,
         PlayerOK(i, p, bs), p.state # "dead", NEW v \in Played(i, p, bs, in)
  PROVE  /\ PlayerOK(i, v.p, v.bs) /\ v.bs \in Pool /\ Keeps(i, bs, v.bs)
         /\ v.p.won = p.won /\ v.p.state # "dead"
<1>1. CASE Acts(p)
  <2> DEFINE q == Jumped(p, in)
  <2>1. p.state \notin {"tumble", "dead"}
    BY <1>1 DEF Acts
  <2>2. PlayerOK(i, q, bs) /\ q.won = p.won /\ q.state \notin {"tumble", "dead"}
    BY <2>1, JumpedOK
  <2>3. PICK w \in Hands(i, q, bs, in) : v \in Set(i, w.p, w.bs, in, p.air > 0)
    BY <1>1 DEF Played
  <2> HIDE DEF q
  <2>4. Handled(i, q, bs, w)
    BY <2>2, HandsOK
  <2>5. w.bs \in Pool /\ PlayerOK(i, w.p, w.bs) /\ w.p.state \notin {"tumble", "dead"}
    BY <2>4 DEF Handled
  <2>6. (p.air > 0) \in BOOLEAN
    OBVIOUS
  <2>7. Handled(i, w.p, w.bs, v)
    BY <2>3, <2>5, <2>6, SetOK
  <2>8. Keeps(i, bs, w.bs) /\ Keeps(i, w.bs, v.bs)
    BY <2>4, <2>7 DEF Handled
  <2>9. Keeps(i, bs, v.bs)
    BY <2>8, KeepsBoth
  <2>10. QED
    BY <2>2, <2>4, <2>7, <2>9 DEF Handled
<1>2. CASE ~ Acts(p)
  <2>1. v = [p |-> p, bs |-> bs]
    BY <1>2 DEF Played
  <2>2. QED
    BY <2>1 DEF Keeps
<1>3. QED
  BY <1>1, <1>2

LEMMA UpkeepOK ==
  ASSUME NEW i \in Slot, NEW bs, NEW p, PlayerOK(i, p, bs), p.state # "dead"
  PROVE  PlayerOK(i, Upkeep(p), bs) /\ Upkeep(p).won = p.won /\ Upkeep(p).state # "dead"
<1>1. p \in Player
  BY DEF PlayerOK
<1>2. Lower(p.timer) \in 0 .. TimerCap
  <2>1. p.timer \in 0 .. TimerCap
    BY <1>1 DEF Player
  <2>2. p.timer \in Nat /\ p.timer <= TimerCap
    BY <2>1
  <2>3. Lower(p.timer) \in Nat /\ Lower(p.timer) <= p.timer
    BY <2>2, LowerNat
  <2>4. QED
    BY <2>2, <2>3, TickAssumption
<1>3. \A t \in 0 .. TimerCap, st \in {"idle", "jump", "tumble"} :
        LET q == [p EXCEPT !.timer = t, !.state = st]
        IN  /\ q \in Player /\ q.live = p.live /\ q.held = p.held /\ q.hp = p.hp
            /\ q.won = p.won /\ q.state = st
  <2> TAKE t \in 0 .. TimerCap, st \in {"idle", "jump", "tumble"}
  <2>1. st \in Stance
    BY DEF Stance
  <2>2. [p EXCEPT !.timer = t, !.state = st] \in Player
    BY <1>1, <2>1, Zenon DEF Player
  <2>3. QED
    BY <1>1, <2>2 DEF Player
<1>4. p.hp # 0
  BY DEF PlayerOK
<1>5. \A t \in 0 .. TimerCap, st \in {"idle", "jump", "tumble"} :
        LET q == [p EXCEPT !.timer = t, !.state = st]
        IN  (st = "tumble" => p.state = "tumble")
              => PlayerOK(i, q, bs) /\ q.won = p.won /\ q.state # "dead"
  <2> TAKE t \in 0 .. TimerCap, st \in {"idle", "jump", "tumble"}
  <2> DEFINE q == [p EXCEPT !.timer = t, !.state = st]
  <2> SUFFICES ASSUME st = "tumble" => p.state = "tumble"
               PROVE  PlayerOK(i, q, bs) /\ q.won = p.won /\ q.state # "dead"
    OBVIOUS
  <2>1. /\ q \in Player /\ q.live = p.live /\ q.held = p.held /\ q.hp = p.hp
        /\ q.won = p.won /\ q.state = st
    BY <1>3
  <2> HIDE DEF q
  <2>2. (q.state = "dead" <=> q.hp = 0)
          /\ (p.state \in {"tumble", "dead"} \/ q.state \notin {"tumble", "dead"})
    BY <1>4, <2>1
  <2>3. QED
    BY <2>1, <2>2, SameHands
<1>6. \E t \in 0 .. TimerCap, st \in {"idle", "jump", "tumble"} :
        /\ st = "tumble" => p.state = "tumble"
        /\ Upkeep(p) = [p EXCEPT !.timer = t, !.state = st]
  <2>1. p.state \in {"idle", "jump", "tumble"} /\ p.timer \in 0 .. TimerCap
    BY <1>1 DEF Player, Stance
  <2>2. /\ p = [p EXCEPT !.timer = p.timer, !.state = p.state]
        /\ \A st : [p EXCEPT !.state = st] = [p EXCEPT !.timer = p.timer, !.state = st]
        /\ \A t : [p EXCEPT !.timer = t] = [p EXCEPT !.timer = t, !.state = p.state]
    BY <1>1 DEF Player
  <2>3. CASE p.state = "tumble"
    BY <1>2, <2>3 DEF Upkeep
  <2>4. CASE p.state = "jump" /\ p.air = 0
    BY <2>1, <2>2, <2>4 DEF Upkeep
  <2>5. CASE p.state = "idle" /\ p.held = NoBomb
    BY <1>2, <2>2, <2>5 DEF Upkeep
  <2>6. CASE /\ p.state # "tumble" /\ ~ (p.state = "jump" /\ p.air = 0)
             /\ ~ (p.state = "idle" /\ p.held = NoBomb)
    <3>1. Upkeep(p) = p
      BY <2>6 DEF Upkeep
    <3>2. QED
      BY <2>1, <2>2, <3>1
  <2>7. QED
    BY <2>3, <2>4, <2>5, <2>6
<1>7. QED
  BY <1>5, <1>6

LEMMA MovedOK ==
  ASSUME NEW i \in Slot, NEW bs, NEW p, NEW in \in Buttons, PlayerOK(i, p, bs),
         p.state # "dead"
  PROVE  PlayerOK(i, Moved(p, in), bs) /\ Moved(p, in).won = p.won
<1> DEFINE q == [p EXCEPT !.air = Lower(@)]
           r == Upkeep(q)
           z == [r EXCEPT !.last = in]
<1>1. p \in Player
  BY DEF PlayerOK
<1>2. Lower(p.air) \in 0 .. AirTicks + 1
  <2>1. p.air \in Nat /\ p.air <= AirTicks + 1
    BY <1>1 DEF Player
  <2>2. Lower(p.air) \in Nat /\ Lower(p.air) <= p.air
    BY <2>1, LowerNat
  <2>3. QED
    BY <2>1, <2>2, TickAssumption
<1>3. /\ q \in Player /\ q.live = p.live /\ q.held = p.held /\ q.hp = p.hp
      /\ q.won = p.won /\ q.state = p.state
  BY <1>1, <1>2 DEF Player
<1>4. Moved(p, in) = z
  BY DEF Moved
<1> HIDE DEF q
<1>5. q.state = "dead" <=> q.hp = 0
  BY <1>3 DEF PlayerOK
<1>6. PlayerOK(i, q, bs) /\ q.state # "dead"
  BY <1>3, <1>5, SameHands
<1>7. PlayerOK(i, r, bs) /\ r.won = p.won
  BY <1>3, <1>6, UpkeepOK
<1> HIDE DEF r
<1>8. r \in Player
  BY <1>7 DEF PlayerOK
<1>9. /\ z \in Player /\ z.live = r.live /\ z.held = r.held /\ z.hp = r.hp
      /\ z.won = r.won /\ z.state = r.state
  BY <1>8 DEF Player
<1> HIDE DEF z
<1>10. z.state = "dead" <=> z.hp = 0
  BY <1>7, <1>9 DEF PlayerOK
<1>11. PlayerOK(i, z, bs)
  BY <1>7, <1>9, <1>10, SameHands
<1>12. QED
  BY <1>4, <1>7, <1>9, <1>11

LEMMA WaitedOK ==
  ASSUME NEW i \in Slot, NEW bs, NEW p, NEW in \in Buttons, PlayerOK(i, p, bs),
         p.state = "dead"
  PROVE  LET z == [Waited(p) EXCEPT !.last = in] IN PlayerOK(i, z, bs) /\ z.won = p.won
<1> DEFINE z == [Waited(p) EXCEPT !.last = in]
<1>1. p \in Player
  BY DEF PlayerOK
<1>2. p.held = NoBomb
  BY DEF PlayerOK
<1>3. CASE Waited(p) = p
  <2>1. /\ z \in Player /\ z.live = p.live /\ z.held = p.held /\ z.hp = p.hp
        /\ z.won = p.won /\ z.state = p.state
    BY <1>1, <1>3 DEF Player
  <2> HIDE DEF z
  <2>2. z.state = "dead" <=> z.hp = 0
    BY <2>1 DEF PlayerOK
  <2>3. PlayerOK(i, z, bs) /\ z.won = p.won
    BY <2>1, <2>2, SameHands
  <2>4. QED
    BY <2>3 DEF z
<1>4. CASE Waited(p) = Revived(p)
  <2> DEFINE q == [p EXCEPT !.state = "idle", !.hp = StartHp, !.timer = InvulnTicks,
                            !.held = NoBomb]
  <2>1. /\ "idle" \in Stance /\ StartHp \in 0 .. StartHp /\ InvulnTicks \in 0 .. TimerCap
        /\ NoBomb \in Bomb \cup {NoBomb}
    <3>1. TumbleTicks \in Nat /\ InvulnTicks \in Nat /\ TumbleTicks + InvulnTicks <= TimerCap
      BY TickAssumption
    <3>2. QED
      BY <3>1, TickAssumption DEF Stance
  <2>2. q \in Player
    BY <1>1, <2>1, Zenon DEF Player
  <2>3. /\ q.live = p.live /\ q.held = p.held /\ q.hp = StartHp /\ q.won = p.won
        /\ q.state = "idle"
    BY <1>1, <1>2 DEF Player
  <2>4. z = [q EXCEPT !.last = in]
    BY <1>4 DEF Revived
  <2> HIDE DEF q
  <2>5. /\ z \in Player /\ z.live = p.live /\ z.held = p.held /\ z.hp = StartHp
        /\ z.won = p.won /\ z.state = "idle"
    BY <2>2, <2>3, <2>4 DEF Player
  <2> HIDE DEF z
  <2>6. z.hp # 0
    BY <2>5
  <2>7. PlayerOK(i, z, bs) /\ z.won = p.won
    BY <2>5, <2>6, SameHands
  <2>8. QED
    BY <2>7 DEF z
<1>5. CASE Waited(p) = [p EXCEPT !.timer = Lower(@)]
  <2> DEFINE q == [p EXCEPT !.timer = Lower(@)]
  <2>1. Lower(p.timer) \in 0 .. TimerCap
    <3>1. p.timer \in Nat /\ p.timer <= TimerCap
      BY <1>1 DEF Player
    <3>2. Lower(p.timer) \in Nat /\ Lower(p.timer) <= p.timer
      BY <3>1, LowerNat
    <3>3. QED
      BY <3>1, <3>2, TickAssumption
  <2>2. /\ q \in Player /\ q.live = p.live /\ q.held = p.held /\ q.hp = p.hp
        /\ q.won = p.won /\ q.state = p.state
    BY <1>1, <2>1 DEF Player
  <2>3. z = [q EXCEPT !.last = in]
    BY <1>5
  <2> HIDE DEF q
  <2>4. /\ z \in Player /\ z.live = p.live /\ z.held = p.held /\ z.hp = p.hp
        /\ z.won = p.won /\ z.state = p.state
    BY <2>2, <2>3 DEF Player
  <2> HIDE DEF z
  <2>5. z.state = "dead" <=> z.hp = 0
    BY <2>4 DEF PlayerOK
  <2>6. PlayerOK(i, z, bs) /\ z.won = p.won
    BY <2>4, <2>5, SameHands
  <2>7. QED
    BY <2>6 DEF z
<1>6. QED
  BY <1>3, <1>4, <1>5 DEF Waited

-----------------------------------------------------------------------------
(* The actions. *)

LEMMA ScoresKept ==
  ASSUME Scores, phase' = phase, \A j \in Slot : players'[j].won = players[j].won
  PROVE  Scores'
  BY DEF Scores, Taken, Slot

\* A bomb that stays its owner's, in or out of his hands, is no change to him.
LEMMA SamePool ==
  ASSUME NEW i \in Slot, NEW p, NEW bs, NEW cs, PlayerOK(i, p, bs),
         \A b \in Bomb : /\ cs[b].owner = bs[b].owner
                         /\ cs[b].state = "free" <=> bs[b].state = "free"
                         /\ bs[b].owner = i =>
                                (cs[b].state = "held" <=> bs[b].state = "held")
  PROVE  PlayerOK(i, p, cs)
<1>1. Owned(i, cs) = Owned(i, bs)
  BY DEF Owned
<1>2. p.held # NoBomb => p.held \in Bomb
  BY DEF PlayerOK, Player
<1>3. QED
  BY <1>1, <1>2 DEF PlayerOK

\* A pass of the player loop replaces one record and keeps the others' bombs.
LEMMA PlayerTickShape ==
  ASSUME IInv, NEW i \in Slot, PlayerTick(i)
  PROVE  \E r : /\ players' = [players EXCEPT ![i] = r]
                /\ PlayerOK(i, r, bombs') /\ r.won = players[i].won
                /\ bombs' \in Pool /\ Keeps(i, bombs, bombs')
<1>1. PICK in \in Inputs(i) :
        \/ /\ players[i].state = "dead"
           /\ players' = [players EXCEPT ![i] = [Waited(@) EXCEPT !.last = in]]
           /\ bombs' = bombs
        \/ /\ players[i].state # "dead"
           /\ \E w \in Played(i, players[i], bombs, in) :
                /\ players' = [players EXCEPT ![i] = Moved(w.p, in)]
                /\ bombs' = w.bs
  BY DEF PlayerTick
<1>2. in \in Buttons
  <2>1. Presses[i] \subseteq Buttons /\ Released \in Buttons
    BY PressAssumption DEF Buttons, Released, Slot
  <2>2. QED
    BY <2>1 DEF Inputs
<1>3. players \in [Slot -> Player] /\ bombs \in Pool /\ PlayerOK(i, players[i], bombs)
  BY DEF IInv
<1>4. QED
  <2>1. CASE /\ players[i].state = "dead"
             /\ players' = [players EXCEPT ![i] = [Waited(@) EXCEPT !.last = in]]
             /\ bombs' = bombs
    <3> DEFINE r == [Waited(players[i]) EXCEPT !.last = in]
    <3>1. PlayerOK(i, r, bombs) /\ r.won = players[i].won
      BY <1>2, <1>3, <2>1, WaitedOK
    <3>2. players' = [players EXCEPT ![i] = r]
      BY <1>3, <2>1
    <3> HIDE DEF r
    <3>3. Keeps(i, bombs, bombs')
      BY <2>1 DEF Keeps
    <3>4. QED
      BY <1>3, <2>1, <3>1, <3>2, <3>3
  <2>2. CASE /\ players[i].state # "dead"
             /\ \E w \in Played(i, players[i], bombs, in) :
                  /\ players' = [players EXCEPT ![i] = Moved(w.p, in)]
                  /\ bombs' = w.bs
    <3>1. PICK w \in Played(i, players[i], bombs, in) :
            players' = [players EXCEPT ![i] = Moved(w.p, in)] /\ bombs' = w.bs
      BY <2>2
    <3>2. /\ PlayerOK(i, w.p, w.bs) /\ w.bs \in Pool /\ Keeps(i, bombs, w.bs)
          /\ w.p.won = players[i].won /\ w.p.state # "dead"
      BY <1>2, <1>3, <2>2, PlayedOK
    <3>3. PlayerOK(i, Moved(w.p, in), w.bs) /\ Moved(w.p, in).won = w.p.won
      BY <1>2, <3>2, MovedOK
    <3>4. QED
      BY <3>1, <3>2, <3>3
  <2>3. QED
    BY <1>1, <2>1, <2>2

LEMMA PlayerTickWon ==
  ASSUME IInv, NEW i \in Slot, PlayerTick(i)
  PROVE  \A j \in Slot : players'[j].won = players[j].won
<1>1. PICK r : players' = [players EXCEPT ![i] = r] /\ r.won = players[i].won
  BY PlayerTickShape
<1>2. players \in [Slot -> Player]
  BY DEF IInv
<1>3. QED
  BY <1>1, <1>2

LEMMA PlayerTickStep ==
  ASSUME IInv, NEW i \in Slot, PlayerTick(i)
  PROVE  IInv'
<1>1. AtOK'
  <2>1. "player" \in Loop /\ i \in 1 .. Passes("player")
    BY DEF Loop, Passes, Slot
  <2>2. Pass("player", i)
    BY DEF PlayerTick
  <2>3. QED
    BY <2>1, <2>2, PassOK
<1>2. players \in [Slot -> Player] /\ bombs \in Pool
  BY DEF IInv
<1>3. PICK r : /\ players' = [players EXCEPT ![i] = r]
               /\ PlayerOK(i, r, bombs') /\ r.won = players[i].won
               /\ bombs' \in Pool /\ Keeps(i, bombs, bombs')
  BY PlayerTickShape
<1>4. r \in Player
  BY <1>3 DEF PlayerOK
<1>5. players'[i] = r /\ \A j \in Slot : j # i => players'[j] = players[j]
  BY <1>2, <1>3
<1>6. players' \in [Slot -> Player]
  BY <1>2, <1>3, <1>4
<1>7. ASSUME NEW j \in Slot PROVE PlayerOK(j, players'[j], bombs')
  <2>1. CASE j = i
    BY <1>3, <1>5, <2>1
  <2>2. CASE j # i
    <3>1. PlayerOK(j, players[j], bombs)
      BY DEF IInv
    <3>2. QED
      BY <1>2, <1>3, <1>5, <2>2, <3>1, Others
  <2>3. QED
    BY <2>1, <2>2
<1>8. phase' = phase /\ clock' = clock /\ blasts' = blasts
  BY DEF PlayerTick
<1>9. Scores'
  <2>1. \A j \in Slot : players'[j].won = players[j].won
    BY <1>3, <1>5
  <2>2. QED
    BY <1>8, <2>1, ScoresKept DEF IInv
<1>10. phase' \in Phase /\ clock' \in Nat /\ blasts' \in [BlastId -> BlastRecord]
  BY <1>8 DEF IInv
<1>11. QED
  BY <1>1, <1>3, <1>6, <1>7, <1>9, <1>10 DEF IInv

\* The loop of the bombs neither frees a bomb nor takes one into hands.
LEMMA BombAfterOK ==
  ASSUME NEW b \in BombRecord, NEW c \in BombAfter(b)
  PROVE  /\ c \in BombRecord /\ c.owner = b.owner
         /\ c.state = "free" <=> b.state = "free"
         /\ c.state = "held" <=> b.state = "held"
<1>1. \A r \in BombRecord : r.state \notin {"free", "held"} =>
        /\ Burnt(r) \in BombRecord /\ Burnt(r).owner = r.owner
        /\ Burnt(r).state \notin {"free", "held"}
  <2> TAKE r \in BombRecord
  <2>1. Lower(r.fuse) \in 0 .. FuseTicks
    <3>1. r.fuse \in Nat /\ r.fuse <= FuseTicks
      BY TickAssumption DEF BombRecord
    <3>2. Lower(r.fuse) \in Nat /\ Lower(r.fuse) <= r.fuse
      BY <3>1, LowerNat
    <3>3. QED
      BY <3>1, <3>2, TickAssumption
  <2>2. QED
    BY <2>1 DEF Burnt, BombRecord, BombState
<1>2. \A st \in BombState :
        [b EXCEPT !.state = st] \in BombRecord /\ [b EXCEPT !.state = st].owner = b.owner
          /\ [b EXCEPT !.state = st].state = st
  BY DEF BombRecord
<1>3. CASE b.state = "airborne"
  BY <1>2, <1>3 DEF BombAfter, BombState
<1>4. CASE b.state = "falling"
  <2> DEFINE d == Dropped(b)
  <2>1. PICK c1 \in Falls(d) : c = Burnt(c1)
    BY <1>4 DEF BombAfter
  <2>2. d \in BombRecord /\ d.owner = b.owner /\ d.state = "falling"
    BY <1>4, TickAssumption DEF Dropped, BombRecord
  <2> HIDE DEF d
  <2>3. c1 \in BombRecord /\ c1.owner = b.owner /\ c1.state \in {"falling", "settled"}
    BY <2>1, <2>2, TickAssumption DEF Falls, BombRecord, BombState
  <2>4. QED
    BY <1>1, <1>4, <2>1, <2>3
<1>5. CASE b.state = "sliding"
  BY <1>1, <1>2, <1>5 DEF BombAfter, BombState
<1>6. CASE b.state = "settled"
  BY <1>1, <1>2, <1>6 DEF BombAfter, BombState
<1>7. CASE b.state \notin {"airborne", "falling", "sliding", "settled"}
  BY <1>7 DEF BombAfter
<1>8. QED
  BY <1>3, <1>4, <1>5, <1>6, <1>7

LEMMA BombTickStep ==
  ASSUME IInv, NEW b \in Bomb, BombTick(b)
  PROVE  IInv'
<1>1. AtOK'
  <2>1. "bomb" \in Loop /\ b \in 1 .. Passes("bomb") /\ Pass("bomb", b)
    BY DEF Loop, Passes, Bomb, BombTick
  <2>2. QED
    BY <2>1, PassOK
<1>2. PICK c \in BombAfter(bombs[b]) : bombs' = [bombs EXCEPT ![b] = c]
  BY DEF BombTick
<1>3. bombs \in Pool /\ bombs[b] \in BombRecord
  BY DEF IInv, Pool
<1>4. /\ c \in BombRecord /\ c.owner = bombs[b].owner
      /\ c.state = "free" <=> bombs[b].state = "free"
      /\ c.state = "held" <=> bombs[b].state = "held"
  BY <1>3, BombAfterOK
<1>5. bombs' \in Pool /\ bombs'[b] = c /\ \A d \in Bomb : d # b => bombs'[d] = bombs[d]
  BY <1>2, <1>3, <1>4 DEF Pool
<1>6. phase' = phase /\ clock' = clock /\ players' = players /\ blasts' = blasts
  BY DEF BombTick
<1>7. ASSUME NEW j \in Slot PROVE PlayerOK(j, players'[j], bombs')
  <2>1. PlayerOK(j, players[j], bombs)
    BY DEF IInv
  <2>2. QED
    BY <1>4, <1>5, <1>6, <2>1, SamePool
<1>8. Scores'
  BY <1>6, ScoresKept DEF IInv
<1>9. QED
  BY <1>1, <1>5, <1>6, <1>7, <1>8 DEF IInv

LEMMA DetonateStep ==
  ASSUME IInv, NEW b \in Bomb, Detonate(b)
  PROVE  IInv'
<1>1. AtOK'
  <2>1. "detonate" \in Loop /\ b \in 1 .. Passes("detonate") /\ Pass("detonate", b)
    BY DEF Loop, Passes, Bomb, Detonate
  <2>2. QED
    BY <2>1, PassOK
<1>2. phase' = phase /\ clock' = clock
  BY DEF Detonate
<1>3. CASE bombs[b].state # "exploding"
  <2>1. players' = players /\ bombs' = bombs /\ blasts' = blasts
    BY <1>3 DEF Detonate
  <2>2. Scores'
    BY <1>2, <2>1, ScoresKept DEF IInv
  <2>3. QED
    BY <1>1, <1>2, <2>1, <2>2 DEF IInv
<1>4. CASE bombs[b].state = "exploding"
  <2> DEFINE o == bombs[b].owner
             p == players[o]
             q == [p EXCEPT !.live = Lower(@)]
  <2>1. /\ bombs \in Pool /\ bombs[b] \in BombRecord /\ o \in Slot
        /\ players \in [Slot -> Player] /\ p \in Player
    BY DEF IInv, Pool, BombRecord
  <2>2. /\ players' = [players EXCEPT ![o] = q]
        /\ bombs' = [bombs EXCEPT ![b] = FreeBomb]
        /\ blasts' = [k \in BlastId |->
                IF IsFirstSpent(k) THEN [ttl |-> BlastTtl, hurt |-> {}] ELSE blasts[k]]
    <3>1. players' = [players EXCEPT ![o].live = Lower(@)]
      BY <1>4 DEF Detonate
    <3>2. players' = [players EXCEPT ![o] = q]
      BY <2>1, <3>1
    <3>3. bombs' = [bombs EXCEPT ![b] = FreeBomb]
      BY <1>4 DEF Detonate
    <3>4. blasts' = [k \in BlastId |->
              IF IsFirstSpent(k) THEN [ttl |-> BlastTtl, hurt |-> {}] ELSE blasts[k]]
      BY <1>4 DEF Detonate
    <3>5. QED
      BY <3>2, <3>3, <3>4
  <2>3. FreeBomb \in BombRecord /\ FreeBomb.state = "free"
    BY TickAssumption DEF FreeBomb, BombRecord, BombState, Slot
  <2>4. /\ bombs' \in Pool /\ bombs'[b] = FreeBomb
        /\ \A d \in Bomb : d # b => bombs'[d] = bombs[d]
    BY <2>1, <2>2, <2>3 DEF Pool
  <2>5. blasts' \in [BlastId -> BlastRecord]
    <3>1. [ttl |-> BlastTtl, hurt |-> {}] \in BlastRecord
      BY TickAssumption DEF BlastRecord
    <3>2. \A k \in BlastId : blasts[k] \in BlastRecord
      BY DEF IInv
    <3>3. QED
      BY <2>2, <3>1, <3>2
  <2>6. PlayerOK(o, p, bombs)
    BY <2>1 DEF IInv
  <2>7. Keeps(o, bombs, bombs')
    BY <2>3, <2>4 DEF Keeps
  <2>8. PlayerOK(o, q, bombs')
    <3>1. p.live \in Nat /\ Lower(p.live) \in Nat
      BY <2>1, LowerNat DEF Player
    <3>2. /\ q \in Player /\ q.live = Lower(p.live) /\ q.held = p.held /\ q.hp = p.hp
          /\ q.won = p.won /\ q.state = p.state
      BY <2>1, <3>1 DEF Player
    <3> HIDE DEF q
    <3>3. b \in Owned(o, bombs) /\ Owned(o, bombs') = Owned(o, bombs) \ {b}
      BY <1>4, <2>3, <2>4 DEF Owned
    <3>4. Cardinality(Owned(o, bombs')) = Cardinality(Owned(o, bombs)) - 1
      <4>1. IsFiniteSet(Owned(o, bombs))
        BY OwnedFinite
      <4>2. Cardinality(Owned(o, bombs) \ {b}) = Cardinality(Owned(o, bombs)) - 1
        BY <3>3, <4>1, FS_RemoveElement
      <4>3. QED
        BY <3>3, <4>2
    <3>5. Cardinality(Owned(o, bombs')) \in Nat
      BY OwnedFinite
    <3>6. p.live = Cardinality(Owned(o, bombs)) /\ p.live <= MaxLive
      BY <2>6 DEF PlayerOK
    <3>7. q.live = Cardinality(Owned(o, bombs')) /\ q.live <= MaxLive
      <4>1. p.live - 1 \in Nat
        BY <3>4, <3>5, <3>6
      <4>2. Lower(p.live) = p.live - 1
        BY <3>1, <4>1, LowerNat
      <4>3. QED
        BY <3>1, <3>2, <3>4, <3>6, <4>1, <4>2
    <3> DEFINE h == p.held
    <3>8. h # NoBomb => h \in Bomb /\ h # b
      <4>1. h \in Bomb \cup {NoBomb}
        BY <2>1 DEF Player
      <4>2. QED
        BY <1>4, <2>6, <4>1 DEF PlayerOK
    <3>9. \A d \in Bomb : bombs'[d].state = "held" /\ bombs'[d].owner = o => q.held = d
      BY <2>3, <2>4, <2>6, <3>2 DEF PlayerOK
    <3>10. QED
      BY <2>4, <2>6, <3>2, <3>7, <3>8, <3>9 DEF PlayerOK
  <2>9. players' \in [Slot -> Player]
    BY <2>1, <2>2, <2>8 DEF PlayerOK
  <2>10. players'[o] = q /\ \A j \in Slot : j # o => players'[j] = players[j]
    BY <2>1, <2>2
  <2>11. q.won = p.won
    BY <2>1 DEF Player
  <2> HIDE DEF q, o
  <2>12. ASSUME NEW j \in Slot PROVE PlayerOK(j, players'[j], bombs')
    <3>1. CASE j = o
      BY <2>8, <2>10, <3>1
    <3>2. CASE j # o
      <4>1. PlayerOK(j, players[j], bombs)
        BY DEF IInv
      <4>2. QED
        BY <2>1, <2>4, <2>7, <2>10, <3>2, <4>1, Others
    <3>3. QED
      BY <3>1, <3>2
  <2>13. Scores'
    BY <1>2, <2>10, <2>11, ScoresKept DEF IInv
  <2>14. phase' \in Phase /\ clock' \in Nat
    BY <1>2 DEF IInv
  <2>15. QED
    BY <1>1, <2>4, <2>5, <2>9, <2>12, <2>13, <2>14 DEF IInv
<1>5. QED
  BY <1>3, <1>4

LEMMA StruckOK ==
  ASSUME NEW i \in Slot, NEW p \in Player, p.hp > 0, NEW air \in 2 .. AirTicks + 1,
         NEW q, q = Struck(p, air)
  PROVE  /\ q \in Player /\ q.live = p.live /\ q.won = p.won /\ q.held = NoBomb
         /\ q.state \in {"tumble", "dead"} /\ (q.state = "dead" <=> q.hp = 0)
<1>1. /\ RespawnTicks \in 0 .. TimerCap /\ TumbleTicks + InvulnTicks \in 0 .. TimerCap
      /\ 0 \in 0 .. StartHp /\ NoBomb \in Bomb \cup {NoBomb} /\ 0 \in 0 .. AirTicks + 1
      /\ air \in 0 .. AirTicks + 1 /\ "dead" \in Stance /\ "tumble" \in Stance
  BY TickAssumption DEF Stance
<1>2. p.hp \in 1 .. StartHp /\ p.hp - 1 \in 0 .. StartHp
  BY DEF Player
<1>3. CASE p.hp = 1
  <2> DEFINE r == [p EXCEPT !.hp = 0, !.state = "dead", !.timer = RespawnTicks,
                            !.held = NoBomb, !.air = 0]
  <2>1. q = r
    BY <1>3 DEF Struck
  <2>2. r \in Player
    BY <1>1, Zenon DEF Player
  <2>3. r.live = p.live /\ r.won = p.won /\ r.held = NoBomb /\ r.state = "dead" /\ r.hp = 0
    BY DEF Player
  <2> HIDE DEF r
  <2>4. QED
    BY <2>1, <2>2, <2>3
<1>4. CASE p.hp # 1
  <2> DEFINE h == p.hp - 1
             t == TumbleTicks + InvulnTicks
             r == [p EXCEPT !.hp = h, !.state = "tumble", !.timer = t, !.held = NoBomb,
                            !.air = air]
  <2>1. q = r
    BY <1>4 DEF Struck
  <2>2. h \in 0 .. StartHp /\ h # 0 /\ t \in 0 .. TimerCap
    BY <1>1, <1>2, <1>4
  <2> HIDE DEF h, t
  <2>3. r \in Player
    BY <1>1, <2>2, Zenon DEF Player
  <2>4. r.live = p.live /\ r.won = p.won /\ r.held = NoBomb /\ r.state = "tumble" /\ r.hp = h
    BY DEF Player
  <2> HIDE DEF r
  <2>5. QED
    BY <2>1, <2>2, <2>3, <2>4
<1>5. QED
  BY <1>3, <1>4

LEMMA BlastTickStep ==
  ASSUME IInv, NEW k \in BlastId, BlastTick(k)
  PROVE  IInv'
<1>1. AtOK'
  <2>1. "blast" \in Loop /\ k \in 1 .. Passes("blast")
    <3>1. "blast" \in Loop /\ Passes("blast") = NumBlasts
      BY DEF Loop, Passes
    <3>2. QED
      BY <3>1 DEF BlastId
  <2>2. Pass("blast", k)
    BY DEF BlastTick
  <2>3. QED
    BY <2>1, <2>2, PassOK
<1>2. phase' = phase /\ clock' = clock
  BY DEF BlastTick
<1>3. CASE blasts[k].ttl = 0
  <2>1. players' = players /\ bombs' = bombs /\ blasts' = blasts
    BY <1>3 DEF BlastTick
  <2>2. Scores'
    BY <1>2, <2>1, ScoresKept DEF IInv
  <2>3. QED
    BY <1>1, <1>2, <2>1, <2>2 DEF IInv
<1>4. CASE blasts[k].ttl # 0
  <2>1. PICK chained \in SUBSET Reachable, hit \in SUBSET {i \in Taken : Vulnerable(i)},
             air \in 2 .. AirTicks + 1 :
          /\ blasts' = [blasts EXCEPT ![k] =
                [ttl |-> @.ttl - 1, hurt |-> IF @.ttl = 1 THEN {} ELSE @.hurt \cup hit]]
          /\ players' = [i \in Slot |->
                IF i \in hit THEN Struck(players[i], air) ELSE players[i]]
          /\ bombs' = [b \in Bomb |->
                IF b \in chained THEN [bombs[b] EXCEPT !.state = "exploding"]
                ELSE IF \E i \in hit : players[i].held = b
                THEN [bombs[b] EXCEPT !.state = "settled", !.fuse = FuseTicks]
                ELSE bombs[b]]
    BY <1>4 DEF BlastTick
  <2> DEFINE dropped == {b \in Bomb : \E i \in hit : players[i].held = b}
  <2>2. /\ bombs \in Pool /\ players \in [Slot -> Player]
        /\ \A i \in Slot : PlayerOK(i, players[i], bombs)
    BY DEF IInv
  <2>3. \A i \in hit : i \in Slot /\ Vulnerable(i)
    BY DEF Taken, Slot
  <2>4. blasts' \in [BlastId -> BlastRecord]
    <3>1. blasts[k] \in BlastRecord /\ blasts[k].ttl \in Nat /\ blasts[k].ttl <= BlastTtl
      <4>1. blasts[k] \in BlastRecord
        BY DEF IInv
      <4>2. blasts[k].ttl \in 0 .. BlastTtl
        BY <4>1 DEF BlastRecord
      <4>3. QED
        BY <4>1, <4>2, TickAssumption
    <3>2. \A h \in SUBSET Slot : [ttl |-> blasts[k].ttl - 1, hurt |-> h] \in BlastRecord
      BY <1>4, <3>1, TickAssumption DEF BlastRecord
    <3> DEFINE h == IF blasts[k].ttl = 1 THEN {} ELSE blasts[k].hurt \cup hit
    <3>3. h \in SUBSET Slot
      <4>1. blasts[k].hurt \in SUBSET Slot /\ hit \in SUBSET Slot
        BY <2>3, <3>1 DEF BlastRecord
      <4>2. QED
        BY <4>1
    <3>4. blasts' = [blasts EXCEPT ![k] = [ttl |-> blasts[k].ttl - 1, hurt |-> h]]
      BY <2>1 DEF IInv
    <3> HIDE DEF h
    <3>5. QED
      BY <3>2, <3>3, <3>4 DEF IInv
  <2>5. ASSUME NEW b \in Bomb
        PROVE  /\ bombs'[b] \in BombRecord /\ bombs'[b].owner = bombs[b].owner
               /\ b \in chained => bombs'[b].state = "exploding"
               /\ b \in dropped \ chained => bombs'[b].state = "settled"
               /\ b \notin dropped \cup chained => bombs'[b] = bombs[b]
    <3>1. bombs[b] \in BombRecord
      BY <2>2 DEF Pool
    <3>2. CASE b \in chained
      <4>1. bombs'[b] = [bombs[b] EXCEPT !.state = "exploding"]
        BY <2>1, <3>2
      <4>2. QED
        BY <3>1, <3>2, <4>1 DEF BombRecord, BombState
    <3>3. CASE b \notin chained /\ b \in dropped
      <4>1. bombs'[b] = [bombs[b] EXCEPT !.state = "settled", !.fuse = FuseTicks]
        BY <2>1, <3>3
      <4>2. FuseTicks \in 0 .. FuseTicks
        BY TickAssumption
      <4>3. QED
        BY <3>1, <3>3, <4>1, <4>2 DEF BombRecord, BombState
    <3>4. CASE b \notin chained /\ b \notin dropped
      <4>1. bombs'[b] = bombs[b]
        BY <2>1, <3>4
      <4>2. QED
        BY <3>1, <3>4, <4>1
    <3>5. QED
      BY <3>2, <3>3, <3>4
  <2>6. bombs' \in Pool
    <3>1. bombs' = [b \in Bomb |-> bombs'[b]]
      BY <2>1
    <3>2. QED
      BY <2>5, <3>1 DEF Pool
  <2>7. \A b \in chained : bombs[b].state \notin {"free", "held"}
    BY DEF Reachable
  <2>8. \A b \in dropped : \E i \in hit :
          /\ bombs[b].state = "held" /\ bombs[b].owner = i /\ players[i].held = b
    <3> TAKE b \in dropped
    <3>1. PICK i \in hit : players[i].held = b
      OBVIOUS
    <3>2. b # NoBomb
      BY DEF Bomb, NoBomb
    <3>3. PlayerOK(i, players[i], bombs)
      BY <2>2, <2>3
    <3>4. QED
      BY <3>1, <3>2, <3>3 DEF PlayerOK
  <2> HIDE DEF dropped
  <2>9. ASSUME NEW i \in Slot
        PROVE  /\ PlayerOK(i, players'[i], bombs') /\ players'[i].won = players[i].won
    <3>1. PlayerOK(i, players[i], bombs) /\ players[i] \in Player
      BY <2>2
    <3>2. \A b \in Bomb : /\ bombs'[b].owner = bombs[b].owner
                          /\ bombs'[b].state = "free" <=> bombs[b].state = "free"
      BY <2>5, <2>7, <2>8
    <3>3. CASE i \notin hit
      <4>1. players'[i] = players[i]
        BY <2>1, <3>3
      <4>2. \A b \in Bomb : bombs[b].owner = i =>
              (bombs'[b].state = "held" <=> bombs[b].state = "held")
        BY <2>5, <2>7, <2>8, <3>3
      <4>3. PlayerOK(i, players[i], bombs')
        BY <3>1, <3>2, <4>2, SamePool
      <4>4. QED
        BY <4>1, <4>3
    <3>4. CASE i \in hit
      <4> DEFINE q == players'[i]
      <4>1. q = Struck(players[i], air)
        BY <2>1, <3>4
      <4>2. players[i].hp > 0
        BY <2>3, <3>4 DEF Vulnerable
      <4> HIDE DEF q
      <4>3. /\ q \in Player /\ q.live = players[i].live /\ q.won = players[i].won
            /\ q.held = NoBomb /\ q.state \in {"tumble", "dead"}
            /\ q.state = "dead" <=> q.hp = 0
        BY <3>1, <4>1, <4>2, StruckOK
      <4>4. Owned(i, bombs') = Owned(i, bombs)
        BY <3>2 DEF Owned
      <4>5. \A b \in Bomb : ~ (bombs'[b].state = "held" /\ bombs'[b].owner = i)
        <5>1. SUFFICES ASSUME NEW b \in Bomb, bombs'[b].state = "held", bombs'[b].owner = i
                       PROVE  FALSE
          OBVIOUS
        <5>2. b \notin chained /\ b \notin dropped /\ bombs'[b] = bombs[b]
          BY <2>5, <5>1
        <5>3. players[i].held = b
          BY <3>1, <5>1, <5>2 DEF PlayerOK
        <5>4. QED
          BY <3>4, <5>2, <5>3 DEF dropped
      <4>6. PlayerOK(i, q, bombs')
        BY <3>1, <4>3, <4>4, <4>5 DEF PlayerOK
      <4>7. QED
        BY <4>3, <4>6 DEF q
    <3>5. QED
      BY <3>3, <3>4
  <2>10. players' \in [Slot -> Player]
    <3>1. players' = [i \in Slot |-> players'[i]]
      BY <2>1
    <3>2. \A i \in Slot : players'[i] \in Player
      BY <2>9 DEF PlayerOK
    <3>3. QED
      BY <3>1, <3>2
  <2>11. Scores'
    BY <1>2, <2>9, ScoresKept DEF IInv
  <2>12. phase' \in Phase /\ clock' \in Nat
    BY <1>2 DEF IInv
  <2>13. QED
    BY <1>1, <2>4, <2>6, <2>9, <2>10, <2>11, <2>12 DEF IInv
<1>5. QED
  BY <1>3, <1>4

\* Whoever starts a round has no bombs, and there are none.
LEMMA FreshOK ==
  ASSUME NEW i \in Slot, NEW won \in Nat
  PROVE  /\ PlayerOK(i, Fresh(i, won), [b \in Bomb |-> FreeBomb])
         /\ Fresh(i, won).won = won
<1> DEFINE none == [b \in Bomb |-> FreeBomb]
           p == Fresh(i, won)
<1>1. p \in Player
  BY TickAssumption DEF Fresh, Player, Stance, Released, Buttons
<1>2. /\ p.live = 0 /\ p.held = NoBomb /\ p.won = won
      /\ p.state = (IF i \in Taken THEN "idle" ELSE "dead")
      /\ p.hp = (IF i \in Taken THEN StartHp ELSE 0)
  BY DEF Fresh
<1>3. Owned(i, none) = {}
  BY DEF Owned, FreeBomb
<1>4. \A b \in Bomb : none[b].state # "held"
  BY DEF FreeBomb
<1>5. Cardinality(Owned(i, none)) = 0
  BY <1>3, FS_EmptySet
<1>6. p.state = "dead" <=> p.hp = 0
  BY <1>2
<1> HIDE DEF none, p
<1>7. PlayerOK(i, p, none)
  BY <1>1, <1>2, <1>4, <1>5, <1>6 DEF PlayerOK
<1>8. QED
  BY <1>2, <1>7 DEF none, p

LEMMA EmptyTables ==
  /\ [b \in Bomb |-> FreeBomb] \in Pool
  /\ [k \in BlastId |-> SpentBlast] \in [BlastId -> BlastRecord]
<1>1. FreeBomb \in BombRecord
  BY TickAssumption DEF FreeBomb, BombRecord, BombState, Slot
<1>2. SpentBlast \in BlastRecord
  BY TickAssumption DEF SpentBlast, BlastRecord
<1>3. QED
  BY <1>1, <1>2 DEF Pool

LEMMA PhaseLogicStep ==
  ASSUME IInv, PhaseLogic
  PROVE  IInv'
<1>1. AtOK'
  <2>1. "phase" \in Loop /\ 1 \in 1 .. Passes("phase")
    BY DEF Loop, Passes
  <2>2. Pass("phase", 1)
    BY DEF PhaseLogic
  <2>3. QED
    BY <2>1, <2>2, PassOK
<1>2. clock \in Nat /\ Lower(clock) \in Nat
  BY LowerNat DEF IInv
<1>3. ASSUME players' = players, bombs' = bombs, blasts' = blasts, clock' \in Nat,
             phase' \in Phase, phase' = "roundend" <=> phase = "roundend"
      PROVE  IInv'
  <2>1. Scores'
    BY <1>3 DEF Scores, IInv
  <2>2. QED
    BY <1>1, <1>3, <2>1 DEF IInv
<1>4. CASE Countdown
  <2>1. phase = "countdown" /\ phase' \in {"countdown", "play"} /\ clock' = Lower(clock)
    BY <1>4 DEF Countdown
  <2>2. players' = players /\ bombs' = bombs /\ blasts' = blasts
    BY <1>4 DEF Countdown
  <2>3. QED
    BY <1>2, <1>3, <2>1, <2>2 DEF Phase
<1>5. CASE Playing
  <2>1. phase = "play" /\ phase' \in {"play", "sudden"} /\ clock' = clock + 1
    BY <1>5 DEF Playing
  <2>2. players' = players /\ bombs' = bombs /\ blasts' = blasts
    BY <1>5 DEF Playing
  <2>3. QED
    BY <1>2, <1>3, <2>1, <2>2 DEF Phase
<1>6. CASE SuddenDeath
  BY <1>2, <1>3, <1>6 DEF SuddenDeath, IInv
<1>7. CASE RoundGoesOn
  BY <1>2, <1>3, <1>7 DEF RoundGoesOn, IInv
<1>8. CASE Restart
  <2>1. /\ phase' = "countdown" /\ clock' = CountdownTicks /\ ~ MatchOver
        /\ players' = [i \in Slot |-> Fresh(i, players[i].won)]
        /\ bombs' = [b \in Bomb |-> FreeBomb]
        /\ blasts' = [k \in BlastId |-> SpentBlast]
    BY <1>8 DEF Restart
  <2>2. \A i \in Slot : players[i].won \in Nat
    BY DEF IInv, Player
  <2>3. \A i \in Slot : /\ PlayerOK(i, players'[i], bombs')
                        /\ players'[i].won = players[i].won
    BY <2>1, <2>2, FreshOK
  <2>4. players' \in [Slot -> Player]
    <3>1. \A i \in Slot : Fresh(i, players[i].won) \in Player
      BY <2>2, FreshOK DEF PlayerOK
    <3>2. QED
      BY <2>1, <3>1
  <2>5. Scores'
    <3>1. \A i \in Slot : players[i].won < RoundsToWin
      <4>1. \A i \in Taken : players[i].won < RoundsToWin
        BY <2>1, <2>2 DEF MatchOver, Taken, Slot
      <4>2. \A i \in Slot \ Taken : players[i].won = 0
        BY DEF IInv, Scores
      <4>3. QED
        BY <4>1, <4>2
    <3>2. \A i \in Slot : players'[i].won = players[i].won
      BY <2>3
    <3>3. \A i \in Slot \ Taken : players[i].won = 0
      BY DEF IInv, Scores
    <3>4. QED
      BY <2>2, <3>1, <3>2, <3>3 DEF Scores
  <2>6. bombs' \in Pool /\ blasts' \in [BlastId -> BlastRecord]
    BY <2>1, EmptyTables
  <2>7. clock' \in Nat /\ phase' \in Phase
    BY <2>1, TickAssumption DEF Phase
  <2>8. QED
    BY <1>1, <2>3, <2>4, <2>5, <2>6, <2>7 DEF IInv
<1>9. QED
  BY <1>4, <1>5, <1>6, <1>7, <1>8 DEF PhaseLogic

LEMMA AtMostOne ==
  ASSUME NEW S, IsFiniteSet(S), Cardinality(S) <= 1, NEW x \in S, NEW y \in S
  PROVE  x = y
<1>1. SUFFICES ASSUME x # y PROVE FALSE
  OBVIOUS
<1>2. IsFiniteSet({x}) /\ Cardinality({x}) = 1
  BY FS_Singleton
<1>3. Cardinality({x} \cup {y}) = 2
  BY <1>1, <1>2, FS_AddElement
<1>4. {x} \cup {y} \in SUBSET S
  OBVIOUS
<1>5. Cardinality({x} \cup {y}) <= Cardinality(S)
  BY <1>4, FS_Subset
<1>6. Cardinality(S) \in Nat
  BY FS_CardinalityType
<1>7. QED
  BY <1>3, <1>5, <1>6

LEMMA StandingFinite == IsFiniteSet(Standing) /\ Standing \subseteq Slot
<1>1. 1 \in Int /\ NumPlayers \in Int
  OBVIOUS
<1>2. IsFiniteSet(Taken)
  BY <1>1, FS_Interval DEF Taken
<1>3. Standing \in SUBSET Taken /\ Taken \subseteq Slot
  BY DEF Standing, Taken, Slot
<1>4. QED
  BY <1>2, <1>3, FS_Subset

LEMMA RoundEndStep ==
  ASSUME IInv, RoundEnd
  PROVE  IInv'
<1>1. AtOK'
  <2>1. "end" \in Loop /\ 1 \in 1 .. Passes("end")
    BY DEF Loop, Passes
  <2>2. Pass("end", 1)
    BY DEF RoundEnd
  <2>3. QED
    BY <2>1, <2>2, PassOK
<1>2. bombs' = bombs /\ blasts' = blasts
  BY DEF RoundEnd
<1>3. CASE ~ RoundDecided
  <2>1. players' = players /\ phase' = phase /\ clock' = clock
    BY <1>3 DEF RoundEnd
  <2>2. Scores'
    BY <2>1, ScoresKept DEF IInv
  <2>3. QED
    BY <1>1, <1>2, <2>1, <2>2 DEF IInv
<1>4. CASE RoundDecided
  <2>1. /\ phase' = "roundend" /\ clock' = RoundEndTicks
        /\ players' = [i \in Slot |->
                IF i \in Standing THEN [players[i] EXCEPT !.won = @ + 1] ELSE players[i]]
    BY <1>4 DEF RoundEnd
  <2>2. ASSUME NEW i \in Slot
        PROVE  /\ PlayerOK(i, players'[i], bombs)
               /\ players'[i].won = players[i].won + (IF i \in Standing THEN 1 ELSE 0)
    <3>1. players[i] \in Player /\ PlayerOK(i, players[i], bombs)
      BY DEF IInv
    <3>2. CASE i \in Standing
      <4> DEFINE q == players'[i]
      <4>1. q = [players[i] EXCEPT !.won = @ + 1]
        BY <2>1, <3>2
      <4> HIDE DEF q
      <4>2. /\ q \in Player /\ q.live = players[i].live /\ q.held = players[i].held
            /\ q.hp = players[i].hp /\ q.won = players[i].won + 1
            /\ q.state = players[i].state
        BY <3>1, <4>1 DEF Player
      <4>3. q.state = "dead" <=> q.hp = 0
        BY <3>1, <4>2 DEF PlayerOK
      <4>4. PlayerOK(i, q, bombs)
        BY <3>1, <4>2, <4>3, SameHands
      <4>5. QED
        BY <3>2, <4>2, <4>4 DEF q
    <3>3. CASE i \notin Standing
      <4>1. players'[i] = players[i] /\ players[i].won \in Nat
        BY <2>1, <3>1, <3>3 DEF Player
      <4>2. QED
        BY <3>1, <3>3, <4>1
    <3>4. QED
      BY <3>2, <3>3
  <2>3. players' \in [Slot -> Player]
    <3>1. players' = [i \in Slot |-> players'[i]]
      BY <2>1
    <3>2. \A i \in Slot : players'[i] \in Player
      BY <2>2 DEF PlayerOK
    <3>3. QED
      BY <3>1, <3>2
  <2>4. Scores'
    <3>1. \A i \in Slot : players[i].won \in Nat /\ players[i].won < RoundsToWin
      BY <1>4 DEF IInv, Scores, RoundDecided, Gameplay, Player
    <3>2. \A i, j \in Standing : i = j
      BY <1>4, StandingFinite, AtMostOne DEF RoundDecided
    <3>3. \A i \in Slot \ Taken : players[i].won = 0 /\ i \notin Standing
      BY DEF IInv, Scores, Standing
    <3>4. \A i \in Slot \ Taken : players'[i].won = 0
      BY <2>2, <3>3
    <3>5. \A i \in Slot : players'[i].won <= RoundsToWin
      BY <2>2, <3>1
    <3>6. \A i \in Slot : players'[i].won = RoundsToWin => i \in Standing
      BY <2>2, <3>1
    <3>7. QED
      BY <2>1, <3>2, <3>4, <3>5, <3>6 DEF Scores
  <2>5. clock' \in Nat /\ phase' \in Phase
    BY <2>1, TickAssumption DEF Phase
  <2>6. QED
    BY <1>1, <1>2, <2>1, <2>2, <2>3, <2>4, <2>5 DEF IInv
<1>5. QED
  BY <1>3, <1>4

-----------------------------------------------------------------------------
(* The invariant. *)

LEMMA InitOK == Init => IInv
<1>1. SUFFICES ASSUME Init PROVE IInv
  OBVIOUS
<1>2. \A i \in Slot : PlayerOK(i, Fresh(i, 0), bombs) /\ Fresh(i, 0).won = 0
  BY <1>1, FreshOK DEF Init
<1>3. \A i \in Slot : players[i] = Fresh(i, 0)
  BY <1>1 DEF Init
<1>4. players \in [Slot -> Player]
  <2>1. \A i \in Slot : Fresh(i, 0) \in Player
    BY <1>2 DEF PlayerOK
  <2>2. QED
    BY <1>1, <2>1 DEF Init
<1>5. bombs \in Pool /\ blasts \in [BlastId -> BlastRecord]
  BY <1>1, EmptyTables DEF Init
<1>6. AtOK
  <2>1. "phase" \in Loop /\ 1 \in 1 .. Passes("phase")
    BY DEF Loop, Passes
  <2>2. QED
    BY <1>1, <2>1 DEF Init, AtOK
<1>7. Scores
  BY <1>2, <1>3 DEF Scores
<1>8. phase \in Phase /\ clock \in Nat
  BY <1>1, TickAssumption DEF Init, Phase
<1>9. QED
  BY <1>2, <1>3, <1>4, <1>5, <1>6, <1>7, <1>8 DEF IInv

LEMMA NextOK == IInv /\ [Next]_vars => IInv'
<1>1. SUFFICES ASSUME IInv, [Next]_vars PROVE IInv'
  OBVIOUS
<1>2. CASE PhaseLogic
  BY <1>1, <1>2, PhaseLogicStep
<1>3. ASSUME NEW i \in Slot, PlayerTick(i) PROVE IInv'
  BY <1>1, <1>3, PlayerTickStep
<1>4. ASSUME NEW b \in Bomb, BombTick(b) PROVE IInv'
  BY <1>1, <1>4, BombTickStep
<1>5. ASSUME NEW b \in Bomb, Detonate(b) PROVE IInv'
  BY <1>1, <1>5, DetonateStep
<1>6. ASSUME NEW k \in BlastId, BlastTick(k) PROVE IInv'
  BY <1>1, <1>6, BlastTickStep
<1>7. CASE RoundEnd
  BY <1>1, <1>7, RoundEndStep
<1>8. CASE UNCHANGED vars
  BY <1>1, <1>8 DEF vars, IInv, AtOK, Scores
<1>9. QED
  BY <1>1, <1>2, <1>3, <1>4, <1>5, <1>6, <1>7, <1>8 DEF Next

\* The inductive invariant holds in every reachable state: of each player and
\* the pool what PlayerOK says, and of the rounds won what Scores says.
THEOREM Invariant == Spec => []IInv
  BY InitOK, NextOK, PTL DEF Spec

\* Every field of arena_state_t stays within its type: hp, timers, fuses and
\* ttl neither pass below zero nor above what they are set to.
THEOREM TypeCorrect == Spec => []TypeOK
<1>1. IInv => TypeOK
  BY DEF IInv, TypeOK, Pool, AtOK
<1>2. QED
  BY <1>1, Invariant, PTL

\* The count each player carries is the number of his bombs in the pool and
\* within the cap, however grab, set, spread, detonation and death interleave.
THEOREM BombsCounted == Spec => []LiveBombsCounted
<1>1. IInv => LiveBombsCounted
  BY DEF IInv, PlayerOK, LiveBombsCounted
<1>2. QED
  BY <1>1, Invariant, PTL

\* Hands and pool agree on who holds which bomb: every hit, throw and restart
\* clears both ends.
THEOREM HandsAgree == Spec => []HandsMatch
<1>1. ASSUME IInv PROVE HandsMatch
  <2>1. ASSUME NEW i \in Slot, players[i].held # NoBomb
        PROVE  /\ bombs[players[i].held].state = "held"
               /\ bombs[players[i].held].owner = i
               /\ players[i].state \notin {"tumble", "dead"}
    BY <1>1, <2>1 DEF IInv, PlayerOK
  <2>2. ASSUME NEW b \in Bomb, bombs[b].state = "held"
        PROVE  players[bombs[b].owner].held = b
    <3>1. bombs[b].owner \in Slot
      BY <1>1 DEF IInv, Pool, BombRecord
    <3>2. QED
      BY <1>1, <2>2, <3>1 DEF IInv, PlayerOK
  <2>3. QED
    BY <2>1, <2>2 DEF HandsMatch
<1>2. QED
  BY <1>1, Invariant, PTL

\* A match has at most one winner, with exactly the rounds it takes, and no
\* round is played after it.
THEOREM Champion == Spec => []OneChampion
<1>1. ASSUME IInv PROVE OneChampion
  <2>1. \A i \in Slot : players[i].won \in Nat
    BY <1>1 DEF IInv, Player
  <2>2. QED
    BY <1>1, <2>1 DEF IInv, Scores, OneChampion
<1>2. QED
  BY <1>1, Invariant, PTL

\* A round is won only by its last player standing, as it ends, and counts
\* once.
THEOREM RoundIsWonByLast == Spec => RoundWonByLast
<1> DEFINE Step == \A i \in Slot : players'[i].won # players[i].won =>
                        /\ Gameplay /\ phase' = "roundend"
                        /\ Standing = {i} /\ players'[i].won = players[i].won + 1
<1>1. IInv /\ [Next]_vars => [Step]_vars
  <2> SUFFICES ASSUME IInv, Next PROVE Step \/ UNCHANGED vars
    OBVIOUS
  <2>1. players \in [Slot -> Player] /\ bombs \in Pool
          /\ \A i \in Slot : PlayerOK(i, players[i], bombs)
    BY DEF IInv
  <2>2. ASSUME \A i \in Slot : players'[i].won = players[i].won PROVE Step
    BY <2>2
  <2>3. CASE PhaseLogic
    <3>1. CASE players' = players
      BY <2>2, <3>1
    <3>2. CASE Restart
      <4>1. \A i \in Slot : players'[i].won = players[i].won
        BY <3>2 DEF Restart, Fresh
      <4>2. QED
        BY <2>2, <4>1
    <3>3. QED
      BY <2>3, <3>1, <3>2
         DEF PhaseLogic, Countdown, Playing, SuddenDeath, RoundGoesOn
  <2>4. ASSUME NEW j \in Slot, PlayerTick(j) PROVE Step
    BY <2>2, <2>4, PlayerTickWon
  <2>5. ASSUME NEW b \in Bomb, BombTick(b) PROVE Step
    BY <2>2, <2>5 DEF BombTick
  <2>6. ASSUME NEW b \in Bomb, Detonate(b) PROVE Step
    <3> DEFINE o == bombs[b].owner
    <3>1. players' = players \/ players' = [players EXCEPT ![o].live = Lower(@)]
      BY <2>6 DEF Detonate
    <3>2. \A i \in Slot : players'[i].won = players[i].won
      BY <2>1, <3>1 DEF Player
    <3>3. QED
      BY <2>2, <3>2
  <2>7. ASSUME NEW k \in BlastId, BlastTick(k) PROVE Step
    <3>1. ASSUME NEW i \in Slot PROVE players'[i].won = players[i].won
      <4>1. players[i] \in Player
        BY <2>1
      <4>2. players'[i] = players[i] \/ \E air : players'[i] = Struck(players[i], air)
        <5>1. CASE blasts[k].ttl = 0
          BY <2>7, <5>1 DEF BlastTick
        <5>2. CASE blasts[k].ttl # 0
          <6>1. PICK hit \in SUBSET {j \in Taken : Vulnerable(j)}, air \in 2 .. AirTicks + 1 :
                  players' = [j \in Slot |->
                      IF j \in hit THEN Struck(players[j], air) ELSE players[j]]
            BY <2>7, <5>2 DEF BlastTick
          <6>2. QED
            BY <6>1
        <5>3. QED
          BY <5>1, <5>2
      <4>3. \A air : Struck(players[i], air).won = players[i].won
        BY <4>1 DEF Struck, Player
      <4>4. QED
        BY <4>2, <4>3
    <3>2. QED
      BY <2>2, <3>1
  <2>8. CASE RoundEnd
    <3>1. CASE ~ RoundDecided
      BY <2>2, <2>8, <3>1 DEF RoundEnd
    <3>2. CASE RoundDecided
      <4>1. SUFFICES ASSUME NEW i \in Slot, players'[i].won # players[i].won
                     PROVE  /\ Gameplay /\ phase' = "roundend"
                            /\ Standing = {i} /\ players'[i].won = players[i].won + 1
        OBVIOUS
      <4>2. /\ phase' = "roundend"
            /\ players'[i] = IF i \in Standing THEN [players[i] EXCEPT !.won = @ + 1]
                             ELSE players[i]
        BY <2>8, <3>2 DEF RoundEnd
      <4>3. i \in Standing
        BY <4>1, <4>2
      <4>4. players'[i].won = players[i].won + 1
        BY <2>1, <4>2, <4>3 DEF Player
      <4>5. Standing = {i}
        BY <3>2, <4>3, StandingFinite, AtMostOne DEF RoundDecided
      <4>6. QED
        BY <3>2, <4>2, <4>4, <4>5 DEF RoundDecided
    <3>3. QED
      BY <3>1, <3>2
  <2>9. QED
    BY <2>3, <2>4, <2>5, <2>6, <2>7, <2>8 DEF Next
<1>2. QED
  BY <1>1, Invariant, PTL DEF Spec, RoundWonByLast

-----------------------------------------------------------------------------
(* A blast hurts once.  Whoever it has hurt is covered, by the stun, by    *)
(* death or by a tick of grace, for as many passes of the player loop as   *)
(* come before the blast's last one.                                       *)

\* The player loop has come by slot i since blast k's last pass.
Passed(i, k) ==
    \/ at[1] = "player" /\ i < at[2]
    \/ at[1] \in {"bomb", "detonate"}
    \/ at[1] = "blast" /\ at[2] <= k

\* How often it will come by before k's last pass.
ToCome(i, k) == IF Passed(i, k) THEN blasts[k].ttl - 1 ELSE blasts[k].ttl

Covered(p, n) ==
    \/ p.state = "tumble" /\ p.timer >= InvulnTicks + n
    \/ p.state = "dead" /\ (RespawnTicks = 0 \/ p.timer >= n)
    \/ n = 0 /\ p.timer > 0

Shielded ==
    \A k \in BlastId : \A i \in blasts[k].hurt :
        blasts[k].ttl > 0 /\ Covered(players[i], ToCome(i, k))

\* The durations: a stun or a death covers what is left of a blast after the
\* pass of the hit, and the stun is followed by a grace (arena_tuning.h has
\* 30 and 120 ticks for a blast of 20, and a grace of 60).
Outlasting ==
    /\ InvulnTicks > 0
    /\ BlastTtl <= TumbleTicks + 1
    /\ RespawnTicks = 0 \/ BlastTtl <= RespawnTicks + 1

\* A pass of the player loop takes one from the cover.
LEMMA PassCovers ==
  ASSUME Outlasting, NEW i \in Slot, players[i] \in Player, PlayerTick(i),
         players \in [Slot -> Player],
         NEW n \in Nat \ {0}, Covered(players[i], n)
  PROVE  Covered(players'[i], n - 1)
<1> DEFINE p == players[i]
<1>1. /\ p.timer \in Nat /\ InvulnTicks \in Nat /\ InvulnTicks > 0
      /\ RespawnTicks \in Nat
  BY TickAssumption DEF Player, Outlasting
<1>2. \/ p.state = "tumble" /\ p.timer >= InvulnTicks + n
      \/ p.state = "dead" /\ (RespawnTicks = 0 \/ p.timer >= n)
  BY DEF Covered
<1>3. PICK in \in Inputs(i) :
        \/ /\ p.state = "dead"
           /\ players' = [players EXCEPT ![i] = [Waited(@) EXCEPT !.last = in]]
        \/ /\ p.state # "dead"
           /\ \E w \in Played(i, p, bombs, in) :
                 players' = [players EXCEPT ![i] = Moved(w.p, in)]
  BY DEF PlayerTick
<1>4. CASE p.state = "dead"
  <2>1. players'[i] = [Waited(p) EXCEPT !.last = in]
    BY <1>3, <1>4
  <2>2. Waited(p) \in {p, Revived(p), [p EXCEPT !.timer = Lower(@)]}
    BY DEF Waited
  <2>3. CASE ~ Gameplay \/ RespawnTicks = 0
    <3>1. players'[i] = [p EXCEPT !.last = in]
      BY <2>1, <2>3 DEF Waited
    <3>2. players'[i].state = "dead" /\ players'[i].timer = p.timer
      BY <1>4, <3>1 DEF Player
    <3>3. QED
      BY <1>1, <1>2, <1>4, <3>2 DEF Covered
  <2>4. CASE ~ (~ Gameplay \/ RespawnTicks = 0)
    <3>1. p.timer >= n /\ Lower(p.timer) = p.timer - 1
      BY <1>1, <1>2, <1>4, <2>4 DEF Lower
    <3>2. CASE Lower(p.timer) = 0
      <4>1. players'[i] = [Revived(p) EXCEPT !.last = in]
        BY <2>1, <2>4, <3>2 DEF Waited
      <4>2. players'[i].timer = InvulnTicks
        BY <4>1 DEF Revived, Player
      <4>3. n - 1 = 0
        BY <1>1, <3>1, <3>2
      <4>4. QED
        BY <1>1, <4>2, <4>3 DEF Covered
    <3>3. CASE Lower(p.timer) # 0
      <4>1. players'[i] = [[p EXCEPT !.timer = Lower(@)] EXCEPT !.last = in]
        BY <2>1, <2>4, <3>3 DEF Waited
      <4>2. players'[i].state = "dead" /\ players'[i].timer = p.timer - 1
        BY <1>4, <3>1, <4>1 DEF Player
      <4>3. QED
        BY <1>1, <3>1, <4>2 DEF Covered
    <3>4. QED
      BY <3>2, <3>3
  <2>5. QED
    BY <2>3, <2>4
<1>5. CASE p.state = "tumble"
  <2>1. PICK w \in Played(i, p, bombs, in) : players' = [players EXCEPT ![i] = Moved(w.p, in)]
    BY <1>3, <1>5
  <2>2. w.p = p
    BY <1>5, <2>1 DEF Played, Acts
  <2>3. players'[i] = Moved(p, in)
    BY <2>1, <2>2
  <2> DEFINE q == [p EXCEPT !.air = Lower(@)]
             left == Lower(p.timer)
  <2>4. q.state = "tumble" /\ q.timer = p.timer
    BY <1>5 DEF Player
  <2>5. left = p.timer - 1 /\ left >= InvulnTicks + (n - 1)
    BY <1>1, <1>2, <1>5 DEF Lower
  <2>6. Upkeep(q) = [q EXCEPT !.timer = left,
                              !.state = IF left <= InvulnTicks /\ q.air = 0 THEN "idle" ELSE @]
    BY <2>4 DEF Upkeep
  <2>7. /\ players'[i].timer = left
        /\ players'[i].state = IF left <= InvulnTicks /\ q.air = 0 THEN "idle" ELSE "tumble"
    BY <2>3, <2>4, <2>6 DEF Moved, Player
  <2>8. QED
    BY <1>1, <2>5, <2>7 DEF Covered
<1>6. QED
  BY <1>2, <1>4, <1>5

\* Whoever is covered is not vulnerable when the blast burns.
LEMMA CoveredIsSafe ==
  ASSUME NEW i \in Slot, NEW n \in Nat, Covered(players[i], n)
  PROVE  ~ Vulnerable(i)
BY DEF Covered, Vulnerable

\* A hit covers for the rest of the blast.
LEMMA StruckIsCovered ==
  ASSUME Outlasting, NEW p \in Player, NEW air, NEW n \in Nat, n < BlastTtl
  PROVE  Covered(Struck(p, air), n)
<1>1. /\ {BlastTtl, TumbleTicks, InvulnTicks, RespawnTicks} \subseteq Nat
      /\ n <= TumbleTicks /\ (RespawnTicks = 0 \/ n <= RespawnTicks)
  BY TickAssumption DEF Outlasting
<1>2. CASE p.hp = 1
  <2>1. Struck(p, air).state = "dead" /\ Struck(p, air).timer = RespawnTicks
    BY <1>2 DEF Struck, Player
  <2>2. QED
    BY <1>1, <2>1 DEF Covered
<1>3. CASE p.hp # 1
  <2>1. /\ Struck(p, air).state = "tumble"
        /\ Struck(p, air).timer = TumbleTicks + InvulnTicks
    BY <1>3 DEF Struck, Player
  <2>2. QED
    BY <1>1, <2>1 DEF Covered
<1>4. QED
  BY <1>2, <1>3

\* Which passes leave a player covered where he is, and when one has come by.
LEMMA PassMoves ==
  ASSUME NEW i \in Slot, NEW k \in BlastId
  PROVE  /\ Pass("phase", 1) => (Passed(i, k)' <=> Passed(i, k))
         /\ \A j \in Slot : Pass("player", j) =>
                (Passed(i, k) <=> i < j) /\ (Passed(i, k)' <=> i <= j)
         /\ \A b \in Bomb : Pass("bomb", b) => (Passed(i, k)' <=> Passed(i, k))
         /\ \A b \in Bomb : Pass("detonate", b) => (Passed(i, k)' <=> Passed(i, k))
         /\ \A h \in BlastId : Pass("blast", h) =>
                (Passed(i, k) <=> h <= k) /\ (Passed(i, k)' <=> h < k)
         /\ Pass("end", 1) => (Passed(i, k)' <=> Passed(i, k))
<1>1. i \in 1 .. NumSlots /\ k \in 1 .. NumBlasts
  BY DEF Slot, BlastId
<1>2. Pass("phase", 1) => (Passed(i, k)' <=> Passed(i, k))
  <2>1. SUFFICES ASSUME Pass("phase", 1) PROVE Passed(i, k)' <=> Passed(i, k)
    OBVIOUS
  <2>2. at = <<"phase", 1>> /\ at' = <<"player", 1>>
    BY <2>1 DEF Pass, Passes, Follows
  <2>3. QED
    BY <1>1, <2>2 DEF Passed
<1>3. ASSUME NEW j \in Slot, Pass("player", j)
      PROVE  (Passed(i, k) <=> i < j) /\ (Passed(i, k)' <=> i <= j)
  <2>1. /\ at = <<"player", j>> /\ j \in 1 .. NumSlots
        /\ at' = IF j < NumSlots THEN <<"player", j + 1>> ELSE <<"bomb", 1>>
    BY <1>3 DEF Pass, Passes, Follows, Slot
  <2>2. CASE j < NumSlots
    BY <1>1, <2>1, <2>2 DEF Passed
  <2>3. CASE ~ (j < NumSlots)
    BY <1>1, <2>1, <2>3 DEF Passed
  <2>4. QED
    BY <2>2, <2>3
<1>4. ASSUME NEW b \in Bomb, Pass("bomb", b)
      PROVE  Passed(i, k)' <=> Passed(i, k)
  <2>1. /\ at = <<"bomb", b>>
        /\ at' = IF b < NumBombs THEN <<"bomb", b + 1>> ELSE <<"detonate", 1>>
    BY <1>4 DEF Pass, Passes, Follows
  <2>2. QED
    BY <2>1 DEF Passed
<1>5. ASSUME NEW b \in Bomb, Pass("detonate", b)
      PROVE  Passed(i, k)' <=> Passed(i, k)
  <2>1. /\ at = <<"detonate", b>>
        /\ at' = IF b < NumBombs THEN <<"detonate", b + 1>> ELSE <<"blast", 1>>
    BY <1>5 DEF Pass, Passes, Follows
  <2>2. QED
    BY <1>1, <2>1 DEF Passed
<1>6. ASSUME NEW h \in BlastId, Pass("blast", h)
      PROVE  (Passed(i, k) <=> h <= k) /\ (Passed(i, k)' <=> h < k)
  <2>1. /\ at = <<"blast", h>> /\ h \in 1 .. NumBlasts
        /\ at' = IF h < NumBlasts THEN <<"blast", h + 1>> ELSE <<"end", 1>>
    BY <1>6 DEF Pass, Passes, Follows, BlastId
  <2>2. CASE h < NumBlasts
    BY <1>1, <2>1, <2>2 DEF Passed
  <2>3. CASE ~ (h < NumBlasts)
    BY <1>1, <2>1, <2>3 DEF Passed
  <2>4. QED
    BY <2>2, <2>3
<1>7. Pass("end", 1) => (Passed(i, k)' <=> Passed(i, k))
  <2>1. SUFFICES ASSUME Pass("end", 1) PROVE Passed(i, k)' <=> Passed(i, k)
    OBVIOUS
  <2>2. at = <<"end", 1>> /\ at' = <<"phase", 1>>
    BY <2>1 DEF Pass, Passes, Follows
  <2>3. QED
    BY <2>2 DEF Passed
<1>8. QED
  BY <1>2, <1>3, <1>4, <1>5, <1>6, <1>7

\* Cover(i, k): what Shielded says of one whom blast k has hurt.
Cover(i, k) == blasts[k].ttl > 0 /\ Covered(players[i], ToCome(i, k))

\* It is kept when neither the blast, nor the passes to come, nor the
\* player's state and timer change.
LEMMA CoverKept ==
  ASSUME NEW i \in Slot, NEW k \in BlastId, Cover(i, k),
         blasts'[k].ttl = blasts[k].ttl, Passed(i, k)' <=> Passed(i, k),
         players'[i].state = players[i].state, players'[i].timer = players[i].timer
  PROVE  Cover(i, k)'
<1>1. ToCome(i, k)' = ToCome(i, k)
  BY DEF ToCome
<1>2. Covered(players'[i], ToCome(i, k)')
  BY <1>1 DEF Covered, Cover
<1>3. QED
  BY <1>2 DEF Cover

LEMMA ToComeNat ==
  ASSUME IInv, NEW i \in Slot, NEW k \in BlastId, Cover(i, k)
  PROVE  /\ blasts[k].ttl \in Nat \ {0} /\ blasts[k].ttl <= BlastTtl
         /\ ToCome(i, k) \in Nat
<1>1. blasts[k] \in BlastRecord
  BY DEF IInv
<1>2. blasts[k].ttl \in 0 .. BlastTtl /\ BlastTtl \in Nat
  BY <1>1, TickAssumption DEF BlastRecord
<1>3. QED
  BY <1>2 DEF ToCome, Cover

\* The pass of player i takes one from what is to come and from the cover.
LEMMA PlayerTickShields ==
  ASSUME IInv, Outlasting, NEW j \in Slot, PlayerTick(j),
         NEW i \in Slot, NEW k \in BlastId, Cover(i, k)
  PROVE  Cover(i, k)'
<1>1. players \in [Slot -> Player]
  BY DEF IInv
<1>2. /\ Pass("player", j) /\ blasts' = blasts
      /\ \E p : players' = [players EXCEPT ![j] = p]
  BY DEF PlayerTick
<1>3. (Passed(i, k) <=> i < j) /\ (Passed(i, k)' <=> i <= j)
  BY <1>2, PassMoves
<1>4. i \in Nat /\ j \in Nat
  BY DEF Slot
<1>5. CASE i # j
  <2>1. players'[i] = players[i]
    BY <1>1, <1>2, <1>5
  <2>2. Passed(i, k)' <=> Passed(i, k)
    BY <1>3, <1>4, <1>5
  <2>3. QED
    BY <1>2, <2>1, <2>2, CoverKept
<1>6. CASE i = j
  <2>1. ~ Passed(i, k) /\ Passed(i, k)'
    BY <1>3, <1>4, <1>6
  <2>2. ToCome(i, k) = blasts[k].ttl /\ ToCome(i, k)' = blasts[k].ttl - 1
    BY <1>2, <2>1 DEF ToCome
  <2>3. blasts[k].ttl \in Nat \ {0} /\ Covered(players[i], blasts[k].ttl)
    BY <2>2, ToComeNat DEF Cover
  <2>4. Covered(players'[i], blasts[k].ttl - 1)
    BY <1>1, <1>6, <2>3, PassCovers
  <2>5. QED
    BY <1>2, <2>2, <2>3, <2>4 DEF Cover
<1>7. QED
  BY <1>5, <1>6

\* Detonations free no entry that burns and touch no player's timer.
LEMMA DetonateShields ==
  ASSUME IInv, NEW b \in Bomb, Detonate(b),
         NEW k \in BlastId, NEW i \in Slot, i \in blasts'[k].hurt,
         i \in blasts[k].hurt => Cover(i, k)
  PROVE  Cover(i, k)'
<1>1. players \in [Slot -> Player]
  BY DEF IInv
<1>2. players'[i].state = players[i].state /\ players'[i].timer = players[i].timer
  <2>1. players' = players \/ \E o : players' = [players EXCEPT ![o].live = Lower(@)]
    BY DEF Detonate
  <2>2. QED
    BY <1>1, <2>1 DEF Player
<1>3. blasts'[k] = blasts[k]
  <2>1. \/ blasts' = blasts
        \/ blasts' = [h \in BlastId |->
              IF IsFirstSpent(h) THEN [ttl |-> BlastTtl, hurt |-> {}] ELSE blasts[h]]
    BY DEF Detonate
  <2>2. QED
    BY <2>1
<1>4. Passed(i, k)' <=> Passed(i, k)
  BY PassMoves DEF Detonate
<1>5. QED
  BY <1>2, <1>3, <1>4, CoverKept

\* A pass of the blast loop: whoever blast h hurts was out in the open, so no
\* other blast has hurt him, and he is now covered for the rest of this one.
LEMMA BlastTickShields ==
  ASSUME IInv, Outlasting, NEW h \in BlastId, BlastTick(h),
         NEW k \in BlastId, NEW i \in Slot, i \in blasts'[k].hurt,
         i \in blasts[k].hurt => Cover(i, k)
  PROVE  Cover(i, k)'
<1>1. /\ players \in [Slot -> Player] /\ blasts \in [BlastId -> BlastRecord]
      /\ players[i] \in Player
  BY DEF IInv
<1>2. h \in Nat /\ k \in Nat
  BY DEF BlastId
<1>3. (Passed(i, k) <=> h <= k) /\ (Passed(i, k)' <=> h < k)
  BY PassMoves DEF BlastTick
<1>4. CASE blasts[h].ttl = 0
  <2>1. blasts' = blasts /\ players' = players
    BY <1>4 DEF BlastTick
  <2>2. Cover(i, k)
    BY <2>1
  <2>3. k # h
    BY <1>4, <2>2 DEF Cover
  <2>4. QED
    BY <1>2, <1>3, <2>1, <2>2, <2>3, CoverKept
<1>5. CASE blasts[h].ttl # 0
  <2>1. PICK hit \in SUBSET {j \in Taken : Vulnerable(j)}, air \in 2 .. AirTicks + 1 :
          /\ blasts' = [blasts EXCEPT ![h] =
                [ttl |-> @.ttl - 1, hurt |-> IF @.ttl = 1 THEN {} ELSE @.hurt \cup hit]]
          /\ players' = [j \in Slot |->
                IF j \in hit THEN Struck(players[j], air) ELSE players[j]]
    BY <1>5 DEF BlastTick
  <2>2. ASSUME Cover(i, k) PROVE i \notin hit
    <3>1. ToCome(i, k) \in Nat /\ Covered(players[i], ToCome(i, k))
      BY <2>2, ToComeNat DEF Cover
    <3>2. ~ Vulnerable(i)
      BY <3>1, CoveredIsSafe
    <3>3. QED
      BY <2>1, <3>2
  <2>3. CASE k # h
    <3>1. blasts'[k] = blasts[k]
      BY <1>1, <2>1, <2>3
    <3>2. Cover(i, k)
      BY <3>1
    <3>3. players'[i] = players[i]
      BY <2>1, <2>2, <3>2
    <3>4. QED
      BY <1>2, <1>3, <2>3, <3>1, <3>2, <3>3, CoverKept
  <2>4. CASE k = h
    <3>1. /\ blasts'[k].ttl = blasts[k].ttl - 1
          /\ blasts'[k].hurt = IF blasts[k].ttl = 1 THEN {} ELSE blasts[k].hurt \cup hit
      BY <1>1, <2>1, <2>4
    <3>2. blasts[k] \in BlastRecord
      BY <1>1
    <3>3. blasts[k].ttl \in 0 .. BlastTtl /\ BlastTtl \in Nat
      BY <3>2, TickAssumption DEF BlastRecord
    <3>4. /\ blasts[k].ttl > 1 /\ blasts'[k].ttl > 0
          /\ i \in blasts[k].hurt \cup hit
      BY <1>5, <2>4, <3>1, <3>3
    <3>5. ToCome(i, k)' = blasts[k].ttl - 1
      BY <1>2, <1>3, <2>4, <3>1 DEF ToCome
    <3>6. CASE i \in hit
      <4>1. players'[i] = Struck(players[i], air)
        BY <2>1, <3>6
      <4>2. blasts[k].ttl - 1 \in Nat /\ blasts[k].ttl - 1 < BlastTtl
        BY <3>3, <3>4
      <4>3. Covered(players'[i], blasts[k].ttl - 1)
        BY <1>1, <4>1, <4>2, StruckIsCovered
      <4>4. QED
        BY <3>4, <3>5, <4>3 DEF Cover
    <3>7. CASE i \notin hit
      <4>1. Cover(i, k)
        BY <3>4, <3>7
      <4>2. players'[i] = players[i]
        BY <2>1, <3>7
      <4>3. ToCome(i, k) = blasts[k].ttl - 1
        BY <1>2, <1>3, <2>4 DEF ToCome
      <4>4. Covered(players'[i], blasts[k].ttl - 1)
        BY <4>1, <4>2, <4>3 DEF Cover
      <4>5. QED
        BY <3>4, <3>5, <4>4 DEF Cover
    <3>8. QED
      BY <3>6, <3>7
  <2>5. QED
    BY <2>3, <2>4
<1>6. QED
  BY <1>4, <1>5

LEMMA ShieldsAreCovers ==
  /\ Shielded <=> \A k \in BlastId : \A i \in blasts[k].hurt : Cover(i, k)
  /\ Shielded' <=> \A k \in BlastId : \A i \in blasts'[k].hurt : Cover(i, k)'
  BY DEF Shielded, Cover

LEMMA ShieldedStep ==
  ASSUME IInv, Outlasting, Shielded, [Next]_vars, IInv'
  PROVE  Shielded'
<1>1. SUFFICES ASSUME NEW k \in BlastId, NEW i \in blasts'[k].hurt PROVE Cover(i, k)'
  BY ShieldsAreCovers
<1>2. i \in Slot
  <2>1. blasts'[k] \in BlastRecord
    BY DEF IInv
  <2>2. QED
    BY <2>1 DEF BlastRecord
<1>3. i \in blasts[k].hurt => Cover(i, k)
  BY ShieldsAreCovers
<1>4. players \in [Slot -> Player]
  BY DEF IInv
<1>5. CASE PhaseLogic
  <2>1. Pass("phase", 1)
    BY <1>5 DEF PhaseLogic
  <2>2. CASE Restart
    <3>1. blasts'[k].hurt = {}
      BY <2>2 DEF Restart, SpentBlast
    <3>2. QED
      BY <3>1
  <2>3. CASE players' = players /\ blasts' = blasts
    BY <1>2, <1>3, <2>1, <2>3, PassMoves, CoverKept
  <2>4. QED
    BY <1>5, <2>2, <2>3 DEF PhaseLogic, Countdown, Playing, SuddenDeath, RoundGoesOn
<1>6. ASSUME NEW j \in Slot, PlayerTick(j) PROVE Cover(i, k)'
  <2>1. blasts' = blasts
    BY <1>6 DEF PlayerTick
  <2>2. QED
    BY <1>2, <1>3, <1>6, <2>1, PlayerTickShields
<1>7. ASSUME NEW b \in Bomb, BombTick(b) PROVE Cover(i, k)'
  <2>1. Pass("bomb", b) /\ players' = players /\ blasts' = blasts
    BY <1>7 DEF BombTick
  <2>2. QED
    BY <1>2, <1>3, <2>1, PassMoves, CoverKept
<1>8. ASSUME NEW b \in Bomb, Detonate(b) PROVE Cover(i, k)'
  BY <1>2, <1>3, <1>8, DetonateShields
<1>9. ASSUME NEW h \in BlastId, BlastTick(h) PROVE Cover(i, k)'
  BY <1>2, <1>3, <1>9, BlastTickShields
<1>10. CASE RoundEnd
  <2>1. Pass("end", 1) /\ blasts' = blasts
    BY <1>10 DEF RoundEnd
  <2>2. \/ players' = players
        \/ players' = [j \in Slot |->
              IF j \in Standing THEN [players[j] EXCEPT !.won = @ + 1] ELSE players[j]]
    BY <1>10 DEF RoundEnd
  <2>3. players'[i].state = players[i].state /\ players'[i].timer = players[i].timer
    BY <1>2, <1>4, <2>2 DEF Player
  <2>4. QED
    BY <1>2, <1>3, <2>1, <2>3, PassMoves, CoverKept
<1>11. CASE UNCHANGED vars
  <2>1. players' = players /\ blasts' = blasts /\ at' = at
    BY <1>11 DEF vars
  <2>2. Passed(i, k)' <=> Passed(i, k)
    BY <2>1 DEF Passed
  <2>3. QED
    BY <1>2, <1>3, <2>1, <2>2, CoverKept
<1>12. QED
  BY <1>5, <1>6, <1>7, <1>8, <1>9, <1>10, <1>11 DEF Next

\* The hp of a player goes down only where a blast hits him.
LEMMA OnlyHitsHurt ==
  ASSUME IInv, NEW k \in BlastId, at = <<"blast", k>>, Next,
         NEW i \in Slot, players'[i].hp < players[i].hp
  PROVE  Vulnerable(i)
<1>1. players[i] \in Player /\ players[i].hp \in Nat
  BY DEF IInv, Player
<1>2. \A loop \in Loop \ {"blast"} : \A j : ~ Pass(loop, j)
  BY DEF Pass
<1>3. {"phase", "player", "bomb", "detonate", "end"} \subseteq Loop \ {"blast"}
  BY DEF Loop
<1>4. PICK h \in BlastId : BlastTick(h)
  BY <1>2, <1>3 DEF Next, PhaseLogic, PlayerTick, BombTick, Detonate, RoundEnd
<1>5. players'[i] # players[i]
  BY <1>1
<1>6. blasts[h].ttl # 0
  BY <1>4, <1>5 DEF BlastTick
<1>7. PICK hit \in SUBSET {j \in Taken : Vulnerable(j)}, air \in 2 .. AirTicks + 1 :
        players' = [j \in Slot |->
            IF j \in hit THEN Struck(players[j], air) ELSE players[j]]
  BY <1>4, <1>6 DEF BlastTick
<1>8. QED
  BY <1>5, <1>7

\* One blast hurts a player once, whatever the player and other blasts do in
\* the meantime, if a stun and a death outlast a blast (Outlasting).
THEOREM HurtOncePerBlast ==
  ASSUME Outlasting
  PROVE  Spec => OncePerBlast
<1> DEFINE Step == \A k \in BlastId, i \in Slot :
            at = <<"blast", k>> /\ players'[i].hp < players[i].hp => i \notin blasts[k].hurt
<1>1. Init => Shielded
  BY DEF Init, SpentBlast, Shielded
<1>2. IInv /\ IInv' /\ Shielded /\ [Next]_vars => Shielded'
  BY ShieldedStep
<1>3. IInv /\ Shielded /\ [Next]_vars => [Step]_vars
  <2> SUFFICES ASSUME IInv, Shielded, Next PROVE Step
    OBVIOUS
  <2> SUFFICES ASSUME NEW k \in BlastId, NEW i \in Slot, at = <<"blast", k>>,
                      players'[i].hp < players[i].hp, i \in blasts[k].hurt
               PROVE  FALSE
    OBVIOUS
  <2>1. Cover(i, k)
    BY ShieldsAreCovers
  <2>2. ToCome(i, k) \in Nat /\ Covered(players[i], ToCome(i, k))
    BY <2>1, ToComeNat DEF Cover
  <2>3. Vulnerable(i)
    BY OnlyHitsHurt
  <2>4. QED
    BY <2>2, <2>3, CoveredIsSafe
<1>4. QED
  BY <1>1, <1>2, <1>3, Invariant, PTL DEF Spec, OncePerBlast

-----------------------------------------------------------------------------
(* Nothing waits for good.  What stands behind LitBombsGoOff and           *)
(* NobodyStuck: a measure of what is left of a fuse, and of a stun or a    *)
(* death, that no step raises and its own pass in every tick lowers.       *)

Alight(r) == r.state \in {"settled", "sliding", "falling"}

\* The ticks of burning left to a bomb, with one for the kick, which it can
\* get but once and in whose tick the fuse waits.
Left(r) ==
    IF r.state \in {"settled", "falling"} THEN r.fuse + 1
    ELSE IF r.state = "sliding" THEN r.fuse ELSE 0

Lit(r) == Alight(r) => r.fuse > 0

AllLit == \A b \in Bomb : Lit(bombs[b])

LEMMA LeftNat ==
  ASSUME NEW r \in BombRecord
  PROVE  Left(r) \in Nat
BY TickAssumption DEF Left, BombRecord

\* A bomb goes from r to s, no farther from going off.
Ages(r, s) == Lit(s) /\ (Alight(r) => Left(s) <= Left(r))

\* What hands do to the pool: they touch free bombs and the one they hold.
Grips(bs, cs) ==
    \A b \in Bomb : cs[b] # bs[b] => bs[b].state \in {"free", "held"} /\ Lit(cs[b])

LEMMA GripsBoth ==
  ASSUME NEW bs, NEW cs, NEW ds, Grips(bs, cs), Grips(cs, ds)
  PROVE  Grips(bs, ds)
BY DEF Grips

LEMMA HandsGrip ==
  ASSUME NEW i \in Slot, NEW bs \in Pool, NEW p, NEW in, PlayerOK(i, p, bs),
         NEW w \in Hands(i, p, bs, in)
  PROVE  Grips(bs, w.bs)
<1>1. InFlight(i).state = "airborne" /\ [InFlight(i) EXCEPT !.state = "held"].state = "held"
  BY DEF InFlight
<1>2. \A n \in Nat : \A S \in LowestFree(bs, n) : \A b \in S :
          b \in Bomb /\ bs[b].state = "free"
  BY DEF LowestFree, Free
<1>3. CASE w \in Grabbed(i, p, bs)
  <2>1. PICK b \in UNION LowestFree(bs, 1) :
          w = [p  |-> [p EXCEPT !.held = b, !.live = @ + 1, !.timer = 0],
               bs |-> [bs EXCEPT ![b] = [InFlight(i) EXCEPT !.state = "held"]]]
    BY <1>3 DEF Grabbed
  <2>2. bs[b].state = "free"
    BY <1>2
  <2>3. w.bs = [bs EXCEPT ![b] = [InFlight(i) EXCEPT !.state = "held"]]
    BY <2>1
  <2>4. QED
    BY <1>1, <2>2, <2>3 DEF Grips, Lit, Alight, Pool
<1>4. CASE w \in Thrown(i, p, bs) /\ p.held # NoBomb
  <2>1. PICK S \in LowestFree(bs, Extras(p, bs)) :
          w.bs = [b \in Bomb |-> IF b = p.held \/ b \in S THEN InFlight(i) ELSE bs[b]]
    BY <1>4 DEF Thrown
  <2>2. bs[p.held].state = "held" /\ \A b \in S : bs[b].state = "free"
    BY <1>2, <1>4, ExtrasBound DEF PlayerOK
  <2>3. QED
    BY <1>1, <2>1, <2>2 DEF Grips, Lit, Alight
<1>5. CASE w.bs = bs
  BY <1>5 DEF Grips
<1>6. QED
  BY <1>3, <1>4, <1>5 DEF Hands

LEMMA SetGrips ==
  ASSUME NEW i, NEW bs \in Pool, NEW p, NEW in, NEW aloft, NEW w \in Set(i, p, bs, in, aloft)
  PROVE  Grips(bs, w.bs)
<1>1. CASE w.bs = bs
  BY <1>1 DEF Grips
<1>2. ASSUME NEW b \in UNION LowestFree(bs, 1), w.bs = [bs EXCEPT ![b] = Laid(i, aloft)]
      PROVE  Grips(bs, w.bs)
  <2>1. bs[b].state = "free" /\ Lit(Laid(i, aloft))
    BY TickAssumption, LowestAreFree DEF Laid, Lit, Free
  <2>2. QED
    BY <1>2, <2>1 DEF Grips, Pool
<1>3. QED
  BY <1>1, <1>2 DEF Set

LEMMA PlayerTickGrips ==
  ASSUME IInv, NEW i \in Slot, PlayerTick(i)
  PROVE  Grips(bombs, bombs')
<1> DEFINE p == players[i]
<1>1. PlayerOK(i, p, bombs) /\ bombs \in Pool
  BY DEF IInv
<1>2. PICK in \in Inputs(i) :
        \/ bombs' = bombs
        \/ p.state # "dead" /\ \E w \in Played(i, p, bombs, in) : bombs' = w.bs
  BY DEF PlayerTick
<1>3. in \in Buttons
  <2>1. Presses[i] \subseteq Buttons /\ Released \in Buttons
    BY PressAssumption DEF Buttons, Released, Slot
  <2>2. QED
    BY <2>1 DEF Inputs
<1>4. CASE bombs' = bombs
  BY <1>4 DEF Grips
<1>5. ASSUME p.state # "dead", NEW v \in Played(i, p, bombs, in), bombs' = v.bs
      PROVE  Grips(bombs, bombs')
  <2>1. CASE ~ Acts(p)
    BY <1>4, <1>5, <2>1 DEF Played
  <2>2. CASE Acts(p)
    <3> DEFINE q == Jumped(p, in)
    <3>1. PICK w \in Hands(i, q, bombs, in) : v \in Set(i, w.p, w.bs, in, p.air > 0)
      BY <2>2, <1>5 DEF Played
    <3>2. PlayerOK(i, q, bombs) /\ q.state \notin {"tumble", "dead"}
      BY <1>1, <1>3, <1>5, <2>2, JumpedOK DEF Acts
    <3> HIDE DEF q
    <3>3. w.bs \in Pool
      BY <1>1, <1>3, <3>1, <3>2, HandsOK DEF Handled
    <3>4. Grips(bombs, w.bs) /\ Grips(w.bs, v.bs)
      BY <1>1, <3>1, <3>2, <3>3, HandsGrip, SetGrips
    <3>5. QED
      BY <1>5, <3>4, GripsBoth
  <2>3. QED
    BY <2>1, <2>2
<1>6. QED
  BY <1>2, <1>4, <1>5

\* A pass of its own loop brings a lit bomb nearer to going off.
LEMMA BombAfterAges ==
  ASSUME NEW r \in BombRecord, Lit(r), NEW s \in BombAfter(r)
  PROVE  Lit(s) /\ (Alight(r) => Left(s) < Left(r))
<1>1. r.fuse \in Nat /\ Left(s) \in Nat
  BY TickAssumption, BombAfterOK, LeftNat DEF BombRecord
<1>2. \A q \in BombRecord : q.fuse > 0 /\ q.state \in {"settled", "sliding", "falling"} =>
          LET u == Burnt(q) IN
          Lit(u) /\ Left(u) <= q.fuse /\ (q.state # "sliding" \/ Left(u) < q.fuse)
  <2> TAKE q \in BombRecord
  <2> HAVE q.fuse > 0 /\ q.state \in {"settled", "sliding", "falling"}
  <2> DEFINE f == Lower(q.fuse)
             u == Burnt(q)
  <2>1. f \in Nat /\ f = q.fuse - 1 /\ q.fuse \in Nat
    BY TickAssumption DEF Lower, BombRecord
  <2>2. u.fuse = f /\ u.state = IF f = 0 THEN "exploding" ELSE q.state
    BY DEF Burnt, BombRecord
  <2> HIDE DEF f, u
  <2>3. Lit(u) /\ Left(u) <= q.fuse /\ (q.state # "sliding" \/ Left(u) < q.fuse)
    BY <2>1, <2>2 DEF Lit, Alight, Left
  <2>4. QED
    BY <2>3 DEF u
<1>3. \A st : [r EXCEPT !.state = st].state = st /\ [r EXCEPT !.state = st].fuse = r.fuse
  BY DEF BombRecord
<1>4. CASE r.state = "falling"
  <2>1. PICK c \in Falls(Dropped(r)) : s = Burnt(c)
    BY <1>4 DEF BombAfter
  <2> DEFINE d == Dropped(r)
  <2>2. d \in BombRecord /\ d.fuse = r.fuse /\ d.state = "falling"
    BY <1>4, TickAssumption DEF Dropped, BombRecord
  <2> HIDE DEF d
  <2>3. c \in BombRecord /\ c.fuse = r.fuse /\ c.state \in {"falling", "settled"}
    BY <2>1, <2>2, TickAssumption DEF Falls, BombRecord, BombState, d
  <2>4. c.fuse > 0
    BY <1>4, <2>3 DEF Lit, Alight
  <2>5. Lit(s) /\ Left(s) <= r.fuse
    BY <1>2, <2>1, <2>3, <2>4
  <2>6. QED
    BY <1>1, <1>4, <2>5 DEF Left
<1>5. CASE r.state = "settled"
  <2>1. s = Burnt(r) \/ s = [r EXCEPT !.state = "sliding"]
    BY <1>5 DEF BombAfter
  <2>2. r.fuse > 0
    BY <1>5 DEF Lit, Alight
  <2>3. CASE s = Burnt(r)
    BY <1>1, <1>2, <1>5, <2>2, <2>3 DEF Left
  <2>4. CASE s = [r EXCEPT !.state = "sliding"]
    BY <1>1, <1>3, <1>5, <2>2, <2>4 DEF Left, Lit
  <2>5. QED
    BY <2>1, <2>3, <2>4
<1>6. CASE r.state = "sliding"
  <2>1. r.fuse > 0
    BY <1>6 DEF Lit, Alight
  <2>2. CASE s = Burnt(r)
    BY <1>1, <1>2, <1>6, <2>1, <2>2 DEF Left
  <2>3. CASE s = [r EXCEPT !.state = "exploding"]
    BY <1>1, <1>3, <1>6, <2>1, <2>3 DEF Left, Lit, Alight
  <2>4. QED
    BY <1>6, <2>2, <2>3 DEF BombAfter
<1>7. CASE ~ Alight(r)
  <2>1. s = r \/ s = [r EXCEPT !.state = "exploding"]
    BY <1>7 DEF BombAfter, Alight
  <2>2. QED
    BY <1>3, <1>7, <2>1 DEF Lit, Alight
<1>8. QED
  BY <1>4, <1>5, <1>6, <1>7 DEF Alight

\* A hit sets off bombs at hand and lets fall those in hands.
LEMMA BlastTickAges ==
  ASSUME IInv, AllLit, NEW k \in BlastId, BlastTick(k), NEW b \in Bomb
  PROVE  Ages(bombs[b], bombs'[b])
<1>1. bombs[b] \in BombRecord /\ Lit(bombs[b])
  BY DEF IInv, AllLit, Pool
<1>2. CASE bombs'[b] = bombs[b]
  BY <1>1, <1>2, LeftNat DEF Ages
<1>3. CASE bombs'[b] = [bombs[b] EXCEPT !.state = "exploding"]
  <2>1. bombs'[b].state = "exploding"
    BY <1>1, <1>3 DEF BombRecord
  <2>2. QED
    BY <1>1, <2>1, LeftNat DEF Ages, Lit, Alight, Left
<1>4. ASSUME NEW i \in Slot, players[i].held = b,
             bombs'[b] = [bombs[b] EXCEPT !.state = "settled", !.fuse = FuseTicks]
      PROVE  Ages(bombs[b], bombs'[b])
  <2>1. bombs[b].state = "held"
    BY <1>4 DEF IInv, PlayerOK, NoBomb, Bomb
  <2>2. bombs'[b].fuse = FuseTicks
    BY <1>1, <1>4 DEF BombRecord
  <2>3. QED
    BY <2>1, <2>2, TickAssumption DEF Ages, Lit, Alight
<1>5. CASE blasts[k].ttl = 0
  BY <1>2, <1>5 DEF BlastTick
<1>6. CASE blasts[k].ttl # 0
  <2>1. PICK chained \in SUBSET Reachable, hit \in SUBSET {i \in Taken : Vulnerable(i)} :
          bombs' = [c \in Bomb |->
                IF c \in chained THEN [bombs[c] EXCEPT !.state = "exploding"]
                ELSE IF \E i \in hit : players[i].held = c
                THEN [bombs[c] EXCEPT !.state = "settled", !.fuse = FuseTicks]
                ELSE bombs[c]]
    BY <1>6 DEF BlastTick
  <2>2. \A i \in hit : i \in Slot
    BY DEF Taken, Slot
  <2>3. QED
    BY <1>2, <1>3, <1>4, <2>1, <2>2
<1>7. QED
  BY <1>5, <1>6

\* The end of a fuse, step by step.
LEMMA StepAges ==
  ASSUME IInv, AllLit, Next, NEW b \in Bomb
  PROVE  /\ Ages(bombs[b], bombs'[b])
         /\ at = <<"bomb", b>> /\ Alight(bombs[b]) => Left(bombs'[b]) < Left(bombs[b])
<1>0. bombs \in Pool /\ bombs[b] \in BombRecord /\ Lit(bombs[b]) /\ b \in Int
  BY DEF IInv, AllLit, Pool, Bomb
<1>1. ASSUME bombs'[b] = bombs[b] PROVE Ages(bombs[b], bombs'[b])
  BY <1>0, <1>1, LeftNat DEF Ages
<1>2. ASSUME bombs'[b] = FreeBomb PROVE Ages(bombs[b], bombs'[b])
  <2>1. Left(FreeBomb) = 0 /\ Lit(FreeBomb)
    BY DEF FreeBomb, Left, Lit, Alight
  <2>2. QED
    BY <1>0, <1>2, <2>1, LeftNat DEF Ages
<1>3. CASE PhaseLogic
  <2>1. bombs'[b] = bombs[b] \/ bombs'[b] = FreeBomb
    BY <1>3 DEF PhaseLogic, Countdown, Playing, SuddenDeath, RoundGoesOn, Restart
  <2>2. at[1] = "phase"
    BY <1>3 DEF PhaseLogic, Pass
  <2>3. QED
    BY <1>1, <1>2, <2>1, <2>2
<1>4. ASSUME NEW i \in Slot, PlayerTick(i)
      PROVE  Ages(bombs[b], bombs'[b]) /\ at[1] = "player"
  <2>1. Grips(bombs, bombs')
    BY <1>4, PlayerTickGrips
  <2>2. bombs'[b] # bombs[b] => Ages(bombs[b], bombs'[b])
    BY <2>1 DEF Grips, Ages, Alight
  <2>3. at[1] = "player"
    BY <1>4 DEF PlayerTick, Pass
  <2>4. QED
    BY <1>1, <2>2, <2>3
<1>5. ASSUME NEW c \in Bomb, BombTick(c)
      PROVE  /\ Ages(bombs[b], bombs'[b])
             /\ at = <<"bomb", b>> /\ Alight(bombs[b]) => Left(bombs'[b]) < Left(bombs[b])
  <2>1. PICK s \in BombAfter(bombs[c]) : bombs' = [bombs EXCEPT ![c] = s]
    BY <1>5 DEF BombTick
  <2>2. at = <<"bomb", c>>
    BY <1>5 DEF BombTick, Pass
  <2>3. CASE c = b
    <3>1. bombs'[b] = s
      BY <1>0, <2>1, <2>3 DEF Pool
    <3>2. Lit(s) /\ (Alight(bombs[b]) => Left(s) < Left(bombs[b]))
      BY <1>0, <2>1, <2>3, BombAfterAges
    <3>3. s \in BombRecord
      BY <1>0, <2>1, <2>3, BombAfterOK
    <3>4. QED
      BY <1>0, <3>1, <3>2, <3>3, LeftNat DEF Ages
  <2>4. CASE c # b
    BY <1>0, <1>1, <2>1, <2>2, <2>4 DEF Pool
  <2>5. QED
    BY <2>3, <2>4
<1>6. ASSUME NEW c \in Bomb, Detonate(c)
      PROVE  Ages(bombs[b], bombs'[b]) /\ at[1] = "detonate"
  <2>1. bombs'[b] = bombs[b] \/ bombs'[b] = FreeBomb
    BY <1>0, <1>6 DEF Detonate, Pool
  <2>2. at[1] = "detonate"
    BY <1>6 DEF Detonate, Pass
  <2>3. QED
    BY <1>1, <1>2, <2>1, <2>2
<1>7. ASSUME NEW k \in BlastId, BlastTick(k)
      PROVE  Ages(bombs[b], bombs'[b]) /\ at[1] = "blast"
  BY <1>7, BlastTickAges DEF BlastTick, Pass
<1>8. CASE RoundEnd
  <2>1. bombs' = bombs /\ at[1] = "end"
    BY <1>8 DEF RoundEnd, Pass
  <2>2. QED
    BY <1>1, <2>1
<1>9. at = <<"bomb", b>> => at[1] = "bomb"
  OBVIOUS
<1>10. QED
  BY <1>3, <1>4, <1>5, <1>6, <1>7, <1>8, <1>9 DEF Next

\* No bomb lies, slides or falls with its fuse burnt out: the bomb pass sets
\* it off in the very tick (bomb_tick, arena_sim.c).
THEOREM FusesAreLit == Spec => []AllLit
<1>1. Init => AllLit
  BY DEF Init, AllLit, Lit, Alight, FreeBomb
<1>2. IInv /\ AllLit /\ [Next]_vars => AllLit'
  <2> SUFFICES ASSUME IInv, AllLit, [Next]_vars PROVE AllLit'
    OBVIOUS
  <2>1. CASE Next
    <3>1. \A b \in Bomb : Lit(bombs'[b])
      BY <2>1, StepAges DEF Ages
    <3>2. QED
      BY <3>1 DEF AllLit
  <2>2. CASE UNCHANGED vars
    BY <2>2 DEF AllLit, vars
  <2>3. QED
    BY <2>1, <2>2
<1>3. QED
  BY <1>1, <1>2, Invariant, PTL DEF Spec

\* What is left of a lit bomb's fuse no kick, throw, drop or blast raises, and
\* its pass in every tick lowers it: it goes off within FuseTicks + 1 ticks
\* (bomb_tick and blast_tick, arena_sim.c).
THEOREM FusesBurn ==
  Spec => [][\A b \in Bomb : Alight(bombs[b]) =>
                 /\ Left(bombs'[b]) <= Left(bombs[b])
                 /\ (at = <<"bomb", b>> => Left(bombs'[b]) < Left(bombs[b]))]_vars
<1> DEFINE Burns == \A b \in Bomb : Alight(bombs[b]) =>
                        /\ Left(bombs'[b]) <= Left(bombs[b])
                        /\ (at = <<"bomb", b>> => Left(bombs'[b]) < Left(bombs[b]))
<1>1. IInv /\ AllLit /\ [Next]_vars => [Burns]_vars
  BY StepAges DEF Ages
<1>2. QED
  BY <1>1, Invariant, FusesAreLit, PTL DEF Spec

Down(p) == p.state \in {"tumble", "dead"}

\* What a player still has to wait: its timer, and the way down to the ground.
Sentence(p) == p.timer + p.air

\* Dead players wait only in a round, and only if there is a respawn.
Serving(p) == p.state = "dead" => Gameplay /\ RespawnTicks > 0

\* A player that is down goes from p to q: up again, or no farther from it.
Serves(p, q) ==
    Down(p) => \/ ~ Down(q)
               \/ q.state = p.state /\ Sentence(q) <= Sentence(p)

\* And nearer.
ServesTime(p, q) ==
    Down(p) /\ Serving(p) => ~ Down(q) \/ Sentence(q) < Sentence(p)

LEMMA WaitServes ==
  ASSUME NEW p \in Player, p.state = "dead", NEW in, NEW q,
         q = [Waited(p) EXCEPT !.last = in]
  PROVE  Serves(p, q) /\ ServesTime(p, q)
<1>1. p.timer \in Nat /\ p.air \in Nat
  BY TickAssumption DEF Player
<1>2. CASE ~ Gameplay \/ RespawnTicks = 0
  <2>1. q.state = p.state /\ q.timer = p.timer /\ q.air = p.air
    BY <1>2 DEF Waited, Player
  <2>2. ~ Serving(p)
    BY <1>2 DEF Serving
  <2>3. QED
    BY <1>1, <2>1, <2>2 DEF Serves, ServesTime, Sentence
<1>3. CASE ~ (~ Gameplay \/ RespawnTicks = 0) /\ Lower(p.timer) = 0
  <2>1. q.state = "idle"
    BY <1>3 DEF Waited, Revived, Player
  <2>2. QED
    BY <2>1 DEF Serves, ServesTime, Down
<1>4. CASE ~ (~ Gameplay \/ RespawnTicks = 0) /\ Lower(p.timer) # 0
  <2>1. q.state = p.state /\ q.timer = Lower(p.timer) /\ q.air = p.air
    BY <1>4 DEF Waited, Player
  <2>2. Lower(p.timer) = p.timer - 1
    BY <1>1, <1>4 DEF Lower
  <2>3. QED
    BY <1>1, <2>1, <2>2 DEF Serves, ServesTime, Sentence
<1>5. QED
  BY <1>2, <1>3, <1>4

LEMMA StunServes ==
  ASSUME NEW p \in Player, p.state = "tumble", NEW in, NEW q, q = Moved(p, in)
  PROVE  Serves(p, q) /\ ServesTime(p, q)
<1>1. p.timer \in Nat /\ p.air \in Nat
  BY TickAssumption DEF Player
<1> DEFINE a == Lower(p.air)
           t == Lower(p.timer)
           r == [p EXCEPT !.air = a]
<1>2. /\ a \in Nat /\ a <= p.air /\ (p.air > 0 => a = p.air - 1)
      /\ t \in Nat /\ t <= p.timer /\ (p.timer > 0 => t = p.timer - 1)
  BY <1>1, LowerNat
<1>3. r.state = "tumble" /\ r.air = a /\ r.timer = p.timer /\ r.held = p.held
      /\ DOMAIN r = DOMAIN p
  BY DEF Player
<1>4. q = [Upkeep(r) EXCEPT !.last = in]
  BY DEF Moved
<1> HIDE DEF r, a
<1>5. /\ q.timer = t /\ q.air = a
      /\ q.state = IF t <= InvulnTicks /\ a = 0 THEN "idle" ELSE "tumble"
  BY <1>3, <1>4 DEF Upkeep, Player
<1> HIDE DEF t
<1>6. CASE t <= InvulnTicks /\ a = 0
  BY <1>5, <1>6 DEF Serves, ServesTime, Down
<1>7. CASE ~ (t <= InvulnTicks /\ a = 0)
  <2>1. t > 0 \/ a > 0
    BY <1>2, <1>7, TickAssumption
  <2>2. t + a < p.timer + p.air
    BY <1>1, <1>2, <2>1
  <2>3. QED
    BY <1>1, <1>2, <1>5, <1>7, <2>2 DEF Serves, ServesTime, Sentence
<1>8. QED
  BY <1>6, <1>7

LEMMA PassServes ==
  ASSUME IInv, NEW i \in Slot, PlayerTick(i)
  PROVE  Serves(players[i], players'[i]) /\ ServesTime(players[i], players'[i])
<1> DEFINE p == players[i]
<1>1. p \in Player /\ players \in [Slot -> Player]
  BY DEF IInv
<1>2. PICK in \in Inputs(i) :
        \/ /\ p.state = "dead"
           /\ players' = [players EXCEPT ![i] = [Waited(@) EXCEPT !.last = in]]
        \/ /\ p.state # "dead"
           /\ \E w \in Played(i, p, bombs, in) :
                  players' = [players EXCEPT ![i] = Moved(w.p, in)]
  BY DEF PlayerTick
<1>3. CASE p.state = "dead"
  <2>1. players'[i] = [Waited(p) EXCEPT !.last = in]
    BY <1>1, <1>2, <1>3
  <2> HIDE DEF p
  <2>2. QED
    BY <1>1, <1>3, <2>1, WaitServes DEF p
<1>4. CASE p.state = "tumble"
  <2>1. Played(i, p, bombs, in) = {[p |-> p, bs |-> bombs]}
    BY <1>4 DEF Played, Acts
  <2>2. players'[i] = Moved(p, in)
    BY <1>1, <1>2, <1>4, <2>1
  <2> HIDE DEF p
  <2>3. QED
    BY <1>1, <1>4, <2>2, StunServes DEF p
<1>5. CASE ~ Down(p)
  BY <1>5 DEF Serves, ServesTime
<1>6. QED
  BY <1>3, <1>4, <1>5 DEF Down

\* The wait of whoever is down, step by step.
LEMMA StepServes ==
  ASSUME IInv, Next, NEW i \in Taken
  PROVE  /\ Serves(players[i], players'[i])
         /\ at = <<"player", i>> => ServesTime(players[i], players'[i])
<1> DEFINE p == players[i]
           q == players'[i]
<1>0. /\ i \in Slot /\ i \in Int /\ players \in [Slot -> Player] /\ p \in Player
      /\ Sentence(p) \in Nat
  <2>1. i \in Slot /\ i \in Int
    BY DEF Taken, Slot
  <2>2. players \in [Slot -> Player] /\ p \in Player
    BY <2>1 DEF IInv
  <2>3. p.timer \in Nat /\ p.air \in Nat
    BY <2>2, TickAssumption DEF Player
  <2>4. QED
    BY <2>1, <2>2, <2>3 DEF Sentence
<1> HIDE DEF p, q
<1>1. ASSUME q.state = p.state, q.timer = p.timer, q.air = p.air PROVE Serves(p, q)
  <2>1. Sentence(q) = Sentence(p)
    BY <1>1 DEF Sentence
  <2>2. QED
    BY <1>0, <1>1, <2>1 DEF Serves
<1>2. q = p => Serves(p, q)
  BY <1>1
<1>3. CASE PhaseLogic
  <2>1. q = p \/ q.state = "idle"
    BY <1>0, <1>3 DEF PhaseLogic, Countdown, Playing, SuddenDeath, RoundGoesOn, Restart,
       Fresh, p, q
  <2>2. at[1] = "phase"
    BY <1>3 DEF PhaseLogic, Pass
  <2>3. QED
    BY <1>2, <2>1, <2>2 DEF Serves, Down, p, q
<1>4. ASSUME NEW j \in Slot, PlayerTick(j)
      PROVE  Serves(p, q) /\ (at = <<"player", i>> => ServesTime(p, q))
  <2>1. at = <<"player", j>>
    BY <1>4 DEF PlayerTick, Pass
  <2>2. CASE j = i
    BY <1>0, <1>4, <2>2, PassServes DEF p, q
  <2>3. CASE j # i
    <3>1. q = p
      BY <1>0, <1>4, <2>3, PlayerTickShape DEF p, q
    <3>2. QED
      BY <1>2, <2>1, <2>3, <3>1
  <2>4. QED
    BY <2>2, <2>3
<1>5. ASSUME NEW b \in Bomb, BombTick(b) \/ Detonate(b)
      PROVE  Serves(p, q) /\ at[1] # "player"
  <2>1. at[1] # "player"
    BY <1>5 DEF BombTick, Detonate, Pass
  <2> DEFINE o == bombs[b].owner
  <2>2. players' = players \/ players' = [players EXCEPT ![o].live = Lower(@)]
    BY <1>5 DEF BombTick, Detonate
  <2>3. q.state = p.state /\ q.timer = p.timer /\ q.air = p.air
    BY <1>0, <2>2 DEF Player, p, q
  <2>4. QED
    BY <1>1, <2>1, <2>3
<1>6. ASSUME NEW k \in BlastId, BlastTick(k)
      PROVE  Serves(p, q) /\ at[1] # "player"
  <2>1. at[1] # "player"
    BY <1>6 DEF BlastTick, Pass
  <2>2. CASE blasts[k].ttl = 0
    BY <1>2, <1>6, <2>1, <2>2 DEF BlastTick, p, q
  <2>3. CASE blasts[k].ttl # 0
    <3>1. PICK hit \in SUBSET {j \in Taken : Vulnerable(j)}, air \in 2 .. AirTicks + 1 :
            players' = [j \in Slot |-> IF j \in hit THEN Struck(players[j], air) ELSE players[j]]
      BY <1>6, <2>3 DEF BlastTick
    <3>2. i \in hit => Serves(p, q)
      BY DEF Vulnerable, Serves, Down, p
    <3>3. i \notin hit => Serves(p, q)
      BY <1>0, <1>2, <3>1 DEF p, q
    <3>4. QED
      BY <2>1, <3>2, <3>3
  <2>4. QED
    BY <2>2, <2>3
<1>7. CASE RoundEnd
  <2>1. at[1] = "end"
    BY <1>7 DEF RoundEnd, Pass
  <2>2. q = p \/ q = [p EXCEPT !.won = @ + 1]
    BY <1>0, <1>7 DEF RoundEnd, p, q
  <2>3. q.state = p.state /\ q.timer = p.timer /\ q.air = p.air
    BY <1>0, <2>2 DEF Player
  <2>4. QED
    BY <1>1, <2>1, <2>3 DEF p, q
<1>8. at = <<"player", i>> => at[1] = "player"
  OBVIOUS
<1>9. QED
  BY <1>3, <1>4, <1>5, <1>6, <1>7, <1>8 DEF Next, p, q

\* Nobody stays down: what a stunned or dead player has to wait no hit, round
\* or button makes longer, and its pass in every tick makes it shorter, until
\* it acts again; the dead wait in rounds with a respawn (player_tick,
\* arena_sim.c).
THEOREM DownEnds ==
  Spec => [][\A i \in Taken :
                 /\ Serves(players[i], players'[i])
                 /\ at = <<"player", i>> => ServesTime(players[i], players'[i])]_vars
<1> DEFINE Ends == \A i \in Taken :
                       /\ Serves(players[i], players'[i])
                       /\ at = <<"player", i>> => ServesTime(players[i], players'[i])
<1>1. IInv /\ [Next]_vars => [Ends]_vars
  BY StepServes
<1>2. QED
  BY <1>1, Invariant, PTL DEF Spec

=============================================================================
