---------------------------- MODULE ReplayProofs ----------------------------
(***************************************************************************)
(* Theorem about Rollback and the tool that replays a bundle: the tick it  *)
(* names is the right one (tools/replay_bundle.c), for every set of        *)
(* players and inputs, every window, delay, size of the history and of the *)
(* ring, and length of the match.                                          *)
(*                                                                         *)
(* To RollbackProofs, where what the copies hold is shown to be right, it  *)
(* adds that they are complete: the ring holds the last RingSize ticks, no *)
(* others, although a rollback may overwrite entries of ticks it has not   *)
(* run again yet.  The tool looks for a least element; that there is one   *)
(* is a consequence of the order of the natural numbers being well-founded.*)
(***************************************************************************)
EXTENDS RollbackProofs, WellFoundedInduction

-----------------------------------------------------------------------------
(* Least elements and remainders.                                          *)

HIDE RollbackAssumption

\* An order with no infinite descent that contains the one of the numbers.
LEMMA NatOrder ==
  \E R : IsWellFoundedOn(R, Nat) /\ \A a, b \in Nat : a < b => <<a, b>> \in R
<1>1. IsWellFoundedOn(OpToRel(<, Nat), Nat)
  BY NatLessThanWellFounded
<1>2. \A a, b \in Nat : a < b => <<a, b>> \in OpToRel(<, Nat)
  BY DEF OpToRel
<1>3. QED
  BY <1>1, <1>2, Zenon

LEMMA MinimalBy ==
  ASSUME NEW R, IsWellFoundedOn(R, Nat), NEW S, S \subseteq Nat, S # {}
  PROVE  \E n \in S : \A m \in S : ~ (<<m, n>> \in R)
BY WFMin, ZenonT(60)

LEMMA LeastBy ==
  ASSUME NEW R, IsWellFoundedOn(R, Nat),
         \A a, b \in Nat : a < b => <<a, b>> \in R,
         NEW S, S \subseteq Nat, S # {}
  PROVE  \E n \in S : \A m \in S : n <= m
<1>1. \E n \in S : \A m \in S : ~ (<<m, n>> \in R)
  BY MinimalBy, Zenon
<1>2. PICK n \in S : \A m \in S : ~ (<<m, n>> \in R)
  BY <1>1
<1>3. \A m \in S : ~ (m < n)
  BY <1>2
<1>4. n \in Nat /\ \A m \in S : m \in Nat
  OBVIOUS
<1>5. \A m \in S : n <= m
  BY <1>3, <1>4
<1>6. QED
  BY <1>5

LEMMA EarliestIsLeast ==
  ASSUME NEW S, S \subseteq Nat, S # {}
  PROVE  Earliest(S) \in S /\ \A m \in S : Earliest(S) <= m
<1>1. PICK R : IsWellFoundedOn(R, Nat) /\ \A a, b \in Nat : a < b => <<a, b>> \in R
  BY NatOrder
<1>2. \E n \in S : \A m \in S : n <= m
  BY <1>1, LeastBy
<1>3. QED
  BY <1>2, Zenon DEF Earliest

LEMMA EarliestIs ==
  ASSUME NEW S, S \subseteq Nat, NEW n \in S, \A m \in S : n <= m
  PROVE  Earliest(S) = n
<1>1. Earliest(S) \in S /\ \A m \in S : Earliest(S) <= m
  BY EarliestIsLeast
<1>2. Earliest(S) <= n /\ n <= Earliest(S) /\ n \in Nat /\ Earliest(S) \in Nat
  BY <1>1
<1>3. QED
  BY <1>2

\* One turn of the ring.
LEMMA Multiple ==
  ASSUME NEW n \in Nat \ {0}, NEW a \in Nat, NEW r \in 0 .. n - 1
  PROVE  (n * a + r) % n = r
OBVIOUS

LEMMA SameEntry ==
  ASSUME NEW n \in Nat \ {0}, NEW t \in Nat
  PROVE  (t + n) % n = t % n
<1> DEFINE a == t \div n
           r == t % n
<1>1. r = t - n * a
  OBVIOUS
<1>2. a \in Nat /\ r \in 0 .. n - 1
  OBVIOUS
<1> HIDE DEF a, r
<1>3. n * (a + 1) = n * a + n /\ n * a \in Nat
  BY <1>2
<1>4. t + n = n * (a + 1) + r
  BY <1>1, <1>2, <1>3
<1>5. (n * (a + 1) + r) % n = r
  BY <1>2, Multiple
<1>6. QED
  BY <1>4, <1>5 DEF r

\* Less than a turn.
LEMMA OtherEntry ==
  ASSUME NEW n \in Int, n > 0, NEW t \in Int, NEW u \in Int, t < u, u < t + n
  PROVE  t % n # u % n
<1> DEFINE a == t \div n
           b == u \div n
<1>1. t % n = t - n * a /\ u % n = u - n * b
  OBVIOUS
<1>2. a \in Int /\ b \in Int
  OBVIOUS
<1> HIDE DEF a, b
<1>3. n * (b - a) = n * b - n * a
  BY <1>2
<1>4. CASE b - a <= 0
  <2>1. n * (b - a) <= 0
    BY <1>2, <1>4
  <2>2. QED
    BY <1>1, <1>2, <1>3, <2>1
<1>5. CASE b - a >= 1
  <2>1. n * (b - a) >= n
    BY <1>2, <1>5
  <2>2. QED
    BY <1>1, <1>2, <1>3, <2>1
<1>6. QED
  BY <1>2, <1>4, <1>5

-----------------------------------------------------------------------------
(* The ring is complete.                                                   *)

USE RollbackAssumption

\* The latest tick p has run, those undone by the present rollback included.
High(p) ==
    IF Resting(p) \/ pump[p].head < Tick(live[p]) THEN Tick(live[p])
                                                  ELSE pump[p].head

\* Nothing in the ring is older than its size allows, and nothing is missing
\* of the ticks a rollback has not undone or has run again.
RingFull(p) ==
    /\ recCount[p] <= High(p)
    /\ \A i \in 0 .. RingSize - 1 :
           LET u == ring[p][i].tick IN
           u <= High(p) /\ (u > 0 => u + RingSize > Tick(live[p]))
    /\ \A t \in 1 .. Tick(live[p]) :
           t + RingSize > High(p) => ring[p][t % RingSize].tick = t

FullInv == \A p \in Player : RingFull(p)

LEMMA HighType ==
  ASSUME TypeOK, NEW p \in Player
  PROVE  High(p) \in Nat /\ Tick(live[p]) <= High(p)
BY PeerTypes DEF High

LEMMA InitFull == Init => FullInv
<1> SUFFICES ASSUME Init, NEW p \in Player PROVE RingFull(p)
  BY DEF FullInv
<1>1. /\ live[p] = <<>> /\ Tick(live[p]) = 0 /\ recCount[p] = 0
      /\ pump[p].stage = "idle"
      /\ \A i \in 0 .. RingSize - 1 : ring[p][i].tick = 0
  BY DEF Init, Idle, Tick
<1>2. High(p) = 0
  BY <1>1 DEF High, Resting
<1>3. QED
  BY <1>1, <1>2 DEF RingFull

\* Where the match of p does not move, the ring does not.
LEMMA FullStays ==
  ASSUME NEW p \in Player, RingFull(p), live'[p] = live[p], ring'[p] = ring[p],
         recCount'[p] = recCount[p], High(p)' = High(p)
  PROVE  RingFull(p)'
BY DEF RingFull

LEMMA FrameFull ==
  ASSUME IInv, NEW p \in Player, RingFull(p), Frame(p)
  PROVE  RingFull(p)'
<1>1. /\ UNCHANGED <<live, ring, recCount>> /\ pump[p].stage = "idle"
      /\ pump' = [pump EXCEPT ![p].stage = "update"]
  BY DEF Frame
<1>2. pump'[p].stage = "update"
  BY <1>1 DEF IInv, TypeOK
<1>3. High(p)' = High(p)
  BY <1>1, <1>2 DEF High, Resting
<1>4. QED
  BY <1>1, <1>3, FullStays

LEMMA UpdateFull ==
  ASSUME IInv, NEW p \in Player, RingFull(p), Update(p)
  PROVE  RingFull(p)'
<1> DEFINE now == Tick(live[p])
<1>1. UNCHANGED <<live, ring, recCount>> /\ pump[p].stage = "update"
  BY DEF Update
<1>2. \/ Done(p, now)
      \/ \E s \in {"load", "advance"}, f \in 0 .. now, g \in {now, now + 1} :
             pump' = [pump EXCEPT ![p] = [stage |-> s, from |-> f, head |-> now, goal |-> g]]
  <2>1. verified[p] \in Nat /\ now \in Nat
    BY PeerTypes DEF IInv
  <2>2. PICK f \in verified[p] .. now :
          \/ Done(p, now)
          \/ \E g \in {now, now + 1} :
                 pump' = [pump EXCEPT ![p] =
                     [stage |-> IF f < now THEN "load" ELSE "advance",
                      from |-> f, head |-> now, goal |-> g]]
    BY DEF Update
  <2>3. QED
    BY <2>1, <2>2
<1>3. \/ pump'[p].stage = "idle"
      \/ pump'[p].stage \in {"load", "advance"} /\ pump'[p].head = now
  <2>1. pump \in [Player -> PumpState]
    BY DEF IInv, TypeOK, PumpState
  <2>2. QED
    BY <1>2, <2>1 DEF Done, Idle
<1>4. High(p)' = High(p)
  <2>1. now \in Nat
    BY PeerTypes DEF IInv
  <2>2. QED
    BY <1>1, <1>3, <2>1 DEF High, Resting
<1>5. QED
  BY <1>1, <1>4, FullStays

LEMMA LoadFull ==
  ASSUME IInv, NEW p \in Player, RingFull(p), Load(p), Tick(live'[p]) = pump[p].from
  PROVE  RingFull(p)'
<1>1. /\ pump[p].stage = "load" /\ UNCHANGED <<ring, recCount>>
      /\ pump' = [pump EXCEPT ![p].stage = "advance"]
  BY DEF Load
<1>2. pump'[p].stage = "advance" /\ pump'[p].head = pump[p].head
  BY <1>1 DEF IInv, TypeOK
<1>3. /\ pump[p].from \in Nat /\ pump[p].head \in Nat /\ pump[p].from < pump[p].head
      /\ Tick(live[p]) = pump[p].head
  BY <1>1, PeerTypes DEF IInv, PeerOK, PumpOK
<1>4. High(p) = pump[p].head /\ High(p)' = pump[p].head
  BY <1>1, <1>2, <1>3 DEF High, Resting
<1>5. \A i \in 0 .. RingSize - 1 : ring[p][i].tick \in Nat
  BY PeerTypes DEF IInv
<1>6. QED
  BY <1>1, <1>3, <1>4, <1>5 DEF RingFull

LEMMA AdvanceFull ==
  ASSUME IInv, IInv', NEW p \in Player, RingFull(p), Advance(p)
  PROVE  RingFull(p)'
<1>0. PICK T \in Nat : T = Tick(live[p])
  BY PeerTypes DEF IInv
<1>1. PICK in \in Guesses(p, T) : \E f \in BOOLEAN :
        LET s == Append(live[p], [in |-> in, flipped |-> f]) IN
        /\ Recorded(p, T, in)
        /\ live' = [live EXCEPT ![p] = s]
        /\ Hashed(p, s)
  BY <1>0, Zenon DEF Advance, IInv, TypeOK
<1>2. PICK f \in BOOLEAN :
        LET s == Append(live[p], [in |-> in, flipped |-> f]) IN
        /\ Recorded(p, T, in)
        /\ live' = [live EXCEPT ![p] = s]
        /\ Hashed(p, s)
  BY <1>1
<1> DEFINE s == Append(live[p], [in |-> in, flipped |-> f])
<1>3. Len(s) = T + 1 /\ live'[p] = s
  BY <1>0, <1>2, AppendProperties DEF IInv, TypeOK, State, Tick
<1> HIDE DEF s
<1>4. Tick(live'[p]) = T + 1
  BY <1>3 DEF Tick
<1>5. ring' = [ring EXCEPT ![p][(T + 1) % RingSize] = [tick |-> T + 1, hash |-> s]]
  BY <1>2, <1>3 DEF Hashed, Tick, Hash, s
<1>6. /\ pump' = [pump EXCEPT ![p].stage = "save"]
      /\ pump[p].stage = "advance" /\ T < pump[p].goal
      /\ recCount'[p] = recCount[p] \/ recCount'[p] = T + 1
  <2>1. pump[p].stage = "advance" /\ pump' = [pump EXCEPT ![p].stage = "save"]
    BY DEF Advance
  <2>2. T < pump[p].goal
    BY <1>0, <2>1 DEF IInv, PeerOK, PumpOK
  <2>3. recCount'[p] = recCount[p] \/ recCount'[p] = T + 1
    BY <1>2 DEF Recorded, IInv, TypeOK
  <2>4. QED
    BY <2>1, <2>2, <2>3
<1>7. pump'[p].stage = "save" /\ pump'[p].head = pump[p].head
  <2>1. pump \in [Player -> PumpState]
    BY DEF IInv, TypeOK, PumpState
  <2>2. QED
    BY <1>6, <2>1 DEF PumpState
<1>8. /\ pump[p].head \in Nat /\ recCount[p] \in Nat
      /\ \A i \in 0 .. RingSize - 1 : ring[p][i].tick \in Nat
  <2>1. TypeOK
    BY DEF IInv
  <2>2. /\ pump[p].head \in 0 .. Length /\ recCount[p] \in 0 .. HistTicks
        /\ \A i \in 0 .. RingSize - 1 : ring[p][i].tick \in 0 .. Length
    BY <2>1, PeerTypes
  <2>3. QED
    BY <2>2
<1>9. /\ High(p) = IF pump[p].head < T THEN T ELSE pump[p].head
      /\ High(p)' = IF pump[p].head < T + 1 THEN T + 1 ELSE pump[p].head
  BY <1>0, <1>4, <1>6, <1>7 DEF High, Resting
<1> DEFINE x == (T + 1) % RingSize
<1>10. /\ x \in 0 .. RingSize - 1
       /\ ring'[p][x].tick = T + 1
       /\ \A i \in 0 .. RingSize - 1 : i # x => ring'[p][i] = ring[p][i]
  <2>1. x \in 0 .. RingSize - 1
    BY RingIndex
  <2>2. ring' = [ring EXCEPT ![p][x] = [tick |-> T + 1, hash |-> s]]
    BY <1>5
  <2> HIDE DEF x
  <2>3. QED
    BY <2>1, <2>2 DEF IInv, TypeOK
<1>11. recCount'[p] <= High(p)'
  BY <1>6, <1>8, <1>9 DEF RingFull
<1>12. ASSUME NEW i \in 0 .. RingSize - 1
       PROVE  LET u == ring'[p][i].tick IN
              u <= High(p)' /\ (u > 0 => u + RingSize > T + 1)
  <2>1. CASE i = x
    <3> HIDE DEF x
    <3>1. QED
      BY <1>8, <1>9, <1>10, <2>1
  <2>2. CASE i # x
    <3> DEFINE u == ring[p][i].tick
    <3>1. u \in Nat /\ u <= High(p) /\ (u > 0 => u + RingSize > T) /\ ring'[p][i].tick = u
      BY <1>0, <1>8, <1>10, <2>2 DEF RingFull
    <3>2. u > 0 => u % RingSize = i
      BY DEF IInv, PeerOK, RingOK
    <3>3. u > 0 => u + RingSize # T + 1
      <4> SUFFICES ASSUME u > 0, u + RingSize = T + 1 PROVE FALSE
        OBVIOUS
      <4>1. (u + RingSize) % RingSize = u % RingSize
        BY <3>1, SameEntry
      <4>2. QED
        BY <2>2, <3>2, <4>1
    <3>4. QED
      <4> HIDE DEF u, x
      <4>1. QED
        BY <1>8, <1>9, <3>1, <3>3
  <2>3. QED
    BY <2>1, <2>2
<1>13. ASSUME NEW t \in 1 .. T + 1, t + RingSize > High(p)'
       PROVE  ring'[p][t % RingSize].tick = t
  <2>1. CASE t = T + 1
    BY <1>10, <2>1
  <2>2. CASE t \in 1 .. T
    <3>1. t + RingSize > High(p) /\ T + 1 < t + RingSize
      BY <1>8, <1>9, <1>13, <2>2
    <3>2. ring[p][t % RingSize].tick = t
      BY <1>0, <2>2, <3>1 DEF RingFull
    <3>3. t % RingSize # x
      BY <2>2, <3>1, OtherEntry
    <3>4. t % RingSize \in 0 .. RingSize - 1
      BY RingIndex
    <3> HIDE DEF x
    <3>5. QED
      BY <1>10, <3>2, <3>3, <3>4
  <2>3. QED
    BY <2>1, <2>2
<1>14. QED
  BY <1>4, <1>11, <1>12, <1>13 DEF RingFull

LEMMA SaveFull ==
  ASSUME IInv, NEW p \in Player, RingFull(p), Save(p)
  PROVE  RingFull(p)'
<1> DEFINE now == Tick(live[p])
<1>1. /\ UNCHANGED <<live, ring, recCount>> /\ pump[p].stage = "save"
      /\ \/ pump' = [pump EXCEPT ![p].stage = "advance"]
         \/ now >= pump[p].goal /\ pump' = [pump EXCEPT ![p] = Idle]
  <2>1. now \in Nat /\ pump[p].goal \in Nat
    BY PeerTypes DEF IInv
  <2>2. QED
    BY <2>1 DEF Save, Done
<1>2. /\ now \in Nat /\ pump[p].head \in Nat /\ pump[p].goal \in Nat
      /\ pump[p].head <= pump[p].goal
  <2>1. now \in Nat /\ pump[p].head \in Nat /\ pump[p].goal \in Nat
    BY PeerTypes DEF IInv
  <2>2. PumpOK(p) /\ ~ Resting(p)
    BY <1>1 DEF IInv, PeerOK, Resting
  <2>3. QED
    BY <2>1, <2>2 DEF PumpOK
<1>3. \/ pump'[p].stage = "advance" /\ pump'[p].head = pump[p].head
      \/ pump'[p].stage = "idle" /\ now >= pump[p].goal
  <2>1. pump \in [Player -> PumpState]
    BY DEF IInv, TypeOK, PumpState
  <2>2. QED
    BY <1>1, <2>1 DEF PumpState, Idle
<1>4. High(p)' = High(p)
  BY <1>1, <1>2, <1>3 DEF High, Resting
<1>5. QED
  BY <1>1, <1>4, FullStays

LEMMA NextFull ==
  ASSUME IInv, IInv', FullInv, [Next]_vars
  PROVE  FullInv'
<1>1. ASSUME NEW p \in Player, Step(p)
      PROVE  FullInv'
  <2>1. RingFull(p)
    BY DEF FullInv
  <2>3. RingFull(p)'
    <3>1. CASE Frame(p)
      BY <2>1, <3>1, FrameFull
    <3>2. CASE Update(p)
      BY <2>1, <3>2, UpdateFull
    <3>3. CASE Load(p)
      <4>1. Tick(live'[p]) = pump[p].from
        <5>1. live'[p] = saved[p][pump[p].from] /\ pump[p].stage = "load"
          BY <3>3 DEF Load, IInv, TypeOK
        <5>2. pump[p].from \in 0 .. Snapped(p)
          BY <5>1, PeerTypes DEF IInv, PeerOK, PumpOK, Snapped
        <5>3. QED
          BY <5>1, <5>2 DEF IInv, PeerOK, SavedOK, Tick
      <4>2. QED
        BY <2>1, <3>3, <4>1, LoadFull
    <3>4. CASE Advance(p)
      BY <2>1, <3>4, AdvanceFull
    <3>5. CASE Save(p)
      BY <2>1, <3>5, SaveFull
    <3>6. QED
      BY <1>1, <3>1, <3>2, <3>3, <3>4, <3>5 DEF Step
  <2>4. ASSUME NEW q \in Player \ {p}
        PROVE  RingFull(q)'
    <3>1. live'[q] = live[q] /\ recCount'[q] = recCount[q] /\ ring'[q] = ring[q]
      BY <1>1, OthersAlone DEF IInv
    <3>2. pump'[q] = pump[q]
      BY <1>1, StepOK
    <3>3. High(q)' = High(q)
      BY <3>1, <3>2 DEF High, Resting
    <3>4. QED
      BY <3>1, <3>3, FullStays DEF FullInv
  <2>5. QED
    BY <2>3, <2>4 DEF FullInv
<1>2. ASSUME UNCHANGED <<pump, live, recCount, ring>>
      PROVE  FullInv'
  BY <1>2, FullStays DEF FullInv, High, Resting
<1>3. QED
  BY <1>1, <1>2 DEF Next, Corrupt, Desync, vars

\* The ring of hashes is complete in every reachable state.
THEOREM Completeness == Spec => []FullInv
<1>1. Init => FullInv
  BY InitFull
<1>2. IInv /\ IInv' /\ FullInv /\ [Next]_vars => FullInv'
  BY NextFull
<1>3. QED
  BY <1>1, <1>2, Invariance, PTL DEF Spec

-----------------------------------------------------------------------------
(* What the tool makes of it.                                              *)

\* At rest, nothing is recorded of ticks the live state has not run.
LEMMA RestCounts ==
  ASSUME IInv, NEW p \in Player, RingFull(p), AtRest(p)
  PROVE  /\ High(p) = Tick(live[p]) /\ Tick(live[p]) \in Nat
         /\ recCount[p] \in Nat /\ recCount[p] <= Tick(live[p])
         /\ recCount[p] <= HistTicks
<1>1. Tick(live[p]) \in Nat /\ recCount[p] \in 0 .. HistTicks
  BY PeerTypes DEF IInv
<1>2. High(p) = Tick(live[p])
  BY DEF High, Resting, AtRest
<1>3. QED
  BY <1>1, <1>2 DEF RingFull

\* A hash of a tick within the history differs from the one replayed if, and
\* only if, a tick up to it was spoilt.
LEMMA ReplayDiffers ==
  ASSUME IInv, NEW p \in Player, RingFull(p), AtRest(p),
         NEW i \in 0 .. RingSize - 1, ring[p][i].tick \in 1 .. recCount[p]
  PROVE  ring[p][i].hash # Replayed(Bundle(p), ring[p][i].tick)
             <=> \E k \in Flipped(p) : k <= ring[p][i].tick
<1> DEFINE u == ring[p][i].tick
           h == ring[p][i].hash
           r == Replayed(Bundle(p), u)
<1>1. /\ u \in Nat /\ 1 <= u /\ u <= Tick(live[p]) /\ u <= HistTicks
      /\ Tick(live[p]) \in Nat
  BY RestCounts
<1>2. /\ h \in Seq(TickRun) /\ Len(h) = u
      /\ \A k \in 1 .. u : h[k] = live[p][k]
  <2>1. u \in 1 .. Tick(live[p])
    BY <1>1
  <2>2. QED
    BY <2>1 DEF IInv, PeerOK, RingOK, State
<1>3. \A k \in 1 .. u : /\ k \in 1 .. Len(live[p]) /\ live[p][k] \in TickRun
                        /\ live[p][k].in \in Vector /\ live[p][k].flipped \in BOOLEAN
                        /\ rec[p][k - 1] = live[p][k].in
  <2> SUFFICES ASSUME NEW k \in 1 .. u
               PROVE  /\ k \in 1 .. Len(live[p]) /\ live[p][k] \in TickRun
                      /\ live[p][k].in \in Vector /\ live[p][k].flipped \in BOOLEAN
                      /\ rec[p][k - 1] = live[p][k].in
    OBVIOUS
  <2>1. k \in 1 .. Len(live[p]) /\ k - 1 \in 0 .. Tick(live[p]) - 1 /\ k - 1 < HistTicks
    BY <1>1 DEF Tick
  <2>2. live[p] \in State
    BY PeerTypes DEF IInv
  <2>3. rec[p][k - 1] = live[p][(k - 1) + 1].in
    BY <2>1 DEF IInv, PeerOK, RecordOK
  <2>4. (k - 1) + 1 = k
    OBVIOUS
  <2>5. QED
    BY <2>1, <2>2, <2>3, <2>4, TickElement
<1>4. r = [k \in 1 .. u |-> [in |-> rec[p][k - 1], flipped |-> FALSE]]
  BY DEF Replayed, Bundle
<1> HIDE DEF u, h, r
<1>5. r \in Seq(TickRun) /\ Len(r) = u
      /\ \A k \in 1 .. u : r[k].in = live[p][k].in /\ r[k].flipped = FALSE
  <2>1. \A k \in 1 .. u : [in |-> rec[p][k - 1], flipped |-> FALSE] \in TickRun
    BY <1>3 DEF TickRun
  <2>2. r \in [1 .. u -> TickRun]
    BY <1>4, <2>1
  <2>3. r \in Seq(TickRun) /\ Len(r) = u
    BY <1>1, <2>2
  <2>4. QED
    BY <1>3, <1>4, <2>3
<1>6. ASSUME NEW k \in Flipped(p), k <= u
      PROVE  h # r
  <2>1. k \in 1 .. Len(live[p]) /\ live[p][k].flipped = TRUE
    BY <1>3, <1>6 DEF Flipped, IInv
  <2>2. k \in 1 .. u
    BY <1>1, <1>6, <2>1 DEF Tick
  <2>3. h[k].flipped = TRUE /\ r[k].flipped = FALSE
    BY <1>2, <1>5, <2>1, <2>2
  <2>4. QED
    BY <2>3
<1>7. ASSUME ~ \E k \in Flipped(p) : k <= u
      PROVE  h = r
  <2>1. ASSUME NEW k \in 1 .. u
        PROVE  h[k] = r[k]
    <3>1. ~ live[p][k].flipped
      BY <1>1, <1>3, <1>7 DEF Flipped
    <3>2. live[p][k] \in TickRun /\ r[k] \in TickRun
      BY <1>3, <1>5, ElementOfSeq
    <3>3. live[p][k].in = r[k].in /\ live[p][k].flipped = r[k].flipped
      BY <1>3, <1>5, <3>1
    <3>4. QED
      BY <1>2, <3>2, <3>3 DEF TickRun
  <2>2. QED
    BY <1>2, <1>5, <2>1, SeqEqual
<1>8. QED
  BY <1>6, <1>7 DEF u, h, r

\* The earliest tick the replay contradicts is the one at which the state
\* left its inputs, or the oldest in the ring (tools/replay_bundle.c,
\* first_divergence).
THEOREM ReplayIsRight == Spec => []ReplayNamesTheTick
<1>1. ASSUME IInv, FullInv
      PROVE  ReplayNamesTheTick
  <2> SUFFICES ASSUME NEW p \in Player, AtRest(p)
               PROVE  LET oldest  == Tick(live[p]) - RingSize + 1
                          left    == Earliest(Flipped(p))
                          visible == IF left >= oldest THEN left ELSE oldest
                      IN  FirstDivergence(Bundle(p)) =
                            IF Flipped(p) # {} /\ visible <= recCount[p] THEN visible ELSE 0
    BY DEF ReplayNamesTheTick
  <2> DEFINE now == Tick(live[p])
             oldest  == now - RingSize + 1
             left    == Earliest(Flipped(p))
             visible == IF left >= oldest THEN left ELSE oldest
             C == Contradicted(Bundle(p))
  <2>1. RingFull(p)
    BY <1>1 DEF FullInv
  <2>2. /\ High(p) = now /\ now \in Nat /\ recCount[p] \in Nat
        /\ recCount[p] <= now
    BY <1>1, <2>1, RestCounts
  <2>3. \A i \in 0 .. RingSize - 1 :
          ring[p][i].tick \in Nat /\ (ring[p][i].tick > 0 => ring[p][i].tick >= oldest)
    <3>1. \A i \in 0 .. RingSize - 1 : ring[p][i].tick \in Nat
      BY <1>1, PeerTypes DEF IInv
    <3>2. QED
      BY <2>1, <2>2, <3>1 DEF RingFull
  <2>4. Flipped(p) \subseteq Nat /\ \A k \in Flipped(p) : 1 <= k /\ k <= now
    BY <2>2 DEF Flipped, Tick
  <2>5. \A c : c \in C <=>
          \E i \in 0 .. RingSize - 1 : /\ ring[p][i].tick = c /\ c \in 1 .. recCount[p]
                                       /\ \E k \in Flipped(p) : k <= c
    <3>1. C = {ring[p][i].tick : i \in
                 {j \in 0 .. RingSize - 1 :
                   /\ ring[p][j].tick \in 1 .. recCount[p]
                   /\ ring[p][j].hash # Replayed(Bundle(p), ring[p][j].tick)}}
      BY DEF Contradicted, Bundle, Hash
    <3>2. \A j \in 0 .. RingSize - 1 : ring[p][j].tick \in 1 .. recCount[p] =>
            (ring[p][j].hash # Replayed(Bundle(p), ring[p][j].tick)
                <=> \E k \in Flipped(p) : k <= ring[p][j].tick)
      BY <1>1, <2>1, ReplayDiffers
    <3>3. QED
      BY <3>1, <3>2
  <2>6. FirstDivergence(Bundle(p)) = IF C = {} THEN 0 ELSE Earliest(C)
    BY DEF FirstDivergence
  <2> HIDE DEF C
  <2>7. CASE Flipped(p) = {}
    BY <2>5, <2>6, <2>7
  <2>8. CASE Flipped(p) # {}
    <3>1. left \in Flipped(p) /\ \A k \in Flipped(p) : left <= k
      BY <2>4, <2>8, EarliestIsLeast
    <3>2. left \in Nat /\ 1 <= left /\ left <= now
      BY <2>4, <3>1
    <3> HIDE DEF left
    <3>3. /\ visible \in Nat /\ 1 <= visible /\ visible <= now
          /\ left <= visible /\ oldest <= visible
      BY <2>2, <3>2
    <3>4. \A c \in C : c \in Nat /\ c <= recCount[p] /\ visible <= c
      <4> SUFFICES ASSUME NEW c \in C
                   PROVE  c \in Nat /\ c <= recCount[p] /\ visible <= c
        OBVIOUS
      <4>1. PICK i \in 0 .. RingSize - 1 :
              /\ ring[p][i].tick = c /\ c \in 1 .. recCount[p]
              /\ \E k \in Flipped(p) : k <= c
        BY <2>5
      <4>2. c >= oldest /\ c \in Nat
        BY <2>3, <4>1
      <4>3. left <= c
        BY <2>4, <3>1, <3>2, <4>1, <4>2
      <4>4. QED
        BY <2>2, <4>1, <4>2, <4>3
    <3>5. CASE visible <= recCount[p]
      <4>1. ring[p][visible % RingSize].tick = visible
        <5>1. visible \in 1 .. now /\ visible + RingSize > High(p)
          BY <2>2, <3>3
        <5> HIDE DEF visible
        <5>2. QED
          BY <2>1, <5>1 DEF RingFull
      <4>2. visible % RingSize \in 0 .. RingSize - 1
        BY <3>3, RingIndex
      <4> HIDE DEF visible
      <4>3. visible \in C
        BY <2>5, <3>1, <3>3, <3>5, <4>1, <4>2
      <4>4. Earliest(C) = visible
        BY <3>4, <4>3, EarliestIs
      <4>5. FirstDivergence(Bundle(p)) = visible
        BY <2>6, <4>3, <4>4
      <4>6. QED
        BY <2>8, <3>5, <4>5 DEF visible, left
    <3>6. CASE ~ (visible <= recCount[p])
      <4>1. C = {}
        <5> HIDE DEF visible
        <5>1. QED
          BY <2>2, <3>3, <3>4, <3>6
      <4>2. QED
        BY <2>6, <3>6, <4>1 DEF left
    <3>7. QED
      BY <3>5, <3>6
  <2>9. QED
    BY <2>7, <2>8
<1>2. QED
  BY <1>1, Invariance, Completeness, PTL

=============================================================================
