--------------------------- MODULE RollbackProofs ---------------------------
(***************************************************************************)
(* Theorems about Rollback, for every set of players and inputs, every     *)
(* window, delay, size of the history and of the ring, and length of the   *)
(* match.                                                                  *)
(*                                                                         *)
(* The inductive invariant says, of each peer, what its copies of the      *)
(* match have in common with its live state: the snapshots, the recorded   *)
(* inputs and the ring agree with it up to its tick, and it agrees with    *)
(* the true inputs up to the tick it has verified.  A rollback shortens    *)
(* the live state, never below that tick, so nothing else is needed.       *)
(***************************************************************************)
EXTENDS Rollback, SequenceTheorems, TLAPS

Resting(p) == pump[p].stage \in {"idle", "update"}

\* The known inputs are the first ones of those given.
KnownOK(p) == arrived[p][p] = 0 /\ \A q \in Player : arrived[p][q] <= Len(chosen[q])

\* Verified ticks have run on the true inputs.
SettledOK(p) ==
    /\ verified[p] <= Tick(live[p])
    /\ AllKnown(p, verified[p])
    /\ \A t \in 0 .. verified[p] - 1 : live[p][t + 1].in = Truth(t)

\* How far the snapshots go with the live state.
Snapped(p) == IF pump[p].stage = "save" THEN Tick(live[p]) - 1 ELSE Tick(live[p])

SavedOK(p) ==
    \A t \in 0 .. Snapped(p) :
        Len(saved[p][t]) = t /\ \A k \in 1 .. t : saved[p][t][k] = live[p][k]

RecordOK(p) ==
    \A t \in 0 .. Tick(live[p]) - 1 :
        t < HistTicks => t < recCount[p] /\ rec[p][t] = live[p][t + 1].in

RingOK(p) ==
    \A i \in 0 .. RingSize - 1 :
        LET u == ring[p][i].tick IN
        /\ u = 0 => ring[p][i].hash = NoState
        /\ u > 0 => u % RingSize = i
        /\ u \in 1 .. Tick(live[p]) =>
               /\ ring[p][i].hash \in State
               /\ Len(ring[p][i].hash) = u
               /\ \A k \in 1 .. u : ring[p][i].hash[k] = live[p][k]

\* No tick before t has run on an input known to be another.
RightUpTo(p, t) == \A j \in 0 .. t - 1 : ~ Wrong(p, j)

PumpOK(p) ==
    LET now == Tick(live[p]) IN
    /\ now <= Length
    /\ Resting(p) => now - Window <= verified[p]
    /\ ~ Resting(p) =>
           /\ verified[p] <= pump[p].from /\ pump[p].from <= pump[p].head
           /\ pump[p].head <= pump[p].goal
           /\ AllKnown(p, pump[p].goal - Window)
    /\ pump[p].stage = "load" =>
           /\ pump[p].from < pump[p].head /\ now = pump[p].head
           /\ RightUpTo(p, pump[p].from)
    /\ pump[p].stage = "advance" =>
           pump[p].from <= now /\ now < pump[p].goal /\ RightUpTo(p, now)
    /\ pump[p].stage = "save" =>
           pump[p].from < now /\ now <= pump[p].goal /\ RightUpTo(p, now)

\* A reported desync is of a tick both have verified.
ReportOK(p) ==
    LET t == dinfo[p].tick
        q == dinfo[p].slot
    IN
    q # Nobody =>
        /\ t <= verified[p] /\ t <= verified[q]
        /\ \E k \in 1 .. t : live[p][k].flipped \/ live[q][k].flipped

PeerOK(p) ==
    KnownOK(p) /\ SettledOK(p) /\ SavedOK(p) /\ RecordOK(p) /\ RingOK(p) /\ PumpOK(p)

IInv ==
    /\ TypeOK
    /\ \A p \in Player : PeerOK(p)
    /\ \A p \in Player : ReportOK(p)

USE RollbackAssumption

-----------------------------------------------------------------------------
(* Facts about the operators.                                              *)

\* The state of a peer in a form the provers take in.
LEMMA PeerTypes ==
  ASSUME TypeOK, NEW p \in Player
  PROVE  /\ chosen[p] \in Seq(Input) /\ Len(chosen[p]) \in Nat
         /\ arrived[p] \in [Player -> Nat]
         /\ verified[p] \in 0 .. Length
         /\ saved[p] \in [0 .. Length -> State]
         /\ pump[p].stage \in {"idle", "update", "load", "advance", "save"}
         /\ pump[p].from \in 0 .. Length /\ pump[p].head \in 0 .. Length
         /\ pump[p].goal \in 0 .. Length
         /\ live[p] \in State /\ Tick(live[p]) \in Nat
         /\ recCount[p] \in 0 .. HistTicks
         /\ \A i \in 0 .. RingSize - 1 : ring[p][i].tick \in 0 .. Length
<1>1. /\ chosen[p] \in Seq(Input) /\ arrived[p] \in [Player -> Nat]
      /\ verified[p] \in 0 .. Length /\ saved[p] \in [0 .. Length -> State]
      /\ live[p] \in State /\ recCount[p] \in 0 .. HistTicks
  BY DEF TypeOK
<1>2. pump[p] \in [stage : {"idle", "update", "load", "advance", "save"},
                   from : 0 .. Length, head : 0 .. Length, goal : 0 .. Length]
  BY DEF TypeOK
<1>3. ring[p] \in [0 .. RingSize - 1 -> [tick : 0 .. Length, hash : State \cup {NoState}]]
  BY DEF TypeOK
<1>4. Len(chosen[p]) \in Nat /\ Tick(live[p]) \in Nat
  BY <1>1, LenProperties DEF Tick, State
<1>5. QED
  BY <1>1, <1>2, <1>3, <1>4

LEMMA KnownNat ==
  ASSUME TypeOK, NEW p \in Player, NEW q \in Player
  PROVE  Known(p, q) \in Nat
BY PeerTypes DEF Known

LEMMA TickElement ==
  ASSUME NEW s \in State, NEW k \in 1 .. Len(s)
  PROVE  s[k] \in TickRun /\ s[k].in \in Vector /\ s[k].flipped \in BOOLEAN
<1>1. s[k] \in TickRun
  BY ElementOfSeq, Zenon DEF State
<1>2. QED
  BY <1>1 DEF TickRun

\* What the guesses for a tick depend on: the known inputs of that tick.
LEMMA GuessesSame ==
  ASSUME TypeOK, NEW p \in Player, NEW t \in Nat,
         \A q \in Player :
             /\ (t < Known(p, q))' <=> t < Known(p, q)
             /\ t < Known(p, q) => (chosen[q][t + 1])' = chosen[q][t + 1]
  PROVE  Guesses(p, t)' = Guesses(p, t)
BY DEF Guesses

LEMMA KnownBound ==
  ASSUME TypeOK, NEW p \in Player, NEW q \in Player, KnownOK(p)
  PROVE  Known(p, q) <= Len(chosen[q])
BY PeerTypes DEF Known, KnownOK

-----------------------------------------------------------------------------
(* What a step leaves alone.                                               *)

\* Inputs given are never taken back.
Grow ==
    \A q \in Player :
        /\ Len(chosen[q]) <= Len(chosen'[q])
        /\ \A k \in 1 .. Len(chosen[q]) : chosen'[q][k] = chosen[q][k]

LEMMA NothingGiven ==
  ASSUME TypeOK, UNCHANGED chosen
  PROVE  Grow
BY PeerTypes DEF Grow

LEMMA StaysSettled ==
  ASSUME TypeOK, TypeOK', NEW p \in Player, KnownOK(p), SettledOK(p), Grow,
         \A q \in Player : arrived[p][q] <= arrived'[p][q],
         verified'[p] = verified[p], live'[p] = live[p]
  PROVE  SettledOK(p)'
<1>1. \A q \in Player :
        Known(p, q) \in Nat /\ Known(p, q)' \in Nat /\ Known(p, q) <= Known(p, q)'
  <2>1. \A q \in Player : Known(p, q) \in Nat
    BY KnownNat
  <2>2. \A q \in Player : Known(p, q)' \in Nat
    BY LenProperties DEF Known, TypeOK
  <2>3. QED
    BY <2>1, <2>2 DEF Known, Grow
<1>2. verified[p] \in Nat
  BY PeerTypes
<1>3. AllKnown(p, verified[p])'
  BY <1>1, <1>2 DEF SettledOK, AllKnown
<1>4. \A t \in 0 .. verified[p] - 1 : Truth(t)' = Truth(t)
  <2> SUFFICES ASSUME NEW t \in 0 .. verified[p] - 1, NEW q \in Player
               PROVE  chosen'[q][t + 1] = chosen[q][t + 1]
    BY DEF Truth
  <2>1. verified[p] <= Known(p, q) /\ Known(p, q) <= Len(chosen[q])
    BY KnownBound DEF SettledOK, AllKnown
  <2>2. t + 1 \in 1 .. Len(chosen[q])
    BY <1>1, <1>2, <2>1, PeerTypes
  <2>3. QED
    BY <2>2 DEF Grow
<1>5. QED
  BY <1>3, <1>4 DEF SettledOK

\* A peer whose own state a step does not touch.
LEMMA Bystander ==
  ASSUME TypeOK, TypeOK', NEW p \in Player, PeerOK(p), Grow,
         chosen'[p] = chosen[p], arrived'[p] = arrived[p],
         verified'[p] = verified[p], saved'[p] = saved[p], pump'[p] = pump[p],
         live'[p] = live[p], rec'[p] = rec[p], recCount'[p] = recCount[p],
         ring'[p] = ring[p]
  PROVE  PeerOK(p)'
<1>1. KnownOK(p)'
  <2>1. \A q \in Player : arrived[p][q] \in Nat /\ Len(chosen[q]) \in Nat
                           /\ Len(chosen'[q]) \in Nat
    BY PeerTypes, LenProperties DEF TypeOK
  <2>2. QED
    BY <2>1 DEF PeerOK, KnownOK, Grow
<1>2. SettledOK(p)'
  <2>1. \A q \in Player : arrived[p][q] <= arrived'[p][q]
    BY PeerTypes
  <2>2. QED
    BY <2>1, StaysSettled DEF PeerOK
<1>3. SavedOK(p)' /\ RecordOK(p)' /\ RingOK(p)'
  BY DEF PeerOK, SavedOK, Snapped, RecordOK, RingOK
<1>4. \A q \in Player : Known(p, q)' = Known(p, q)
  BY DEF Known
<1>5. \A t \in Nat : Guesses(p, t)' = Guesses(p, t)
  <2> SUFFICES ASSUME NEW t \in Nat, NEW q \in Player, t < Known(p, q)
               PROVE  chosen'[q][t + 1] = chosen[q][t + 1]
    BY <1>4, GuessesSame
  <2>1. Known(p, q) \in Nat /\ Known(p, q) <= Len(chosen[q]) /\ Len(chosen[q]) \in Nat
    BY KnownNat, KnownBound, PeerTypes DEF PeerOK
  <2>2. t + 1 \in 1 .. Len(chosen[q])
    BY <2>1
  <2>3. QED
    BY <2>2 DEF Grow
<1>6. \A t \in Int : RightUpTo(p, t) => RightUpTo(p, t)'
  BY <1>5 DEF RightUpTo, Wrong
<1>7. \A t \in Int : AllKnown(p, t) => AllKnown(p, t)'
  BY <1>4 DEF AllKnown
<1>8. PumpOK(p)'
  BY <1>6, <1>7, PeerTypes DEF PeerOK, PumpOK, Resting, Tick
<1>9. QED
  BY <1>1, <1>2, <1>3, <1>8 DEF PeerOK

PumpState ==
    [stage : {"idle", "update", "load", "advance", "save"},
     from : 0 .. Length, head : 0 .. Length, goal : 0 .. Length]

LEMMA PumpStage ==
  ASSUME TypeOK, NEW p \in Player,
         NEW g \in {"idle", "update", "load", "advance", "save"}
  PROVE  [pump EXCEPT ![p].stage = g] \in [Player -> PumpState]
<1>1. pump \in [Player -> PumpState]
  BY DEF TypeOK, PumpState
<1>2. pump[p] \in PumpState
  BY <1>1
<1>3. [pump[p] EXCEPT !.stage = g] \in PumpState
  BY <1>2, Zenon DEF PumpState
<1>4. QED
  BY <1>1, <1>3, Zenon

-----------------------------------------------------------------------------
(* The actions.  Each keeps the types, and what PeerOK says of the peer    *)
(* that moves.                                                             *)

LEMMA InitOK == Init => IInv
<1> SUFFICES ASSUME Init PROVE IInv
  OBVIOUS
<1>1. <<>> \in State /\ <<>> \in Seq(Input) /\ Len(<<>>) = 0
  BY EmptySeq DEF State
<1>2. TypeOK
  BY <1>1 DEF Init, TypeOK, Idle
<1>3. ASSUME NEW p \in Player PROVE PeerOK(p)
  <2>1. KnownOK(p)
    BY <1>1 DEF Init, KnownOK
  <2>2. SettledOK(p) /\ SavedOK(p) /\ RecordOK(p)
    BY <1>1 DEF Init, SettledOK, SavedOK, RecordOK, AllKnown, Known, Tick, Idle, Snapped
  <2>3. RingOK(p)
    BY <1>1 DEF Init, RingOK, Tick
  <2>4. PumpOK(p)
    BY <1>1 DEF Init, PumpOK, Resting, Idle, Tick
  <2>5. QED
    BY <2>1, <2>2, <2>3, <2>4 DEF PeerOK
<1>4. ASSUME NEW p \in Player PROVE ReportOK(p)
  BY DEF Init, ReportOK
<1>5. QED
  BY <1>2, <1>3, <1>4 DEF IInv

LEMMA FrameOK ==
  ASSUME TypeOK, NEW p \in Player, PeerOK(p), Frame(p)
  PROVE  TypeOK' /\ Grow /\ PeerOK(p)' /\ \A q \in Player \ {p} : chosen'[q] = chosen[q]
<1>1. PICK got \in [Player -> 0 .. Length] :
        /\ \A q \in Player : got[q] \in arrived[p][q] .. Len(chosen[q])
        /\ got[p] = 0
        /\ arrived' = [arrived EXCEPT ![p] = got]
  BY DEF Frame
<1>2. /\ chosen' \in [Player -> Seq(Input)]
      /\ Grow
      /\ \A q \in Player \ {p} : chosen'[q] = chosen[q]
  <2>1. CASE UNCHANGED chosen
    BY <2>1, NothingGiven DEF TypeOK
  <2>2. CASE \E i \in Input : chosen' = [chosen EXCEPT ![p] = Append(@, i)]
    <3>1. PICK i \in Input : chosen' = [chosen EXCEPT ![p] = Append(@, i)]
      BY <2>2
    <3>2. /\ Append(chosen[p], i) \in Seq(Input)
          /\ Len(Append(chosen[p], i)) = Len(chosen[p]) + 1
          /\ \A k \in 1 .. Len(chosen[p]) : Append(chosen[p], i)[k] = chosen[p][k]
      BY AppendProperties, PeerTypes
    <3>3. \A q \in Player : chosen'[q] = IF q = p THEN Append(chosen[p], i) ELSE chosen[q]
      BY <3>1 DEF TypeOK
    <3>4. chosen' \in [Player -> Seq(Input)]
      BY <3>1, <3>2 DEF TypeOK
    <3>5. \A q \in Player : Len(chosen[q]) \in Nat
      BY PeerTypes
    <3>6. Grow
      <4>1. ASSUME NEW q \in Player, q # p
            PROVE  chosen'[q] = chosen[q] /\ Len(chosen[q]) <= Len(chosen'[q])
        BY <3>3, <3>5, <4>1
      <4>2. Len(chosen[p]) <= Len(chosen'[p])
        <5>1. chosen'[p] = Append(chosen[p], i)
          BY <3>3
        <5>2. QED
          BY <5>1, <3>2, <3>5
      <4>3. \A k \in 1 .. Len(chosen[p]) : chosen'[p][k] = chosen[p][k]
        BY <3>2, <3>3
      <4>4. QED
        BY <4>1, <4>2, <4>3 DEF Grow
    <3>7. QED
      BY <3>3, <3>4, <3>6
  <2>3. QED
    BY <2>1, <2>2 DEF Frame
<1>3. got \in [Player -> Nat]
  OBVIOUS
<1>4. arrived' \in [Player -> [Player -> Nat]]
  BY <1>1, <1>3 DEF TypeOK
<1>5. /\ pump' = [pump EXCEPT ![p].stage = "update"]
      /\ UNCHANGED <<verified, saved, live, rec, recCount, ring, armed, dinfo>>
      /\ pump[p].stage = "idle"
  BY DEF Frame
<1>6. pump' \in [Player -> PumpState]
  BY <1>5, PumpStage
<1>7. TypeOK'
  BY <1>2, <1>4, <1>5, <1>6 DEF TypeOK, PumpState
<1>8. arrived'[p] = got /\ pump'[p].stage = "update"
  BY <1>1, <1>5 DEF TypeOK
<1>9. \A q \in Player : /\ got[q] \in Nat /\ arrived[p][q] \in Nat
                        /\ Len(chosen[q]) \in Nat /\ Len(chosen'[q]) \in Nat
                        /\ arrived[p][q] <= got[q] /\ got[q] <= Len(chosen[q])
  BY <1>1, <1>2, <1>3, PeerTypes, LenProperties
<1>10. KnownOK(p)'
  BY <1>1, <1>2, <1>8, <1>9 DEF KnownOK, Grow
<1>11. SettledOK(p)'
  BY <1>2, <1>5, <1>7, <1>8, <1>9, StaysSettled DEF PeerOK
<1>12. SavedOK(p)' /\ RecordOK(p)' /\ RingOK(p)'
  BY <1>5, <1>8 DEF PeerOK, SavedOK, Snapped, RecordOK, RingOK
<1>13. PumpOK(p)'
  BY <1>5, <1>8 DEF PeerOK, PumpOK, Resting
<1>14. QED
  BY <1>2, <1>7, <1>10, <1>11, <1>12, <1>13 DEF PeerOK

\* What p has verified stays verified, and stays what it was.
Steady(p) ==
    /\ verified[p] <= verified'[p]
    /\ \A k \in 1 .. verified[p] : live'[p][k] = live[p][k]

LEMMA KnownDownward ==
  ASSUME TypeOK, NEW p \in Player, NEW t \in Int, NEW k \in Int, k <= t, AllKnown(p, t)
  PROVE  AllKnown(p, k)
<1> SUFFICES ASSUME NEW q \in Player PROVE k <= Known(p, q)
  BY DEF AllKnown
<1>1. Known(p, q) \in Int
  BY KnownNat
<1>2. t <= Known(p, q)
  BY DEF AllKnown
<1>3. QED
  BY <1>1, <1>2

\* A tick that is right and fully known has run on the true inputs.
LEMMA RightIsTrue ==
  ASSUME TypeOK, NEW p \in Player, NEW t \in 0 .. Tick(live[p]) - 1,
         ~ Wrong(p, t), AllKnown(p, t + 1)
  PROVE  live[p][t + 1].in = Truth(t)
<1>1. live[p] \in State /\ t + 1 \in 1 .. Len(live[p])
  BY PeerTypes DEF Tick
<1>2. live[p][t + 1].in \in Vector
  BY <1>1, TickElement
<1>3. \A q \in Player : t < Known(p, q)
  <2> SUFFICES ASSUME NEW q \in Player PROVE t < Known(p, q)
    OBVIOUS
  <2>1. Known(p, q) \in Int /\ t \in Int
    BY <1>1, KnownNat
  <2>2. t + 1 <= Known(p, q)
    BY DEF AllKnown
  <2>3. QED
    BY <2>1, <2>2
<1>4. \A q \in Player : live[p][t + 1].in[q] = chosen[q][t + 1]
  BY <1>3 DEF Wrong, Guesses
<1>5. QED
  BY <1>2, <1>4 DEF Truth, Vector

LEMMA DoneOK ==
  ASSUME TypeOK, NEW p \in Player, KnownOK(p), SettledOK(p),
         UNCHANGED <<chosen, arrived, live>>, Tick(live[p]) <= Length,
         RightUpTo(p, Tick(live[p])), AllKnown(p, Tick(live[p]) - Window),
         Done(p, Tick(live[p]))
  PROVE  /\ verified' \in [Player -> 0 .. Length] /\ pump' \in [Player -> PumpState]
         /\ SettledOK(p)' /\ PumpOK(p)' /\ Steady(p)
         /\ pump'[p].stage = "idle"
         /\ \A q \in Player \ {p} : verified'[q] = verified[q] /\ pump'[q] = pump[q]
<1> DEFINE now == Tick(live[p])
<1>1. PICK k \in 0 .. now :
        /\ AllKnown(p, k)
        /\ \A j \in 0 .. now : AllKnown(p, j) => j <= k
        /\ verified' = [verified EXCEPT ![p] = k]
  BY DEF Done, Settled
<1>2. now \in Nat /\ verified[p] \in Nat
  BY PeerTypes
<1>3. k \in 0 .. Length
  BY <1>2
<1>4. verified' \in [Player -> 0 .. Length]
  BY <1>1, <1>3 DEF TypeOK
<1>5. pump \in [Player -> PumpState] /\ Idle \in PumpState
  BY DEF TypeOK, PumpState, Idle
<1>6. pump' \in [Player -> PumpState] /\ pump'[p] = Idle
  BY <1>5, Zenon DEF Done
<1>7. verified'[p] = k
  BY <1>1 DEF TypeOK
<1>8. verified[p] <= k
  BY <1>1, <1>2 DEF SettledOK
<1>9. now - Window <= k
  BY <1>1, <1>2
<1>10. \A t \in 0 .. k - 1 : live[p][t + 1].in = Truth(t)
  <2> SUFFICES ASSUME NEW t \in 0 .. k - 1
               PROVE  live[p][t + 1].in = Truth(t)
    OBVIOUS
  <2>1. t \in 0 .. now - 1
    BY <1>2
  <2>2. AllKnown(p, t + 1)
    BY <1>1, KnownDownward
  <2>3. ~ Wrong(p, t)
    BY <2>1 DEF RightUpTo
  <2>4. QED
    BY <2>1, <2>2, <2>3, RightIsTrue
<1>11. SettledOK(p)'
  <2>1. AllKnown(p, k)' /\ \A t \in 0 .. k - 1 : (live[p][t + 1].in = Truth(t))'
    BY <1>1, <1>10 DEF AllKnown, Known, Truth
  <2>2. QED
    BY <1>2, <1>7, <2>1 DEF SettledOK, Tick
<1>12. PumpOK(p)'
  BY <1>6, <1>7, <1>9 DEF PumpOK, Resting, Idle, Tick
<1>13. \A q \in Player \ {p} : verified'[q] = verified[q] /\ pump'[q] = pump[q]
  BY <1>1, <1>5 DEF Done, TypeOK
<1>14. QED
  BY <1>4, <1>6, <1>7, <1>8, <1>11, <1>12, <1>13 DEF Steady, Idle

LEMMA UpdateOK ==
  ASSUME TypeOK, NEW p \in Player, PeerOK(p), Update(p)
  PROVE  TypeOK' /\ PeerOK(p)' /\ Steady(p)
         /\ \A q \in Player \ {p} : verified'[q] = verified[q] /\ pump'[q] = pump[q]
<1> DEFINE head == Tick(live[p])
           goal == IF head < Length /\ AllKnown(p, head + 1 - Window)
                   THEN head + 1 ELSE head
<1>1. /\ UNCHANGED <<chosen, arrived, saved, live, rec, recCount, ring, armed, dinfo>>
      /\ pump[p].stage = "update"
  BY DEF Update
<1>2. /\ head \in Nat /\ head <= Length /\ verified[p] \in Nat
      /\ verified[p] <= head /\ head - Window <= verified[p]
  BY <1>1, PeerTypes DEF PeerOK, PumpOK, SettledOK, Resting
<1>3. AllKnown(p, head - Window)
  BY <1>2, KnownDownward DEF PeerOK, SettledOK
<1>4. AllKnown(p, goal - Window) /\ goal \in head .. Length
  BY <1>2, <1>3
<1>5. KnownOK(p)' /\ RecordOK(p)' /\ RingOK(p)'
  BY <1>1 DEF PeerOK, KnownOK, RecordOK, RingOK
<1>6. PICK from \in verified[p] .. head :
        /\ \A t \in 0 .. from - 1 : ~ Wrong(p, t)
        /\ IF from = head /\ goal = head
           THEN Done(p, head)
           ELSE /\ pump' = [pump EXCEPT ![p] =
                       [stage |-> IF from < head THEN "load" ELSE "advance",
                        from |-> from, head |-> head, goal |-> goal]]
                /\ UNCHANGED verified
  BY DEF Update
<1>7. CASE from = head /\ goal = head
  <2>1. RightUpTo(p, head) /\ Done(p, head)
    BY <1>6, <1>7 DEF RightUpTo
  <2>2. /\ verified' \in [Player -> 0 .. Length] /\ pump' \in [Player -> PumpState]
        /\ SettledOK(p)' /\ PumpOK(p)' /\ Steady(p)
        /\ pump'[p].stage = "idle"
        /\ \A q \in Player \ {p} : verified'[q] = verified[q] /\ pump'[q] = pump[q]
    BY <1>1, <1>2, <1>3, <2>1, DoneOK DEF PeerOK
  <2>3. SavedOK(p)'
    BY <1>1, <2>2 DEF PeerOK, SavedOK, Snapped
  <2>4. TypeOK'
    BY <1>1, <2>2 DEF TypeOK, PumpState
  <2>5. QED
    BY <1>5, <2>2, <2>3, <2>4 DEF PeerOK
<1>8. CASE ~ (from = head /\ goal = head)
  <2> DEFINE new == [stage |-> IF from < head THEN "load" ELSE "advance",
                     from |-> from, head |-> head, goal |-> goal]
  <2>1. pump' = [pump EXCEPT ![p] = new] /\ UNCHANGED verified
    BY <1>6, <1>8
  <2>2. from \in Nat /\ from <= head /\ verified[p] <= from
    BY <1>2
  <2>3. pump \in [Player -> PumpState] /\ new \in PumpState
    <3>1. from \in 0 .. Length /\ head \in 0 .. Length /\ goal \in 0 .. Length
      BY <1>2, <1>4, <2>2
    <3>2. (IF from < head THEN "load" ELSE "advance") \in {"idle", "update", "load", "advance", "save"}
      OBVIOUS
    <3> HIDE DEF head, goal
    <3>3. QED
      BY <3>1, <3>2, Zenon DEF TypeOK, PumpState
  <2>4. /\ pump' \in [Player -> PumpState] /\ pump'[p] = new
        /\ \A q \in Player \ {p} : pump'[q] = pump[q]
    BY <2>1, <2>3
  <2>5. TypeOK'
    BY <1>1, <2>1, <2>4 DEF TypeOK, PumpState
  <2>6. SettledOK(p)' /\ SavedOK(p)'
    <3>1. Snapped(p)' = Snapped(p)
      BY <1>1, <2>4 DEF Snapped
    <3>2. SavedOK(p)'
      BY <1>1, <3>1 DEF PeerOK, SavedOK
    <3>3. SettledOK(p)'
      BY <1>1, <2>1 DEF PeerOK, SettledOK, AllKnown, Known, Truth
    <3>4. QED
      BY <3>2, <3>3
  <2>7. \A t \in Int : RightUpTo(p, t) => RightUpTo(p, t)'
    BY <1>1 DEF RightUpTo, Wrong, Guesses, Known
  <2>8. \A t \in Int : AllKnown(p, t) => AllKnown(p, t)'
    BY <1>1 DEF AllKnown, Known
  <2>14. RightUpTo(p, from)
    BY <1>6 DEF RightUpTo
  <2>9. from = head => goal = head + 1
    BY <1>8
  <2>10. /\ pump'[p].stage = IF from < head THEN "load" ELSE "advance"
         /\ pump'[p].from = from /\ pump'[p].head = head /\ pump'[p].goal = goal
         /\ Tick(live[p])' = head /\ verified'[p] = verified[p]
    BY <1>1, <2>1, <2>4
  <2>11. PumpOK(p)'
    <3> HIDE DEF head, goal, new
    <3>1. CASE from < head
      BY <1>1, <1>2, <1>4, <2>2, <2>7, <2>8, <2>10, <2>14, <3>1 DEF PumpOK, Resting
    <3>2. CASE ~ (from < head)
      <4>1. from = head /\ goal = head + 1
        BY <1>2, <2>2, <2>9, <3>2
      <4>2. QED
        BY <1>1, <1>2, <1>4, <2>2, <2>7, <2>8, <2>10, <2>14, <3>2, <4>1 DEF PumpOK, Resting
    <3>3. QED
      BY <3>1, <3>2
  <2>12. Steady(p)
    BY <1>1, <1>2, <2>1 DEF Steady
  <2>13. QED
    BY <1>5, <2>1, <2>4, <2>5, <2>6, <2>11, <2>12 DEF PeerOK
<1>9. QED
  BY <1>7, <1>8

\* p goes on from a live state that has the first n ticks in common with the
\* one it had: what was said of those is true still.
LEMMA Shared ==
  ASSUME TypeOK, NEW p \in Player, PeerOK(p), NEW n \in Nat, n <= Tick(live[p]),
         n <= Tick(live'[p]), verified[p] <= n, live'[p] \in State,
         \A k \in 1 .. n : live'[p][k] = live[p][k],
         UNCHANGED <<chosen, arrived, verified>>
  PROVE  /\ KnownOK(p)' /\ SettledOK(p)' /\ Steady(p)
         /\ \A t \in Int : AllKnown(p, t) => AllKnown(p, t)'
         /\ \A t \in 0 .. n : RightUpTo(p, t) => RightUpTo(p, t)'
<1>1. KnownOK(p)'
  BY DEF PeerOK, KnownOK
<1>2. \A t \in Int : AllKnown(p, t) => AllKnown(p, t)'
  BY DEF AllKnown, Known
<1>3. verified[p] \in Nat /\ Tick(live[p]) \in Nat /\ Tick(live'[p]) \in Nat
  BY PeerTypes, LenProperties DEF Tick, State
<1>4. verified[p] <= Tick(live'[p])
  BY <1>3
<1>5. \A t \in 0 .. verified[p] - 1 : live'[p][t + 1].in = Truth(t)'
  <2> SUFFICES ASSUME NEW t \in 0 .. verified[p] - 1
               PROVE  live'[p][t + 1].in = Truth(t)'
    OBVIOUS
  <2>1. t + 1 \in 1 .. n
    BY <1>3
  <2>2. live[p][t + 1].in = Truth(t) /\ Truth(t)' = Truth(t)
    BY DEF PeerOK, SettledOK, Truth
  <2>3. QED
    BY <2>1, <2>2
<1>6. SettledOK(p)'
  BY <1>2, <1>3, <1>4, <1>5 DEF PeerOK, SettledOK
<1>7. Steady(p)
  BY <1>3 DEF Steady
<1>8. ASSUME NEW t \in 0 .. n, RightUpTo(p, t)
      PROVE  RightUpTo(p, t)'
  <2> SUFFICES ASSUME NEW j \in 0 .. t - 1
               PROVE  ~ Wrong(p, j)'
    BY DEF RightUpTo
  <2>1. j + 1 \in 1 .. n /\ ~ Wrong(p, j)
    BY <1>8 DEF RightUpTo
  <2>2. Guesses(p, j)' = Guesses(p, j)
    BY DEF Guesses, Known
  <2>3. QED
    BY <2>1, <2>2 DEF Wrong
<1>9. QED
  BY <1>1, <1>2, <1>6, <1>7, <1>8

LEMMA LoadOK ==
  ASSUME TypeOK, NEW p \in Player, PeerOK(p), Load(p)
  PROVE  TypeOK' /\ PeerOK(p)' /\ Steady(p)
<1> DEFINE n == pump[p].from
<1>1. /\ pump[p].stage = "load"
      /\ live' = [live EXCEPT ![p] = saved[p][n]]
      /\ pump' = [pump EXCEPT ![p].stage = "advance"]
      /\ UNCHANGED <<chosen, arrived, verified, saved, rec, recCount, ring, armed, dinfo>>
  BY DEF Load
<1>2. /\ n \in 0 .. Length /\ pump[p].goal \in 0 .. Length /\ pump[p].head \in 0 .. Length
      /\ saved[p] \in [0 .. Length -> State] /\ live[p] \in State
      /\ Tick(live[p]) \in Nat /\ verified[p] \in 0 .. Length
  BY PeerTypes
<1>3. /\ verified[p] <= n /\ n < Tick(live[p]) /\ n < pump[p].goal
      /\ AllKnown(p, pump[p].goal - Window) /\ RightUpTo(p, n)
      /\ n <= pump[p].head /\ pump[p].head <= pump[p].goal
  BY <1>1, <1>2 DEF PeerOK, PumpOK, Resting
<1>4. Len(saved[p][n]) = n /\ \A k \in 1 .. n : saved[p][n][k] = live[p][k]
  <2>1. Snapped(p) = Tick(live[p]) /\ n \in 0 .. Tick(live[p])
    BY <1>1, <1>2, <1>3 DEF Snapped
  <2> HIDE DEF n
  <2>2. QED
    BY <2>1 DEF PeerOK, SavedOK
<1>5. live' \in [Player -> State] /\ live'[p] = saved[p][n] /\ live'[p] \in State
  BY <1>1, <1>2 DEF TypeOK
<1>6. Tick(live'[p]) = n /\ \A k \in 1 .. n : live'[p][k] = live[p][k]
  BY <1>4, <1>5 DEF Tick
<1>7. pump' \in [Player -> PumpState]
  BY <1>1, PumpStage
<1>8. /\ pump'[p].stage = "advance" /\ pump'[p].from = n
      /\ pump'[p].head = pump[p].head /\ pump'[p].goal = pump[p].goal
  BY <1>1 DEF TypeOK
<1>9. TypeOK'
  BY <1>1, <1>5, <1>7 DEF TypeOK, PumpState
<1> HIDE DEF n
<1>10. /\ KnownOK(p)' /\ SettledOK(p)' /\ Steady(p)
       /\ \A t \in Int : AllKnown(p, t) => AllKnown(p, t)'
       /\ \A t \in 0 .. n : RightUpTo(p, t) => RightUpTo(p, t)'
  BY <1>1, <1>2, <1>3, <1>5, <1>6, Shared
<1>11. SavedOK(p)'
  <2>1. \A t \in 0 .. n : Len(saved[p][t]) = t /\ \A k \in 1 .. t : saved[p][t][k] = live[p][k]
    BY <1>1, <1>2, <1>3 DEF PeerOK, SavedOK, Snapped
  <2>2. Snapped(p)' = n
    BY <1>6, <1>8 DEF Snapped
  <2>3. \A t \in 0 .. n : Len(saved[p][t]) = t /\ \A k \in 1 .. t : saved[p][t][k] = live'[p][k]
    BY <1>2, <1>6, <2>1
  <2>4. QED
    BY <1>1, <2>2, <2>3 DEF SavedOK
<1>12. RecordOK(p)'
  <2>1. \A t \in 0 .. n - 1 : live'[p][t + 1] = live[p][t + 1]
    BY <1>2, <1>6
  <2>2. \A t \in 0 .. n - 1 : t < HistTicks => t < recCount[p] /\ rec[p][t] = live[p][t + 1].in
    BY <1>2, <1>3 DEF PeerOK, RecordOK
  <2>3. QED
    BY <1>1, <1>6, <2>1, <2>2 DEF RecordOK
<1>13. RingOK(p)'
  <2> SUFFICES ASSUME NEW i \in 0 .. RingSize - 1
               PROVE  LET u == ring[p][i].tick IN
                      /\ u = 0 => ring[p][i].hash = NoState
                      /\ u > 0 => u % RingSize = i
                      /\ u \in 1 .. n =>
                             /\ ring[p][i].hash \in State
                             /\ Len(ring[p][i].hash) = u
                             /\ \A k \in 1 .. u : ring[p][i].hash[k] = live'[p][k]
    BY <1>1, <1>6 DEF RingOK
  <2> DEFINE u == ring[p][i].tick
  <2>1. /\ u = 0 => ring[p][i].hash = NoState
        /\ u > 0 => u % RingSize = i
        /\ u \in 1 .. Tick(live[p]) =>
               /\ ring[p][i].hash \in State
               /\ Len(ring[p][i].hash) = u
               /\ \A k \in 1 .. u : ring[p][i].hash[k] = live[p][k]
    BY DEF PeerOK, RingOK
  <2>2. u \in Nat
    BY PeerTypes
  <2>3. ASSUME u \in 1 .. n
        PROVE  u \in 1 .. Tick(live[p]) /\ \A k \in 1 .. u : live'[p][k] = live[p][k]
    BY <1>2, <1>3, <1>6, <2>2, <2>3
  <2>4. QED
    BY <2>1, <2>3
<1>14. PumpOK(p)'
  BY <1>2, <1>3, <1>6, <1>1, <1>8, <1>10 DEF PumpOK, Resting, Tick
<1>15. QED
  BY <1>9, <1>10, <1>11, <1>12, <1>13, <1>14 DEF PeerOK

LEMMA RingIndex ==
  ASSUME NEW t \in Nat
  PROVE  t % RingSize \in 0 .. RingSize - 1
OBVIOUS

LEMMA AdvanceOK ==
  ASSUME TypeOK, NEW p \in Player, PeerOK(p), Advance(p)
  PROVE  TypeOK' /\ PeerOK(p)' /\ Steady(p)
<1>0. PICK T \in Nat : T = Tick(live[p])
  BY PeerTypes
<1> DEFINE flips == armed[p] /\ ~ (T < pump[p].head)
<1>1. PICK in \in Guesses(p, T) :
        LET s == Append(live[p], [in |-> in, flipped |-> flips]) IN
        /\ Recorded(p, T, in)
        /\ live' = [live EXCEPT ![p] = s]
        /\ Hashed(p, s)
  BY <1>0 DEF Advance
<1> DEFINE r == [in |-> in, flipped |-> flips]
           s == Append(live[p], r)
<1>2. /\ pump[p].stage = "advance"
      /\ armed' = IF flips THEN [armed EXCEPT ![p] = FALSE] ELSE armed
      /\ pump' = [pump EXCEPT ![p].stage = "save"]
      /\ UNCHANGED <<chosen, arrived, verified, saved, dinfo>>
  BY <1>0 DEF Advance
<1>3. /\ live[p] \in State /\ T \in Nat /\ verified[p] \in 0 .. Length
      /\ pump[p].goal \in 0 .. Length /\ pump[p].head \in 0 .. Length
      /\ pump[p].from \in 0 .. Length /\ recCount[p] \in 0 .. HistTicks
  BY <1>0, PeerTypes
<1>4. /\ verified[p] <= pump[p].from /\ pump[p].from <= T /\ T < pump[p].goal
      /\ pump[p].from <= pump[p].head /\ pump[p].head <= pump[p].goal
      /\ AllKnown(p, pump[p].goal - Window) /\ RightUpTo(p, T)
  BY <1>0, <1>2, <1>3 DEF PeerOK, PumpOK, Resting
<1>5. in \in Vector /\ r \in TickRun /\ r.in = in
  <2>1. in \in Vector
    BY DEF Guesses
  <2>2. flips \in BOOLEAN
    BY Zenon DEF TypeOK
  <2> HIDE DEF flips
  <2>3. QED
    BY <2>1, <2>2 DEF TickRun
<1>6. /\ s \in State /\ Len(s) = T + 1 /\ s[T + 1] = r
      /\ \A k \in 1 .. T : s[k] = live[p][k]
  <2> HIDE DEF r
  <2>1. QED
    BY <1>0, <1>3, <1>5, AppendProperties DEF State, Tick
<1>7. live' = [live EXCEPT ![p] = s] /\ Recorded(p, T, in) /\ Hashed(p, s)
  BY <1>1
<1> HIDE DEF flips, r, s
<1>8. live' \in [Player -> State] /\ live'[p] = s
  BY <1>6, <1>7 DEF TypeOK
<1>9. /\ Tick(live'[p]) = T + 1 /\ live'[p] \in State /\ live'[p][T + 1].in = in
      /\ \A k \in 1 .. T : live'[p][k] = live[p][k]
  BY <1>5, <1>6, <1>8 DEF Tick
<1>10. /\ pump' \in [Player -> PumpState]
       /\ pump'[p].stage = "save" /\ pump'[p].from = pump[p].from
       /\ pump'[p].head = pump[p].head /\ pump'[p].goal = pump[p].goal
  <2>1. pump' \in [Player -> PumpState]
    BY <1>2, PumpStage
  <2>2. QED
    BY <1>2, <2>1 DEF TypeOK
<1>11. armed' \in [Player -> BOOLEAN]
  BY <1>2 DEF TypeOK
<1>12. /\ rec' \in [Player -> [0 .. HistTicks - 1 -> Vector \cup {NoInput}]]
       /\ recCount' \in [Player -> 0 .. HistTicks]
       /\ T < HistTicks => rec'[p][T] = in /\ T < recCount'[p]
       /\ \A t \in 0 .. T - 1 : t < HistTicks =>
              /\ rec'[p][t] = rec[p][t]
              /\ t < recCount[p] => t < recCount'[p]
  <2>1. /\ rec \in [Player -> [0 .. HistTicks - 1 -> Vector \cup {NoInput}]]
        /\ recCount \in [Player -> 0 .. HistTicks]
    BY DEF TypeOK
  <2>2. CASE T < HistTicks
    <3>1. rec' = [rec EXCEPT ![p][T] = in] /\ T \in 0 .. HistTicks - 1
      BY <1>3, <1>7, <2>2 DEF Recorded
    <3>2. rec' \in [Player -> [0 .. HistTicks - 1 -> Vector \cup {NoInput}]]
      BY <1>5, <2>1, <3>1
    <3>3. rec'[p][T] = in /\ \A t \in 0 .. HistTicks - 1 : t # T => rec'[p][t] = rec[p][t]
      BY <2>1, <3>1
    <3>4. recCount' \in [Player -> 0 .. HistTicks]
      BY <1>3, <1>7, <2>1, <2>2 DEF Recorded
    <3>5. T < recCount'[p] /\ recCount[p] <= recCount'[p]
      BY <1>3, <1>7, <2>1, <2>2 DEF Recorded
    <3>6. ASSUME NEW t \in 0 .. T - 1
          PROVE  rec'[p][t] = rec[p][t] /\ (t < recCount[p] => t < recCount'[p])
      <4>1. t \in 0 .. HistTicks - 1 /\ t # T
        BY <1>3, <2>2
      <4>2. recCount'[p] \in Nat /\ recCount[p] \in Nat
        BY <2>1, <3>4
      <4>3. QED
        BY <3>3, <3>5, <4>1, <4>2
    <3>7. QED
      BY <3>2, <3>3, <3>4, <3>5, <3>6
  <2>3. CASE ~ (T < HistTicks)
    BY <1>3, <1>7, <2>1, <2>3 DEF Recorded
  <2>4. QED
    BY <2>2, <2>3
<1>13. /\ ring' \in [Player -> [0 .. RingSize - 1 -> [tick : 0 .. Length, hash : State \cup {NoState}]]]
       /\ (T + 1) % RingSize \in 0 .. RingSize - 1
       /\ ring'[p][(T + 1) % RingSize] = [tick |-> T + 1, hash |-> s]
       /\ \A i \in 0 .. RingSize - 1 : i # (T + 1) % RingSize => ring'[p][i] = ring[p][i]
  <2> DEFINE e == [tick |-> T + 1, hash |-> s]
             x == (T + 1) % RingSize
  <2>1. ring \in [Player -> [0 .. RingSize - 1 -> [tick : 0 .. Length, hash : State \cup {NoState}]]]
    BY DEF TypeOK
  <2>2. x \in 0 .. RingSize - 1
    BY <1>3, RingIndex
  <2>3. T + 1 \in 0 .. Length
    BY <1>3, <1>4
  <2>4. e \in [tick : 0 .. Length, hash : State \cup {NoState}]
    BY <1>6, <2>3
  <2>5. ring' = [ring EXCEPT ![p][x] = e]
    BY <1>6, <1>7 DEF Hashed, Tick, Hash
  <2> HIDE DEF e, x
  <2>6. /\ ring' \in [Player -> [0 .. RingSize - 1 -> [tick : 0 .. Length, hash : State \cup {NoState}]]]
        /\ ring'[p][x] = e
        /\ \A i \in 0 .. RingSize - 1 : i # x => ring'[p][i] = ring[p][i]
    BY <2>1, <2>2, <2>4, <2>5
  <2>7. QED
    BY <2>2, <2>6 DEF e, x
<1>14. TypeOK'
  BY <1>2, <1>8, <1>10, <1>11, <1>12, <1>13 DEF TypeOK, PumpState
<1>15. /\ KnownOK(p)' /\ SettledOK(p)' /\ Steady(p)
       /\ \A t \in Int : AllKnown(p, t) => AllKnown(p, t)'
       /\ \A t \in 0 .. T : RightUpTo(p, t) => RightUpTo(p, t)'
  <2>1. T <= Tick(live[p]) /\ T <= Tick(live'[p]) /\ verified[p] <= T
    BY <1>0, <1>3, <1>4, <1>9
  <2>2. QED
    BY <1>2, <1>3, <1>9, <2>1, Shared
<1>16. RightUpTo(p, T + 1)'
  <2>1. RightUpTo(p, T)'
    BY <1>3, <1>4, <1>15
  <2>2. ~ Wrong(p, T)'
    <3>1. Guesses(p, T)' = Guesses(p, T)
      BY <1>2 DEF Guesses, Known
    <3>2. QED
      BY <1>9, <3>1 DEF Wrong
  <2>3. QED
    BY <1>3, <2>1, <2>2 DEF RightUpTo
<1>17. PumpOK(p)'
  BY <1>2, <1>3, <1>4, <1>9, <1>10, <1>15, <1>16 DEF PumpOK, Resting
<1>18. SavedOK(p)'
  <2>1. \A t \in 0 .. T : Len(saved[p][t]) = t /\ \A k \in 1 .. t : saved[p][t][k] = live[p][k]
    BY <1>0, <1>2 DEF PeerOK, SavedOK, Snapped
  <2>2. \A t \in 0 .. T : Len(saved[p][t]) = t /\ \A k \in 1 .. t : saved[p][t][k] = live'[p][k]
    BY <1>3, <1>9, <2>1
  <2>3. Snapped(p)' = T
    BY <1>3, <1>9, <1>10 DEF Snapped
  <2>4. QED
    BY <1>2, <2>2, <2>3 DEF SavedOK
<1>19. RecordOK(p)'
  <2> SUFFICES ASSUME NEW t \in 0 .. T, t < HistTicks
               PROVE  t < recCount'[p] /\ rec'[p][t] = live'[p][t + 1].in
    BY <1>3, <1>9 DEF RecordOK
  <2>1. CASE t = T
    BY <1>9, <1>12, <2>1
  <2>2. CASE t \in 0 .. T - 1
    <3>1. t < recCount[p] /\ rec[p][t] = live[p][t + 1].in
      BY <1>0, <2>2 DEF PeerOK, RecordOK
    <3>2. live'[p][t + 1] = live[p][t + 1]
      BY <1>3, <1>9, <2>2
    <3>3. QED
      BY <1>12, <2>2, <3>1, <3>2
  <2>3. QED
    BY <1>3, <2>1, <2>2
<1>20. RingOK(p)'
  <2> DEFINE x == (T + 1) % RingSize
  <2>1. ASSUME NEW i \in 0 .. RingSize - 1, i # x
        PROVE  LET u == ring'[p][i].tick IN
               /\ u = 0 => ring'[p][i].hash = NoState
               /\ u > 0 => u % RingSize = i
               /\ u \in 1 .. T + 1 =>
                      /\ ring'[p][i].hash \in State
                      /\ Len(ring'[p][i].hash) = u
                      /\ \A k \in 1 .. u : ring'[p][i].hash[k] = live'[p][k]
    <3> DEFINE u == ring[p][i].tick
    <3>1. ring'[p][i] = ring[p][i]
      BY <1>13, <2>1
    <3>2. u \in Nat
      <4>1. \A j \in 0 .. RingSize - 1 : ring[p][j].tick \in 0 .. Length
        BY PeerTypes
      <4>2. QED
        BY <4>1
    <3>3. /\ u = 0 => ring[p][i].hash = NoState
          /\ u > 0 => u % RingSize = i
          /\ u \in 1 .. T =>
                 /\ ring[p][i].hash \in State
                 /\ Len(ring[p][i].hash) = u
                 /\ \A k \in 1 .. u : ring[p][i].hash[k] = live[p][k]
      BY <1>0 DEF PeerOK, RingOK
    <3>4. u # T + 1
      BY <1>3, <2>1, <3>3
    <3>5. u \in 1 .. T + 1 => u \in 1 .. T /\ \A k \in 1 .. u : live'[p][k] = live[p][k]
      BY <1>3, <1>9, <3>2, <3>4
    <3>6. QED
      BY <3>1, <3>3, <3>5
  <2>2. /\ ring'[p][x].tick = T + 1 /\ ring'[p][x].hash \in State
        /\ Len(ring'[p][x].hash) = T + 1
        /\ \A k \in 1 .. T + 1 : ring'[p][x].hash[k] = live'[p][k]
    BY <1>6, <1>8, <1>13
  <2>3. QED
    <3> HIDE DEF x
    <3>1. ASSUME NEW i \in 0 .. RingSize - 1
          PROVE  LET u == ring'[p][i].tick IN
                 /\ u = 0 => ring'[p][i].hash = NoState
                 /\ u > 0 => u % RingSize = i
                 /\ u \in 1 .. T + 1 =>
                        /\ ring'[p][i].hash \in State
                        /\ Len(ring'[p][i].hash) = u
                        /\ \A k \in 1 .. u : ring'[p][i].hash[k] = live'[p][k]
      <4>1. CASE i = x
        <5>1. T + 1 # 0 /\ (T + 1) % RingSize = x
          BY <1>3 DEF x
        <5>2. QED
          BY <2>2, <4>1, <5>1
      <4>2. QED
        BY <2>1, <4>1
    <3>2. QED
      BY <1>9, <3>1 DEF RingOK
<1>21. QED
  BY <1>14, <1>15, <1>17, <1>18, <1>19, <1>20 DEF PeerOK

LEMMA SaveOK ==
  ASSUME TypeOK, NEW p \in Player, PeerOK(p), Save(p)
  PROVE  TypeOK' /\ PeerOK(p)' /\ Steady(p)
         /\ \A q \in Player \ {p} : verified'[q] = verified[q] /\ pump'[q] = pump[q]
<1>0. PICK t \in Nat : t = Tick(live[p])
  BY PeerTypes
<1>1. /\ pump[p].stage = "save"
      /\ saved' = [saved EXCEPT ![p][t] = live[p]]
      /\ IF t < pump[p].goal
         THEN pump' = [pump EXCEPT ![p].stage = "advance"] /\ UNCHANGED verified
         ELSE Done(p, t)
      /\ UNCHANGED <<chosen, arrived, live, rec, recCount, ring, armed, dinfo>>
  BY <1>0 DEF Save
<1>2. /\ live[p] \in State /\ verified[p] \in 0 .. Length
      /\ pump[p].goal \in 0 .. Length /\ pump[p].head \in 0 .. Length
      /\ pump[p].from \in 0 .. Length /\ saved[p] \in [0 .. Length -> State]
  BY PeerTypes
<1>3. /\ verified[p] <= pump[p].from /\ pump[p].from < t /\ t <= pump[p].goal
      /\ pump[p].from <= pump[p].head /\ pump[p].head <= pump[p].goal
      /\ AllKnown(p, pump[p].goal - Window) /\ RightUpTo(p, t)
      /\ t \in 0 .. Length
  BY <1>0, <1>1, <1>2 DEF PeerOK, PumpOK, Resting
<1>4. /\ saved' \in [Player -> [0 .. Length -> State]]
      /\ saved'[p][t] = live[p]
      /\ \A j \in 0 .. Length : j # t => saved'[p][j] = saved[p][j]
  BY <1>1, <1>2, <1>3 DEF TypeOK
<1>5. \A j \in 0 .. t :
        Len(saved'[p][j]) = j /\ \A k \in 1 .. j : saved'[p][j][k] = live[p][k]
  <2>1. \A j \in 0 .. t - 1 :
          Len(saved[p][j]) = j /\ \A k \in 1 .. j : saved[p][j][k] = live[p][k]
    BY <1>0, <1>1 DEF PeerOK, SavedOK, Snapped
  <2>2. Len(saved'[p][t]) = t /\ \A k \in 1 .. t : saved'[p][t][k] = live[p][k]
    BY <1>0, <1>4 DEF Tick
  <2>3. ASSUME NEW j \in 0 .. t, j # t
        PROVE  j \in 0 .. t - 1 /\ saved'[p][j] = saved[p][j]
    BY <1>3, <1>4, <2>3
  <2>4. QED
    BY <2>1, <2>2, <2>3
<1>6. KnownOK(p)' /\ RecordOK(p)' /\ RingOK(p)'
  BY <1>1 DEF PeerOK, KnownOK, RecordOK, RingOK
<1>7. Tick(live[p])' = t
  BY <1>0, <1>1
<1>8. CASE t < pump[p].goal
  <2>1. pump' = [pump EXCEPT ![p].stage = "advance"] /\ UNCHANGED verified
    BY <1>1, <1>8
  <2>2. /\ pump' \in [Player -> PumpState]
        /\ pump'[p].stage = "advance" /\ pump'[p].from = pump[p].from
        /\ pump'[p].head = pump[p].head /\ pump'[p].goal = pump[p].goal
        /\ \A q \in Player \ {p} : pump'[q] = pump[q]
    <3>1. pump' \in [Player -> PumpState]
      BY <2>1, PumpStage
    <3>2. QED
      BY <2>1, <3>1 DEF TypeOK
  <2>3. TypeOK'
    BY <1>1, <1>4, <2>1, <2>2 DEF TypeOK, PumpState
  <2>4. /\ SettledOK(p)' /\ Steady(p)
        /\ \A j \in Int : AllKnown(p, j) => AllKnown(p, j)'
        /\ \A j \in 0 .. t : RightUpTo(p, j) => RightUpTo(p, j)'
    <3>1. t <= Tick(live[p]) /\ t <= Tick(live'[p]) /\ verified[p] <= t
      BY <1>0, <1>1, <1>2, <1>3
    <3>2. QED
      BY <1>1, <1>2, <2>1, <3>1, Shared
  <2>5. SavedOK(p)'
    <3>1. Snapped(p)' = t
      BY <1>7, <2>2 DEF Snapped
    <3>2. QED
      BY <1>1, <1>5, <3>1 DEF SavedOK
  <2>6. PumpOK(p)'
    BY <1>2, <1>3, <1>7, <1>8, <2>1, <2>2, <2>4 DEF PumpOK, Resting
  <2>7. QED
    BY <1>6, <2>1, <2>2, <2>3, <2>4, <2>5, <2>6 DEF PeerOK
<1>9. CASE ~ (t < pump[p].goal)
  <2>1. Done(p, Tick(live[p])) /\ t = pump[p].goal
    BY <1>0, <1>1, <1>2, <1>3, <1>9
  <2>2. /\ verified' \in [Player -> 0 .. Length] /\ pump' \in [Player -> PumpState]
        /\ SettledOK(p)' /\ PumpOK(p)' /\ Steady(p)
        /\ pump'[p].stage = "idle"
        /\ \A q \in Player \ {p} : verified'[q] = verified[q] /\ pump'[q] = pump[q]
    <3>1. Tick(live[p]) <= Length /\ RightUpTo(p, Tick(live[p])) /\ AllKnown(p, Tick(live[p]) - Window)
      BY <1>0, <1>3, <2>1
    <3>2. QED
      BY <1>1, <2>1, <3>1, DoneOK DEF PeerOK
  <2>3. SavedOK(p)'
    <3>1. Snapped(p)' = t
      BY <1>7, <2>2 DEF Snapped
    <3>2. QED
      BY <1>1, <1>5, <3>1 DEF SavedOK
  <2>4. TypeOK'
    BY <1>1, <1>4, <2>2 DEF TypeOK, PumpState
  <2>5. QED
    BY <1>6, <2>2, <2>3, <2>4 DEF PeerOK
<1>10. QED
  BY <1>8, <1>9

-----------------------------------------------------------------------------
(* Reports.                                                                *)

\* Two peers that have verified a tick without being spoilt have it alike.
LEMMA VerifiedAlike ==
  ASSUME TypeOK, NEW p \in Player, NEW q \in Player, PeerOK(p), PeerOK(q), NEW t \in Nat,
         t <= verified[p], t <= verified[q],
         \A k \in 1 .. t : ~ live[p][k].flipped /\ ~ live[q][k].flipped
  PROVE  \A k \in 1 .. t : live[p][k] = live[q][k]
<1> SUFFICES ASSUME NEW k \in 1 .. t PROVE live[p][k] = live[q][k]
  OBVIOUS
<1>1. \A r \in {p, q} : /\ verified[r] \in Nat /\ live[r] \in State
                        /\ Len(live[r]) \in Nat /\ verified[r] <= Len(live[r])
  BY PeerTypes DEF PeerOK, SettledOK, Tick
<1>2. \A r \in {p, q} : live[r][k] \in TickRun /\ live[r][k].in = Truth(k - 1)
  <2> SUFFICES ASSUME NEW r \in {p, q}
               PROVE  live[r][k] \in TickRun /\ live[r][k].in = Truth(k - 1)
    OBVIOUS
  <2>1. k \in 1 .. Len(live[r]) /\ k - 1 \in 0 .. verified[r] - 1 /\ (k - 1) + 1 = k
    BY <1>1
  <2>2. live[r][k] \in TickRun
    BY <1>1, <2>1, TickElement
  <2>3. live[r][(k - 1) + 1].in = Truth(k - 1)
    BY <2>1 DEF PeerOK, SettledOK
  <2>4. QED
    BY <2>1, <2>2, <2>3
<1>3. live[p][k].flipped = FALSE /\ live[q][k].flipped = FALSE
  BY <1>2 DEF TickRun
<1>4. QED
  BY <1>2, <1>3 DEF TickRun

LEMMA ReportHolds ==
  ASSUME TypeOK, NEW p \in Player, ReportOK(p), dinfo'[p] = dinfo[p],
         \A q \in Player : Steady(q) /\ verified'[q] \in Nat
  PROVE  ReportOK(p)'
<1> SUFFICES ASSUME dinfo[p].slot # Nobody
             PROVE  ReportOK(p)'
  BY DEF ReportOK
<1> DEFINE t == dinfo[p].tick
           q == dinfo[p].slot
<1>1. q \in Player /\ t \in Nat
  <2>1. dinfo[p] \in [tick : 0 .. Length, slot : Player \cup {Nobody}]
    BY DEF TypeOK
  <2>2. QED
    BY <2>1
<1>2. verified[p] \in Nat /\ verified[q] \in Nat
  BY <1>1, PeerTypes
<1>3. t <= verified[p] /\ t <= verified[q]
  BY DEF ReportOK
<1>4. PICK k \in 1 .. t : live[p][k].flipped \/ live[q][k].flipped
  BY DEF ReportOK
<1>5. t <= verified'[p] /\ t <= verified'[q]
  BY <1>1, <1>2, <1>3 DEF Steady
<1>6. live'[p][k] = live[p][k] /\ live'[q][k] = live[q][k]
  BY <1>1, <1>2, <1>3 DEF Steady
<1>7. QED
  BY <1>4, <1>5, <1>6 DEF ReportOK

LEMMA DesyncOK ==
  ASSUME TypeOK, NEW p \in Player, NEW q \in Player, PeerOK(p), PeerOK(q), Desync(p, q)
  PROVE  TypeOK' /\ ReportOK(p)' /\ \A r \in Player \ {p} : dinfo'[r] = dinfo[r]
<1>1. PICK t \in 1 .. Lesser(verified[p], verified[q]) :
        saved[p][t] # saved[q][t] /\ Detected(p, q, t)
  BY DEF Desync, Hash
<1>2. UNCHANGED <<chosen, arrived, verified, saved, pump, live, rec, recCount, ring, armed>>
  BY DEF Desync
<1>3. \A r \in {p, q} : /\ verified[r] \in 0 .. Length /\ live[r] \in State
                        /\ Tick(live[r]) \in Nat /\ saved[r] \in [0 .. Length -> State]
  BY PeerTypes
<1>4. t \in Nat /\ t <= verified[p] /\ t <= verified[q] /\ t \in 0 .. Length
  BY <1>3 DEF Lesser
<1>5. dinfo' = [dinfo EXCEPT ![p] = [tick |-> t, slot |-> q]]
  BY <1>1 DEF Detected
<1>6. /\ dinfo' \in [Player -> [tick : 0 .. Length, slot : Player \cup {Nobody}]]
      /\ dinfo'[p] = [tick |-> t, slot |-> q]
      /\ \A r \in Player \ {p} : dinfo'[r] = dinfo[r]
  BY <1>4, <1>5 DEF TypeOK
<1>7. TypeOK'
  BY <1>2, <1>6 DEF TypeOK
<1>8. \E k \in 1 .. t : live[p][k].flipped \/ live[q][k].flipped
  <2> SUFFICES ASSUME \A k \in 1 .. t : ~ live[p][k].flipped /\ ~ live[q][k].flipped
               PROVE  saved[p][t] = saved[q][t]
    BY <1>1
  <2>1. \A r \in {p, q} :
          Len(saved[r][t]) = t /\ \A k \in 1 .. t : saved[r][t][k] = live[r][k]
    <3> SUFFICES ASSUME NEW r \in {p, q}
                 PROVE  Len(saved[r][t]) = t /\ \A k \in 1 .. t : saved[r][t][k] = live[r][k]
      OBVIOUS
    <3>1. t \in 0 .. Snapped(r)
      <4>1. PumpOK(r) /\ SettledOK(r) /\ pump[r].from \in 0 .. Length
        BY PeerTypes DEF PeerOK
      <4>2. QED
        BY <1>3, <1>4, <4>1 DEF PumpOK, Resting, SettledOK, Snapped
    <3>2. QED
      BY <3>1 DEF PeerOK, SavedOK
  <2>2. \A k \in 1 .. t : live[p][k] = live[q][k]
    BY <1>4, VerifiedAlike
  <2>3. saved[p][t] \in Seq(TickRun) /\ saved[q][t] \in Seq(TickRun)
    BY <1>3, <1>4 DEF State
  <2>4. QED
    BY <2>1, <2>2, <2>3, SeqEqual
<1>9. ReportOK(p)'
  BY <1>2, <1>4, <1>6, <1>8 DEF ReportOK
<1>10. QED
  BY <1>6, <1>7, <1>9

-----------------------------------------------------------------------------
(* The step, and the theorems.                                             *)

\* No action of a peer reaches into another.
LEMMA OthersAlone ==
  ASSUME TypeOK, NEW p \in Player, Step(p), NEW q \in Player \ {p}
  PROVE  /\ arrived'[q] = arrived[q] /\ saved'[q] = saved[q] /\ live'[q] = live[q]
         /\ rec'[q] = rec[q] /\ recCount'[q] = recCount[q] /\ ring'[q] = ring[q]
<1>1. CASE Frame(p)
  BY <1>1 DEF Frame, TypeOK
<1>2. CASE Update(p)
  BY <1>2 DEF Update
<1>3. CASE Load(p)
  BY <1>3 DEF Load, TypeOK
<1>4. CASE Save(p)
  BY <1>4 DEF Save, TypeOK
<1>5. CASE Advance(p)
  <2>1. PICK in \in Guesses(p, Tick(live[p])) : \E s :
          /\ Recorded(p, Tick(live[p]), in)
          /\ live' = [live EXCEPT ![p] = s]
          /\ Hashed(p, s)
    BY <1>5 DEF Advance
  <2>2. UNCHANGED <<arrived, saved>>
    BY <1>5 DEF Advance
  <2>3. live'[q] = live[q] /\ ring'[q] = ring[q]
    BY <2>1 DEF Hashed, TypeOK
  <2>4. rec'[q] = rec[q] /\ recCount'[q] = recCount[q]
    BY <2>1 DEF Recorded, TypeOK
  <2>5. QED
    BY <2>2, <2>3, <2>4
<1>6. QED
  BY <1>1, <1>2, <1>3, <1>4, <1>5 DEF Step

LEMMA StepOK ==
  ASSUME IInv, NEW p \in Player, Step(p)
  PROVE  /\ TypeOK' /\ PeerOK(p)' /\ Steady(p) /\ Grow /\ UNCHANGED dinfo
         /\ \A q \in Player \ {p} : /\ chosen'[q] = chosen[q]
                                    /\ verified'[q] = verified[q]
                                    /\ pump'[q] = pump[q]
<1> USE DEF IInv
<1>1. CASE Frame(p)
  <2>1. TypeOK' /\ Grow /\ PeerOK(p)' /\ \A q \in Player \ {p} : chosen'[q] = chosen[q]
    BY <1>1, FrameOK
  <2>2. UNCHANGED <<verified, live, dinfo>> /\ pump' = [pump EXCEPT ![p].stage = "update"]
    BY <1>1 DEF Frame
  <2>3. Steady(p)
    BY <2>2, PeerTypes DEF Steady
  <2>4. \A q \in Player \ {p} : pump'[q] = pump[q]
    BY <2>2 DEF TypeOK
  <2>5. QED
    BY <2>1, <2>2, <2>3, <2>4
<1>2. CASE Update(p)
  <2>1. UNCHANGED <<chosen, dinfo>>
    BY <1>2 DEF Update
  <2>2. QED
    BY <1>2, <2>1, UpdateOK, NothingGiven
<1>3. CASE Load(p)
  <2>1. UNCHANGED <<chosen, verified, dinfo>> /\ \A q \in Player \ {p} : pump'[q] = pump[q]
    BY <1>3 DEF Load, TypeOK
  <2>2. QED
    BY <1>3, <2>1, LoadOK, NothingGiven
<1>4. CASE Advance(p)
  <2>1. UNCHANGED <<chosen, verified, dinfo>> /\ pump' = [pump EXCEPT ![p].stage = "save"]
    BY <1>4 DEF Advance
  <2>2. \A q \in Player \ {p} : pump'[q] = pump[q]
    BY <2>1 DEF TypeOK
  <2>3. QED
    BY <1>4, <2>1, <2>2, AdvanceOK, NothingGiven
<1>5. CASE Save(p)
  <2>1. UNCHANGED <<chosen, dinfo>>
    BY <1>5 DEF Save
  <2>2. QED
    BY <1>5, <2>1, SaveOK, NothingGiven
<1>6. QED
  BY <1>1, <1>2, <1>3, <1>4, <1>5 DEF Step

LEMMA NextOK ==
  ASSUME IInv, Next
  PROVE  IInv' /\ \A q \in Player : Steady(q)
<1>1. PICK p \in Player : Step(p) \/ Corrupt(p) \/ \E q \in Player : Desync(p, q)
  BY DEF Next
<1>2. CASE Step(p)
  <2>1. /\ TypeOK' /\ PeerOK(p)' /\ Steady(p) /\ Grow /\ UNCHANGED dinfo
        /\ \A q \in Player \ {p} : /\ chosen'[q] = chosen[q]
                                   /\ verified'[q] = verified[q]
                                   /\ pump'[q] = pump[q]
    BY <1>2, StepOK
  <2>2. ASSUME NEW q \in Player \ {p} PROVE PeerOK(q)' /\ Steady(q)
    <3>1. /\ arrived'[q] = arrived[q] /\ saved'[q] = saved[q] /\ live'[q] = live[q]
          /\ rec'[q] = rec[q] /\ recCount'[q] = recCount[q] /\ ring'[q] = ring[q]
      BY <1>2, OthersAlone DEF IInv
    <3>2. PeerOK(q)'
      BY <2>1, <3>1, Bystander DEF IInv
    <3>3. Steady(q)
      BY <2>1, <3>1, PeerTypes DEF Steady, IInv
    <3>4. QED
      BY <3>2, <3>3
  <2>3. \A q \in Player : PeerOK(q)' /\ Steady(q)
    BY <2>1, <2>2
  <2>4. \A q \in Player : verified'[q] \in Nat
    BY <2>1 DEF TypeOK
  <2>5. \A q \in Player : ReportOK(q)'
    BY <2>1, <2>3, <2>4, ReportHolds DEF IInv
  <2>6. QED
    BY <2>1, <2>3, <2>5 DEF IInv
<1>3. CASE Corrupt(p)
  <2>1. UNCHANGED <<chosen, arrived, verified, saved, pump, live, rec, recCount, ring, dinfo>>
    BY <1>3 DEF Corrupt
  <2>2. TypeOK'
    BY <1>3, <2>1 DEF Corrupt, TypeOK, IInv
  <2>3. Grow
    BY <2>1, NothingGiven DEF IInv
  <2>4. \A q \in Player : PeerOK(q)'
    BY <2>1, <2>2, <2>3, Bystander DEF IInv
  <2>5. \A q \in Player : Steady(q) /\ verified'[q] \in Nat
    BY <2>1, PeerTypes DEF Steady, IInv
  <2>6. \A q \in Player : ReportOK(q)'
    BY <2>1, <2>5, ReportHolds DEF IInv
  <2>7. QED
    BY <2>2, <2>4, <2>5, <2>6 DEF IInv
<1>4. CASE \E q \in Player : Desync(p, q)
  <2>0. PICK q \in Player : Desync(p, q)
    BY <1>4
  <2>1. UNCHANGED <<chosen, arrived, verified, saved, pump, live, rec, recCount, ring, armed>>
    BY <2>0 DEF Desync
  <2>2. TypeOK' /\ ReportOK(p)' /\ \A r \in Player \ {p} : dinfo'[r] = dinfo[r]
    BY <2>0, DesyncOK DEF IInv
  <2>3. Grow
    BY <2>1, NothingGiven DEF IInv
  <2>4. \A r \in Player : PeerOK(r)'
    BY <2>1, <2>2, <2>3, Bystander DEF IInv
  <2>5. \A r \in Player : Steady(r) /\ verified'[r] \in Nat
    BY <2>1, PeerTypes DEF Steady, IInv
  <2>6. \A r \in Player \ {p} : ReportOK(r)'
    BY <2>2, <2>5, ReportHolds DEF IInv
  <2>7. QED
    BY <2>2, <2>4, <2>5, <2>6 DEF IInv
<1>5. QED
  BY <1>1, <1>2, <1>3, <1>4

LEMMA StutterOK ==
  ASSUME IInv, UNCHANGED vars
  PROVE  IInv'
<1>1. UNCHANGED <<chosen, arrived, verified, saved, pump, live, rec, recCount, ring, armed, dinfo>>
  BY DEF vars
<1>2. TypeOK'
  BY <1>1 DEF IInv, TypeOK
<1>3. \A q \in Player : PeerOK(q)'
  BY <1>1, <1>2, NothingGiven, Bystander DEF IInv
<1>4. \A q \in Player : Steady(q) /\ verified'[q] \in Nat
  BY <1>1, PeerTypes DEF Steady, IInv
<1>5. \A q \in Player : ReportOK(q)'
  BY <1>1, <1>4, ReportHolds DEF IInv
<1>6. QED
  BY <1>2, <1>3, <1>5 DEF IInv

\* The inductive invariant of every peer holds in every reachable state
\* (src/netplay/sync_session.c, sync_frame).
THEOREM Invariance == Spec => []IInv
<1>1. Init => IInv
  BY InitOK
<1>2. IInv /\ [Next]_vars => IInv'
  BY NextOK, StutterOK
<1>3. QED
  BY <1>1, <1>2, PTL DEF Spec

\* Every index into the history, the ring and the snapshots stays in range.
THEOREM TypeCorrect == Spec => []TypeOK
<1>1. IInv => TypeOK
  BY DEF IInv
<1>2. QED
  BY <1>1, Invariance, PTL

\* However often ticks are run again, a bundle written at any moment holds the
\* true inputs of every settled tick (sync_session.c:231-233).
THEOREM HistoryIsConfirmed == Spec => []HistoryConfirmed
<1>1. ASSUME IInv PROVE HistoryConfirmed
  <2> SUFFICES ASSUME NEW p \in Player,
                      NEW t \in 0 .. Lesser(verified[p], HistTicks) - 1
               PROVE  t < recCount[p] /\ rec[p][t] = Truth(t)
    BY DEF HistoryConfirmed
  <2>1. verified[p] \in Nat /\ Tick(live[p]) \in Nat
    BY <1>1, PeerTypes DEF IInv
  <2>2. SettledOK(p) /\ RecordOK(p)
    BY <1>1 DEF IInv, PeerOK
  <2>3. t \in 0 .. verified[p] - 1 /\ t < HistTicks
    BY <2>1 DEF Lesser
  <2>4. t \in 0 .. Tick(live[p]) - 1
    BY <2>1, <2>2, <2>3 DEF SettledOK
  <2>5. QED
    BY <2>2, <2>3, <2>4 DEF SettledOK, RecordOK
<1>2. QED
  BY <1>1, Invariance, PTL

\* No schedule of packets, guesses and rollbacks raises a false alarm: a desync
\* is reported of a tick at or after one that the simulation of one of the two
\* left its inputs at (sync_session.c, the case GekkoDesyncDetected).
THEOREM DesyncsAreReal == Spec => []DesyncIsReal
<1>1. ASSUME IInv PROVE DesyncIsReal
  <2> SUFFICES ASSUME NEW p \in Player, dinfo[p].slot # Nobody
               PROVE  \E k \in Flipped(p) \cup Flipped(dinfo[p].slot) : k <= dinfo[p].tick
    BY DEF DesyncIsReal
  <2> DEFINE t == dinfo[p].tick
             q == dinfo[p].slot
  <2>1. q \in Player /\ t \in Nat
    <3>1. dinfo[p] \in [tick : 0 .. Length, slot : Player \cup {Nobody}]
      BY <1>1 DEF IInv, TypeOK
    <3>2. QED
      BY <3>1
  <2>2. t <= verified[p] /\ t <= verified[q]
    BY <1>1 DEF IInv, ReportOK
  <2>3. PICK k \in 1 .. t : live[p][k].flipped \/ live[q][k].flipped
    BY <1>1 DEF IInv, ReportOK
  <2>4. \A r \in {p, q} : /\ verified[r] \in Nat /\ Len(live[r]) \in Nat
                          /\ verified[r] <= Len(live[r])
    BY <1>1, <2>1, PeerTypes DEF IInv, PeerOK, SettledOK, Tick
  <2>5. k \in 1 .. Len(live[p]) /\ k \in 1 .. Len(live[q]) /\ k <= t
    BY <2>1, <2>2, <2>4
  <2>6. k \in Flipped(p) \cup Flipped(q)
    BY <2>3, <2>5 DEF Flipped
  <2>7. QED
    BY <2>5, <2>6
<1>2. QED
  BY <1>1, Invariance, PTL

-----------------------------------------------------------------------------
(* What is settled is final, and told apart exactly.                       *)

\* Nothing a peer has settled is ever run again: the verified tick never goes
\* back, and no rollback reaches below it, so the inputs and the hook of every
\* tick up to it are what they will be at the end of the match
\* (sync_session.c, sync_frame).
THEOREM SettledIsFinal ==
  Spec => [][\A p \in Player :
                 /\ verified[p] <= verified'[p]
                 /\ \A k \in 1 .. verified[p] :
                        k <= Tick(live'[p]) /\ live'[p][k] = live[p][k]]_vars
<1> DEFINE Final(p) ==
             /\ verified[p] <= verified'[p]
             /\ \A k \in 1 .. verified[p] :
                    k <= Tick(live'[p]) /\ live'[p][k] = live[p][k]
<1>1. ASSUME IInv, Next, NEW p \in Player PROVE Final(p)
  <2>1. IInv' /\ Steady(p)
    BY <1>1, NextOK
  <2>2. verified'[p] <= Tick(live'[p])
    BY <2>1 DEF IInv, PeerOK, SettledOK
  <2>3. verified[p] \in Nat /\ verified'[p] \in Nat
    <3>1. verified \in [Player -> 0 .. Length] /\ verified' \in [Player -> 0 .. Length]
      BY <1>1, <2>1 DEF IInv, TypeOK
    <3>2. QED
      BY <3>1
  <2>4. Tick(live'[p]) \in Nat
    <3>1. live' \in [Player -> State]
      BY <2>1 DEF IInv, TypeOK
    <3>2. QED
      BY <3>1, LenProperties DEF State, Tick
  <2>5. QED
    BY <2>1, <2>2, <2>3, <2>4 DEF Steady
<1>2. IInv /\ [Next]_vars => [\A p \in Player : Final(p)]_vars
  BY <1>1
<1>3. QED
  BY <1>2, Invariance, PTL DEF Spec

\* A verified tick has run on the true inputs, and its snapshot is of the
\* ticks the live state has run.
LEMMA VerifiedTick ==
  ASSUME IInv, NEW p \in Player, NEW t \in Nat, t <= verified[p]
  PROVE  /\ saved[p][t] \in Seq(TickRun) /\ Len(saved[p][t]) = t
         /\ \A k \in 1 .. t : /\ saved[p][t][k] = live[p][k]
                              /\ live[p][k] \in TickRun
                              /\ live[p][k].in = Truth(k - 1)
<1>1. TypeOK /\ PumpOK(p) /\ SettledOK(p) /\ SavedOK(p)
  BY DEF IInv, PeerOK
<1>2. /\ verified[p] \in 0 .. Length /\ live[p] \in State /\ Tick(live[p]) \in Nat
      /\ saved[p] \in [0 .. Length -> State] /\ pump[p].from \in 0 .. Length
  BY <1>1, PeerTypes
<1>3. t \in 0 .. Length /\ verified[p] <= Tick(live[p])
  BY <1>1, <1>2 DEF SettledOK
<1>4. t \in 0 .. Snapped(p)
  BY <1>1, <1>2, <1>3 DEF PumpOK, Resting, Snapped
<1>5. Len(saved[p][t]) = t /\ \A k \in 1 .. t : saved[p][t][k] = live[p][k]
  BY <1>1, <1>4 DEF SavedOK
<1>6. saved[p][t] \in Seq(TickRun)
  BY <1>2, <1>3 DEF State
<1>7. ASSUME NEW k \in 1 .. t
      PROVE  live[p][k] \in TickRun /\ live[p][k].in = Truth(k - 1)
  <2>1. k \in 1 .. Len(live[p]) /\ k - 1 \in 0 .. verified[p] - 1 /\ (k - 1) + 1 = k
    BY <1>2, <1>3 DEF Tick
  <2>2. live[p][k] \in TickRun
    BY <1>2, <2>1, TickElement
  <2>3. live[p][(k - 1) + 1].in = Truth(k - 1)
    BY <1>1, <2>1 DEF SettledOK
  <2>4. QED
    BY <2>1, <2>2, <2>3
<1>8. QED
  BY <1>5, <1>6, <1>7

\* The check for desyncs is exact: the checksums of a tick that two peers have
\* both settled differ when, and only when, the hook has struck one of them in
\* a tick up to it and not the other.  None is missed, none is invented, and
\* one that has come stays in every later checksum
\* (sync_session.c, the case GekkoDesyncDetected).
THEOREM DesyncIsExact ==
  Spec => [](\A p, q \in Player : \A t \in 1 .. Lesser(verified[p], verified[q]) :
                 Hash(saved[p][t]) # Hash(saved[q][t]) <=>
                     \E k \in 1 .. t : live[p][k].flipped # live[q][k].flipped)
<1> DEFINE Apart(p, q, t) == \E k \in 1 .. t : live[p][k].flipped # live[q][k].flipped
           Exact == \A p, q \in Player : \A t \in 1 .. Lesser(verified[p], verified[q]) :
                        Hash(saved[p][t]) # Hash(saved[q][t]) <=> Apart(p, q, t)
<1>1. ASSUME IInv PROVE Exact
  <2> SUFFICES ASSUME NEW p \in Player, NEW q \in Player,
                      NEW t \in 1 .. Lesser(verified[p], verified[q])
               PROVE  saved[p][t] # saved[q][t] <=> Apart(p, q, t)
    BY DEF Hash
  <2>1. t \in Nat /\ t <= verified[p] /\ t <= verified[q]
    <3>1. verified[p] \in Nat /\ verified[q] \in Nat
      BY <1>1, PeerTypes DEF IInv
    <3>2. QED
      BY <3>1 DEF Lesser
  <2>2. /\ saved[p][t] \in Seq(TickRun) /\ saved[q][t] \in Seq(TickRun)
        /\ Len(saved[p][t]) = t /\ Len(saved[q][t]) = t
    BY <1>1, <2>1, VerifiedTick
  <2>3. \A k \in 1 .. t :
          /\ saved[p][t][k] = live[p][k] /\ live[p][k] \in TickRun
          /\ saved[q][t][k] = live[q][k] /\ live[q][k] \in TickRun
          /\ live[p][k].in = live[q][k].in
    BY <1>1, <2>1, VerifiedTick
  <2>4. ASSUME saved[p][t] = saved[q][t] PROVE ~ Apart(p, q, t)
    BY <2>3, <2>4
  <2>5. ASSUME ~ Apart(p, q, t) PROVE saved[p][t] = saved[q][t]
    <3>1. \A k \in 1 .. t : live[p][k] = live[q][k]
      BY <2>3, <2>5 DEF TickRun
    <3>2. \A k \in 1 .. Len(saved[p][t]) : saved[p][t][k] = saved[q][t][k]
      BY <2>2, <2>3, <3>1
    <3>3. QED
      BY <2>2, <3>2, SeqEqual
  <2>6. QED
    BY <2>4, <2>5
<1>2. QED
  BY <1>1, Invariance, PTL

\* The histories of two bundles, written at the same moment of the match, can
\* only contradict each other in a tick that one of the two has not settled:
\* replay_bundle compares them to their end, and so may name a tick there that
\* is no desync, but none before (replay_bundle.c:181-190).
THEOREM BundlesAgree ==
  Spec => [](\A p, q \in Player : \A t \in 0 .. Lesser(recCount[p], recCount[q]) - 1 :
                 Bundle(p).inputs[t] # Bundle(q).inputs[t] =>
                     t >= verified[p] \/ t >= verified[q])
<1> DEFINE Agree == \A p, q \in Player :
                      \A t \in 0 .. Lesser(recCount[p], recCount[q]) - 1 :
                        Bundle(p).inputs[t] # Bundle(q).inputs[t] =>
                            t >= verified[p] \/ t >= verified[q]
<1>1. ASSUME IInv PROVE Agree
  <2> SUFFICES ASSUME NEW p \in Player, NEW q \in Player,
                      NEW t \in 0 .. Lesser(recCount[p], recCount[q]) - 1,
                      ~ (t >= verified[p] \/ t >= verified[q])
               PROVE  rec[p][t] = rec[q][t]
    BY DEF Bundle
  <2>1. \A r \in {p, q} : /\ verified[r] \in Nat /\ Tick(live[r]) \in Nat
                          /\ recCount[r] \in 0 .. HistTicks
                          /\ RecordOK(r) /\ SettledOK(r)
    BY <1>1, PeerTypes DEF IInv, PeerOK
  <2>2. t < HistTicks /\ t < verified[p] /\ t < verified[q]
    BY <2>1 DEF Lesser
  <2>3. \A r \in {p, q} : t \in 0 .. verified[r] - 1 /\ t \in 0 .. Tick(live[r]) - 1
    BY <2>1, <2>2 DEF SettledOK
  <2>4. \A r \in {p, q} : rec[r][t] = Truth(t)
    BY <2>1, <2>2, <2>3 DEF RecordOK, SettledOK
  <2>5. QED
    BY <2>4
<1>2. QED
  BY <1>1, Invariance, PTL

-----------------------------------------------------------------------------
(* The ring of hashes.                                                     *)

\* A hash still in the ring is that of the ticks the live state has run.
LEMMA RingHolds ==
  ASSUME IInv, NEW p \in Player, NEW t \in 1 .. Length, t <= Tick(live[p]),
         HashAt(p, t) # NoState
  PROVE  /\ HashAt(p, t) \in Seq(TickRun) /\ Len(HashAt(p, t)) = t
         /\ \A k \in 1 .. t : HashAt(p, t)[k] = live[p][k]
<1> DEFINE i == t % RingSize
<1>1. i \in 0 .. RingSize - 1
  BY RingIndex
<1>2. ring[p][i].tick = t /\ HashAt(p, t) = ring[p][i].hash
  BY DEF HashAt
<1>3. Tick(live[p]) \in Nat
  BY PeerTypes DEF IInv
<1>4. ring[p][i].tick \in 1 .. Tick(live[p])
  BY <1>2, <1>3
<1>5. RingOK(p)
  BY DEF IInv, PeerOK
<1>6. /\ ring[p][i].hash \in State
      /\ Len(ring[p][i].hash) = ring[p][i].tick
      /\ \A k \in 1 .. ring[p][i].tick : ring[p][i].hash[k] = live[p][k]
  <2> HIDE DEF i
  <2>1. QED
    BY <1>1, <1>4, <1>5 DEF RingOK
<1>7. QED
  BY <1>2, <1>6 DEF State

\* The present being Window ticks beyond, a tick has been verified.
LEMMA WindowSettles ==
  ASSUME IInv, NEW p \in Player, NEW t \in 1 .. Length, AtRest(p),
         t + Window <= Tick(live[p])
  PROVE  t <= verified[p] /\ t <= Tick(live[p])
<1>1. Tick(live[p]) \in Nat /\ verified[p] \in Nat
  BY PeerTypes DEF IInv
<1>2. Tick(live[p]) - Window <= verified[p]
  BY DEF IInv, PeerOK, PumpOK, Resting, AtRest
<1>3. QED
  BY <1>1, <1>2

\* A caller may compare the hash of a tick with that of another peer once the
\* present is Window ticks beyond it (sync_session.h:49-51).
THEOREM HashesAgree == Spec => []SettledHashesAgree
<1>1. ASSUME IInv PROVE SettledHashesAgree
  <2> SUFFICES ASSUME NEW p \in Player, NEW q \in Player, NEW t \in 1 .. Length,
                      AtRest(p), Flipped(p) = {}, t + Window <= Tick(live[p]),
                      AtRest(q), Flipped(q) = {}, t + Window <= Tick(live[q]),
                      HashAt(p, t) # NoState, HashAt(q, t) # NoState
               PROVE  HashAt(p, t) = HashAt(q, t)
    BY DEF SettledHashesAgree
  <2>1. /\ t <= verified[p] /\ t <= Tick(live[p])
        /\ t <= verified[q] /\ t <= Tick(live[q])
    BY <1>1, WindowSettles
  <2>2. Tick(live[p]) \in Nat /\ Tick(live[q]) \in Nat
    BY <1>1, PeerTypes DEF IInv
  <2>3. \A k \in 1 .. t : ~ live[p][k].flipped /\ ~ live[q][k].flipped
    <3> SUFFICES ASSUME NEW k \in 1 .. t
                 PROVE  ~ live[p][k].flipped /\ ~ live[q][k].flipped
      OBVIOUS
    <3>1. k \in 1 .. Len(live[p]) /\ k \in 1 .. Len(live[q])
      BY <2>1, <2>2 DEF Tick
    <3>2. QED
      BY <3>1 DEF Flipped
  <2>4. \A k \in 1 .. t : live[p][k] = live[q][k]
    BY <1>1, <2>1, <2>3, VerifiedAlike DEF IInv
  <2>5. /\ HashAt(p, t) \in Seq(TickRun) /\ Len(HashAt(p, t)) = t
        /\ \A k \in 1 .. t : HashAt(p, t)[k] = live[p][k]
    BY <1>1, <2>1, RingHolds
  <2>6. /\ HashAt(q, t) \in Seq(TickRun) /\ Len(HashAt(q, t)) = t
        /\ \A k \in 1 .. t : HashAt(q, t)[k] = live[q][k]
    BY <1>1, <2>1, RingHolds
  <2>7. QED
    BY <2>4, <2>5, <2>6, SeqEqual
<1>2. QED
  BY <1>1, Invariance, PTL

-----------------------------------------------------------------------------
(* Rollback implements lockstep.                                           *)

\* What the refinement mapping makes of run.
Run == [p \in Player |-> [k \in 1 .. verified[p] |-> live[p][k].in]]

LEMMA RunType ==
  ASSUME IInv, NEW p \in Player
  PROVE  Run[p] \in [1 .. verified[p] -> Vector] /\ Len(Run[p]) = verified[p]
<1>1. /\ verified[p] \in Nat /\ live[p] \in State /\ Len(live[p]) \in Nat
      /\ verified[p] <= Len(live[p])
  BY PeerTypes DEF IInv, PeerOK, SettledOK, Tick
<1>2. Run[p] = [k \in 1 .. verified[p] |-> live[p][k].in]
  BY DEF Run
<1>3. \A k \in 1 .. verified[p] : live[p][k].in \in Vector
  BY <1>1, TickElement
<1>4. Run[p] \in [1 .. verified[p] -> Vector]
  BY <1>2, <1>3
<1>5. QED
  BY <1>1, <1>4

LEMMA InitMaps == Init => Promise!Init
<1> SUFFICES ASSUME Init PROVE Promise!Init
  OBVIOUS
<1>1. Run = [p \in Player |-> <<>>]
  <2> SUFFICES ASSUME NEW p \in Player
               PROVE  [k \in 1 .. verified[p] |-> live[p][k].in] = <<>>
    BY DEF Run
  <2>1. verified[p] = 0
    BY DEF Init
  <2>2. QED
    BY <2>1
<1>2. QED
  BY <1>1 DEF Promise!Init, Init, Run

LEMMA RunStays ==
  ASSUME IInv, \A p \in Player : Steady(p) /\ verified'[p] = verified[p]
  PROVE  Run' = Run
<1> SUFFICES ASSUME NEW p \in Player
             PROVE  [k \in 1 .. verified'[p] |-> live'[p][k].in]
                        = [k \in 1 .. verified[p] |-> live[p][k].in]
  BY DEF Run
<1>1. QED
  BY DEF Steady

\* An input given is an input given, whatever the rollback does.
LEMMA FrameMaps ==
  ASSUME IInv, NEW p \in Player, Frame(p)
  PROVE  [Promise!Next]_(Promise!vars)
<1>1. UNCHANGED <<verified, live>>
  BY DEF Frame
<1>2. Run' = Run
  BY <1>1 DEF Run
<1>3. CASE UNCHANGED chosen
  BY <1>2, <1>3 DEF Promise!vars, Run
<1>4. CASE \E i \in Input : chosen' = [chosen EXCEPT ![p] = Append(@, i)]
  <2>1. Promise!Give(p)
    BY <1>2, <1>4 DEF Promise!Give, Run
  <2>2. QED
    BY <2>1 DEF Promise!Next
<1>5. QED
  BY <1>3, <1>4 DEF Frame

\* Every other step lets at most one peer catch up.
LEMMA CatchMaps ==
  ASSUME IInv, IInv', UNCHANGED chosen, NEW p \in Player,
         \A q \in Player : Steady(q),
         \A q \in Player \ {p} : verified'[q] = verified[q]
  PROVE  [Promise!Next]_(Promise!vars)
<1>1. CASE verified'[p] = verified[p]
  <2>1. Run' = Run
    BY <1>1, RunStays
  <2>2. QED
    BY <2>1 DEF Promise!vars, Run
<1>2. CASE verified'[p] # verified[p]
  <2>1. PICK n \in Nat, m \in Nat : n = verified[p] /\ m = verified'[p]
    <3>1. verified' \in [Player -> 0 .. Length] /\ verified \in [Player -> 0 .. Length]
      BY DEF IInv, TypeOK
    <3>2. verified[p] \in Nat /\ verified'[p] \in Nat
      BY <3>1
    <3>3. QED
      BY <3>2
  <2>2. n < m
    BY <1>2, <2>1 DEF Steady
  <2>3. \A q \in Player : m <= Len(chosen[q]) /\ Len(chosen[q]) \in Nat
    <3> SUFFICES ASSUME NEW q \in Player
                 PROVE  m <= Len(chosen[q]) /\ Len(chosen[q]) \in Nat
      OBVIOUS
    <3>1. m <= Known(p, q)'
      BY <2>1 DEF IInv, PeerOK, SettledOK, AllKnown
    <3>2. Known(p, q)' \in Nat /\ Known(p, q)' <= Len(chosen'[q])
      <4>1. arrived'[p][q] <= Len(chosen'[q])
        BY DEF IInv, PeerOK, KnownOK
      <4>2. /\ arrived' \in [Player -> [Player -> Nat]]
            /\ chosen' \in [Player -> Seq(Input)]
        BY DEF IInv, TypeOK
      <4>3. arrived'[p][q] \in Nat /\ Len(chosen'[q]) \in Nat /\ Len(chosen'[p]) \in Nat
        BY <4>2, LenProperties
      <4>4. QED
        BY <4>1, <4>3 DEF Known
    <3>3. Len(chosen[q]) \in Nat
      BY PeerTypes DEF IInv
    <3>4. QED
      BY <3>1, <3>2, <3>3
  <2>4. \A k \in 1 .. n : live'[p][k] = live[p][k]
    BY <2>1 DEF Steady
  <2>5. \A k \in 1 .. m : live'[p][k].in = [q \in Player |-> chosen[q][k]]
    <3> SUFFICES ASSUME NEW k \in 1 .. m
                 PROVE  live'[p][k].in = [q \in Player |-> chosen[q][k]]
      OBVIOUS
    <3>1. \A t \in 0 .. m - 1 :
            live'[p][t + 1].in = [q \in Player |-> chosen'[q][t + 1]]
      BY <2>1 DEF IInv, PeerOK, SettledOK, Truth
    <3>2. k - 1 \in 0 .. m - 1 /\ (k - 1) + 1 = k
      BY <2>1
    <3>3. live'[p][k].in = [q \in Player |-> chosen'[q][k]]
      BY <3>1, <3>2
    <3>4. QED
      BY <3>3
  <2>6. Run[p] = [k \in 1 .. n |-> live[p][k].in] /\ Len(Run[p]) = n
    BY <2>1, RunType DEF Run
  <2>7. Run'[p] = [k \in 1 .. m |-> IF k <= n THEN Run[p][k]
                                     ELSE [q \in Player |-> chosen[q][k]]]
    <3>1. Run'[p] = [k \in 1 .. m |-> live'[p][k].in]
      BY <2>1 DEF Run
    <3> SUFFICES ASSUME NEW k \in 1 .. m
                 PROVE  live'[p][k].in = IF k <= n THEN Run[p][k]
                                         ELSE [q \in Player |-> chosen[q][k]]
      BY <3>1
    <3>2. CASE k <= n
      <4>1. k \in 1 .. n
        BY <2>1, <3>2
      <4>2. Run[p][k] = live[p][k].in
        BY <2>6, <4>1
      <4>3. QED
        BY <2>4, <3>2, <4>1, <4>2
    <3>3. CASE ~ (k <= n)
      BY <2>5, <3>3
    <3>4. QED
      BY <3>2, <3>3
  <2>8. \A q \in Player \ {p} : Run'[q] = Run[q]
    <3> SUFFICES ASSUME NEW q \in Player \ {p}
                 PROVE  [k \in 1 .. verified'[q] |-> live'[q][k].in]
                            = [k \in 1 .. verified[q] |-> live[q][k].in]
      BY DEF Run
    <3>1. QED
      BY DEF Steady
  <2>9. Run' = [Run EXCEPT ![p] =
                   [k \in 1 .. m |-> IF k <= Len(Run[p]) THEN Run[p][k]
                                     ELSE [q \in Player |-> chosen[q][k]]]]
    <3> DEFINE r == [k \in 1 .. m |-> IF k <= Len(Run[p]) THEN Run[p][k]
                                      ELSE [q \in Player |-> chosen[q][k]]]
    <3>1. Run'[p] = r
      BY <2>6, <2>7
    <3>2. Run' = [q \in Player |-> Run'[q]] /\ DOMAIN Run = Player
      BY DEF Run
    <3> HIDE DEF r
    <3>3. Run' = [Run EXCEPT ![p] = r]
      BY <2>8, <3>1, <3>2
    <3>4. QED
      BY <3>3 DEF r
  <2>10. Promise!Catch(p, m)
    BY <2>2, <2>3, <2>6, <2>9 DEF Promise!Catch, Run
  <2>11. m \in 1 .. Len(chosen[p])
    BY <2>1, <2>2, <2>3
  <2>12. QED
    BY <2>10, <2>11 DEF Promise!Next
<1>3. QED
  BY <1>1, <1>2

LEMMA NextMaps ==
  ASSUME IInv, IInv', Next
  PROVE  [Promise!Next]_(Promise!vars)
<1>1. \A q \in Player : Steady(q)
  BY NextOK
<1>2. PICK p \in Player : Step(p) \/ Corrupt(p) \/ \E q \in Player : Desync(p, q)
  BY DEF Next
<1>3. CASE Frame(p)
  BY <1>3, FrameMaps
<1>4. CASE Step(p) /\ ~ Frame(p)
  <2>1. UNCHANGED chosen
    BY <1>4 DEF Step, Update, Load, Advance, Save
  <2>2. \A q \in Player \ {p} : verified'[q] = verified[q]
    BY <1>4, StepOK
  <2>3. QED
    BY <1>1, <2>1, <2>2, CatchMaps
<1>5. CASE Corrupt(p) \/ \E q \in Player : Desync(p, q)
  <2>1. UNCHANGED <<chosen, verified>>
    BY <1>5 DEF Corrupt, Desync
  <2>2. QED
    BY <1>1, <2>1, CatchMaps
<1>6. QED
  BY <1>2, <1>3, <1>4, <1>5

LEMMA StutterMaps ==
  ASSUME UNCHANGED vars
  PROVE  UNCHANGED Promise!vars
BY DEF vars, Promise!vars

\* Rollback is invisible (sync_session.h:6-8): what the peers have settled is
\* a match in lockstep, each tick run once, on the inputs everybody gave.
THEOREM ImplementsLockstep == Spec => RollbackInvisible
<1>1. Init => Promise!Init
  BY InitMaps
<1>2. IInv /\ IInv' /\ [Next]_vars => [Promise!Next]_(Promise!vars)
  BY NextMaps, StutterMaps
<1>3. QED
  BY <1>1, <1>2, Invariance, PTL DEF Spec, RollbackInvisible, Promise!Spec

=============================================================================
