--------------------------- MODULE AdapterProofs ---------------------------
(***************************************************************************)
(* Theorems about NetAdapter, for every size of the ring and of the delay  *)
(* queue, every width of the clock and every impairment it can measure.    *)
(*                                                                         *)
(* The ring of control packets implements the mailbox.  The letters are    *)
(* the count entries from head on, around the end of the array.  All that  *)
(* has to be known of a state is that head and count stay in range; the    *)
(* rest is that an entry written is none of the others.                    *)
(*                                                                         *)
(* The delay queue loses no packet, doubles none and lets each go in time. *)
(* Its invariant says that a packet is in one place, and that the reading  *)
(* a packet waits for is less than half of the clock's range away, however *)
(* often it may still be pushed back: then the sign of the difference of   *)
(* two readings says whether the time has come.                            *)
(***************************************************************************)
EXTENDS NetAdapter, SequenceTheorems, FiniteSetTheorems, TLAPS

USE AdapterAssumption

Entry == Control \cup {Unused}

RingOK ==
    /\ lobbyq \in [0 .. RingSize - 1 -> Entry]
    /\ head \in 0 .. RingSize - 1
    /\ count \in 0 .. RingSize

\* What the refinement mapping makes of box, and its i-th entry.
Box == [i \in 1 .. count |-> lobbyq[(head + i - 1) % RingSize]]

-----------------------------------------------------------------------------
(* Indices around the end of the array.                                    *)

LEMMA Wrap ==
  ASSUME NEW a \in 0 .. 2 * RingSize - 1
  PROVE  a % RingSize = IF a < RingSize THEN a ELSE a - RingSize
<1>1. CASE a < RingSize
  BY <1>1
<1>2. CASE ~ (a < RingSize)
  <2>1. a = RingSize + (a - RingSize) /\ a - RingSize \in 0 .. RingSize - 1
    BY <1>2
  <2>2. QED
    BY <1>2, <2>1
<1>3. QED
  BY <1>1, <1>2

\* Fewer than RingSize steps apart are different entries.
LEMMA Apart ==
  ASSUME NEW h \in 0 .. RingSize - 1, NEW i \in 0 .. RingSize, NEW j \in 0 .. RingSize,
         (h + i) % RingSize = (h + j) % RingSize
  PROVE  i = j \/ {i, j} = {0, RingSize}
<1>1. h + i \in 0 .. 2 * RingSize - 1 /\ h + j \in 0 .. 2 * RingSize - 1
  OBVIOUS
<1>2. i = j \/ i = j + RingSize \/ j = i + RingSize
  BY <1>1, Wrap
<1>3. QED
  BY <1>2

\* One step on, then i - 1: i steps.
LEMMA RotateHead ==
  ASSUME NEW h \in 0 .. RingSize - 1, NEW i \in 1 .. RingSize
  PROVE  (((h + 1) % RingSize) + (i - 1)) % RingSize = (h + i) % RingSize
<1>1. (h + 1) % RingSize = IF h + 1 < RingSize THEN h + 1 ELSE 0
  <2>1. h + 1 \in 0 .. 2 * RingSize - 1
    OBVIOUS
  <2>2. QED
    BY <2>1, Wrap
<1>2. CASE h + 1 < RingSize
  <2>1. (h + 1) + (i - 1) = h + i
    OBVIOUS
  <2>2. QED
    BY <1>1, <1>2, <2>1
<1>3. CASE h + 1 = RingSize
  <2>1. h + i \in 0 .. 2 * RingSize - 1 /\ i - 1 \in 0 .. 2 * RingSize - 1
    OBVIOUS
  <2>2. (h + i) % RingSize = i - 1 /\ (i - 1) % RingSize = i - 1
    BY <1>3, <2>1, Wrap
  <2>3. QED
    BY <1>1, <1>3, <2>2
<1>4. QED
  BY <1>2, <1>3

\* The n entries from h on are a sequence.
LEMMA Stretch ==
  ASSUME NEW l \in [0 .. RingSize - 1 -> Entry], NEW h \in 0 .. RingSize - 1,
         NEW n \in 0 .. RingSize
  PROVE  /\ [i \in 1 .. n |-> l[(h + i - 1) % RingSize]] \in Seq(Entry)
         /\ Len([i \in 1 .. n |-> l[(h + i - 1) % RingSize]]) = n
<1> DEFINE b == [i \in 1 .. n |-> l[(h + i - 1) % RingSize]]
<1>1. \A i \in 1 .. n : (h + i - 1) % RingSize \in 0 .. RingSize - 1
  OBVIOUS
<1>2. b \in [1 .. n -> Entry]
  BY <1>1
<1>3. QED
  BY <1>2

LEMMA BoxIs ==
  ASSUME RingOK
  PROVE  /\ Box \in Seq(Entry) /\ Len(Box) = count
         /\ \A i \in 1 .. count : Box[i] = lobbyq[(head + i - 1) % RingSize]
BY Stretch DEF Box, RingOK

LEMMA NextBoxIs ==
  ASSUME RingOK'
  PROVE  /\ Box' \in Seq(Entry) /\ Len(Box') = count'
         /\ \A i \in 1 .. count' : Box'[i] = lobbyq'[(head' + i - 1) % RingSize]
<1>1. /\ lobbyq' \in [0 .. RingSize - 1 -> Entry]
      /\ head' \in 0 .. RingSize - 1 /\ count' \in 0 .. RingSize
  BY DEF RingOK, Entry
<1>2. Box' = [i \in 1 .. count' |-> lobbyq'[(head' + i - 1) % RingSize]]
  BY DEF Box
<1>3. QED
  BY <1>1, <1>2, Stretch

-----------------------------------------------------------------------------
(* The operations.                                                         *)

LEMMA PushMaps ==
  ASSUME RingOK, NEW m \in Control, RingPush(m)
  PROVE  RingOK' /\ Box' = Append(IF Len(Box) < RingSize THEN Box ELSE Tail(Box), m)
<1> DEFINE kept == IF Len(Box) < RingSize THEN Box ELSE Tail(Box)
<1>1. CASE count < RingSize
  <2>1. /\ lobbyq' = [lobbyq EXCEPT ![(head + count) % RingSize] = m]
        /\ count' = count + 1 /\ head' = head
    BY <1>1 DEF RingPush
  <2>2. (head + count) % RingSize \in 0 .. RingSize - 1
    BY DEF RingOK
  <2>3. RingOK'
    BY <1>1, <2>1, <2>2 DEF RingOK, Entry
  <2>4. Len(Box) = count /\ kept = Box
    BY <1>1, BoxIs
  <2>5. ASSUME NEW i \in 1 .. count' PROVE Box'[i] = Append(Box, m)[i]
    <3>1. Box'[i] = lobbyq'[(head + i - 1) % RingSize]
      BY <2>1, <2>3, BoxIs DEF Box
    <3>2. CASE i = count + 1
      <4>1. head + i - 1 = head + count
        BY <3>2 DEF RingOK
      <4>2. Box'[i] = m
        BY <2>1, <2>2, <3>1, <4>1 DEF RingOK
      <4>3. Append(Box, m)[i] = m
        BY <2>4, <3>2, BoxIs, AppendProperties DEF Entry
      <4>4. QED
        BY <4>2, <4>3
    <3>3. CASE i # count + 1
      <4>1. i \in 1 .. count /\ count \in Nat
        BY <2>1, <3>3 DEF RingOK
      <4>2. (head + (i - 1)) % RingSize # (head + count) % RingSize
        <5>1. /\ head \in 0 .. RingSize - 1 /\ count \in 0 .. RingSize
              /\ i - 1 \in 0 .. RingSize /\ i - 1 # count /\ count # RingSize
              /\ i - 1 # RingSize
          BY <1>1, <4>1 DEF RingOK
        <5>2. QED
          BY <5>1, Apart
      <4>3. head + i - 1 = head + (i - 1)
        BY <4>1 DEF RingOK
      <4>4. Box'[i] = Box[i]
        BY <2>1, <3>1, <4>1, <4>2, <4>3, BoxIs DEF RingOK
      <4>5. Append(Box, m)[i] = Box[i]
        BY <2>4, <4>1, BoxIs, AppendProperties DEF Entry
      <4>6. QED
        BY <4>4, <4>5
    <3>4. QED
      BY <3>2, <3>3
  <2>6. Box' \in Seq(Entry) /\ Len(Box') = count + 1
    BY <2>1, <2>3, NextBoxIs
  <2>7. Append(Box, m) \in Seq(Entry) /\ Len(Append(Box, m)) = count + 1
    BY <2>4, BoxIs, AppendProperties DEF Entry
  <2>8. Box' = Append(Box, m)
    BY <2>1, <2>5, <2>6, <2>7, SeqEqual
  <2>9. QED
    BY <2>3, <2>4, <2>8
<1>2. CASE ~ (count < RingSize)
  <2>1. /\ lobbyq' = [lobbyq EXCEPT ![head] = m]
        /\ head' = (head + 1) % RingSize /\ count' = count /\ count = RingSize
    BY <1>2 DEF RingPush, RingOK
  <2>2. RingOK'
    BY <2>1 DEF RingOK, Entry
  <2>3. Len(Box) = RingSize /\ Box # <<>> /\ kept = Tail(Box)
    BY <2>1, BoxIs
  <2>4. /\ kept \in Seq(Entry) /\ Len(kept) = RingSize - 1
        /\ \A i \in 1 .. RingSize - 1 : kept[i] = Box[i + 1]
    BY <2>3, BoxIs, HeadTailProperties
  <2>5. /\ Append(kept, m) \in Seq(Entry) /\ Len(Append(kept, m)) = RingSize
        /\ \A i \in 1 .. RingSize - 1 : Append(kept, m)[i] = kept[i]
        /\ Append(kept, m)[RingSize] = m
    BY <2>4, AppendProperties DEF Entry
  <2>6. ASSUME NEW i \in 1 .. RingSize PROVE Box'[i] = Append(kept, m)[i]
    <3>1. Box'[i] = lobbyq'[(head' + (i - 1)) % RingSize]
      BY <2>1, <2>2 DEF Box, RingOK
    <3>2. (head' + (i - 1)) % RingSize = (head + i) % RingSize
      BY <2>1, RotateHead DEF RingOK
    <3>3. CASE i = RingSize
      <4>1. (head + i) % RingSize = head
        BY <3>3, Wrap DEF RingOK
      <4>2. QED
        BY <2>1, <2>5, <3>1, <3>2, <3>3, <4>1 DEF RingOK
    <3>4. CASE i # RingSize
      <4>1. (head + i) % RingSize # head
        BY <3>4, Wrap DEF RingOK
      <4>2. Box[i + 1] = lobbyq[(head + i) % RingSize]
        BY <2>1, <3>4, BoxIs DEF RingOK
      <4>3. Append(kept, m)[i] = Box[i + 1]
        BY <2>4, <2>5, <3>4
      <4>4. PICK k \in 0 .. RingSize - 1 : k = (head + i) % RingSize
        <5>1. head + i \in Int
          BY DEF RingOK
        <5>2. QED
          BY <5>1
      <4>5. lobbyq'[k] = lobbyq[k]
        BY <2>1, <4>1, <4>4 DEF RingOK
      <4>6. QED
        BY <3>1, <3>2, <4>2, <4>3, <4>4, <4>5
    <3>5. QED
      BY <3>3, <3>4
  <2>7. Box' \in Seq(Entry) /\ Len(Box') = RingSize
    BY <2>1, <2>2, NextBoxIs
  <2>8. Box' = Append(kept, m)
    BY <2>5, <2>6, <2>7, SeqEqual
  <2>9. QED
    BY <2>2, <2>8
<1>3. QED
  BY <1>1, <1>2

LEMMA TakeMaps ==
  ASSUME RingOK, TakeLobbyPacket
  PROVE  RingOK' /\ LobbyMailbox!Take
<1>1. /\ lobbyq' = lobbyq /\ head' = (head + 1) % RingSize
      /\ count' = count - 1 /\ count > 0
  BY DEF TakeLobbyPacket
<1>2. RingOK'
  BY <1>1 DEF RingOK
<1>3. Len(Box) = count /\ count \in Nat /\ Box # <<>>
  BY <1>1, BoxIs DEF RingOK
<1>4. /\ Tail(Box) \in Seq(Entry) /\ Len(Tail(Box)) = count - 1
      /\ \A i \in 1 .. count - 1 : Tail(Box)[i] = Box[i + 1]
  BY <1>3, BoxIs, HeadTailProperties
<1>5. ASSUME NEW i \in 1 .. count - 1 PROVE Box'[i] = Tail(Box)[i]
  <2>1. Box'[i] = lobbyq[(head' + (i - 1)) % RingSize]
    BY <1>1, <1>2 DEF Box, RingOK
  <2>2. (head' + (i - 1)) % RingSize = (head + i) % RingSize
    <3>1. count \in 0 .. RingSize
      BY DEF RingOK
    <3>2. i \in 1 .. RingSize
      BY <3>1
    <3>3. QED
      BY <1>1, <3>2, RotateHead DEF RingOK
  <2>3. Box[i + 1] = lobbyq[(head + i) % RingSize]
    BY <1>1, BoxIs DEF RingOK
  <2>4. QED
    BY <1>4, <2>1, <2>2, <2>3
<1>6. Box' \in Seq(Entry) /\ Len(Box') = count - 1
  BY <1>1, <1>2, NextBoxIs
<1>7. Box' = Tail(Box)
  BY <1>4, <1>5, <1>6, SeqEqual
<1>8. QED
  BY <1>2, <1>3, <1>7 DEF LobbyMailbox!Take, Box

LEMMA ZeroMaps ==
  ASSUME NEW on, Zeroed(on)
  PROVE  RingOK' /\ LobbyMailbox!Empty
<1>1. RingOK'
  BY DEF Zeroed, RingOK, Entry
<1>2. QED
  BY <1>1 DEF Zeroed, LobbyMailbox!Empty

LEMMA NextMaps ==
  ASSUME RingOK, [Next]_vars
  PROVE  RingOK' /\ [LobbyMailbox!Next]_(Box)
<1>1. CASE AdapterInit \/ Shutdown
  BY <1>1, ZeroMaps DEF AdapterInit, Shutdown, LobbyMailbox!Next
<1>2. CASE TakeLobbyPacket
  BY <1>2, TakeMaps DEF LobbyMailbox!Next
<1>3. CASE ReadOne /\ Head(inbox) \in Control
  <2>1. PICK m \in Control : m = Head(inbox)
    BY <1>3
  <2>2. RingPush(m)
    BY <1>3, <2>1 DEF ReadOne, RingPush
  <2>3. RingOK' /\ LobbyMailbox!Put(m)
    BY <2>2, PushMaps DEF LobbyMailbox!Put, Box
  <2>4. LobbyMailbox!Next
    BY <2>3 DEF LobbyMailbox!Next
  <2>5. QED
    BY <2>3, <2>4
<1>4. CASE UNCHANGED <<lobbyq, head, count>>
  BY <1>4 DEF RingOK, Box
<1>5. QED
  <2>1. CASE ReadOne
    BY <1>3, <1>4, <2>1 DEF ReadOne
  <2>2. CASE NaRecv \/ Impair \/ Arrival \/ Millisecond
    BY <1>4, <2>2 DEF NaRecv, Impair, Arrival, Millisecond
  <2>3. CASE \E j \in Slot : NaSend(j) \/ SetRoute(j)
    BY <1>4, <2>3 DEF NaSend, SetRoute
  <2>4. CASE UNCHANGED vars
    BY <1>4, <2>4 DEF vars
  <2>5. QED
    BY <1>1, <1>2, <2>1, <2>2, <2>3, <2>4 DEF Next

\* The ring is a mailbox (src/netplay/net_adapter.c, lobby_ring_push and
\* net_adapter_take_lobby_packet): control packets come out in the order they
\* went in, and only the oldest is ever overwritten.
THEOREM RingIsMailbox == Spec => KeepsLatest
<1>1. Init => RingOK /\ LobbyMailbox!Init
  <2> SUFFICES ASSUME Init PROVE RingOK /\ LobbyMailbox!Init
    OBVIOUS
  <2>1. RingOK
    BY DEF Init, RingOK, Entry
  <2>2. Box = <<>>
    BY <2>1, BoxIs DEF Init
  <2>3. QED
    BY <2>1, <2>2 DEF LobbyMailbox!Init, Box
<1>2. RingOK /\ [Next]_vars => RingOK' /\ [LobbyMailbox!Next]_(Box)
  BY NextMaps
<1>3. QED
  BY <1>1, <1>2, PTL DEF Spec, KeepsLatest, LobbyMailbox!Spec, Box

-----------------------------------------------------------------------------
(* Selecting from a sequence, in its order.                                *)

\* How many of S come up to i.
Rank(S, i) == Cardinality({h \in S : h <= i})

\* Places of a sequence are finitely many.
LEMMA Places ==
  ASSUME NEW n \in Nat, NEW S \in SUBSET (1 .. n)
  PROVE  /\ IsFiniteSet(1 .. n) /\ Cardinality(1 .. n) = n
         /\ IsFiniteSet(S) /\ Cardinality(S) \in Nat /\ Cardinality(S) <= n
<1>1. 1 \in Int /\ n \in Int /\ (1 > n => n = 0) /\ n - 1 + 1 = n
  OBVIOUS
<1>2. IsFiniteSet(1 .. n) /\ Cardinality(1 .. n) = IF 1 > n THEN 0 ELSE n - 1 + 1
  BY <1>1, FS_Interval
<1>3. IsFiniteSet(1 .. n) /\ Cardinality(1 .. n) = n
  BY <1>1, <1>2
<1>4. IsFiniteSet(S) /\ Cardinality(S) <= n
  BY <1>3, FS_Subset
<1>5. QED
  BY <1>3, <1>4, FS_CardinalityType

\* Ranks are in range, and later places have greater ones.
LEMMA RankGrows ==
  ASSUME NEW n \in Nat, NEW S \in SUBSET (1 .. n), NEW i \in S
  PROVE  /\ Rank(S, i) \in 1 .. Cardinality(S)
         /\ \A h \in S : h < i => Rank(S, h) < Rank(S, i)
<1>1. IsFiniteSet(S) /\ Cardinality(S) \in Nat
  BY Places
<1> DEFINE Upto(k) == {h \in S : h <= k}
<1>2. \A k \in S : Upto(k) \in SUBSET S /\ k \in Upto(k)
  OBVIOUS
<1>3. \A k \in S : /\ IsFiniteSet(Upto(k)) /\ Cardinality(Upto(k)) \in Nat
                   /\ Cardinality(Upto(k)) <= Cardinality(S)
  BY <1>1, <1>2, FS_Subset, FS_CardinalityType
<1>4. Rank(S, i) \in 1 .. Cardinality(S)
  <2>1. Cardinality(Upto(i)) # 0
    BY <1>2, <1>3, FS_EmptySet
  <2>2. Rank(S, i) = Cardinality(Upto(i))
    BY DEF Rank
  <2> HIDE DEF Upto
  <2>3. QED
    BY <1>1, <1>3, <2>1, <2>2
<1>5. ASSUME NEW h \in S, h < i PROVE Rank(S, h) < Rank(S, i)
  <2>1. Upto(h) \in SUBSET Upto(i) /\ i \notin Upto(h)
    <3>1. \A k \in S : k \in Int
      OBVIOUS
    <3>2. \A k \in S : k <= h => k <= i
      BY <1>5, <3>1
    <3>3. ~ (i <= h)
      BY <1>5, <3>1
    <3>4. QED
      BY <3>2, <3>3
  <2>2. Cardinality(Upto(h)) <= Cardinality(Upto(i)) /\ Cardinality(Upto(h)) # Cardinality(Upto(i))
    BY <1>2, <1>3, <2>1, FS_Subset
  <2>3. Rank(S, h) = Cardinality(Upto(h)) /\ Rank(S, i) = Cardinality(Upto(i))
    BY DEF Rank
  <2>4. Cardinality(Upto(h)) \in Nat /\ Cardinality(Upto(i)) \in Nat
    BY <1>3
  <2> HIDE DEF Upto
  <2>5. QED
    BY <2>2, <2>3, <2>4
<1>6. QED
  BY <1>4, <1>5

\* Some place of S has each rank.
LEMMA RankOnto ==
  ASSUME NEW n \in Nat, NEW S \in SUBSET (1 .. n), NEW k \in 1 .. Cardinality(S)
  PROVE  \E i \in S : Rank(S, i) = k
<1>1. IsFiniteSet(S) /\ Cardinality(S) \in Nat
  BY Places
<1> DEFINE T == 1 .. Cardinality(S)
           f == [i \in S |-> Rank(S, i)]
<1>2. f \in [S -> T]
  BY RankGrows
<1>3. \A i, j \in S : f[i] = f[j] => i = j
  <2>1. \A i, j \in S : i < j => f[i] < f[j]
    BY RankGrows
  <2>2. \A i \in S : f[i] \in Int
    BY <1>1, <1>2
  <2>3. \A i, j \in S : i < j \/ j < i \/ i = j
    OBVIOUS
  <2> HIDE DEF f
  <2>4. \A i, j \in S : i < j => f[i] # f[j]
    BY <2>1, <2>2
  <2>5. QED
    BY <2>3, <2>4
<1>4. f \in Injection(S, T)
  BY <1>2, <1>3 DEF Injection, IsInjective
<1>5. IsFiniteSet(T) /\ Cardinality(T) = Cardinality(S)
  BY <1>1, FS_Interval
<1>6. f \in Surjection(S, T)
  BY <1>4, <1>5, FS_Injection
<1>7. QED
  BY <1>6 DEF Surjection

\* f lists the places S in their order.
Lists(f, S) ==
    /\ f \in [1 .. Cardinality(S) -> S]
    /\ \A h, k \in 1 .. Cardinality(S) : h < k => f[h] < f[k]
    /\ \A i \in S : \E k \in 1 .. Cardinality(S) : f[k] = i

\* Selecting takes every place of S once, in the order of q.
LEMMA Selected ==
  ASSUME NEW E, NEW q \in Seq(E), NEW S \in SUBSET (1 .. Len(q))
  PROVE  /\ InOrder(q, S) \in Seq(E) /\ Len(InOrder(q, S)) = Cardinality(S)
         /\ Cardinality(S) \in Nat /\ Cardinality(S) <= Len(q)
         /\ \E f : Lists(f, S) /\ \A k \in 1 .. Cardinality(S) : InOrder(q, S)[k] = q[f[k]]
<1> DEFINE n == Len(q)
           c == Cardinality(S)
           f == [k \in 1 .. c |-> CHOOSE i \in S : Rank(S, i) = k]
<1>1. n \in Nat
  BY LenProperties
<1>2. c \in Nat /\ c <= n
  BY <1>1, Places
<1>3. \A k \in 1 .. c : f[k] \in S /\ Rank(S, f[k]) = k
  <2>1. \A k \in 1 .. c : \E i \in S : Rank(S, i) = k
    BY <1>1, RankOnto
  <2>2. QED
    BY <2>1
<1>4. f \in [1 .. c -> S]
  BY <1>3
<1>5. InOrder(q, S) = [k \in 1 .. c |-> q[f[k]]]
  BY DEF InOrder, Rank
<1>6. InOrder(q, S) \in Seq(E) /\ Len(InOrder(q, S)) = c
  <2>1. \A i \in 1 .. n : q[i] \in E
    BY ElementOfSeq
  <2>2. \A k \in 1 .. c : q[f[k]] \in E
    BY <1>3, <2>1
  <2>3. [k \in 1 .. c |-> q[f[k]]] \in [1 .. c -> E]
    BY <2>2
  <2> HIDE DEF f, c
  <2>4. QED
    BY <1>2, <1>5, <2>3
<1> DEFINE r(i) == Rank(S, i)
<1>7. /\ \A i \in S : i \in Int /\ r(i) \in 1 .. c /\ r(i) \in Int
      /\ \A i, j \in S : i < j => r(i) < r(j)
  <2>1. (\A i \in S : i \in Int) /\ \A i \in S : r(i) \in 1 .. c
    <3>1. \A i \in S : r(i) \in 1 .. c
      BY <1>1, RankGrows
    <3>2. \A i \in S : i \in Int
      OBVIOUS
    <3>3. QED
      BY <3>1, <3>2
  <2>2. \A k \in 1 .. c : k \in Int
    BY <1>2
  <2>3. \A i, j \in S : i < j => r(i) < r(j)
    BY <1>1, RankGrows
  <2> HIDE DEF r, c
  <2>4. QED
    BY <2>1, <2>2, <2>3
<1>8. \A k \in 1 .. c : f[k] \in S /\ r(f[k]) = k
  BY <1>3
<1>9. /\ \A h, k \in 1 .. c : h < k => f[h] < f[k]
      /\ \A i \in S : \E k \in 1 .. c : f[k] = i
  <2> HIDE DEF f, c, r
  <2>1. \A i, j \in S : r(i) = r(j) => i = j
    BY <1>7
  <2>2. \A i \in S : f[r(i)] = i
    BY <1>7, <1>8, <2>1
  <2>3. \A i, j \in S : r(i) < r(j) => i < j
    <3>1. SUFFICES ASSUME NEW i \in S, NEW j \in S, r(i) < r(j) PROVE i < j
      OBVIOUS
    <3>2. /\ i \in Int /\ j \in Int /\ r(i) \in Int /\ r(j) \in Int
          /\ (j < i => r(j) < r(i)) /\ (i = j => r(i) = r(j))
      BY <1>7
    <3>3. QED
      BY <3>1, <3>2
  <2>4. \A h, k \in 1 .. c : h < k => f[h] < f[k]
    <3>1. SUFFICES ASSUME NEW h \in 1 .. c, NEW k \in 1 .. c, h < k PROVE f[h] < f[k]
      OBVIOUS
    <3>2. f[h] \in S /\ f[k] \in S /\ r(f[h]) < r(f[k])
      BY <1>8, <3>1
    <3>3. QED
      BY <2>3, <3>2
  <2>5. QED
    BY <1>7, <2>2, <2>4
<1>10. Lists(f, S)
  BY <1>4, <1>9 DEF Lists
<1>11. \A k \in 1 .. c : InOrder(q, S)[k] = q[f[k]]
  BY <1>5
<1>12. QED
  BY <1>2, <1>6, <1>10, <1>11
-----------------------------------------------------------------------------
(* Readings of the clock.                                                  *)

\* The remainder of what is out of range by at most one turn.
LEMMA WordWrap ==
  ASSUME NEW a \in Int, - Word <= a, a < 2 * Word
  PROVE  a % Word = IF a < 0 THEN a + Word ELSE IF a < Word THEN a ELSE a - Word
<1>1. Word \in Nat /\ Word > 0
  OBVIOUS
<1>2. CASE a < 0
  <2>1. a = Word * (-1) + (a + Word) /\ a + Word \in 0 .. Word - 1
    BY <1>1, <1>2
  <2>2. QED
    BY <1>1, <1>2, <2>1
<1>3. CASE a >= 0 /\ a < Word
  BY <1>1, <1>3
<1>4. CASE a >= Word
  <2>1. a = Word + (a - Word) /\ a - Word \in 0 .. Word - 1
    BY <1>1, <1>4
  <2>2. QED
    BY <1>1, <1>4, <2>1
<1>5. QED
  BY <1>1, <1>2, <1>3, <1>4

\* A wait that is less than half of the clock's range is read off two readings.
LEMMA ReachedIs ==
  ASSUME NEW c \in 0 .. Word - 1, NEW w \in Int, - Late <= w, 2 * w < Word
  PROVE  Reached(c, (c + w) % Word) <=> w <= 0
<1>1. Word \in Nat /\ Word > 0 /\ Late \in Nat /\ 2 * Late < Word
  OBVIOUS
<1>2. /\ c + w \in Int /\ - Word <= c + w /\ c + w < 2 * Word
      /\ c \in Int /\ w \in Int
  BY <1>1
<1>3. PICK due \in Int : due = (c + w) % Word
  BY <1>1, <1>2
<1>4. due = IF c + w < 0 THEN c + w + Word ELSE IF c + w < Word THEN c + w ELSE c + w - Word
  BY <1>2, <1>3, WordWrap
<1>5. PICK far \in Int : far = (c - due) % Word
  BY <1>1, <1>2
<1>6. far = IF w <= 0 THEN - w ELSE Word - w
  <2>1. c - due \in Int /\ - Word <= c - due /\ c - due < 2 * Word
    BY <1>1, <1>2, <1>4
  <2>2. far = IF c - due < 0 THEN c - due + Word ELSE IF c - due < Word THEN c - due ELSE c - due - Word
    BY <1>5, <2>1, WordWrap
  <2>3. QED
    BY <1>1, <1>2, <1>4, <2>2
<1>7. 2 * far < Word <=> w <= 0
  BY <1>1, <1>2, <1>6
<1>8. QED
  BY <1>3, <1>5, <1>7 DEF Reached

\* A millisecond goes by, and a packet is pushed back by one.
LEMMA Ticked ==
  ASSUME NEW c \in 0 .. Word - 1, NEW w \in Int, - Late <= w, 2 * w < Word
  PROVE  /\ w > - Late => (c + w) % Word = (((c + 1) % Word) + (w - 1)) % Word
         /\ 2 * (w + 1) < Word => (((c + w) % Word) + 1) % Word = (c + (w + 1)) % Word
<1>1. Word \in Nat /\ Word > 0 /\ Late \in Nat /\ 2 * Late < Word
  OBVIOUS
<1>2. /\ c + w \in Int /\ - Word <= c + w /\ c + w < 2 * Word
      /\ c \in Int /\ w \in Int
  BY <1>1
<1>3. PICK due \in Int : due = (c + w) % Word
  BY <1>1, <1>2
<1>4. due = IF c + w < 0 THEN c + w + Word ELSE IF c + w < Word THEN c + w ELSE c + w - Word
  BY <1>2, <1>3, WordWrap
<1>5. PICK d \in Int : d = (c + 1) % Word
  BY <1>1, <1>2
<1>6. d = IF c + 1 < Word THEN c + 1 ELSE c + 1 - Word
  BY <1>1, <1>2, <1>5, WordWrap
<1>7. ASSUME w > - Late PROVE (d + (w - 1)) % Word = due
  <2>1. d + (w - 1) \in Int /\ - Word <= d + (w - 1) /\ d + (w - 1) < 2 * Word
    BY <1>1, <1>2, <1>6, <1>7
  <2>2. (d + (w - 1)) % Word = IF d + (w - 1) < 0 THEN d + (w - 1) + Word ELSE IF d + (w - 1) < Word THEN d + (w - 1) ELSE d + (w - 1) - Word
    BY <2>1, WordWrap
  <2>3. QED
    BY <1>1, <1>2, <1>4, <1>6, <1>7, <2>2
<1>8. ASSUME 2 * (w + 1) < Word PROVE (due + 1) % Word = (c + (w + 1)) % Word
  <2>1. /\ due + 1 \in Int /\ - Word <= due + 1 /\ due + 1 < 2 * Word
        /\ c + (w + 1) \in Int /\ - Word <= c + (w + 1) /\ c + (w + 1) < 2 * Word
    BY <1>1, <1>2, <1>4, <1>8
  <2>2. /\ (due + 1) % Word = IF due + 1 < 0 THEN due + 1 + Word ELSE IF due + 1 < Word THEN due + 1 ELSE due + 1 - Word
        /\ (c + (w + 1)) % Word = IF c + (w + 1) < 0 THEN c + (w + 1) + Word ELSE IF c + (w + 1) < Word THEN c + (w + 1) ELSE c + (w + 1) - Word
    BY <2>1, WordWrap
  <2>3. QED
    BY <1>1, <1>2, <1>4, <1>8, <2>2
<1>9. QED
  BY <1>3, <1>5, <1>7, <1>8

-----------------------------------------------------------------------------
(* The delay queue.                                                        *)

Delayed == [id : Packet, due : 0 .. Word - 1, wait : Int]
Queue == Seq(Delayed)

Ids == {dq[i].id : i \in 1 .. Len(dq)}

\* A packet waits once, or was given up once, or went out once.
Placed ==
    /\ Ids \cup refused \subseteq 1 .. asked
    /\ Ids \cap refused = {}
    /\ \A i, j \in 1 .. Len(dq) : dq[i].id = dq[j].id => i = j
    /\ \A n \in Packet :
           departed[n] = IF n <= asked /\ n \notin Ids \cup refused THEN 1 ELSE 0

\* The reading a packet waits for is as far from now as it says, and less than
\* half of the clock's range, however often it may still be pushed back.
Timed ==
    \A i \in 1 .. Len(dq) :
        /\ dq[i].due = (clock + dq[i].wait) % Word
        /\ - Late <= dq[i].wait
        /\ 2 * (dq[i].wait + (Sends - asked)) < Word

Quiet == (~ active => dq = <<>>) /\ (pumping > 0 => inbox # <<>>)

AdapterOK == TypeOK /\ Placed /\ Timed /\ Quiet

LEMMA Indices ==
  ASSUME NEW E, NEW q \in Seq(E)
  PROVE  Len(q) \in Nat /\ \A i \in 1 .. Len(q) : q[i] \in E /\ i \in Nat
BY LenProperties, ElementOfSeq

LEMMA DqIs ==
  ASSUME TypeOK
  PROVE  /\ dq \in Queue /\ Len(dq) \in Nat
         /\ \A i \in 1 .. Len(dq) :
                /\ dq[i] \in Delayed
                /\ dq[i].id \in Packet /\ dq[i].due \in 0 .. Word - 1 /\ dq[i].wait \in Int
<1>1. dq \in Queue
  BY DEF TypeOK, Queue, Delayed
<1>2. Len(dq) \in Nat /\ \A i \in 1 .. Len(dq) : dq[i] \in Delayed
  BY <1>1, Indices DEF Queue
<1>3. QED
  BY <1>1, <1>2 DEF Delayed

\* Packets that are all different leave once each.
LEMMA LeaveOnce ==
  ASSUME departed \in [Packet -> Nat], NEW gone \in Seq(Packet), Leave(gone),
         \A i, j \in 1 .. Len(gone) : gone[i] = gone[j] => i = j
  PROVE  /\ departed' \in [Packet -> Nat]
         /\ \A n \in Packet : departed'[n] =
                departed[n] + IF \E i \in 1 .. Len(gone) : gone[i] = n THEN 1 ELSE 0
<1> DEFINE At(n) == {i \in 1 .. Len(gone) : gone[i] = n}
<1>1. \A n \in Packet :
          Cardinality(At(n)) = IF \E i \in 1 .. Len(gone) : gone[i] = n THEN 1 ELSE 0
  <2>1. SUFFICES ASSUME NEW n \in Packet
                 PROVE  Cardinality(At(n)) =
                            IF \E i \in 1 .. Len(gone) : gone[i] = n THEN 1 ELSE 0
    OBVIOUS
  <2>2. CASE \E i \in 1 .. Len(gone) : gone[i] = n
    <3>1. PICK i \in 1 .. Len(gone) : gone[i] = n
      BY <2>2
    <3>2. At(n) = {i}
      BY <3>1
    <3>3. Cardinality({i}) = 1
      BY FS_Singleton
    <3>4. QED
      BY <2>2, <3>2, <3>3
  <2>3. CASE ~ \E i \in 1 .. Len(gone) : gone[i] = n
    <3>1. At(n) = {}
      BY <2>3
    <3>2. QED
      BY <2>3, <3>1, FS_EmptySet
  <2>4. QED
    BY <2>2, <2>3
<1>2. departed' = [n \in Packet |-> departed[n] + Cardinality(At(n))]
  BY DEF Leave
<1> HIDE DEF At
<1>3. QED
  BY <1>1, <1>2

LEMMA DelaysAre ==
  ASSUME NEW f \in Profile, NEW d \in Delays(f)
  PROVE  /\ d \in Nat /\ f.delay \in Nat /\ f.jitter \in Nat
         /\ d <= f.delay + f.jitter /\ 2 * (f.delay + f.jitter + Sends) <= Word
<1>1. f.delay \in Nat /\ f.jitter \in Nat /\ 2 * (f.delay + f.jitter + Sends) <= Word
  OBVIOUS
<1>2. PICK e \in f.delay - f.jitter .. f.delay + f.jitter : d = IF e < 0 THEN 0 ELSE e
  BY DEF Delays
<1>3. QED
  BY <1>1, <1>2

\* Pushing back changes the times of one packet and moves none.
LEMMA PushedBackIs ==
  ASSUME NEW q \in Queue
  PROVE  /\ PushedBack(q) \in Queue /\ Len(PushedBack(q)) = Len(q)
         /\ \A i \in 1 .. Len(q) :
                /\ PushedBack(q)[i].id = q[i].id
                /\ \/ PushedBack(q)[i] = q[i]
                   \/ /\ PushedBack(q)[i].due = (q[i].due + 1) % Word
                      /\ PushedBack(q)[i].wait = q[i].wait + 1
<1> DEFINE n == Len(q)
<1>1. CASE q = <<>>
  BY <1>1 DEF PushedBack
<1>2. CASE q # <<>>
  <2>1. n \in Nat /\ n \in 1 .. n /\ \A i \in 1 .. n : q[i] \in Delayed
    <3>1. n \in Nat \ {0}
      BY <1>2, EmptySeq DEF Queue
    <3>2. \A i \in 1 .. n : q[i] \in Delayed
      BY ElementOfSeq DEF Queue
    <3>3. QED
      BY <3>1, <3>2
  <2>2. Word \in Nat /\ Word > 0
    OBVIOUS
  <2> PICK r \in Delayed : r = q[n]
    BY <2>1
  <2>3. r.due \in 0 .. Word - 1 /\ r.wait \in Int
    BY DEF Delayed
  <2>4. PICK d \in 0 .. Word - 1 : d = (r.due + 1) % Word
    BY <2>2, <2>3
  <2>5. PICK w \in Int : w = r.wait + 1
    BY <2>3
  <2>6. PICK e : e = [r EXCEPT !.due = d, !.wait = w]
    OBVIOUS
  <2>7. e \in Delayed /\ e.id = r.id /\ e.due = d /\ e.wait = w
    BY <2>6 DEF Delayed
  <2>8. PushedBack(q) = [q EXCEPT ![n] = e]
    BY <1>2, <2>1, <2>4, <2>5, <2>6 DEF PushedBack, Queue
  <2>9. /\ [q EXCEPT ![n] = e] \in Seq(Delayed) /\ Len([q EXCEPT ![n] = e]) = n
        /\ \A i \in 1 .. n : [q EXCEPT ![n] = e][i] = IF i = n THEN e ELSE q[i]
    <3>1. q \in Seq(Delayed)
      BY DEF Queue
    <3>2. QED
      BY <2>1, <2>7, <3>1, ExceptSeq
  <2>10. QED
    BY <2>4, <2>5, <2>7, <2>8, <2>9 DEF Queue
<1>3. QED
  BY <1>1, <1>2

-----------------------------------------------------------------------------
(* The steps.  The packets that still have to wait are there afterwards.   *)

Lasts ==
    \A i \in 1 .. Len(dq) :
        dq[i].wait > 0 /\ active' => \E j \in 1 .. Len(dq') : dq'[j].id = dq[i].id

\* What a packet GekkoNet sends may come to.
LEMMA SendCases ==
  ASSUME TypeOK, NEW j \in Slot, NaSend(j)
  PROVE  \/ refused' = refused \cup {asked + 1} /\ UNCHANGED <<dq, departed>>
         \/ Leave(<<asked + 1>>) /\ UNCHANGED <<dq, refused>>
         \/ /\ ~ Full /\ UNCHANGED <<departed, refused>>
            /\ \E f \in Profile : \E d \in Delays(f), q \in {dq, PushedBack(dq)} :
                   d # 0 /\ dq' = Queued(q, asked + 1, d)
<1> DEFINE n == asked + 1
<1>1. (refused' = refused \cup {n} /\ UNCHANGED <<dq, departed>>) \/ Send(n)
  BY DEF NaSend
<1>2. ASSUME Send(n), imp # {} PROVE
          \/ refused' = refused \cup {n} /\ UNCHANGED <<dq, departed>>
          \/ Leave(<<n>>) /\ UNCHANGED <<dq, refused>>
          \/ /\ ~ Full /\ UNCHANGED <<departed, refused>>
             /\ \E f \in Profile : \E d \in Delays(f), q \in {dq, PushedBack(dq)} :
                    d # 0 /\ dq' = Queued(q, n, d)
  <2>1. PICK f \in imp :
          \/ refused' = refused \cup {n} /\ UNCHANGED <<dq, departed>>
          \/ \E d \in Delays(f), swap \in {FALSE, f.reorder} :
                 /\ IF d = 0 \/ Full
                    THEN Leave(<<n>>) /\ UNCHANGED dq
                    ELSE /\ dq' = Queued(IF swap THEN PushedBack(dq) ELSE dq, n, d)
                         /\ UNCHANGED departed
                 /\ UNCHANGED refused
    BY <1>2, Zenon DEF Send
  <2>2. f \in Profile
    BY <2>1 DEF TypeOK
  <2>3. CASE \E d \in Delays(f), swap \in {FALSE, f.reorder} :
                 /\ IF d = 0 \/ Full
                    THEN Leave(<<n>>) /\ UNCHANGED dq
                    ELSE /\ dq' = Queued(IF swap THEN PushedBack(dq) ELSE dq, n, d)
                         /\ UNCHANGED departed
                 /\ UNCHANGED refused
    <3>1. PICK d \in Delays(f), swap \in {FALSE, f.reorder} :
                 /\ IF d = 0 \/ Full
                    THEN Leave(<<n>>) /\ UNCHANGED dq
                    ELSE /\ dq' = Queued(IF swap THEN PushedBack(dq) ELSE dq, n, d)
                         /\ UNCHANGED departed
                 /\ UNCHANGED refused
      BY <2>3
    <3>2. PICK q \in {dq, PushedBack(dq)} : q = IF swap THEN PushedBack(dq) ELSE dq
      OBVIOUS
    <3>3. CASE d = 0 \/ Full
      BY <3>1, <3>3
    <3>4. CASE ~ (d = 0 \/ Full)
      BY <2>2, <3>1, <3>2, <3>4
    <3>5. QED
      BY <3>3, <3>4
  <2>4. QED
    BY <2>1, <2>3
<1>3. ASSUME Send(n), imp = {} PROVE Leave(<<n>>) /\ UNCHANGED <<dq, refused>>
  BY <1>3 DEF Send
<1>4. QED
  BY <1>1, <1>2, <1>3

\* Half of the clock's range is enough for what may still be sent.
LEMMA Margin ==
  ASSUME NEW s \in Nat, NEW a \in 0 .. s, a < s, NEW n, n = a + 1,
         NEW w \in Int, 2 * (w + (s - a)) < Word
  PROVE  /\ 2 * (w + (s - n)) < Word /\ 2 * ((w + 1) + (s - n)) < Word
         /\ 2 * (w + 1) < Word /\ 2 * w < Word
<1>1. a \in Int /\ s \in Int /\ Word \in Int
  OBVIOUS
<1>2. QED
  BY <1>1

LEMMA NewMargin ==
  ASSUME NEW s \in Nat, NEW n \in 1 .. s, NEW d \in Nat, NEW a \in Nat, NEW b \in Nat,
         d <= a + b, 2 * (a + b + s) <= Word
  PROVE  2 * (d + (s - n)) < Word /\ - Late <= d
<1>1. n \in Int /\ s \in Int /\ Word \in Int /\ n >= 1 /\ Late \in Nat
  OBVIOUS
<1>2. QED
  BY <1>1

LEMMA SendStep ==
  ASSUME AdapterOK, NEW j \in Slot, NaSend(j)
  PROVE  AdapterOK' /\ Lasts
<1>1. TypeOK /\ Placed /\ Timed /\ Quiet
  BY DEF AdapterOK
<1>2. asked \in 0 .. Sends /\ asked < Sends /\ Sends \in Nat
  BY <1>1 DEF NaSend, TypeOK
<1> PICK n \in Int : n = asked + 1
  BY <1>2
<1>3. /\ asked' = n /\ n \in Packet /\ asked < n /\ asked < Sends
      /\ n \in 0 .. Sends /\ active /\ pumping = 0 /\ asked \in Nat
      /\ clock \in 0 .. Word - 1 /\ departed \in [Packet -> Nat]
      /\ refused \in SUBSET Packet /\ UNCHANGED clock
  BY <1>2, <1>1 DEF NaSend, TypeOK, Packet
<1>4. n \notin Ids \cup refused /\ departed[n] = 0
  BY <1>1, <1>3 DEF Placed
<1>5. Quiet'
  BY <1>1, <1>3 DEF Quiet, NaSend
<1>6. ASSUME dq' \in Queue, Len(dq') <= QueueSize, departed' \in [Packet -> Nat],
             refused' \in SUBSET Packet
      PROVE  TypeOK'
  BY <1>1, <1>3, <1>6 DEF TypeOK, NaSend, Queue, Delayed
<1>7. ASSUME UNCHANGED dq PROVE Timed' /\ Lasts /\ dq' \in Queue /\ Len(dq') <= QueueSize
  <2>1. dq \in Queue /\ \A i \in 1 .. Len(dq) : dq[i].wait \in Int
    BY <1>1, DqIs
  <2>2. Timed'
    <3>1. ASSUME NEW i \in 1 .. Len(dq)
          PROVE  2 * (dq[i].wait + (Sends - n)) < Word
      <4>1. dq[i].wait \in Int /\ 2 * (dq[i].wait + (Sends - asked)) < Word
        BY <1>1, <2>1 DEF Timed
      <4>2. QED
        BY <1>2, <4>1, Margin
    <3>2. QED
      BY <1>1, <1>3, <1>7, <3>1 DEF Timed
  <2>3. QED
    BY <1>1, <1>7, <2>1, <2>2 DEF Lasts, TypeOK
<1>8. ASSUME Ids' \cup refused' = Ids \cup refused \cup {n} PROVE Ids' \cup refused' \subseteq 1 .. n
  <2>1. Ids \cup refused \subseteq 1 .. asked
    BY <1>1 DEF Placed
  <2>2. 1 .. asked \subseteq 1 .. n /\ n \in 1 .. n
    BY <1>2, <1>3
  <2>3. QED
    BY <1>8, <2>1, <2>2
<1>9. CASE refused' = refused \cup {n} /\ UNCHANGED <<dq, departed>>
  <2>1. Placed'
    <3>1. Ids' = Ids
      BY <1>9 DEF Ids
    <3>2. \A m \in Packet : m <= n /\ m # n <=> m <= asked
      BY <1>2 DEF Packet
    <3>3. \A m \in Packet :
              departed[m] = IF m <= n /\ m \notin Ids \cup refused' THEN 1 ELSE 0
      BY <1>1, <1>4, <1>9, <3>2 DEF Placed
    <3>4. QED
      BY <1>1, <1>3, <1>4, <1>9, <1>8, <3>1, <3>3 DEF Placed
  <2>2. QED
    BY <1>3, <1>5, <1>6, <1>7, <1>9, <2>1 DEF AdapterOK
<1>10. CASE Leave(<<n>>) /\ UNCHANGED <<dq, refused>>
  <2>1. /\ <<n>> \in Seq(Packet) /\ Len(<<n>>) = 1 /\ <<n>>[1] = n
        /\ \A i, k \in 1 .. Len(<<n>>) : <<n>>[i] = <<n>>[k] => i = k
    BY <1>3
  <2>2. /\ departed' \in [Packet -> Nat]
        /\ \A m \in Packet : departed'[m] =
               departed[m] + IF \E i \in 1 .. Len(<<n>>) : <<n>>[i] = m THEN 1 ELSE 0
    BY <1>3, <1>10, <2>1, LeaveOnce
  <2>3. \A m \in Packet : departed'[m] = departed[m] + IF m = n THEN 1 ELSE 0
    BY <2>1, <2>2
  <2>4. Placed'
    <3>1. Ids' = Ids
      BY <1>10 DEF Ids
    <3>2. \A m \in Packet : m <= n /\ m # n <=> m <= asked
      BY <1>2 DEF Packet
    <3>3. ASSUME NEW m \in Packet
          PROVE  departed'[m] = IF m <= n /\ m \notin Ids \cup refused THEN 1 ELSE 0
      <4>1. CASE m = n
        BY <1>3, <1>4, <2>3, <4>1
      <4>2. CASE m # n
        BY <1>1, <2>3, <3>2, <4>2 DEF Placed
      <4>3. QED
        BY <4>1, <4>2
    <3>4. Ids \cup refused \subseteq 1 .. n
      BY <1>2, <1>1, <1>3 DEF Placed
    <3>5. QED
      BY <1>1, <1>3, <1>10, <3>1, <3>3, <3>4 DEF Placed
  <2>5. QED
    BY <1>3, <1>5, <1>6, <1>7, <1>10, <2>2, <2>4 DEF AdapterOK
<1>11. CASE /\ ~ Full /\ UNCHANGED <<departed, refused>>
           /\ \E f \in Profile : \E d \in Delays(f), q \in {dq, PushedBack(dq)} :
                  d # 0 /\ dq' = Queued(q, n, d)
  <2>1. PICK f \in Profile : \E d \in Delays(f), q \in {dq, PushedBack(dq)} :
                                 d # 0 /\ dq' = Queued(q, n, d)
    BY <1>11
  <2>2. PICK d \in Delays(f), q \in {dq, PushedBack(dq)} : d # 0 /\ dq' = Queued(q, n, d)
    BY <2>1
  <2>3. /\ d \in Nat /\ f.delay \in Nat /\ f.jitter \in Nat
        /\ d <= f.delay + f.jitter /\ 2 * (f.delay + f.jitter + Sends) <= Word
    BY DelaysAre
  <2>4. /\ dq \in Queue /\ Len(dq) \in Nat
        /\ \A i \in 1 .. Len(dq) : dq[i].id \in Packet /\ dq[i].wait \in Int
    BY <1>1, DqIs
  <2>5. /\ q \in Queue /\ Len(q) = Len(dq)
        /\ \A i \in 1 .. Len(dq) :
               /\ q[i].id = dq[i].id
               /\ \/ q[i] = dq[i]
                  \/ /\ q[i].due = (dq[i].due + 1) % Word
                     /\ q[i].wait = dq[i].wait + 1
    <3>1. CASE q = dq
      BY <2>4, <3>1
    <3>2. CASE q = PushedBack(dq)
      BY <2>4, <3>2, PushedBackIs
    <3>3. QED
      BY <3>1, <3>2
  <2>6. /\ dq' \in Queue /\ Len(dq') = Len(dq) + 1
        /\ \A i \in 1 .. Len(dq) : dq'[i] = q[i]
        /\ dq'[Len(dq) + 1].id = n
        /\ dq'[Len(dq) + 1].due = (clock + d) % Word
        /\ dq'[Len(dq) + 1].wait = d
    <3>1. n \in Packet /\ clock \in 0 .. Word - 1
      BY <1>3
    <3>2. dq' = Queued(q, n, d) /\ Len(q) = Len(dq)
      BY <2>2, <2>5
    <3>3. q \in Queue /\ d \in Nat
      BY <2>3, <2>5
    <3> PICK e : e = [id |-> n, due |-> (clock + d) % Word, wait |-> d]
      OBVIOUS
    <3>4. /\ e \in Delayed /\ e.id = n /\ e.due = (clock + d) % Word /\ e.wait = d
          /\ Queued(q, n, d) = Append(q, e)
      <4>1. clock + d \in Int /\ Word \in Nat /\ Word > 0
        BY <3>1, <3>3
      <4>2. (clock + d) % Word \in 0 .. Word - 1
        BY <4>1
      <4>3. e \in Delayed
        BY <3>1, <3>3, <4>2 DEF Delayed
      <4>4. QED
        BY <4>3 DEF Queued
    <3>5. /\ Append(q, e) \in Seq(Delayed) /\ Len(Append(q, e)) = Len(q) + 1
          /\ \A i \in 1 .. Len(q) : Append(q, e)[i] = q[i]
          /\ Append(q, e)[Len(q) + 1] = e
      <4>1. q \in Seq(Delayed)
        BY <3>3 DEF Queue
      <4>2. QED
        BY <3>4, <4>1, AppendProperties
    <3>6. QED
      BY <3>2, <3>4, <3>5 DEF Queue
  <2>7. /\ Len(dq) + 1 \in 1 .. Len(dq') /\ Len(dq) + 1 \notin 1 .. Len(dq)
        /\ \A i \in 1 .. Len(dq') : i \in 1 .. Len(dq) \/ i = Len(dq) + 1
        /\ \A i \in 1 .. Len(dq) : i \in 1 .. Len(dq') /\ dq'[i].id = dq[i].id
    <3>1. ASSUME NEW m \in Nat
          PROVE  /\ m + 1 \in 1 .. m + 1 /\ m + 1 \notin 1 .. m
                 /\ \A i \in 1 .. m + 1 : i \in 1 .. m \/ i = m + 1
                 /\ \A i \in 1 .. m : i \in 1 .. m + 1
      OBVIOUS
    <3>2. \A i \in 1 .. Len(dq) : dq'[i].id = dq[i].id
      BY <2>5, <2>6
    <3>3. QED
      BY <2>4, <2>6, <3>1, <3>2
  <2>8. Len(dq') <= QueueSize
    BY <1>11, <2>4, <2>6 DEF Full
  <2>9. Lasts
    BY <2>7 DEF Lasts
  <2>10. Placed'
    <3>1. Ids' = Ids \cup {n}
      <4>1. \A m \in Ids' : m \in Ids \cup {n}
        BY <2>6, <2>7 DEF Ids
      <4>2. n \in Ids'
        BY <2>6, <2>7 DEF Ids
      <4>3. \A m \in Ids : m \in Ids'
        BY <2>7 DEF Ids
      <4>4. QED
        BY <4>1, <4>2, <4>3
    <3>2. \A i \in 1 .. Len(dq) : dq[i].id # n
      BY <1>4 DEF Ids
    <3>3. \A i, k \in 1 .. Len(dq') : dq'[i].id = dq'[k].id => i = k
      <4>1. \A i, k \in 1 .. Len(dq) : dq[i].id = dq[k].id => i = k
        BY <1>1 DEF Placed
      <4>2. \A i, k \in 1 .. Len(dq) : dq'[i].id = dq'[k].id => i = k
        BY <2>7, <4>1
      <4>3. \A i \in 1 .. Len(dq) : dq'[i].id # n
        BY <2>7, <3>2
      <4>4. QED
        BY <2>6, <2>7, <4>2, <4>3
    <3>4. \A m \in Packet : m <= n /\ m # n <=> m <= asked
      BY <1>2 DEF Packet
    <3>5. \A m \in Packet :
              departed[m] = IF m <= n /\ m \notin Ids' \cup refused THEN 1 ELSE 0
      BY <1>1, <1>4, <3>1, <3>4 DEF Placed
    <3>6. QED
      BY <1>1, <1>3, <1>4, <1>11, <1>8, <3>1, <3>3, <3>5 DEF Placed
  <2>11. Timed'
    <3>1. ASSUME NEW i \in 1 .. Len(dq')
          PROVE  /\ dq'[i].due = (clock + dq'[i].wait) % Word
                 /\ - Late <= dq'[i].wait
                 /\ 2 * (dq'[i].wait + (Sends - n)) < Word
      <4>1. CASE i = Len(dq) + 1
        <5>1. - Late <= d /\ 2 * (d + (Sends - n)) < Word
          <6>1. n \in 1 .. Sends
            BY <1>3 DEF Packet
          <6>2. QED
            BY <1>2, <2>3, <6>1, NewMargin
        <5>2. QED
          BY <2>6, <4>1, <5>1
      <4>2. CASE i \in 1 .. Len(dq)
        <5>1. /\ dq[i].due = (clock + dq[i].wait) % Word
              /\ - Late <= dq[i].wait /\ dq[i].wait \in Int
              /\ 2 * (dq[i].wait + (Sends - asked)) < Word
          BY <1>1, <2>4, <4>2 DEF Timed
        <5>2. CASE q[i] = dq[i]
          <6>1. 2 * (dq[i].wait + (Sends - n)) < Word
            BY <1>2, <5>1, Margin
          <6>2. QED
            BY <2>6, <4>2, <5>1, <5>2, <6>1
        <5>3. CASE q[i].due = (dq[i].due + 1) % Word /\ q[i].wait = dq[i].wait + 1
          <6> PICK w \in Int : w = dq[i].wait
            BY <5>1
          <6>1. /\ 2 * (w + 1) < Word /\ 2 * w < Word
                /\ 2 * ((w + 1) + (Sends - n)) < Word
            <7>1. 2 * (w + (Sends - asked)) < Word
              BY <5>1
            <7>2. 2 * (w + 1) < Word /\ 2 * w < Word
              BY <1>2, <7>1, Margin
            <7>3. 2 * ((w + 1) + (Sends - n)) < Word
              BY <1>2, <7>1, Margin
            <7>4. QED
              BY <7>2, <7>3
          <6>2. q[i].due = (clock + (w + 1)) % Word
            BY <1>3, <5>1, <5>3, <6>1, Ticked
          <6>3. - Late <= w + 1
            BY <5>1
          <6>4. QED
            BY <2>6, <4>2, <5>3, <6>1, <6>2, <6>3
        <5>4. QED
          BY <2>5, <4>2, <5>2, <5>3
      <4>3. QED
        BY <2>7, <4>1, <4>2
    <3>2. QED
      BY <1>3, <3>1 DEF Timed
  <2>12. QED
    BY <1>3, <1>5, <1>6, <1>11, <2>6, <2>8, <2>9, <2>10, <2>11 DEF AdapterOK
<1>12. QED
  BY <1>1, <1>9, <1>10, <1>11, SendCases

Different(q) == \A i, j \in 1 .. Len(q) : q[i].id = q[j].id => i = j

\* s has the packets of q at the places S.
PickedFrom(s, q, S) ==
    /\ s \in Queue /\ Len(s) \in Nat /\ Len(s) <= Len(q)
    /\ \A k \in 1 .. Len(s) : \E i \in S : s[k] = q[i]
    /\ \A i \in S : \E k \in 1 .. Len(s) : s[k] = q[i]
    /\ Different(s)

\* What is picked from a queue of different packets is such a queue again.
LEMMA Picked ==
  ASSUME NEW q \in Queue, Different(q), NEW S \in SUBSET (1 .. Len(q)),
         NEW s, s = InOrder(q, S)
  PROVE  PickedFrom(s, q, S)
<1>1. q \in Seq(Delayed)
  BY DEF Queue
<1>2. \E f : Lists(f, S) /\ \A k \in 1 .. Cardinality(S) : InOrder(q, S)[k] = q[f[k]]
  BY <1>1, Selected, Zenon
<1>3. PICK f : Lists(f, S) /\ \A k \in 1 .. Cardinality(S) : s[k] = q[f[k]]
  BY <1>2
<1>4. s \in Queue /\ Len(s) \in Nat /\ Len(s) <= Len(q) /\ Len(s) = Cardinality(S)
  <2>1. /\ InOrder(q, S) \in Seq(Delayed) /\ Len(InOrder(q, S)) = Cardinality(S)
        /\ Cardinality(S) \in Nat /\ Cardinality(S) <= Len(q)
    BY <1>1, Selected
  <2>2. QED
    BY <2>1 DEF Queue
<1> PICK m \in Nat : m = Len(s) /\ m = Cardinality(S)
  BY <1>4
<1>5. /\ f \in [1 .. m -> S] /\ \A k \in 1 .. m : s[k] = q[f[k]]
      /\ \A h, k \in 1 .. m : h < k => f[h] < f[k]
      /\ \A i \in S : \E k \in 1 .. m : f[k] = i
  BY <1>3 DEF Lists
<1>6. ASSUME NEW h \in 1 .. m, NEW k \in 1 .. m, s[h].id = s[k].id PROVE h = k
  <2>1. f[h] \in S /\ f[k] \in S /\ s[h] = q[f[h]] /\ s[k] = q[f[k]]
    BY <1>5
  <2>2. f[h] \in 1 .. Len(q) /\ f[k] \in 1 .. Len(q)
    BY <2>1
  <2>3. f[h] = f[k]
    BY <1>6, <2>1, <2>2 DEF Different
  <2>4. f[h] \in Int /\ h \in Int /\ k \in Int
    BY <2>2
  <2>5. ~ (h < k) /\ ~ (k < h)
    BY <1>5, <2>3, <2>4
  <2>6. QED
    BY <2>4, <2>5
<1>7. ASSUME NEW k \in 1 .. m PROVE \E i \in S : s[k] = q[i]
  <2>1. f[k] \in S /\ s[k] = q[f[k]]
    BY <1>5
  <2>2. QED
    BY <2>1
<1>8. ASSUME NEW i \in S PROVE \E k \in 1 .. m : s[k] = q[i]
  <2>1. PICK k \in 1 .. m : f[k] = i
    BY <1>5
  <2>2. QED
    BY <1>5, <2>1
<1>9. QED
  BY <1>4, <1>6, <1>7, <1>8 DEF PickedFrom, Different

LEMMA RecvStep ==
  ASSUME AdapterOK, NaRecv
  PROVE  AdapterOK' /\ Lasts /\ \A i \in 1 .. Len(dq') : dq'[i].wait > 0
<1> DEFINE S == {i \in 1 .. Len(dq) : Reached(clock, dq[i].due)}
           K == {i \in 1 .. Len(dq) : ~ Reached(clock, dq[i].due)}
<1>1. TypeOK /\ Placed /\ Timed /\ Quiet
  BY DEF AdapterOK
<1>2. /\ dq \in Queue /\ Len(dq) \in Nat
      /\ \A i \in 1 .. Len(dq) : dq[i].id \in Packet /\ dq[i].wait \in Int
      /\ \A i, j \in 1 .. Len(dq) : dq[i].id = dq[j].id => i = j
  BY <1>1, DqIs DEF Placed
<1>3. \A i \in 1 .. Len(dq) : Reached(clock, dq[i].due) <=> dq[i].wait <= 0
  <2>1. SUFFICES ASSUME NEW i \in 1 .. Len(dq)
                 PROVE  Reached(clock, dq[i].due) <=> dq[i].wait <= 0
    OBVIOUS
  <2> PICK w \in Int : w = dq[i].wait
    BY <1>2
  <2>2. asked \in 0 .. Sends /\ clock \in 0 .. Word - 1
    BY <1>1 DEF TypeOK
  <2>3. /\ dq[i].due = (clock + w) % Word
        /\ - Late <= w /\ 2 * (w + (Sends - asked)) < Word
    BY <1>1 DEF Timed
  <2>4. 2 * w < Word
    <3>1. Sends - asked \in Nat /\ Word \in Nat
      BY <2>2
    <3>2. QED
      BY <2>3, <3>1
  <2>5. QED
    BY <2>2, <2>3, <2>4, ReachedIs
<1> PICK due : due = InOrder(dq, S)
  OBVIOUS
<1> PICK kept : kept = InOrder(dq, K)
  OBVIOUS
<1>4. Due(dq) = due /\ Kept(dq) = kept
  BY DEF Due, Kept
<1>5. S \in SUBSET (1 .. Len(dq)) /\ K \in SUBSET (1 .. Len(dq)) /\ S \cap K = {}
      /\ S \cup K = 1 .. Len(dq)
  OBVIOUS
<1>6. K = {i \in 1 .. Len(dq) : dq[i].wait > 0}
  <2>1. \A i \in 1 .. Len(dq) : ~ Reached(clock, dq[i].due) <=> dq[i].wait > 0
    BY <1>2, <1>3
  <2>2. QED
    BY <2>1
<1> HIDE DEF S, K
<1>7. Different(dq)
  BY <1>2 DEF Different
<1>8. /\ Len(due) \in Nat
      /\ \A k \in 1 .. Len(due) : \E i \in S : due[k] = dq[i]
      /\ \A i \in S : \E k \in 1 .. Len(due) : due[k] = dq[i]
      /\ \A h, k \in 1 .. Len(due) : due[h].id = due[k].id => h = k
  <2>1. PickedFrom(due, dq, S)
    BY <1>2, <1>7, <1>5, Picked
  <2>2. QED
    BY <2>1 DEF PickedFrom, Different
<1>9. /\ kept \in Queue /\ Len(kept) \in Nat /\ Len(kept) <= Len(dq)
      /\ \A k \in 1 .. Len(kept) : \E i \in K : kept[k] = dq[i]
      /\ \A i \in K : \E k \in 1 .. Len(kept) : kept[k] = dq[i]
      /\ \A h, k \in 1 .. Len(kept) : kept[h].id = kept[k].id => h = k
  <2>1. PickedFrom(kept, dq, K)
    BY <1>2, <1>7, <1>5, Picked
  <2>2. QED
    BY <2>1 DEF PickedFrom, Different
<1>10. /\ \A i \in S : i \in 1 .. Len(dq) /\ i \notin K
      /\ \A i \in K : i \in 1 .. Len(dq) /\ i \notin S /\ dq[i].wait > 0
  BY <1>5, <1>6
<1> DEFINE gone == [i \in 1 .. Len(due) |-> due[i].id]
<1>11. gone \in Seq(Packet) /\ Len(gone) = Len(due)
  <2>1. \A k \in 1 .. Len(due) : due[k].id \in Packet
    BY <1>2, <1>8, <1>10
  <2>2. gone \in [1 .. Len(due) -> Packet]
    BY <2>1
  <2>3. QED
    BY <1>8, <2>2
<1>12. \A k \in 1 .. Len(due) : gone[k] = due[k].id
  OBVIOUS
<1>13. Leave(gone) /\ dq' = kept
  BY <1>4 DEF NaRecv
<1> HIDE DEF gone
<1>14. /\ departed \in [Packet -> Nat] /\ UNCHANGED <<active, refused, asked, clock>>
  BY <1>1 DEF TypeOK, NaRecv
<1>15. \A h, k \in 1 .. Len(gone) : gone[h] = gone[k] => h = k
  BY <1>8, <1>12, <1>11
<1>16. /\ departed' \in [Packet -> Nat]
       /\ \A n \in Packet : departed'[n] =
              departed[n] + IF \E k \in 1 .. Len(gone) : gone[k] = n THEN 1 ELSE 0
  BY <1>11, <1>13, <1>14, <1>15, LeaveOnce
<1> DEFINE Goes(n) == \E i \in S : dq[i].id = n
           Stays(n) == \E i \in K : dq[i].id = n
<1>17. \A n \in Packet : departed'[n] = departed[n] + IF Goes(n) THEN 1 ELSE 0
  <2>1. ASSUME NEW n \in Packet
        PROVE  (\E k \in 1 .. Len(gone) : gone[k] = n) <=> Goes(n)
    <3>1. ASSUME NEW k \in 1 .. Len(gone), gone[k] = n PROVE Goes(n)
      <4>1. PICK i \in S : due[k] = dq[i]
        BY <1>8, <1>11
      <4>2. QED
        BY <1>12, <1>11, <3>1, <4>1
    <3>2. ASSUME NEW i \in S, dq[i].id = n PROVE \E k \in 1 .. Len(gone) : gone[k] = n
      <4>1. PICK k \in 1 .. Len(due) : due[k] = dq[i]
        BY <1>8
      <4>2. QED
        BY <1>12, <1>11, <3>2, <4>1
    <3>3. QED
      BY <3>1, <3>2
  <2> HIDE DEF Goes
  <2>2. QED
    BY <1>16, <2>1
<1>18. \A n : n \in Ids' <=> Stays(n)
  <2>1. ASSUME NEW n, Stays(n) PROVE n \in Ids'
    <3>1. PICK i \in K : dq[i].id = n
      BY <2>1
    <3>2. PICK k \in 1 .. Len(kept) : kept[k] = dq[i]
      BY <1>9
    <3>3. QED
      BY <1>13, <3>1, <3>2 DEF Ids
  <2>2. ASSUME NEW n \in Ids' PROVE Stays(n)
    <3>1. PICK k \in 1 .. Len(kept) : n = kept[k].id
      BY <1>13 DEF Ids
    <3>2. PICK i \in K : kept[k] = dq[i]
      BY <1>9
    <3>3. QED
      BY <3>1, <3>2
  <2>3. QED
    BY <2>1, <2>2
<1>19. \A n : /\ n \in Ids <=> Goes(n) \/ Stays(n)
              /\ ~ (Goes(n) /\ Stays(n))
  <2>1. SUFFICES ASSUME NEW n
                 PROVE  (n \in Ids <=> Goes(n) \/ Stays(n)) /\ ~ (Goes(n) /\ Stays(n))
    OBVIOUS
  <2>2. Goes(n) \/ Stays(n) => n \in Ids
    BY <1>10 DEF Ids
  <2>3. n \in Ids => Goes(n) \/ Stays(n)
    BY <1>5 DEF Ids
  <2>4. ~ (Goes(n) /\ Stays(n))
    BY <1>2, <1>10
  <2>5. QED
    BY <2>2, <2>3, <2>4
<1> HIDE DEF Goes, Stays
<1>20. Placed'
  <2>1. Ids' \subseteq Ids
    BY <1>18, <1>19
  <2>2. ASSUME NEW n \in Packet
        PROVE  departed'[n] = IF n <= asked /\ n \notin Ids' \cup refused THEN 1 ELSE 0
    <3>1. departed[n] = IF n <= asked /\ n \notin Ids \cup refused THEN 1 ELSE 0
      BY <1>1 DEF Placed
    <3>2. CASE Goes(n)
      <4>1. n \in Ids /\ n \notin Ids'
        BY <1>18, <1>19, <3>2
      <4>2. n <= asked /\ n \notin refused
        BY <1>1, <4>1 DEF Placed
      <4>3. QED
        BY <1>17, <3>1, <3>2, <4>1, <4>2
    <3>3. CASE ~ Goes(n)
      <4>1. n \in Ids <=> n \in Ids'
        BY <1>18, <1>19, <3>3
      <4>2. departed'[n] = departed[n]
        BY <1>17, <3>1, <3>3
      <4>3. QED
        BY <3>1, <4>1, <4>2
    <3>4. QED
      BY <3>2, <3>3
  <2>3. QED
    BY <1>1, <1>9, <1>13, <1>14, <2>1, <2>2 DEF Placed
<1>21. \A k \in 1 .. Len(kept) :
           /\ kept[k].due = (clock + kept[k].wait) % Word
           /\ - Late <= kept[k].wait /\ kept[k].wait > 0
           /\ 2 * (kept[k].wait + (Sends - asked)) < Word
  <2>1. SUFFICES ASSUME NEW k \in 1 .. Len(kept)
                 PROVE  /\ kept[k].due = (clock + kept[k].wait) % Word
                        /\ - Late <= kept[k].wait /\ kept[k].wait > 0
                        /\ 2 * (kept[k].wait + (Sends - asked)) < Word
    OBVIOUS
  <2>2. PICK i \in K : kept[k] = dq[i]
    BY <1>9
  <2>3. i \in 1 .. Len(dq) /\ dq[i].wait > 0
    BY <1>10
  <2>4. QED
    BY <1>1, <2>2, <2>3 DEF Timed
<1>22. Timed' /\ Lasts
  <2>1. Timed'
    BY <1>13, <1>14, <1>21 DEF Timed
  <2>2. ASSUME NEW i \in 1 .. Len(dq), dq[i].wait > 0
        PROVE  \E k \in 1 .. Len(kept) : kept[k].id = dq[i].id
    <3>1. i \in K
      BY <1>6, <2>2
    <3>2. PICK k \in 1 .. Len(kept) : kept[k] = dq[i]
      BY <1>9, <3>1
    <3>3. QED
      BY <3>2
  <2>3. QED
    BY <1>13, <2>1, <2>2 DEF Lasts
<1>23. Quiet'
  BY <1>1 DEF Quiet, NaRecv
<1>24. TypeOK'
  <2>1. Len(kept) <= QueueSize
    BY <1>1, <1>2, <1>9 DEF TypeOK
  <2>2. pumping' \in 0 .. PumpSize
    BY DEF NaRecv
  <2>3. QED
    BY <1>1, <1>9, <1>13, <1>16, <2>1, <2>2 DEF TypeOK, NaRecv, Queue, Delayed
<1>25. QED
  BY <1>13, <1>20, <1>21, <1>22, <1>23, <1>24 DEF AdapterOK

LEMMA ShutdownStep ==
  ASSUME AdapterOK, Shutdown
  PROVE  AdapterOK' /\ Lasts
<1>1. TypeOK /\ Placed /\ Timed /\ Quiet
  BY DEF AdapterOK
<1>2. /\ dq' = <<>> /\ active' = FALSE /\ pumping = 0 /\ refused' = refused \cup Ids
      /\ UNCHANGED <<pumping, clock, inbox, asked, departed>>
  BY DEF Shutdown, Zeroed, Ids
<1>3. Ids' = {} /\ Ids \subseteq Packet
  BY <1>1, <1>2, DqIs DEF Ids
<1>4. TypeOK'
  <2>1. dq' \in Seq([id : Packet, due : 0 .. Word - 1, wait : Int]) /\ Len(dq') <= QueueSize
    BY <1>2
  <2>2. /\ route' = [j \in Slot |-> "none"] /\ imp' = {} /\ active' = FALSE
        /\ lobbyq' = [i \in 0 .. RingSize - 1 |-> Unused] /\ head' = 0 /\ count' = 0
    BY DEF Shutdown, Zeroed
  <2>3. refused' \in SUBSET Packet
    BY <1>1, <1>2, <1>3 DEF TypeOK
  <2>4. /\ pumping' \in 0 .. PumpSize /\ clock' \in 0 .. Word - 1
        /\ inbox' \in Seq(Control \cup {"game"})
        /\ asked' \in 0 .. Sends /\ departed' \in [Packet -> Nat]
    BY <1>1, <1>2 DEF TypeOK
  <2>5. /\ active' \in BOOLEAN /\ route' \in [Slot -> {"none", "direct", "relay"}]
        /\ imp' \in {{}} \cup {{f} : f \in Profile}
    BY <2>2
  <2>6. RingOK'
    BY ZeroMaps DEF Shutdown
  <2>7. QED
    BY <2>1, <2>3, <2>4, <2>5, <2>6 DEF TypeOK, RingOK, Entry
<1>5. Placed'
  BY <1>1, <1>2, <1>3 DEF Placed
<1>6. Timed' /\ Quiet' /\ Lasts
  BY <1>2 DEF Timed, Quiet, Lasts
<1>7. QED
  BY <1>4, <1>5, <1>6 DEF AdapterOK

LEMMA InitStep ==
  ASSUME AdapterOK, AdapterInit
  PROVE  AdapterOK' /\ Lasts
<1>1. TypeOK /\ Placed /\ Timed /\ Quiet
  BY DEF AdapterOK
<1>2. /\ dq = <<>> /\ dq' = <<>> /\ active' = TRUE
      /\ UNCHANGED <<pumping, clock, inbox, asked, departed, refused>>
  BY <1>1 DEF AdapterInit, Zeroed, Quiet
<1>3. TypeOK'
  <2>1. /\ route' = [j \in Slot |-> "none"] /\ imp' = {}
        /\ lobbyq' = [i \in 0 .. RingSize - 1 |-> Unused] /\ head' = 0 /\ count' = 0
    BY DEF AdapterInit, Zeroed
  <2>2. QED
    BY <1>1, <1>2, <2>1 DEF TypeOK
<1>4. Placed' /\ Timed'
  BY <1>1, <1>2 DEF Placed, Timed, Ids
<1>5. Quiet' /\ Lasts
  BY <1>1, <1>2 DEF Quiet, Lasts
<1>6. QED
  BY <1>3, <1>4, <1>5 DEF AdapterOK

LEMMA MillisecondStep ==
  ASSUME AdapterOK, Millisecond
  PROVE  AdapterOK' /\ Lasts
<1>1. TypeOK /\ Placed /\ Timed /\ Quiet
  BY DEF AdapterOK
<1>2. /\ \A i \in 1 .. Len(dq) : dq[i].wait > - Late
      /\ clock' = (clock + 1) % Word
      /\ dq' = [i \in 1 .. Len(dq) |-> [dq[i] EXCEPT !.wait = @ - 1]]
      /\ UNCHANGED <<active, route, imp, lobbyq, head, count, pumping, inbox, asked,
                     departed, refused>>
  BY DEF Millisecond
<1>3. /\ dq \in Queue /\ Len(dq) \in Nat
      /\ \A i \in 1 .. Len(dq) : dq[i] \in Delayed /\ dq[i].wait \in Int
  BY <1>1, DqIs
<1>4. ASSUME NEW r \in Delayed
      PROVE  /\ [r EXCEPT !.wait = @ - 1] \in Delayed
             /\ [r EXCEPT !.wait = @ - 1].id = r.id
             /\ [r EXCEPT !.wait = @ - 1].due = r.due
             /\ [r EXCEPT !.wait = @ - 1].wait = r.wait - 1
  BY DEF Delayed
<1>5. \A i \in 1 .. Len(dq) :
          /\ dq'[i] \in Delayed /\ dq'[i].id = dq[i].id
          /\ dq'[i].due = dq[i].due /\ dq'[i].wait = dq[i].wait - 1
  BY <1>2, <1>3, <1>4
<1>6. dq' \in Queue /\ Len(dq') = Len(dq)
  <2>1. dq' \in [1 .. Len(dq) -> Delayed]
    BY <1>2, <1>3, <1>4
  <2>2. QED
    BY <1>3, <2>1 DEF Queue
<1>7. clock \in 0 .. Word - 1 /\ clock' \in 0 .. Word - 1 /\ asked \in 0 .. Sends
  <2>1. clock \in 0 .. Word - 1 /\ asked \in 0 .. Sends
    BY <1>1 DEF TypeOK
  <2>2. Word \in Nat /\ Word > 0 /\ clock + 1 \in Int
    BY <2>1
  <2>3. QED
    BY <1>2, <2>1, <2>2
<1>8. TypeOK'
  BY <1>1, <1>2, <1>6, <1>7 DEF TypeOK, Queue, Delayed
<1>9. Placed'
  <2>1. Ids' = Ids
    BY <1>5, <1>6 DEF Ids
  <2>2. \A i, j \in 1 .. Len(dq') : dq'[i].id = dq'[j].id => i = j
    BY <1>1, <1>5, <1>6 DEF Placed
  <2>3. QED
    BY <1>1, <1>2, <2>1, <2>2 DEF Placed
<1>10. Timed'
  <2>1. ASSUME NEW i \in 1 .. Len(dq)
        PROVE  /\ dq'[i].due = (clock' + dq'[i].wait) % Word
               /\ - Late <= dq'[i].wait
               /\ 2 * (dq'[i].wait + (Sends - asked)) < Word
    <3> PICK w \in Int : w = dq[i].wait
      BY <1>3
    <3>1. /\ dq[i].due = (clock + w) % Word /\ w > - Late
          /\ 2 * (w + (Sends - asked)) < Word
      BY <1>1, <1>2 DEF Timed
    <3>2. - Late <= w /\ 2 * w < Word /\ 2 * ((w - 1) + (Sends - asked)) < Word
          /\ - Late <= w - 1
      <4>1. Sends \in Int /\ asked \in Int /\ asked <= Sends /\ Word \in Int /\ Late \in Int
        BY <1>7
      <4>2. QED
        BY <3>1, <4>1
    <3>3. (clock + w) % Word = (clock' + (w - 1)) % Word
      BY <1>2, <1>7, <3>1, <3>2, Ticked
    <3>4. QED
      BY <1>5, <3>1, <3>2, <3>3
  <2>2. QED
    BY <1>2, <1>6, <2>1 DEF Timed
<1>11. Quiet'
  <2>1. dq = <<>> => dq' = <<>>
    BY <1>2
  <2>2. QED
    BY <1>1, <1>2, <2>1 DEF Quiet
<1>12. Lasts
  BY <1>5, <1>6 DEF Lasts
<1>13. QED
  BY <1>8, <1>9, <1>10, <1>11, <1>12 DEF AdapterOK

\* The steps that leave the queue and its packets alone.
LEMMA OtherStep ==
  ASSUME AdapterOK,
         \/ \E j \in Slot : SetRoute(j)
         \/ Impair \/ ReadOne \/ TakeLobbyPacket \/ Arrival \/ UNCHANGED vars
  PROVE  AdapterOK' /\ Lasts
<1>1. TypeOK /\ Placed /\ Timed /\ Quiet
  BY DEF AdapterOK
<1>2. UNCHANGED <<active, dq, clock, asked, departed, refused>>
  BY DEF SetRoute, Impair, ReadOne, TakeLobbyPacket, Arrival, vars
<1>3. Placed' /\ Timed' /\ Lasts
  BY <1>1, <1>2 DEF Placed, Timed, Ids, Lasts
<1>4. CASE \E j \in Slot : SetRoute(j)
  BY <1>1, <1>2, <1>3, <1>4 DEF AdapterOK, TypeOK, Quiet, SetRoute
<1>5. CASE Impair
  BY <1>1, <1>2, <1>3, <1>5 DEF AdapterOK, TypeOK, Quiet, Impair
<1>6. CASE ReadOne
  <2>1. inbox \in Seq(Control \cup {"game"}) /\ inbox # <<>> /\ pumping \in 1 .. PumpSize
    BY <1>1, <1>6 DEF TypeOK, Quiet, ReadOne
  <2>2. inbox' \in Seq(Control \cup {"game"}) /\ pumping' \in 0 .. PumpSize
    BY <1>6, <2>1, HeadTailProperties DEF ReadOne
  <2>3. pumping' > 0 => inbox' # <<>>
    BY <1>6 DEF ReadOne
  <2>4. /\ lobbyq' \in [0 .. RingSize - 1 -> Control \cup {Unused}]
        /\ head' \in 0 .. RingSize - 1 /\ count' \in 0 .. RingSize
    <3>1. RingOK
      BY <1>1 DEF TypeOK, RingOK, Entry
    <3>2. RingOK'
      BY <1>6, <3>1, PushMaps DEF ReadOne, RingOK
    <3>3. QED
      BY <3>2 DEF RingOK, Entry
  <2>5. TypeOK'
    <3>1. UNCHANGED <<route, imp>>
      BY <1>6 DEF ReadOne
    <3>2. /\ active' \in BOOLEAN /\ route' \in [Slot -> {"none", "direct", "relay"}]
          /\ imp' \in {{}} \cup {{g} : g \in Profile}
          /\ dq' \in Seq([id : Packet, due : 0 .. Word - 1, wait : Int])
          /\ Len(dq') <= QueueSize /\ clock' \in 0 .. Word - 1 /\ asked' \in 0 .. Sends
          /\ departed' \in [Packet -> Nat] /\ refused' \in SUBSET Packet
      BY <1>1, <1>2, <3>1 DEF TypeOK
    <3>3. QED
      BY <2>2, <2>4, <3>2 DEF TypeOK
  <2>6. QED
    BY <1>1, <1>2, <1>3, <2>3, <2>5 DEF AdapterOK, Quiet
<1>7. CASE TakeLobbyPacket
  <2>1. head' \in 0 .. RingSize - 1 /\ count' \in 0 .. RingSize
    BY <1>1, <1>7 DEF TypeOK, TakeLobbyPacket
  <2>2. QED
    BY <1>1, <1>2, <1>3, <1>7, <2>1 DEF AdapterOK, TypeOK, Quiet, TakeLobbyPacket
<1>8. CASE Arrival
  <2>1. inbox' \in Seq(Control \cup {"game"}) /\ pumping = 0
    BY <1>1, <1>8, AppendProperties DEF TypeOK, Arrival
  <2>2. TypeOK'
    <3>1. UNCHANGED <<route, imp, lobbyq, head, count, pumping>>
      BY <1>8 DEF Arrival
    <3>2. QED
      BY <1>1, <1>2, <2>1, <3>1 DEF TypeOK
  <2>3. Quiet'
    BY <1>1, <1>2, <1>8, <2>1 DEF Quiet, Arrival
  <2>4. QED
    BY <1>3, <2>2, <2>3 DEF AdapterOK
<1>9. CASE UNCHANGED vars
  BY <1>1, <1>2, <1>3, <1>9 DEF AdapterOK, TypeOK, Quiet, vars
<1>10. QED
  BY <1>4, <1>5, <1>6, <1>7, <1>8, <1>9

\* What every step keeps, and what a pump leaves.
LEMMA AdapterStep ==
  ASSUME AdapterOK, [Next]_vars
  PROVE  /\ AdapterOK' /\ Lasts
         /\ NaRecv => \A i \in 1 .. Len(dq') : dq'[i].wait > 0
<1>1. NaRecv \/ AdapterInit \/ Shutdown \/ Millisecond \/ (\E j \in Slot : NaSend(j))
      \/ (\E j \in Slot : SetRoute(j))
      \/ Impair \/ ReadOne \/ TakeLobbyPacket \/ Arrival \/ UNCHANGED vars
  BY DEF Next
<1>2. QED
  BY <1>1, RecvStep, InitStep, ShutdownStep, MillisecondStep, SendStep, OtherStep

\* The inductive invariant.
LEMMA AdapterInvariant == Spec => []AdapterOK
<1>1. Init => AdapterOK
  <2> SUFFICES ASSUME Init PROVE AdapterOK
    OBVIOUS
  <2>1. TypeOK
    <3>1. /\ dq \in Seq([id : Packet, due : 0 .. Word - 1, wait : Int])
          /\ Len(dq) <= QueueSize /\ inbox \in Seq(Control \cup {"game"})
      BY DEF Init
    <3>2. /\ lobbyq \in [0 .. RingSize - 1 -> Control \cup {Unused}]
          /\ head \in 0 .. RingSize - 1 /\ count \in 0 .. RingSize
          /\ pumping \in 0 .. PumpSize /\ asked \in 0 .. Sends
      BY DEF Init
    <3>3. /\ active \in BOOLEAN /\ route \in [Slot -> {"none", "direct", "relay"}]
          /\ imp \in {{}} \cup {{f} : f \in Profile} /\ clock \in 0 .. Word - 1
          /\ departed \in [Packet -> Nat] /\ refused \in SUBSET Packet
      BY DEF Init
    <3>4. QED
      BY <3>1, <3>2, <3>3 DEF TypeOK
  <2>2. Ids = {} /\ Len(dq) = 0
    BY DEF Init, Ids
  <2>3. Placed /\ Timed /\ Quiet
    BY <2>2 DEF Init, Placed, Timed, Quiet, Packet
  <2>4. QED
    BY <2>1, <2>3 DEF AdapterOK
<1>2. AdapterOK /\ [Next]_vars => AdapterOK'
  BY AdapterStep
<1>3. QED
  BY <1>1, <1>2, PTL DEF Spec

\* The state of the adapter has its types (src/netplay/net_adapter.c, g): the
\* delay queue never has more than its NA_DELAY_QUEUE entries, the ring's
\* head and count stay in range, and na_recv never reads an empty socket.
THEOREM TypeCorrect == Spec => []TypeOK
<1>1. AdapterOK => TypeOK
  BY DEF AdapterOK
<1>2. QED
  BY <1>1, AdapterInvariant, PTL

\* A packet is in one place (src/netplay/net_adapter.c, impaired_send and
\* flush_due): of what GekkoNet has sent, each waits in the queue once, went out
\* once or was given up, whatever was delayed, pushed back or flushed in place.
THEOREM EverythingAccounted == Spec => []Accounted
<1>1. AdapterOK => Accounted
  <2> SUFFICES ASSUME AdapterOK, NEW n \in Packet
               PROVE  departed[n] + Cardinality(Waiting(n)) + (IF n \in refused THEN 1 ELSE 0)
                          = IF n <= asked THEN 1 ELSE 0
    BY DEF Accounted
  <2>1. TypeOK /\ Placed
    BY DEF AdapterOK
  <2>2. Cardinality(Waiting(n)) = IF n \in Ids THEN 1 ELSE 0
    <3>1. CASE n \in Ids
      <4>1. PICK i \in 1 .. Len(dq) : dq[i].id = n
        BY <3>1 DEF Ids
      <4>2. Waiting(n) = {i}
        BY <2>1, <4>1 DEF Waiting, Placed
      <4>3. Cardinality({i}) = 1
        BY FS_Singleton
      <4>4. QED
        BY <3>1, <4>2, <4>3
    <3>2. CASE n \notin Ids
      <4>1. Waiting(n) = {}
        BY <3>2 DEF Ids, Waiting
      <4>2. QED
        BY <3>2, <4>1, FS_EmptySet
    <3>3. QED
      BY <3>1, <3>2
  <2>3. departed[n] = IF n <= asked /\ n \notin Ids \cup refused THEN 1 ELSE 0
    BY <2>1 DEF Placed
  <2>4. /\ n \in Ids \cup refused => n <= asked
        /\ ~ (n \in Ids /\ n \in refused)
    BY <2>1 DEF Placed
  <2>5. QED
    BY <2>2, <2>3, <2>4
<1>2. QED
  BY <1>1, AdapterInvariant, PTL

\* A packet goes when its time has come and not before (src/netplay/
\* net_adapter.c, flush_due), for every width of the clock, wherever it wraps.
\* The assumption this rests on is that a delay with all that may be added to it
\* is at most half of the clock's range, as 32 bits of milliseconds are for a
\* delay and a jitter of 16 bits each.
THEOREM InTime == Spec => OnTime
<1>1. AdapterOK /\ [Next]_vars =>
          [/\ NaRecv => \A i \in 1 .. Len(dq') : dq'[i].wait > 0
           /\ \A i \in 1 .. Len(dq) :
                  dq[i].wait > 0 /\ active' =>
                      \E j \in 1 .. Len(dq') : dq'[j].id = dq[i].id]_vars
  BY AdapterStep DEF Lasts
<1>2. QED
  BY <1>1, AdapterInvariant, PTL DEF Spec, OnTime

=============================================================================
