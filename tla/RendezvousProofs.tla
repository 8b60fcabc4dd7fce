-------------------------- MODULE RendezvousProofs --------------------------
(* Theorems about Rendezvous, for every table size, set of clients and     *)
(* deadlines.                                                              *)
(*                                                                         *)
(* The inductive invariant has a part for one entry, EntryOK, and a part   *)
(* that relates entries.  The lemmas of the first section say that each    *)
(* record operator of Rendezvous keeps EntryOK; Update and Install lift    *)
(* that to the table, and each action is then one of these two.            *)
EXTENDS Rendezvous, TLAPS

EntryOK(r) ==
    /\ r \in Session
    /\ r.phase = "free" => r = Cleared
    /\ r.phase # "free" => SlotsInOrder(r) /\ r.id # Unset
    /\ RoutesNegotiated(r)
    /\ RunningIsAcked(r)
    /\ r.phase = "lobby" => r.acked = {}
    /\ Started(r) => r.silent <= r.started /\ r.start # Unset
    /\ r.acked \subseteq Used(r)

IInv ==
    /\ sessions \in [Index -> Session]
    /\ \A s \in Index : EntryOK(sessions[s])
    /\ IdsDistinct
    /\ OneLobbyPerHost

USE SizeAssumption, DeadlineAssumption, SentinelAssumption

-----------------------------------------------------------------------------
(* One entry.                                                              *)

LEMMA ClearedOK == EntryOK(Cleared)
<1>1. Cleared \in Session
  BY DEF Cleared, Session, Phase, Slot, Verdict, Route, IdleCap, StartedCap, RefanCap, RelayCap
<1>2. QED
  BY <1>1 DEF EntryOK, Cleared, RoutesNegotiated, RunningIsAcked, Started

\* What EntryOK says depends on these fields alone.
LEMMA SameEntry ==
  ASSUME NEW r, NEW q, EntryOK(r), r.phase # "free", q \in Session,
         q.phase = r.phase, q.id = r.id, q.players = r.players,
         q.joined = r.joined, q.member = r.member, q.acked = r.acked,
         q.punch = r.punch, q.route = r.route,
         Started(r) => q.silent <= q.started /\ q.start # Unset
  PROVE  EntryOK(q)
<1>1. Used(q) = Used(r)
  BY DEF Used
<1>2. SlotsInOrder(q)
  BY <1>1 DEF EntryOK, SlotsInOrder
<1>3. RoutesNegotiated(q)
  BY <1>1 DEF EntryOK, RoutesNegotiated
<1>4. RunningIsAcked(q)
  BY <1>1 DEF EntryOK, RunningIsAcked, Started
<1>5. QED
  BY <1>1, <1>2, <1>3, <1>4 DEF EntryOK, Started

LEMMA TouchOK ==
  ASSUME NEW r, EntryOK(r), r.phase # "free"
  PROVE  EntryOK(Touch(r))
<1> DEFINE q == Touch(r)
<1>1. q \in Session
  <2>1. r \in Session /\ 0 \in 0 .. IdleCap
    BY DEF EntryOK, IdleCap
  <2>2. QED
    BY <2>1, Zenon DEF Touch, Session
<1>2. /\ q.phase = r.phase /\ q.id = r.id /\ q.players = r.players
      /\ q.joined = r.joined /\ q.member = r.member /\ q.acked = r.acked
      /\ q.punch = r.punch /\ q.route = r.route /\ q.start = r.start
      /\ q.silent = r.silent /\ q.started = r.started
  BY DEF EntryOK, Touch, Session
<1>3. QED
  BY <1>1, <1>2, SameEntry DEF EntryOK

LEMMA OpenedOK ==
  ASSUME NEW from \in Endpoint, NEW n \in Int, NEW v \in Version, NEW x \in SessionId
  PROVE  EntryOK(Opened(from, n, v, x))
<1> DEFINE r == Opened(from, n, v, x)
<1>0. Clamp(n) \in 2 .. MaxPlayers
  BY DEF Clamp
<1>1. r \in Session
  <2>1. 0 \in Slot
    BY DEF Slot
  <2>2. [Cleared.member EXCEPT ![0] = from] \in [Slot -> Endpoint \cup {Nobody}]
    BY <2>1 DEF Cleared
  <2>3. r = [Cleared EXCEPT !.phase = "lobby", !.id = x, !.players = Clamp(n),
                 !.version = v, !.member = [Cleared.member EXCEPT ![0] = from],
                 !.joined = 1, !.idle = 0]
    BY DEF Opened
  <2>4. /\ r.phase \in Phase /\ r.id \in SessionId \cup {Unset}
        /\ r.players \in 0 .. MaxPlayers /\ r.joined \in Nat
        /\ r.version \in Version \cup {Unset} /\ r.idle \in 0 .. IdleCap
        /\ r.member \in [Slot -> Endpoint \cup {Nobody}]
    BY <1>0, <2>2, <2>3 DEF Cleared, Phase, IdleCap
  <2>5. /\ r.acked = Cleared.acked /\ r.punch = Cleared.punch
        /\ r.route = Cleared.route /\ r.start = Cleared.start
        /\ r.started = Cleared.started /\ r.refan = Cleared.refan
        /\ r.silent = Cleared.silent
    BY DEF Opened, Cleared
  <2>6. Cleared \in Session
    BY ClearedOK DEF EntryOK
  <2>7. r = [ phase |-> r.phase, id |-> r.id, players |-> r.players,
              joined |-> r.joined, version |-> r.version, member |-> r.member,
              acked |-> r.acked, punch |-> r.punch, route |-> r.route,
              start |-> r.start, idle |-> r.idle, started |-> r.started,
              refan |-> r.refan, silent |-> r.silent ]
    BY <2>3, <2>6 DEF Session
  <2>8. QED
    BY <2>4, <2>5, <2>6, <2>7, Zenon DEF Session
<1>2. Used(r) = {0}
  BY DEF Used, Opened, Cleared, Slot
<1>3. SlotsInOrder(r)
  BY <1>0, <1>2 DEF SlotsInOrder, Opened, Cleared, Slot
<1>4. QED
  BY <1>1, <1>3 DEF EntryOK, Opened, Cleared, RoutesNegotiated, RunningIsAcked, Started

LEMMA AdmittedOK ==
  ASSUME NEW r, EntryOK(r), r.phase = "lobby", ~ Full(r),
         NEW from \in Endpoint, ~ IsMember(r, from),
         NEW i, IsFirst(i, Slot \ Used(r))
  PROVE  EntryOK(Admitted(r, i, from)) /\ i # 0
<1> DEFINE q == Admitted(r, i, from)
<1>1. i \in Slot /\ i \notin Used(r) /\ r.joined < r.players
  BY DEF IsFirst, Full, EntryOK, Session, SlotsInOrder
<1>2. i = r.joined
  <2>1. Used(r) = {k \in Slot : k < r.joined}
    BY DEF EntryOK, SlotsInOrder
  <2>2. r.joined \in Nat /\ r.players \in 0 .. MaxPlayers
    BY DEF EntryOK, Session
  <2>3. \A l \in Slot \ Used(r) : i <= l
    BY DEF IsFirst
  <2>4. r.joined \in Slot \ Used(r)
    BY <1>1, <2>1, <2>2 DEF Slot
  <2>5. i <= r.joined /\ ~ (i < r.joined) /\ i \in Int
    BY <1>1, <2>1, <2>3, <2>4 DEF Slot
  <2>6. QED
    BY <2>2, <2>5
<1>3. i # 0
  BY <1>2 DEF EntryOK, SlotsInOrder
<1>4. q \in Session
  <2>1. [r.member EXCEPT ![i] = from] \in [Slot -> Endpoint \cup {Nobody}]
    BY <1>1 DEF EntryOK, Session
  <2>2. q = [r EXCEPT !.member = [r.member EXCEPT ![i] = from],
                      !.joined = r.joined + 1, !.idle = 0]
    BY DEF Admitted
  <2>3. r \in Session
    BY DEF EntryOK
  <2>4. QED
    <3>1. r.joined + 1 \in Nat /\ 0 \in 0 .. IdleCap
      BY <2>3 DEF Session, IdleCap
    <3>2. QED
      BY <2>1, <2>2, <2>3, <3>1, Zenon DEF Session
<1>5. Used(q) = Used(r) \cup {i}
  BY <1>1 DEF Used, Admitted, EntryOK, Session
<1>6. SlotsInOrder(q)
  <2>1. Used(q) = {k \in Slot : k < q.joined}
    BY <1>1, <1>2, <1>5 DEF EntryOK, SlotsInOrder, Admitted, Slot, Session
  <2>2. \A j, k \in Used(q) : q.member[j] = q.member[k] => j = k
    BY <1>1, <1>5 DEF EntryOK, SlotsInOrder, Admitted, Session, IsMember, Used
  <2>3. QED
    BY <2>1, <2>2, <1>1 DEF EntryOK, SlotsInOrder, Admitted, Session
<1>7. RoutesNegotiated(q)
  BY <1>5 DEF EntryOK, RoutesNegotiated, Admitted, Session
<1>8. QED
  BY <1>3, <1>4, <1>6, <1>7 DEF EntryOK, Admitted, Session, RunningIsAcked, Started

LEMMA ReportedOK ==
  ASSUME NEW r, EntryOK(r), r.phase # "free", NEW v \in {"open", "shut"},
         NEW a \in Used(r), NEW b \in Used(r), a # b
  PROVE  EntryOK(Reported(r, a, b, v))
<1> DEFINE q == Reported(r, a, b, v)
<1>1. q \in Session
  <2>1. r \in Session /\ a \in Slot /\ b \in Slot
    BY DEF EntryOK, Used
  <2>2. [r.punch EXCEPT ![a][b] = v] \in [Slot -> [Slot -> Verdict]]
    BY <2>1 DEF Session, Verdict
  <2>3. q = [r EXCEPT !.idle = 0, !.punch = [r.punch EXCEPT ![a][b] = v]]
    BY DEF Reported
  <2>4. QED
    <3>1. 0 \in 0 .. IdleCap
      BY DEF IdleCap
    <3>2. QED
      BY <2>1, <2>2, <2>3, <3>1, Zenon DEF Session
<1>2. Used(q) = Used(r)
  BY DEF Used, Reported, EntryOK, Session
<1>3. SlotsInOrder(q)
  BY <1>2 DEF EntryOK, SlotsInOrder, Reported, Session
<1>4. RoutesNegotiated(q)
  <2>1. \A i, j \in Slot : q.punch[i][j] = IF i = a /\ j = b THEN v ELSE r.punch[i][j]
    BY DEF Reported, EntryOK, Session, Used
  <2>2. q.route = r.route
    BY DEF Reported, EntryOK, Session
  <2>3. QED
    BY <1>2, <2>1, <2>2 DEF EntryOK, RoutesNegotiated
<1>5. QED
  BY <1>1, <1>2, <1>3, <1>4 DEF EntryOK, Reported, Session, RunningIsAcked, Started

LEMMA JudgedOK ==
  ASSUME NEW r, EntryOK(r), r.phase # "free", NEW a \in Slot, NEW b \in Slot,
         r.punch[a][b] # "unseen", r.punch[b][a] # "unseen"
  PROVE  EntryOK(Judged(r, a, b))
<1> DEFINE q == Judged(r, a, b)
           w == Judgement(r, a, b)
<1>0. w \in {"direct", "relay"}
  BY DEF Judgement
<1>1. q = [r EXCEPT !.route = [r.route EXCEPT ![a][b] = w, ![b][a] = w],
                    !.silent = IF w = "relay" THEN 0 ELSE r.silent]
  BY DEF Judged
<1>2. q \in Session
  <2>1. r \in Session
    BY DEF EntryOK
  <2>2. [r.route EXCEPT ![a][b] = w, ![b][a] = w] \in [Slot -> [Slot -> Route]]
    BY <1>0, <2>1 DEF Session, Route
  <2>3. QED
    <3>1. (IF w = "relay" THEN 0 ELSE r.silent) \in 0 .. RelayCap
      BY <2>1 DEF Session, RelayCap
    <3>2. QED
      BY <1>1, <2>1, <2>2, <3>1, Zenon DEF Session
<1>3. \A i, j \in Slot :
          q.route[i][j] = IF (i = a /\ j = b) \/ (i = b /\ j = a)
                          THEN w ELSE r.route[i][j]
  BY <1>1 DEF EntryOK, Session
<1>4. /\ q.phase = r.phase /\ q.member = r.member /\ q.punch = r.punch /\ q.joined = r.joined
      /\ q.players = r.players /\ q.acked = r.acked /\ q.start = r.start /\ q.id = r.id
      /\ q.started = r.started /\ (q.silent = r.silent \/ q.silent = 0)
  BY <1>1 DEF EntryOK, Session
<1>5. Used(q) = Used(r)
  BY <1>4 DEF Used
<1>6. SlotsInOrder(q)
  BY <1>4, <1>5 DEF EntryOK, SlotsInOrder
<1>7. RoutesNegotiated(q)
  BY <1>0, <1>3, <1>4, <1>5 DEF EntryOK, RoutesNegotiated
<1>8. r.started \in Nat
  BY DEF EntryOK, Session, StartedCap
<1>9. QED
  BY <1>2, <1>4, <1>5, <1>6, <1>7, <1>8 DEF EntryOK, RunningIsAcked, Started

LEMMA BegunOK ==
  ASSUME NEW r, EntryOK(r), r.phase = "lobby", NEW p \in Params
  PROVE  EntryOK(Begun(r, p))
<1> DEFINE q == Begun(r, p)
<1>1. q \in Session
  <2>1. /\ r \in Session /\ "starting" \in Phase
        /\ 0 \in 0 .. IdleCap /\ 0 \in 0 .. StartedCap
        /\ 0 \in 0 .. RelayCap /\ 0 \in 0 .. RefanCap
    BY DEF EntryOK, Phase, IdleCap, StartedCap, RelayCap, RefanCap
  <2>2. QED
    BY <2>1, Zenon DEF Begun, Session
<1>2. /\ q.phase = "starting" /\ q.id = r.id /\ q.players = r.players
      /\ q.joined = r.joined /\ q.member = r.member /\ q.acked = r.acked
      /\ q.punch = r.punch /\ q.route = r.route /\ q.start = p
      /\ q.started = 0 /\ q.silent = 0
  BY DEF Begun, EntryOK, Session
<1>3. Used(q) = Used(r)
  BY <1>2 DEF Used
<1>4. SlotsInOrder(q) /\ RoutesNegotiated(q)
  BY <1>2, <1>3 DEF EntryOK, SlotsInOrder, RoutesNegotiated
<1>5. QED
  BY <1>1, <1>2, <1>4 DEF EntryOK, RunningIsAcked, Started

LEMMA RestatedOK ==
  ASSUME NEW r, EntryOK(r), r.phase = "starting", NEW p \in Params
  PROVE  EntryOK(Restated(r, p))
<1> DEFINE q == Restated(r, p)
<1>1. q \in Session
  <2>1. r \in Session /\ 0 \in 0 .. IdleCap /\ 0 \in 0 .. RefanCap
    BY DEF EntryOK, IdleCap, RefanCap
  <2>2. QED
    BY <2>1, Zenon DEF Restated, Session
<1>2. /\ q.phase = r.phase /\ q.id = r.id /\ q.players = r.players
      /\ q.joined = r.joined /\ q.member = r.member /\ q.acked = r.acked
      /\ q.punch = r.punch /\ q.route = r.route /\ q.start = p
      /\ q.started = r.started /\ q.silent = r.silent
  BY DEF Restated, EntryOK, Session
<1>3. QED
  BY <1>1, <1>2, SameEntry DEF EntryOK

LEMMA AckedOK ==
  ASSUME NEW r, EntryOK(r), r.phase = "starting", NEW i \in Used(r)
  PROVE  EntryOK(Acked(r, i))
<1> DEFINE q == Acked(r, i)
           acked == r.acked \cup {i}
           phase == IF Used(r) \subseteq acked THEN "running" ELSE r.phase
<1>1. q = [r EXCEPT !.acked = acked, !.idle = 0, !.phase = phase]
  BY DEF Acked
<1>2. q \in Session
  <2>1. /\ r \in Session /\ 0 \in 0 .. IdleCap /\ phase \in Phase
        /\ acked \in SUBSET Slot
    BY DEF EntryOK, IdleCap, Phase, Session, Used
  <2>2. QED
    BY <1>1, <2>1, Zenon DEF Session
<1>3. /\ q.phase = phase /\ q.id = r.id /\ q.players = r.players
      /\ q.joined = r.joined /\ q.member = r.member /\ q.acked = acked
      /\ q.punch = r.punch /\ q.route = r.route /\ q.start = r.start
      /\ q.started = r.started /\ q.silent = r.silent
  BY <1>1 DEF EntryOK, Session
<1>4. Used(q) = Used(r)
  BY <1>3 DEF Used
<1>5. SlotsInOrder(q) /\ RoutesNegotiated(q)
  BY <1>3, <1>4 DEF EntryOK, SlotsInOrder, RoutesNegotiated
<1>6. r.acked \subseteq Used(r)
  BY DEF EntryOK
<1>7. RunningIsAcked(q)
  BY <1>3, <1>4, <1>6 DEF EntryOK, RunningIsAcked, Started
<1>8. QED
  BY <1>2, <1>3, <1>5, <1>6, <1>7, <1>4 DEF EntryOK, Started

LEMMA ForwardedOK ==
  ASSUME NEW r, EntryOK(r), r.phase # "free"
  PROVE  EntryOK(Forwarded(r))
<1> DEFINE q == Forwarded(r)
<1>1. q \in Session
  <2>1. r \in Session /\ 0 \in 0 .. IdleCap /\ 0 \in 0 .. RelayCap
    BY DEF EntryOK, IdleCap, RelayCap
  <2>2. QED
    BY <2>1, Zenon DEF Forwarded, Session
<1>2. /\ q.phase = r.phase /\ q.id = r.id /\ q.players = r.players
      /\ q.joined = r.joined /\ q.member = r.member /\ q.acked = r.acked
      /\ q.punch = r.punch /\ q.route = r.route /\ q.start = r.start
      /\ q.started = r.started /\ q.silent = 0
  BY DEF Forwarded, EntryOK, Session
<1>3. r.started \in Nat
  BY DEF EntryOK, Session, StartedCap
<1>4. QED
  BY <1>1, <1>2, <1>3, SameEntry DEF EntryOK

LEMMA TickedOK ==
  ASSUME NEW r, EntryOK(r)
  PROVE  EntryOK(Ticked(r))
<1>1. CASE Expired(r)
  BY <1>1, ClearedOK DEF Ticked
<1>2. CASE ~ Expired(r) /\ RefanDue(r)
  <2> DEFINE q == [r EXCEPT !.refan = 0]
  <2>1. q \in Session
    <3>1. r \in Session /\ 0 \in 0 .. RefanCap
      BY DEF EntryOK, RefanCap
    <3>2. QED
      BY <3>1, Zenon DEF Session
  <2>2. /\ q.phase = r.phase /\ q.id = r.id /\ q.players = r.players
        /\ q.joined = r.joined /\ q.member = r.member /\ q.acked = r.acked
        /\ q.punch = r.punch /\ q.route = r.route /\ q.start = r.start
        /\ q.started = r.started /\ q.silent = r.silent
    BY DEF EntryOK, Session
  <2>3. EntryOK(q)
    BY <1>2, <2>1, <2>2, SameEntry DEF EntryOK, RefanDue
  <2>4. QED
    BY <1>2, <2>3 DEF Ticked
<1>3. CASE ~ Expired(r) /\ ~ RefanDue(r)
  BY <1>3 DEF Ticked
<1>4. QED
  BY <1>1, <1>2, <1>3

LEMMA AgedOK ==
  ASSUME NEW r, EntryOK(r)
  PROVE  EntryOK(Aged(r))
<1> DEFINE q == Aged(r)
<1>0. /\ r \in Session
      /\ r.idle \in 0 .. IdleCap /\ r.started \in 0 .. StartedCap
      /\ r.refan \in 0 .. RefanCap /\ r.silent \in 0 .. RelayCap
      /\ IdleCap \in Nat /\ StartedCap \in Nat /\ RefanCap \in Nat
      /\ RelayCap = StartedCap
  BY DEF EntryOK, Session, IdleCap, StartedCap, RefanCap, RelayCap
<1>1. /\ Older(r.idle, IdleCap) \in 0 .. IdleCap
      /\ Older(r.started, StartedCap) \in 0 .. StartedCap
      /\ Older(r.refan, RefanCap) \in 0 .. RefanCap
      /\ Older(r.silent, RelayCap) \in 0 .. RelayCap
  BY <1>0 DEF Older
<1>2. q \in Session
  BY <1>0, <1>1, Zenon DEF Aged, Session
<1>3. /\ q.phase = r.phase /\ q.id = r.id /\ q.players = r.players
      /\ q.joined = r.joined /\ q.member = r.member /\ q.acked = r.acked
      /\ q.punch = r.punch /\ q.route = r.route /\ q.start = r.start
      /\ q.started = Older(r.started, StartedCap)
      /\ q.silent = Older(r.silent, RelayCap)
  BY <1>0 DEF Aged, Session
<1>4. CASE r.phase = "free"
  <2>1. r = Cleared
    BY <1>4 DEF EntryOK
  <2>2. /\ Older(r.idle, IdleCap) = r.idle
        /\ Older(r.started, StartedCap) = r.started
        /\ Older(r.refan, RefanCap) = r.refan
        /\ Older(r.silent, RelayCap) = r.silent
    <3>1. /\ r.idle = IdleCap /\ r.started = StartedCap
          /\ r.refan = RefanCap /\ r.silent = RelayCap
      BY <2>1 DEF Cleared
    <3>2. QED
      BY <1>0, <3>1 DEF Older
  <2>3. q = r
    BY <1>0, <2>2 DEF Aged, Session
  <2>4. QED
    BY <2>3
<1>5. CASE r.phase # "free"
  <2>1. Started(r) => q.silent <= q.started
    BY <1>0, <1>3 DEF EntryOK, Older
  <2>2. QED
    BY <1>2, <1>3, <1>5, <2>1, SameEntry DEF EntryOK
<1>6. QED
  BY <1>4, <1>5

-----------------------------------------------------------------------------
(* The table.                                                              *)

\* q may follow r in a live entry: same session, same host, and it does not
\* turn into a lobby again.
Follows(r, q) ==
    /\ q.phase # "free" /\ q.id = r.id /\ q.member[0] = r.member[0]
    /\ q.phase = "lobby" => r.phase = "lobby"

\* A step after which every entry is well formed, and is free or follows
\* what it was.
LEMMA Sweep ==
  ASSUME IInv, sessions' \in [Index -> Session],
         \A s \in Index : EntryOK(sessions'[s]),
         \A s \in Index : \/ sessions'[s].phase = "free"
                          \/ s \in Live /\ Follows(sessions[s], sessions'[s])
  PROVE  IInv'
<1>1. Live' \subseteq Live
  BY DEF Live
<1>2. \A s \in Live' : Follows(sessions[s], sessions'[s])
  BY DEF Live
<1>3. IdsDistinct'
  BY <1>1, <1>2 DEF IdsDistinct, IInv, Follows
<1>4. OneLobbyPerHost'
  BY <1>1, <1>2 DEF OneLobbyPerHost, IInv, Follows
<1>5. QED
  BY <1>3, <1>4 DEF IInv

\* An action that changes one live entry.
LEMMA Update ==
  ASSUME IInv, NEW s \in Live, NEW r, EntryOK(r), Follows(sessions[s], r),
         Become(s, r)
  PROVE  IInv'
<1>1. s \in Index
  BY DEF Live
<1>2. \A t \in Index : sessions'[t] = IF t = s THEN r ELSE sessions[t]
  BY <1>1 DEF Become, IInv
<1>3. sessions' \in [Index -> Session]
  BY <1>1 DEF Become, IInv, EntryOK
<1>4. \A t \in Index : EntryOK(sessions'[t])
  BY <1>2 DEF IInv
<1>5. \A t \in Index : \/ sessions'[t].phase = "free"
                       \/ t \in Live /\ Follows(sessions[t], sessions'[t])
  BY <1>2 DEF Live, Follows
<1>6. QED
  BY <1>3, <1>4, <1>5, Sweep

\* An action that puts a new session in a free entry.
LEMMA Install ==
  ASSUME IInv, NEW s \in Index \ Live, NEW r, EntryOK(r), Become(s, r),
         r.phase = "lobby", r.id \in FreshIds, HostsNoLobby(r.member[0])
  PROVE  IInv'
<1>1. \A t \in Index : sessions'[t] = IF t = s THEN r ELSE sessions[t]
  BY DEF Become, IInv
<1>2. sessions' \in [Index -> Session]
  BY DEF Become, IInv, EntryOK
<1>3. \A t \in Index : EntryOK(sessions'[t])
  BY <1>1 DEF IInv
<1>4. Live' = Live \cup {s}
  BY <1>1 DEF Live
<1>5. IdsDistinct'
  BY <1>1, <1>4 DEF IdsDistinct, IInv, FreshIds, Live
<1>6. OneLobbyPerHost'
  BY <1>1, <1>4 DEF OneLobbyPerHost, IInv, HostsNoLobby, Hosted, Live
<1>7. QED
  BY <1>2, <1>3, <1>5, <1>6 DEF IInv

-----------------------------------------------------------------------------
(* The actions.                                                            *)

LEMMA InitIInv == Init => IInv
<1> SUFFICES ASSUME Init PROVE IInv
  OBVIOUS
<1>1. \A s \in Index : sessions[s] = Cleared
  BY DEF Init
<1>2. Live = {}
  BY <1>1 DEF Live, Cleared
<1>3. sessions \in [Index -> Session]
  BY ClearedOK DEF Init, EntryOK
<1>4. QED
  BY <1>1, <1>2, <1>3, ClearedOK DEF IInv, IdsDistinct, OneLobbyPerHost

\* What finding a session by its id tells of the entry.
LEMMA FoundLive ==
  ASSUME IInv, NEW s, NEW x, Found(s, x)
  PROVE  s \in Live /\ s \in Index /\ EntryOK(sessions[s]) /\ sessions[s].phase # "free"
BY DEF Found, IsFirst, Live, IInv

LEMMA TouchStep ==
  ASSUME IInv, NEW s \in Live, Become(s, Touch(sessions[s]))
  PROVE  IInv'
<1> DEFINE r == sessions[s]
<1>1. EntryOK(r) /\ r.phase # "free"
  BY DEF Live, IInv
<1>2. Follows(r, Touch(r))
  BY <1>1 DEF Follows, Touch, EntryOK, Session
<1>3. QED
  BY <1>1, <1>2, TouchOK, Update

LEMMA HostReqStep ==
  ASSUME IInv, NEW from \in Endpoint, NEW n \in 0 .. MaxPlayers + 1,
         NEW v \in Version, HostReq(from, n, v)
  PROVE  IInv'
<1>1. CASE HostAgain(from)
  <2>1. PICK s \in Index : /\ s \in Hosted(from)
                           /\ Become(s, Touch(sessions[s]))
    BY <1>1 DEF HostAgain, IsFirst
  <2>2. QED
    BY <2>1, TouchStep DEF Hosted
<1>2. CASE HostRefused(from)
  BY <1>2 DEF HostRefused, IInv, IdsDistinct, OneLobbyPerHost, Live
<1>3. CASE HostOpens(from, n, v)
  <2>1. PICK s \in Index, x \in FreshIds :
            /\ IsFirst(s, Index \ Live)
            /\ Become(s, Opened(from, n, v, x))
    BY <1>3 DEF HostOpens
  <2> DEFINE r == Opened(from, n, v, x)
  <2>2. x \in SessionId /\ n \in Int /\ s \in Index \ Live
    BY <2>1 DEF FreshIds, IsFirst
  <2>3. EntryOK(r)
    BY <2>2, OpenedOK
  <2>4. r.phase = "lobby" /\ r.id = x /\ r.member[0] = from
    BY DEF Opened, Cleared, Slot
  <2>5. HostsNoLobby(from)
    BY <1>3 DEF HostOpens
  <2>6. QED
    BY <2>1, <2>2, <2>3, <2>4, <2>5, Install
<1>4. QED
  BY <1>1, <1>2, <1>3 DEF HostReq

LEMMA JoinReqStep ==
  ASSUME IInv, NEW from \in Endpoint, NEW x \in SessionId, NEW v \in Version,
         JoinReq(from, x, v)
  PROVE  IInv'
<1>1. CASE \E why : JoinRefused(from, why)
  BY <1>1 DEF JoinRefused, IInv, IdsDistinct, OneLobbyPerHost, Live
<1>2. CASE JoinAgain(from, x)
  <2>1. PICK s \in Index : Found(s, x) /\ Become(s, Touch(sessions[s]))
    BY <1>2 DEF JoinAgain, OpenLobby
  <2>2. QED
    BY <2>1, FoundLive, TouchStep
<1>3. CASE JoinAdmits(from, x, v)
  <2>1. PICK s \in Index, i \in Slot :
            /\ OpenLobby(s, x)
            /\ ~ IsMember(sessions[s], from)
            /\ ~ Full(sessions[s])
            /\ IsFirst(i, Slot \ Used(sessions[s]))
            /\ Become(s, Admitted(sessions[s], i, from))
    BY <1>3 DEF JoinAdmits
  <2> DEFINE r == sessions[s]
  <2>2. s \in Live /\ EntryOK(r) /\ r.phase = "lobby"
    BY <2>1, FoundLive DEF OpenLobby
  <2>3. EntryOK(Admitted(r, i, from)) /\ i # 0
    BY <2>1, <2>2, AdmittedOK
  <2>4. Follows(r, Admitted(r, i, from))
    <3>1. /\ Admitted(r, i, from).phase = r.phase
          /\ Admitted(r, i, from).id = r.id
          /\ Admitted(r, i, from).member = [r.member EXCEPT ![i] = from]
      BY <2>2 DEF Admitted, EntryOK, Session
    <3>2. 0 \in Slot /\ r.member \in [Slot -> Endpoint \cup {Nobody}]
      BY <2>2 DEF Slot, EntryOK, Session
    <3>3. QED
      BY <2>2, <2>3, <3>1, <3>2 DEF Follows
  <2>5. QED
    BY <2>1, <2>2, <2>3, <2>4, Update
<1>4. QED
  BY <1>1, <1>2, <1>3
  DEF JoinReq, JoinUnknown, JoinLate, JoinMismatch, JoinFull

LEMMA PunchReportStep ==
  ASSUME IInv, NEW from \in Endpoint, NEW x \in SessionId, NEW a \in Slot,
         NEW b \in Slot, NEW v \in {"open", "shut"}, PunchReport(from, x, a, b, v)
  PROVE  IInv'
<1>1. PICK s \in Index :
          /\ Reporting(s, from, x, a, b)
          /\ \/ Become(s, Reported(sessions[s], a, b, v))
             \/ /\ Reported(sessions[s], a, b, v).punch[b][a] # "unseen"
                /\ Become(s, Judged(Reported(sessions[s], a, b, v), a, b))
  BY DEF PunchReport, ReportOneSided, ReportAgain, ReportDecides
<1> DEFINE r == sessions[s]
           q == Reported(r, a, b, v)
<1>2. s \in Live /\ EntryOK(r) /\ r.phase # "free"
  BY <1>1, FoundLive DEF Reporting
<1>3. a \in Used(r) /\ b \in Used(r) /\ a # b
  BY <1>1, <1>2 DEF Reporting, IsPeer, IsFirst, Used, EntryOK, Session
<1>4. EntryOK(q)
  BY <1>2, <1>3, ReportedOK
<1>5. q.phase = r.phase /\ q.id = r.id /\ q.member = r.member /\ q.punch[a][b] = v
  BY <1>2 DEF Reported, EntryOK, Session
<1>6. CASE Become(s, q)
  BY <1>2, <1>4, <1>5, <1>6, Update DEF Follows
<1>7. CASE q.punch[b][a] # "unseen" /\ Become(s, Judged(q, a, b))
  <2>1. EntryOK(Judged(q, a, b))
    BY <1>2, <1>4, <1>5, <1>7, JudgedOK
  <2>2. /\ Judged(q, a, b).phase = q.phase /\ Judged(q, a, b).id = q.id
        /\ Judged(q, a, b).member = q.member
    BY <1>4 DEF Judged, EntryOK, Session
  <2>3. QED
    BY <1>2, <1>5, <1>7, <2>1, <2>2, Update DEF Follows
<1>8. QED
  BY <1>1, <1>6, <1>7

LEMMA StartStep ==
  ASSUME IInv, NEW from \in Endpoint, NEW p \in Params, Start(from, p)
  PROVE  IInv'
<1>1. CASE StartFirst(from, p)
  <2>1. PICK s \in Index : /\ IsFirst(s, Hosted(from))
                           /\ sessions[s].phase = "lobby"
                           /\ Become(s, Begun(sessions[s], p))
    BY <1>1 DEF StartFirst
  <2> DEFINE r == sessions[s]
  <2>2. s \in Live /\ EntryOK(r)
    BY <2>1 DEF Live, IInv
  <2>3. Follows(r, Begun(r, p))
    BY <2>2 DEF Follows, Begun, EntryOK, Session
  <2>4. QED
    BY <2>1, <2>2, <2>3, BegunOK, Update
<1>2. CASE StartAgain(from, p)
  <2>1. PICK s \in Index : /\ IsFirst(s, Hosted(from))
                           /\ sessions[s].phase = "starting"
                           /\ Become(s, Restated(sessions[s], p))
    BY <1>2 DEF StartAgain
  <2> DEFINE r == sessions[s]
  <2>2. s \in Live /\ EntryOK(r)
    BY <2>1 DEF Live, IInv
  <2>3. Follows(r, Restated(r, p))
    BY <2>1, <2>2 DEF Follows, Restated, EntryOK, Session
  <2>4. QED
    BY <2>1, <2>2, <2>3, RestatedOK, Update
<1>3. QED
  BY <1>1, <1>2 DEF Start

LEMMA StartAckStep ==
  ASSUME IInv, NEW from \in Endpoint, NEW x \in SessionId, NEW i \in Slot,
         StartAck(from, x, i)
  PROVE  IInv'
<1>1. PICK s \in Index :
          /\ Found(s, x)
          /\ IsPeer(sessions[s], i, from)
          /\ Become(s, IF sessions[s].phase = "starting"
                       THEN Acked(sessions[s], i) ELSE Touch(sessions[s]))
  BY DEF StartAck
<1> DEFINE r == sessions[s]
<1>2. s \in Live /\ EntryOK(r)
  BY <1>1, FoundLive
<1>3. CASE r.phase = "starting"
  <2>1. i \in Used(r)
    BY <1>1 DEF IsPeer, IsFirst, Used
  <2>2. /\ Acked(r, i).id = r.id /\ Acked(r, i).member = r.member
        /\ Acked(r, i).phase \in {"starting", "running"}
    BY <1>2, <1>3 DEF Acked, EntryOK, Session
  <2>3. QED
    BY <1>1, <1>2, <1>3, <2>1, <2>2, AckedOK, Update DEF Follows
<1>4. CASE r.phase # "starting"
  BY <1>1, <1>2, <1>4, TouchStep
<1>5. QED
  BY <1>3, <1>4

LEMMA KeepAliveStep ==
  ASSUME IInv, NEW from \in Endpoint, NEW x \in SessionId, KeepAlive(from, x)
  PROVE  IInv'
BY FoundLive, TouchStep DEF KeepAlive

LEMMA RelayStep ==
  ASSUME IInv, NEW from \in Endpoint, NEW x \in SessionId, NEW i \in Slot,
         NEW j \in Slot, Relay(from, x, i, j)
  PROVE  IInv'
<1>1. PICK s \in Index : Found(s, x) /\ Become(s, Forwarded(sessions[s]))
  BY DEF Relay
<1> DEFINE r == sessions[s]
<1>2. s \in Live /\ EntryOK(r) /\ r.phase # "free"
  BY <1>1, FoundLive
<1>3. Follows(r, Forwarded(r))
  BY <1>2 DEF Follows, Forwarded, EntryOK, Session
<1>4. QED
  BY <1>1, <1>2, <1>3, ForwardedOK, Update

LEMMA TickStep == IInv /\ Tick => IInv'
<1> SUFFICES ASSUME IInv, Tick PROVE IInv'
  OBVIOUS
<1>1. \A s \in Index : sessions'[s] = Ticked(sessions[s])
  BY DEF Tick
<1>2. \A s \in Index : EntryOK(sessions'[s])
  BY <1>1, TickedOK DEF IInv
<1>3. sessions' \in [Index -> Session]
  BY <1>1, <1>2 DEF Tick, EntryOK
<1>4. ASSUME NEW s \in Index, sessions'[s].phase # "free"
      PROVE  s \in Live /\ Follows(sessions[s], sessions'[s])
  <2> DEFINE r == sessions[s]
  <2>1. EntryOK(r)
    BY DEF IInv
  <2>2. Ticked(r) = r \/ Ticked(r) = [r EXCEPT !.refan = 0]
    BY <1>1, <1>4 DEF Ticked, Cleared
  <2>3. /\ Ticked(r).phase = r.phase /\ Ticked(r).id = r.id
        /\ Ticked(r).member = r.member
    BY <2>1, <2>2 DEF EntryOK, Session
  <2>4. QED
    BY <1>1, <1>4, <2>3 DEF Live, Follows
<1>5. QED
  BY <1>2, <1>3, <1>4, Sweep

LEMMA AdvanceClockStep == IInv /\ AdvanceClock => IInv'
<1> SUFFICES ASSUME IInv, AdvanceClock PROVE IInv'
  OBVIOUS
<1>1. \A s \in Index : sessions'[s] = Aged(sessions[s])
  BY DEF AdvanceClock
<1>2. \A s \in Index : EntryOK(sessions'[s])
  BY <1>1, AgedOK DEF IInv
<1>3. sessions' \in [Index -> Session]
  BY <1>1, <1>2 DEF AdvanceClock, EntryOK
<1>4. ASSUME NEW s \in Index, sessions'[s].phase # "free"
      PROVE  s \in Live /\ Follows(sessions[s], sessions'[s])
  <2> DEFINE r == sessions[s]
  <2>1. EntryOK(r)
    BY DEF IInv
  <2>2. Aged(r).phase = r.phase /\ Aged(r).id = r.id /\ Aged(r).member = r.member
    BY <2>1 DEF Aged, EntryOK, Session
  <2>3. QED
    BY <1>1, <1>4, <2>2 DEF Live, Follows
<1>5. QED
  BY <1>2, <1>3, <1>4, Sweep

LEMMA NextIInv == IInv /\ [Next]_vars => IInv'
<1> SUFFICES ASSUME IInv, [Next]_vars PROVE IInv'
  OBVIOUS
<1>1. ASSUME NEW from \in Endpoint, Receive(from) PROVE IInv'
  BY <1>1, HostReqStep, JoinReqStep, PunchReportStep, StartStep, StartAckStep,
     KeepAliveStep, RelayStep
  DEF Receive
<1>2. CASE Tick
  BY <1>2, TickStep
<1>3. CASE AdvanceClock
  BY <1>3, AdvanceClockStep
<1>4. CASE UNCHANGED vars
  BY <1>4 DEF vars, IInv, IdsDistinct, OneLobbyPerHost, Live
<1>5. QED
  BY <1>1, <1>2, <1>3, <1>4 DEF Next

-----------------------------------------------------------------------------
(* The theorems.                                                           *)

\* The inductive invariant holds in every reachable state of the server.
THEOREM Invariance == Spec => []IInv
BY InitIInv, NextIInv, PTL DEF Spec

\* The table holds well-formed sessions whatever packets arrive.
THEOREM TypeCorrect == Spec => []TypeOK
<1>1. IInv => TypeOK
  BY DEF IInv, TypeOK
<1>2. QED
  BY <1>1, Invariance, PTL

\* find_session can stop at the first match: no two live sessions share an id.
THEOREM IdsAreDistinct == Spec => []IdsDistinct
<1>1. IInv => IdsDistinct
  BY DEF IInv
<1>2. QED
  BY <1>1, Invariance, PTL

\* HOST_REQ is idempotent: no endpoint ever has two open lobbies.
THEOREM HostingIsIdempotent == Spec => []OneLobbyPerHost
<1>1. IInv => OneLobbyPerHost
  BY DEF IInv
<1>2. QED
  BY <1>1, Invariance, PTL

\* Slots are handed out in order, to distinct endpoints, within the capacity.
THEOREM MembershipIsOrdered == Spec => []MembershipOrdered
<1>1. IInv => MembershipOrdered
  BY DEF IInv, EntryOK, MembershipOrdered, Live
<1>2. QED
  BY <1>1, Invariance, PTL

\* No verdict or route outlives the session that negotiated it.
THEOREM RoutesAreFresh == Spec => []NoStaleRoute
<1>1. IInv => NoStaleRoute
  BY DEF IInv, EntryOK, NoStaleRoute
<1>2. QED
  BY <1>1, Invariance, PTL

\* A running match has been acknowledged by each of its members.
THEOREM RunningIsUnanimous == Spec => []RunningMeansEveryone
<1>1. IInv => RunningMeansEveryone
  BY DEF IInv, EntryOK, RunningMeansEveryone
<1>2. QED
  BY <1>1, Invariance, PTL

\* Only the tick frees an entry.
LEMMA OnlyTickFrees ==
  ASSUME IInv, NEW s \in Live,
         AdvanceClock \/ \E from \in Endpoint : Receive(from)
  PROVE  sessions'[s].phase # "free"
<1> DEFINE r == sessions[s]
<1>1. s \in Index /\ EntryOK(r) /\ r \in Session /\ r.phase # "free"
  BY DEF Live, IInv, EntryOK
<1>2. \A q : \A t \in Index : Become(t, q) =>
          sessions'[s] = IF s = t THEN q ELSE r
  BY <1>1 DEF Become, IInv
<1>3. /\ Touch(r).phase = r.phase /\ Forwarded(r).phase = r.phase
      /\ Aged(r).phase = r.phase
      /\ \A i, e : Admitted(r, i, e).phase = r.phase
      /\ \A p : Begun(r, p).phase = "starting" /\ Restated(r, p).phase = r.phase
      /\ \A i : Acked(r, i).phase \in {"running", r.phase}
      /\ \A a, b, v : Reported(r, a, b, v).phase = r.phase
      /\ \A a, b, v : Judged(Reported(r, a, b, v), a, b).phase = r.phase
  BY <1>1 DEF Session, Touch, Forwarded, Aged, Admitted, Begun, Restated, Acked,
     Reported, Judged
<1>4. \A e, n, v, x : Opened(e, n, v, x).phase = "lobby"
  BY DEF Opened, Cleared
<1>5. CASE AdvanceClock
  BY <1>1, <1>3, <1>5 DEF AdvanceClock
<1>6. ASSUME NEW from \in Endpoint, Receive(from)
      PROVE  sessions'[s].phase # "free"
  <2>1. CASE \E n \in 0 .. MaxPlayers + 1, v \in Version : HostReq(from, n, v)
    <3>1. CASE HostAgain(from)
      BY <1>1, <1>2, <1>3, <3>1 DEF HostAgain
    <3>2. CASE HostRefused(from)
      BY <1>1, <3>2 DEF HostRefused
    <3>3. CASE \E n \in 0 .. MaxPlayers + 1, v \in Version : HostOpens(from, n, v)
      BY <1>1, <1>2, <1>4, <3>3 DEF HostOpens
    <3>4. QED
      BY <2>1, <3>1, <3>2, <3>3 DEF HostReq
  <2>2. CASE \E x \in SessionId, v \in Version : JoinReq(from, x, v)
    <3>1. CASE \E why : JoinRefused(from, why)
      BY <1>1, <3>1 DEF JoinRefused
    <3>2. CASE \E x \in SessionId : JoinAgain(from, x)
      BY <1>1, <1>2, <1>3, <3>2 DEF JoinAgain
    <3>3. CASE \E x \in SessionId, v \in Version : JoinAdmits(from, x, v)
      BY <1>1, <1>2, <1>3, <3>3 DEF JoinAdmits
    <3>4. QED
      BY <2>2, <3>1, <3>2, <3>3
      DEF JoinReq, JoinUnknown, JoinLate, JoinMismatch, JoinFull
  <2>3. CASE \E x \in SessionId, i, j \in Slot, v \in {"open", "shut"} :
                 PunchReport(from, x, i, j, v)
    <3>0. PICK x \in SessionId, i \in Slot, j \in Slot, v \in {"open", "shut"} :
              PunchReport(from, x, i, j, v)
      BY <2>3
    <3>1. PICK t \in Index :
              \/ Become(t, Reported(sessions[t], i, j, v))
              \/ Become(t, Judged(Reported(sessions[t], i, j, v), i, j))
      BY <3>0 DEF PunchReport, ReportOneSided, ReportAgain, ReportDecides
    <3>2. QED
      BY <1>1, <1>2, <1>3, <3>1
  <2>4. CASE \E p \in Params : Start(from, p)
    BY <1>1, <1>2, <1>3, <2>4 DEF Start, StartFirst, StartAgain
  <2>5. CASE \E x \in SessionId, i \in Slot : StartAck(from, x, i)
    BY <1>1, <1>2, <1>3, <2>5 DEF StartAck
  <2>6. CASE \E x \in SessionId : KeepAlive(from, x)
    BY <1>1, <1>2, <1>3, <2>6 DEF KeepAlive
  <2>7. CASE \E x \in SessionId, i, j \in Slot : Relay(from, x, i, j)
    BY <1>1, <1>2, <1>3, <2>7 DEF Relay
  <2>8. QED
    BY <1>6, <2>1, <2>2, <2>3, <2>4, <2>5, <2>6, <2>7 DEF Receive
<1>7. QED
  BY <1>5, <1>6

ReapedInTime ==
    \A s \in Index :
        Started(sessions[s]) /\ sessions'[s].phase = "free" =>
            /\ sessions[s].started > StartedExpiry
            /\ HasRelay(sessions[s]) => sessions[s].started > RelayExpiry

\* A started match is reclaimed only once it is older than its deadline, a
\* relayed one only once it is older than the relay deadline: negotiating the
\* route long before START does not count against it.
THEOREM MatchesAreNotReapedEarly == Spec => NotReapedEarly
<1>1. IInv /\ [Next]_vars => [ReapedInTime]_vars
  <2> SUFFICES ASSUME IInv, Next, NEW s \in Index, Started(sessions[s]),
                      sessions'[s].phase = "free"
               PROVE  /\ sessions[s].started > StartedExpiry
                      /\ HasRelay(sessions[s]) => sessions[s].started > RelayExpiry
    BY DEF ReapedInTime
  <2> DEFINE r == sessions[s]
  <2>1. s \in Live /\ EntryOK(r) /\ r \in Session
    BY DEF Started, Live, IInv, EntryOK
  <2>2. Tick
    BY <2>1, OnlyTickFrees DEF Next
  <2>3. Ticked(r).phase = "free"
    BY <2>2 DEF Tick
  <2>4. Expired(r)
    BY <2>1, <2>3 DEF Ticked, Started, Session
  <2>5. r.started \in Nat /\ r.silent \in Nat /\ r.silent <= r.started
    BY <2>1 DEF EntryOK, Session, StartedCap, RelayCap
  <2>6. QED
    BY <2>4, <2>5 DEF Expired, Started
<1>2. QED
  BY <1>1, Invariance, PTL DEF Spec, NotReapedEarly, ReapedInTime

-----------------------------------------------------------------------------
(* Deadlines come nearer.                                                  *)

\* From r to q no deadline moves away, but for what renews it: of a match that
\* is relayed a packet forwarded or one more route, of a lobby any packet.
Ages(r, q) ==
    /\ Started(r) => /\ r.started <= q.started
                     /\ \/ r.silent <= q.silent
                        \/ q = Forwarded(r) \/ q.route # r.route
    /\ r.phase = "lobby" /\ q.phase = "lobby" => q.idle = 0 \/ r.idle <= q.idle

\* Time has brought the deadlines of r nearer, those not yet past.
Matures(r, q) ==
    /\ r.started < StartedCap => q.started = r.started + 1
    /\ r.silent < RelayCap => q.silent = r.silent + 1
    /\ r.idle < IdleCap => q.idle = r.idle + 1

LEMMA AgesInUse ==
  ASSUME NEW r, EntryOK(r)
  PROVE  /\ Ages(r, r) /\ Ages(r, Touch(r)) /\ Ages(r, Forwarded(r))
         /\ Ages(r, Aged(r)) /\ Matures(r, Aged(r))
         /\ ~ Expired(r) => Ages(r, Ticked(r))
         /\ \A p : /\ r.phase = "lobby" => Ages(r, Begun(r, p))
                   /\ Ages(r, Restated(r, p))
         /\ \A i : Ages(r, Acked(r, i))
         /\ \A i, e : Ages(r, Admitted(r, i, e))
         /\ \A a, b \in Slot : \A v :
                /\ Ages(r, Reported(r, a, b, v))
                /\ r.route[a][b] = "unsent" => Ages(r, Judged(Reported(r, a, b, v), a, b))
<1>1. /\ r \in Session
      /\ r.idle \in Nat /\ r.started \in Nat /\ r.silent \in Nat
  BY DEF EntryOK, Session, IdleCap, StartedCap, RelayCap
<1>2. Ages(r, r) /\ Ages(r, Touch(r)) /\ Ages(r, Forwarded(r))
  BY <1>1 DEF Ages, Touch, Forwarded, Started, Session
<1>3. Ages(r, Aged(r)) /\ Matures(r, Aged(r))
  BY <1>1 DEF Ages, Matures, Aged, Older, Started, Session
<1>4. ~ Expired(r) => Ages(r, Ticked(r))
  BY <1>1 DEF Ages, Ticked, Started, Session
<1>5. ASSUME NEW p
      PROVE  /\ r.phase = "lobby" => Ages(r, Begun(r, p))
             /\ Ages(r, Restated(r, p))
  BY <1>1 DEF Ages, Begun, Restated, Started, Session
<1>6. ASSUME NEW i
      PROVE  Ages(r, Acked(r, i))
  <2>1. /\ Acked(r, i).started = r.started /\ Acked(r, i).silent = r.silent
        /\ Acked(r, i).idle = 0
    BY <1>1 DEF Acked, Session
  <2>2. QED
    BY <1>1, <2>1 DEF Ages
<1>7. ASSUME NEW i, NEW e
      PROVE  Ages(r, Admitted(r, i, e))
  BY <1>1 DEF Ages, Admitted, Started, Session
<1>8. ASSUME NEW a \in Slot, NEW b \in Slot, NEW v
      PROVE  /\ Ages(r, Reported(r, a, b, v))
             /\ r.route[a][b] = "unsent" => Ages(r, Judged(Reported(r, a, b, v), a, b))
  <2> DEFINE q == Reported(r, a, b, v)
             w == Judgement(q, a, b)
             d == Judged(q, a, b)
  <2>1. /\ q.started = r.started /\ q.silent = r.silent /\ q.idle = 0
        /\ q.route = r.route /\ DOMAIN q = DOMAIN r
    BY <1>1 DEF Reported, Session
  <2>2. w # "unsent"
    BY DEF Judgement
  <2>3. /\ d.started = q.started /\ d.idle = q.idle
        /\ d.route = [q.route EXCEPT ![a][b] = w, ![b][a] = w]
    BY <1>1, <2>1 DEF Judged, Session
  <2> HIDE DEF q, w, d
  <2>4. d.route[a][b] = w
    BY <1>1, <2>1, <2>3 DEF Session
  <2>5. Ages(r, q) /\ (r.route[a][b] = "unsent" => Ages(r, d))
    BY <1>1, <2>1, <2>2, <2>3, <2>4 DEF Ages
  <2>6. QED
    BY <2>5 DEF q, d
<1>9. QED
  BY <1>2, <1>3, <1>4, <1>5, <1>6, <1>7, <1>8

AllAge == \A s \in Live : sessions'[s].phase # "free" => Ages(sessions[s], sessions'[s])

\* One entry becomes q.
LEMMA AgesHere ==
  ASSUME IInv, NEW s \in Index, NEW q, Become(s, q), s \in Live => Ages(sessions[s], q)
  PROVE  AllAge
<1>1. \A t \in Index : sessions'[t] = IF t = s THEN q ELSE sessions[t]
  BY DEF Become, IInv
<1>2. \A t \in Live : t \in Index /\ Ages(sessions[t], sessions[t])
  BY AgesInUse DEF Live, IInv
<1>3. QED
  BY <1>1, <1>2 DEF AllAge

LEMMA ReceiveAges ==
  ASSUME IInv, NEW from \in Endpoint, Receive(from)
  PROVE  AllAge
<1>0. \A s \in Index : EntryOK(sessions[s])
  BY DEF IInv
<1>1. CASE UNCHANGED sessions
  BY <1>0, <1>1, AgesInUse DEF AllAge, Live
<1>2. CASE \E s \in Index : \/ Become(s, Touch(sessions[s]))
                            \/ Become(s, Forwarded(sessions[s]))
  BY <1>0, <1>2, AgesInUse, AgesHere
<1>3. CASE \E s \in Index \ Live : \E q : Become(s, q)
  BY <1>3, AgesHere
<1>4. CASE \E s \in Index : \E i, e : Become(s, Admitted(sessions[s], i, e))
  BY <1>0, <1>4, AgesInUse, AgesHere
<1>5. CASE \E s \in Index : \E a, b \in Slot : \E v :
               \/ Become(s, Reported(sessions[s], a, b, v))
               \/ /\ sessions[s].route[a][b] = "unsent"
                  /\ Become(s, Judged(Reported(sessions[s], a, b, v), a, b))
  BY <1>0, <1>5, AgesInUse, AgesHere
<1>6. CASE \E s \in Index : \E p :
               \/ sessions[s].phase = "lobby" /\ Become(s, Begun(sessions[s], p))
               \/ Become(s, Restated(sessions[s], p))
  BY <1>0, <1>6, AgesInUse, AgesHere
<1>7. CASE \E s \in Index : \E i : Become(s, Acked(sessions[s], i))
  BY <1>0, <1>7, AgesInUse, AgesHere
<1>8. ASSUME NEW n, NEW v, HostReq(from, n, v)
      PROVE  AllAge
  BY <1>1, <1>2, <1>3, <1>8 DEF HostReq, HostAgain, HostRefused, HostOpens, IsFirst
<1>9. ASSUME NEW x, NEW v, JoinReq(from, x, v)
      PROVE  AllAge
  BY <1>1, <1>2, <1>4, <1>9
  DEF JoinReq, JoinUnknown, JoinLate, JoinMismatch, JoinFull, JoinRefused, JoinAgain,
      JoinAdmits
<1>10. ASSUME NEW x, NEW a \in Slot, NEW b \in Slot, NEW v, PunchReport(from, x, a, b, v)
       PROVE  AllAge
  <2>1. \A s \in Index : Reported(sessions[s], a, b, v).route = sessions[s].route
    BY <1>0 DEF Reported, EntryOK, Session
  <2>2. QED
    BY <1>5, <1>10, <2>1 DEF PunchReport, ReportOneSided, ReportAgain, ReportDecides
<1>11. ASSUME NEW p, Start(from, p)
       PROVE  AllAge
  BY <1>6, <1>11 DEF Start, StartFirst, StartAgain
<1>12. ASSUME NEW x, NEW i, StartAck(from, x, i)
       PROVE  AllAge
  BY <1>2, <1>7, <1>12 DEF StartAck
<1>13. ASSUME NEW x, NEW i, NEW j, KeepAlive(from, x) \/ Relay(from, x, i, j)
       PROVE  AllAge
  BY <1>2, <1>13 DEF KeepAlive, Relay
<1>14. QED
  BY <1>8, <1>9, <1>10, <1>11, <1>12, <1>13 DEF Receive

\* The deadline of an entry comes (rv_tick, rendezvous.c): no retry of START,
\* acknowledgement, report or keepalive makes a match younger, and nothing but
\* a packet forwarded or a pair's route ends the silence of its relay; time brings the deadline nearer; and the first tick after it, none
\* before, gives the entry back.
THEOREM DeadlinesCome ==
  Spec => [][\A s \in Live :
                 /\ sessions'[s].phase # "free" => Ages(sessions[s], sessions'[s])
                 /\ AdvanceClock => Matures(sessions[s], sessions'[s])
                 /\ sessions'[s].phase = "free" => Expired(sessions[s])
                 /\ Tick /\ Expired(sessions[s]) => sessions'[s].phase = "free"]_vars
<1> DEFINE Comes ==
      \A s \in Live :
          /\ sessions'[s].phase # "free" => Ages(sessions[s], sessions'[s])
          /\ AdvanceClock => Matures(sessions[s], sessions'[s])
          /\ sessions'[s].phase = "free" => Expired(sessions[s])
          /\ Tick /\ Expired(sessions[s]) => sessions'[s].phase = "free"
<1>1. IInv /\ Next => Comes
  <2> SUFFICES ASSUME IInv, Next PROVE Comes
    OBVIOUS
  <2>1. \A s \in Live : s \in Index /\ EntryOK(sessions[s]) /\ sessions[s].phase # "free"
    BY DEF Live, IInv
  <2>2. AdvanceClock => \A s \in Live : sessions'[s] = Aged(sessions[s])
    BY <2>1 DEF AdvanceClock
  <2>3. Tick => \A s \in Live : sessions'[s] = Ticked(sessions[s])
    BY <2>1 DEF Tick
  <2>4. \A s \in Live : /\ Expired(sessions[s]) => Ticked(sessions[s]).phase = "free"
                        /\ ~ Expired(sessions[s]) => Ticked(sessions[s]).phase # "free"
    <3> TAKE s \in Live
    <3>1. Expired(sessions[s]) => Ticked(sessions[s]).phase = "free"
      BY DEF Ticked, Cleared
    <3>2. ~ Expired(sessions[s]) => Ticked(sessions[s]).phase # "free"
      BY <2>1 DEF Ticked, EntryOK, Session
    <3>3. QED
      BY <3>1, <3>2
  <2>5. AllAge
    <3>1. CASE AdvanceClock
      BY <2>1, <2>2, <3>1, AgesInUse DEF AllAge
    <3>2. CASE Tick
      BY <2>1, <2>3, <2>4, <3>2, AgesInUse DEF AllAge
    <3>3. QED
      BY <3>1, <3>2, ReceiveAges DEF Next
  <2>6. AdvanceClock => \A s \in Live : Matures(sessions[s], sessions'[s])
    BY <2>1, <2>2, AgesInUse
  <2>7. \A s \in Live : sessions'[s].phase = "free" => Expired(sessions[s])
    BY <2>3, <2>4, OnlyTickFrees DEF Next
  <2>8. QED
    BY <2>3, <2>4, <2>5, <2>6, <2>7 DEF AllAge
<1>2. QED
  BY <1>1, Invariance, PTL DEF Spec

-----------------------------------------------------------------------------
(* What a step may not undo, and to whom START may go.                     *)

LEMMA KeptAlone ==
  ASSUME NEW r, NEW q, q.id = r.id, q.member = r.member, q.route = r.route,
         Started(r) => Started(q)
  PROVE  Kept(r, q)
BY DEF Kept

LEMMA KeptReported ==
  ASSUME NEW r, EntryOK(r), NEW a \in Slot, NEW b \in Slot, NEW v
  PROVE  /\ Kept(r, Reported(r, a, b, v))
         /\ r.route[a][b] = "unsent" => Kept(r, Judged(Reported(r, a, b, v), a, b))
<1> DEFINE q == Reported(r, a, b, v)
           w == Judgement(q, a, b)
           d == Judged(q, a, b)
<1>1. /\ q.id = r.id /\ q.member = r.member /\ q.route = r.route /\ q.phase = r.phase
      /\ DOMAIN q = DOMAIN r
  BY DEF Reported, EntryOK, Session
<1>2. /\ d.id = r.id /\ d.member = r.member /\ d.phase = r.phase
      /\ d.route = [r.route EXCEPT ![a][b] = w, ![b][a] = w]
  BY DEF Judged, Reported, EntryOK, Session
<1> HIDE DEF q, w, d
<1>3. \A i, j \in Slot : d.route[i][j] =
          IF (i = a /\ j = b) \/ (i = b /\ j = a) THEN w ELSE r.route[i][j]
  BY <1>2 DEF EntryOK, Session
<1>4. r.route[b][a] = r.route[a][b]
  BY DEF EntryOK, RoutesNegotiated
<1>5. r.route[a][b] = "unsent" => Kept(r, d)
  BY <1>2, <1>3, <1>4 DEF Kept, Started
<1>6. Kept(r, q)
  BY <1>1, KeptAlone DEF Started
<1>7. QED
  BY <1>5, <1>6 DEF q, d

\* The other operations on an entry in use.
LEMMA KeptOtherwise ==
  ASSUME NEW r, EntryOK(r), r.phase # "free"
  PROVE  /\ Kept(r, Touch(r)) /\ Kept(r, Forwarded(r)) /\ Kept(r, Aged(r))
         /\ ~ Expired(r) => Kept(r, Ticked(r))
         /\ \A p : /\ r.phase = "lobby" => Kept(r, Begun(r, p))
                   /\ Kept(r, Restated(r, p))
         /\ \A i : r.phase = "starting" => Kept(r, Acked(r, i))
<1>1. r \in Session
  BY DEF EntryOK
<1>2. Kept(r, Touch(r)) /\ Kept(r, Forwarded(r)) /\ Kept(r, Aged(r))
  BY <1>1 DEF Touch, Forwarded, Aged, Kept, Started, Session
<1>3. ~ Expired(r) => Kept(r, Ticked(r))
  BY <1>1 DEF Ticked, Kept, Started, Session
<1>4. ASSUME NEW p
      PROVE  /\ r.phase = "lobby" => Kept(r, Begun(r, p))
             /\ Kept(r, Restated(r, p))
  BY <1>1 DEF Begun, Restated, Kept, Started, Session
<1>5. ASSUME NEW i, r.phase = "starting"
      PROVE  Kept(r, Acked(r, i))
  <2>1. /\ Acked(r, i).id = r.id /\ Acked(r, i).member = r.member
        /\ Acked(r, i).route = r.route
        /\ Acked(r, i).phase \in {"starting", "running"}
    BY <1>1, <1>5 DEF Acked, Session
  <2>2. QED
    BY <2>1, KeptAlone DEF Started
<1>6. QED
  BY <1>2, <1>3, <1>4, <1>5

LEMMA KeptAdmitted ==
  ASSUME NEW r, EntryOK(r), r.phase = "lobby", NEW i \in Slot, i # 0, NEW e
  PROVE  Kept(r, Admitted(r, i, e))
<1>1. r \in Session /\ 0 \in Slot
  BY DEF EntryOK, Slot
<1>2. QED
  BY <1>1 DEF Admitted, Kept, Started, Session

KeptAll ==
    \A s \in Index : s \in Live /\ s \in Live' => Kept(sessions[s], sessions[s]')

\* One entry becomes q.
LEMMA KeptHere ==
  ASSUME IInv, NEW s \in Index, NEW q, Become(s, q), s \in Live => Kept(sessions[s], q)
  PROVE  KeptAll
<1>1. \A t \in Index : sessions'[t] = IF t = s THEN q ELSE sessions[t]
  BY DEF Become, IInv
<1>2. \A r : Kept(r, r)
  BY DEF Kept
<1>3. QED
  BY <1>1, <1>2 DEF KeptAll

LEMMA KeptSame ==
  ASSUME UNCHANGED sessions
  PROVE  KeptAll
BY DEF KeptAll, Kept

LEMMA ReceiveKeeps ==
  ASSUME IInv, NEW from \in Endpoint, Receive(from)
  PROVE  KeptAll
<1>0. \A s \in Live : s \in Index /\ EntryOK(sessions[s]) /\ sessions[s].phase # "free"
  BY DEF Live, IInv
<1>1. CASE \E n \in 0 .. MaxPlayers + 1, v \in Version : HostReq(from, n, v)
  <2>1. CASE HostAgain(from)
    <3>1. PICK s \in Index : Become(s, Touch(sessions[s]))
      BY <2>1 DEF HostAgain
    <3>2. QED
      BY <1>0, <3>1, KeptHere, KeptOtherwise
  <2>2. CASE HostRefused(from)
    BY <2>2, KeptSame DEF HostRefused
  <2>3. CASE \E n \in 0 .. MaxPlayers + 1, v \in Version : HostOpens(from, n, v)
    <3>1. PICK s \in Index \ Live : \E q : Become(s, q)
      BY <2>3 DEF HostOpens, IsFirst
    <3>2. QED
      BY <3>1, KeptHere
  <2>4. QED
    BY <1>1, <2>1, <2>2, <2>3 DEF HostReq
<1>2. CASE \E x \in SessionId, v \in Version : JoinReq(from, x, v)
  <2>1. CASE \E why : JoinRefused(from, why)
    BY <2>1, KeptSame DEF JoinRefused
  <2>2. CASE \E x \in SessionId : JoinAgain(from, x)
    <3>1. PICK s \in Index : Become(s, Touch(sessions[s]))
      BY <2>2 DEF JoinAgain
    <3>2. QED
      BY <1>0, <3>1, KeptHere, KeptOtherwise
  <2>3. CASE \E x \in SessionId, v \in Version : JoinAdmits(from, x, v)
    <3>1. PICK x \in SessionId, s \in Index, i \in Slot :
              /\ OpenLobby(s, x)
              /\ ~ IsMember(sessions[s], from)
              /\ ~ Full(sessions[s])
              /\ IsFirst(i, Slot \ Used(sessions[s]))
              /\ Become(s, Admitted(sessions[s], i, from))
      BY <2>3 DEF JoinAdmits
    <3>2. s \in Live /\ sessions[s].phase = "lobby" /\ EntryOK(sessions[s])
      BY <3>1, FoundLive DEF OpenLobby
    <3>3. i # 0
      BY <3>1, <3>2, AdmittedOK
    <3>4. QED
      BY <3>1, <3>2, <3>3, KeptAdmitted, KeptHere
  <2>4. QED
    BY <1>2, <2>1, <2>2, <2>3
    DEF JoinReq, JoinUnknown, JoinLate, JoinMismatch, JoinFull
<1>3. CASE \E x \in SessionId, i, j \in Slot, v \in {"open", "shut"} :
               PunchReport(from, x, i, j, v)
  <2>1. PICK x \in SessionId, a \in Slot, b \in Slot, v \in {"open", "shut"} :
            PunchReport(from, x, a, b, v)
    BY <1>3
  <2>2. PICK s \in Index :
            \/ Become(s, Reported(sessions[s], a, b, v))
            \/ /\ Reported(sessions[s], a, b, v).route[a][b] = "unsent"
               /\ Become(s, Judged(Reported(sessions[s], a, b, v), a, b))
    BY <2>1 DEF PunchReport, ReportOneSided, ReportAgain, ReportDecides
  <2>3. EntryOK(sessions[s])
    BY DEF IInv
  <2>4. Reported(sessions[s], a, b, v).route = sessions[s].route
    BY <2>3 DEF Reported, EntryOK, Session
  <2>5. QED
    BY <2>2, <2>3, <2>4, KeptReported, KeptHere
<1>4. CASE \E p \in Params : Start(from, p)
  <2>1. PICK p \in Params, s \in Index :
            \/ sessions[s].phase = "lobby" /\ Become(s, Begun(sessions[s], p))
            \/ Become(s, Restated(sessions[s], p))
    BY <1>4 DEF Start, StartFirst, StartAgain
  <2>2. QED
    BY <1>0, <2>1, KeptOtherwise, KeptHere
<1>5. CASE \E x \in SessionId, i \in Slot : StartAck(from, x, i)
  <2>1. PICK i \in Slot, s \in Index :
            Become(s, IF sessions[s].phase = "starting"
                      THEN Acked(sessions[s], i) ELSE Touch(sessions[s]))
    BY <1>5 DEF StartAck
  <2>2. QED
    BY <1>0, <2>1, KeptOtherwise, KeptHere
<1>6. CASE \E x \in SessionId : KeepAlive(from, x)
  <2>1. PICK s \in Index : Become(s, Touch(sessions[s]))
    BY <1>6 DEF KeepAlive
  <2>2. QED
    BY <1>0, <2>1, KeptOtherwise, KeptHere
<1>7. CASE \E x \in SessionId, i, j \in Slot : Relay(from, x, i, j)
  <2>1. PICK s \in Index : Become(s, Forwarded(sessions[s]))
    BY <1>7 DEF Relay
  <2>2. QED
    BY <1>0, <2>1, KeptOtherwise, KeptHere
<1>8. QED
  BY <1>1, <1>2, <1>3, <1>4, <1>5, <1>6, <1>7 DEF Receive

LEMMA SweepKeeps ==
  ASSUME IInv, Tick \/ AdvanceClock
  PROVE  KeptAll
<1> SUFFICES ASSUME NEW s \in Index, s \in Live, s \in Live'
             PROVE  Kept(sessions[s], sessions'[s])
  BY DEF KeptAll
<1>1. EntryOK(sessions[s]) /\ sessions[s].phase # "free" /\ sessions'[s].phase # "free"
  BY DEF Live, IInv
<1>2. CASE AdvanceClock
  BY <1>1, <1>2, KeptOtherwise DEF AdvanceClock
<1>3. CASE Tick
  <2>1. sessions'[s] = Ticked(sessions[s])
    BY <1>3 DEF Tick
  <2>2. ~ Expired(sessions[s])
    BY <1>1, <2>1 DEF Ticked, Cleared
  <2>3. QED
    BY <1>1, <2>1, <2>2, KeptOtherwise
<1>4. QED
  BY <1>2, <1>3

\* While an entry keeps its session the host and the routes stay, and from
\* START on the members (do_punch_report, do_join_req, do_start, rv_tick).
THEOREM DecisionsAreKept == Spec => DecisionsKept
<1>1. IInv /\ [Next]_vars => [KeptAll]_vars
  BY ReceiveKeeps, SweepKeeps DEF Next
<1>2. QED
  BY <1>1, Invariance, PTL DEF Spec, DecisionsKept, KeptAll

\* What a step sends: STARTs go to members that have not acknowledged.
OwedOnly(out) ==
    \A m \in out : m.type = "START" =>
        \E s \in Live, i \in Slot : /\ sessions[s].member[i] = m.to
                                    /\ i \notin sessions[s].acked

\* A network invents no START.
Honest == \A in, out : \A m \in Pool(in, out) : m.type = "START" => m \in in \cup out

LEMMA StartsOwed ==
  ASSUME IInv, NEW s \in Live, NEW q, NEW S,
         q.member = sessions[s].member,
         S \subseteq Slot, S \cap sessions[s].acked = {}
  PROVE  OwedOnly(Starts(q, S))
BY DEF OwedOnly, Starts, StartPkt

LEMMA NoStart ==
  ASSUME NEW out, \A m \in out : m.type # "START"
  PROVE  OwedOnly(out)
BY DEF OwedOnly

\* The handlers but do_start send no START.
LEMMA Startless ==
  ASSUME NEW from \in Endpoint, Receive(from), \A p \in Params : ~ Start(from, p)
  PROVE  \E out : Send(out) /\ \A m \in out : m.type # "START"
<1>0. /\ \A r, i : \A m \in IntrosTo(r, i) : m.type # "START"
      /\ \A r, i : \A m \in MutualIntros(r, i) : m.type # "START"
      /\ \A r, i, j : \A m \in RouteToAll(r, i, j) : m.type # "START"
      /\ \A to, x : HostResp(to, x).type # "START" /\ Reject(to, x).type # "START"
      /\ \A to, i, n : JoinResp(to, i, n).type # "START"
      /\ \A to, i, j, v : PairRoute(to, i, j, v).type # "START"
      /\ \A to, x, i, j : Relayed(to, x, i, j).type # "START"
  BY DEF IntrosTo, MutualIntros, RouteToAll, PeerIntro, HostResp, Reject, JoinResp,
     PairRoute, Relayed
<1>1. ASSUME NEW n, NEW v, HostReq(from, n, v)
      PROVE  \E out : Send(out) /\ \A m \in out : m.type # "START"
  <2>1. CASE HostAgain(from)
    <3>1. PICK s : Send({HostResp(from, sessions[s].id)} \cup IntrosTo(sessions[s], 0))
      BY <2>1 DEF HostAgain
    <3>2. QED
      BY <1>0, <3>1
  <2>2. CASE HostRefused(from)
    BY <1>0, <2>2 DEF HostRefused
  <2>3. CASE HostOpens(from, n, v)
    BY <1>0, <2>3 DEF HostOpens
  <2>4. QED
    BY <1>1, <2>1, <2>2, <2>3 DEF HostReq
<1>2. ASSUME NEW x, NEW v, JoinReq(from, x, v)
      PROVE  \E out : Send(out) /\ \A m \in out : m.type # "START"
  <2>1. CASE \E why : JoinRefused(from, why)
    BY <1>0, <2>1 DEF JoinRefused
  <2>2. CASE JoinAgain(from, x)
    <3>1. PICK s, i : Send({JoinResp(from, i, sessions[s].players)}
                               \cup IntrosTo(sessions[s], i))
      BY <2>2 DEF JoinAgain
    <3>2. QED
      BY <1>0, <3>1
  <2>3. CASE JoinAdmits(from, x, v)
    <3>1. PICK s, i :
            Send({JoinResp(from, i, sessions[s].players)}
                     \cup MutualIntros(Admitted(sessions[s], i, from), i))
      BY <2>3 DEF JoinAdmits
    <3>2. QED
      BY <1>0, <3>1
  <2>4. QED
    BY <1>2, <2>1, <2>2, <2>3
    DEF JoinReq, JoinUnknown, JoinLate, JoinMismatch, JoinFull
<1>3. ASSUME NEW x, NEW a, NEW b, NEW v, PunchReport(from, x, a, b, v)
      PROVE  \E out : Send(out) /\ \A m \in out : m.type # "START"
  <2>1. CASE ReportOneSided(from, x, a, b, v)
    BY <2>1 DEF ReportOneSided
  <2>2. CASE ReportAgain(from, x, a, b, v)
    BY <1>0, <2>2 DEF ReportAgain
  <2>3. CASE ReportDecides(from, x, a, b, v)
    BY <1>0, <2>3 DEF ReportDecides
  <2>4. QED
    BY <1>3, <2>1, <2>2, <2>3 DEF PunchReport
<1>4. ASSUME NEW x, NEW i, StartAck(from, x, i)
      PROVE  \E out : Send(out) /\ \A m \in out : m.type # "START"
  BY <1>4 DEF StartAck
<1>5. ASSUME NEW x, KeepAlive(from, x)
      PROVE  \E out : Send(out) /\ \A m \in out : m.type # "START"
  BY <1>5 DEF KeepAlive
<1>6. ASSUME NEW x, NEW i, NEW j, Relay(from, x, i, j)
      PROVE  \E out : Send(out) /\ \A m \in out : m.type # "START"
  BY <1>0, <1>6 DEF Relay
<1>7. QED
  BY <1>1, <1>2, <1>3, <1>4, <1>5, <1>6 DEF Receive

LEMMA SendsOwed ==
  ASSUME IInv, Next
  PROVE  \E out : Send(out) /\ OwedOnly(out)
<1>0. \A s \in Index : sessions[s].phase # "free" =>
          /\ s \in Live /\ EntryOK(sessions[s])
          /\ sessions[s].phase = "lobby" => sessions[s].acked = {}
  BY DEF Live, IInv, EntryOK
<1>1. ASSUME NEW from \in Endpoint, NEW p \in Params, Start(from, p)
      PROVE  \E out : Send(out) /\ OwedOnly(out)
  <2>1. CASE StartFirst(from, p)
    <3>1. PICK s \in Index :
             /\ sessions[s].phase = "lobby"
             /\ Send(Starts(Begun(sessions[s], p), Used(Begun(sessions[s], p))))
      BY <2>1 DEF StartFirst
    <3>2. Begun(sessions[s], p).member = sessions[s].member
      BY <1>0, <3>1 DEF Begun, EntryOK, Session
    <3>3. Used(Begun(sessions[s], p)) \subseteq Slot
      BY DEF Used
    <3>4. OwedOnly(Starts(Begun(sessions[s], p), Used(Begun(sessions[s], p))))
      BY <1>0, <3>1, <3>2, <3>3, StartsOwed
    <3>5. QED
      BY <3>1, <3>4
  <2>2. CASE StartAgain(from, p)
    <3>1. PICK s \in Index :
             /\ sessions[s].phase = "starting"
             /\ Send(Starts(Restated(sessions[s], p), Owing(Restated(sessions[s], p))))
      BY <2>2 DEF StartAgain
    <3> DEFINE q == Restated(sessions[s], p)
    <3>2. q.member = sessions[s].member /\ q.acked = sessions[s].acked
      BY <1>0, <3>1 DEF Restated, EntryOK, Session
    <3>3. Owing(q) \subseteq Slot /\ Owing(q) \cap sessions[s].acked = {}
      BY <3>2 DEF Owing, Used
    <3> HIDE DEF q
    <3>4. OwedOnly(Starts(q, Owing(q)))
      BY <1>0, <3>1, <3>2, <3>3, StartsOwed
    <3>5. QED
      BY <3>1, <3>4 DEF q
  <2>3. QED
    BY <1>1, <2>1, <2>2 DEF Start
<1>2. CASE Tick
  <2>1. ASSUME NEW s \in Index, RefanDue(sessions[s])
        PROVE  OwedOnly(Starts(sessions[s], Owing(sessions[s])))
    <3>1. s \in Live
      BY <1>0, <2>1 DEF RefanDue
    <3>2. Owing(sessions[s]) \subseteq Slot
          /\ Owing(sessions[s]) \cap sessions[s].acked = {}
      BY DEF Owing, Used
    <3>3. QED
      BY <3>1, <3>2, StartsOwed
  <2> DEFINE out == UNION {Starts(sessions[s], Owing(sessions[s])) :
                              s \in {t \in Index : RefanDue(sessions[t])}}
  <2>2. OwedOnly(out)
    BY <2>1 DEF OwedOnly
  <2>3. Send(out)
    BY <1>2 DEF Tick
  <2> HIDE DEF out
  <2>4. QED
    BY <2>2, <2>3
<1>3. CASE AdvanceClock
  <2>1. Send({}) /\ OwedOnly({})
    BY <1>3, NoStart DEF AdvanceClock
  <2>2. QED
    BY <2>1
<1>4. ASSUME NEW from \in Endpoint, Receive(from), \A p \in Params : ~ Start(from, p)
      PROVE  \E out : Send(out) /\ OwedOnly(out)
  BY <1>4, Startless, NoStart
<1>5. QED
  BY <1>1, <1>2, <1>3, <1>4 DEF Next

OwedAll ==
    \A m \in net' \ net :
        m.type = "START" =>
            \E s \in Live, i \in Slot : /\ sessions[s].member[i] = m.to
                                        /\ i \notin sessions[s].acked

\* Provided the network invents no START, neither a retry of the host nor the
\* tick sends one to a member that has acknowledged (do_start, rv_tick).
THEOREM StartsAreOwed ==
  ASSUME Honest
  PROVE  Spec => StartOnlyToUnacked
<1>1. IInv /\ [Next]_vars => [OwedAll]_vars
  <2> SUFFICES ASSUME IInv, Next, NEW m \in net' \ net, m.type = "START"
               PROVE  \E s \in Live, i \in Slot : /\ sessions[s].member[i] = m.to
                                                  /\ i \notin sessions[s].acked
    BY DEF OwedAll
  <2>1. PICK out : Send(out) /\ OwedOnly(out)
    BY SendsOwed
  <2>2. m \in out
    BY <2>1 DEF Honest, Send
  <2>3. QED
    BY <2>1, <2>2 DEF OwedOnly
<1>2. QED
  BY <1>1, Invariance, PTL DEF Spec, StartOnlyToUnacked, OwedAll

=============================================================================
