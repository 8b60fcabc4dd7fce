----------------------------- MODULE Rendezvous -----------------------------
(***************************************************************************)
(* The rendezvous and relay server (src/lobby/rendezvous.c): a table of    *)
(* sessions, one handler per client packet, and a periodic tick that       *)
(* retransmits START and reclaims table entries.                           *)
(*                                                                         *)
(* The server is a function of (state, time, one packet), so one action is *)
(* one whole call of rv_handle or rv_tick.  Its clients are an open        *)
(* environment: any packet may come from any endpoint at any moment, which *)
(* covers lost, duplicated, delayed and reordered packets as well.  A      *)
(* packet that a handler, or the rate limiter, drops in silence is no step.*)
(*                                                                         *)
(* A time stamp of the code is modelled by its age, now - stamp, counted   *)
(* up to the first value past the deadline it is compared with: all larger *)
(* ages behave alike.  The zero stamp of a cleared entry is such an age.   *)
(***************************************************************************)
EXTENDS Integers

CONSTANTS
    NumSessions,    \* table entries (RV_MAX_SESSIONS)
    MaxPlayers,     \* slots of a session (RV_MAX_PLAYERS)
    Endpoint,       \* UDP source addresses, the only identity a peer has
    SessionId,      \* the non-zero session ids
    Version,        \* values of net_version
    Params,         \* contents of a START: seed, arena, players, input delay
    LobbyExpiry,    \* deadlines in abstract time units: RV_LOBBY_EXPIRY_MS,
    StartedExpiry,  \* RV_STARTED_EXPIRY_MS,
    RelayExpiry,    \* RV_RELAY_EXPIRY_MS
    RefanPeriod,    \* and RV_START_REFAN_MS
    Nobody,         \* an unused slot (used = 0)
    Unset,          \* the zero id, version or START of a cleared entry
    Pool(_, _)      \* Pool(net, out): the network once out has been sent

ASSUME SizeAssumption ==
    /\ NumSessions \in Nat \ {0}
    /\ MaxPlayers \in Nat \ {0, 1}
ASSUME DeadlineAssumption ==
    /\ LobbyExpiry \in Nat
    /\ StartedExpiry \in Nat
    /\ RelayExpiry \in Nat
    /\ RefanPeriod \in Nat
    /\ StartedExpiry <= RelayExpiry
ASSUME SentinelAssumption ==
    /\ Nobody \notin Endpoint
    /\ Unset \notin SessionId /\ Unset \notin Version /\ Unset \notin Params

VARIABLES
    sessions,   \* the table: sessions[s] is an RvSession
    net         \* packets the server has handed to its socket

vars == <<sessions, net>>

Index == 0 .. NumSessions - 1
Slot  == 0 .. MaxPlayers - 1

Phase   == {"free", "lobby", "starting", "running"}
Verdict == {"unseen", "open", "shut"}       \* punch[a][b]: -1, 1, 0
Route   == {"unsent", "direct", "relay"}    \* route_sent and route

\* The largest age each clock needs to tell apart.
IdleCap    == LobbyExpiry + 1
StartedCap == RelayExpiry + 1
RelayCap   == RelayExpiry + 1
RefanCap   == RefanPeriod

Session ==
    [ phase   : Phase,
      id      : SessionId \cup {Unset},
      players : 0 .. MaxPlayers,
      joined  : Nat,
      version : Version \cup {Unset},
      member  : [Slot -> Endpoint \cup {Nobody}],
      acked   : SUBSET Slot,
      punch   : [Slot -> [Slot -> Verdict]],
      route   : [Slot -> [Slot -> Route]],
      start   : Params \cup {Unset},
      idle    : 0 .. IdleCap,       \* age of last_activity_ms
      started : 0 .. StartedCap,    \* age of started_ms
      refan   : 0 .. RefanCap,      \* age of last_refan_ms
      silent  : 0 .. RelayCap ]     \* age of last_relay_ms

-----------------------------------------------------------------------------
(* Packets the server sends.                                               *)

HostResp(to, x)        == [to |-> to, type |-> "HOST_RESP", id |-> x]
JoinResp(to, i, n)     == [to |-> to, type |-> "JOIN_RESP", slot |-> i,
                           players |-> n]
Reject(to, why)        == [to |-> to, type |-> "REJECT", reason |-> why]
PeerIntro(to, i, peer) == [to |-> to, type |-> "PEER_INTRO", slot |-> i,
                           peer |-> peer]
PairRoute(to, i, j, v) == [to |-> to, type |-> "PAIR_ROUTE", pair |-> {i, j},
                           route |-> v]
StartPkt(to, p)        == [to |-> to, type |-> "START", params |-> p]
Relayed(to, x, i, j)   == [to |-> to, type |-> "RELAY", id |-> x, from |-> i,
                           slot |-> j]

Send(out) == net' = Pool(net, out)

-----------------------------------------------------------------------------
(* Reading the table.                                                      *)

IsFirst(k, S) == k \in S /\ \A l \in S : k <= l

Used(r) == {i \in Slot : r.member[i] # Nobody}

Live == {s \in Index : sessions[s].phase # "free"}

\* find_session
Found(s, x) == IsFirst(s, {t \in Live : sessions[t].id = x})

\* peer_of
IsPeer(r, i, from) == IsFirst(i, {j \in Slot : r.member[j] = from})

\* The sessions whose slot 0 is this endpoint.
Hosted(from) == {s \in Live : sessions[s].member[0] = from}

HasRelay(r) == \E i, j \in Slot : r.route[i][j] = "relay"

-----------------------------------------------------------------------------
(* Fan-out.                                                                *)

\* resend_intros_to: every other member, introduced to who alone.
IntrosTo(r, who) ==
    {PeerIntro(r.member[who], i, r.member[i]) : i \in Used(r) \ {who}}

\* fan_peer_intro: the newcomer and each incumbent, introduced to each other.
MutualIntros(r, new) ==
    IntrosTo(r, new) \cup
    {PeerIntro(r.member[i], new, r.member[new]) : i \in Used(r) \ {new}}

\* fan_start, to the members in S.
Starts(r, S) == {StartPkt(r.member[i], r.start) : i \in S}

RouteToAll(r, i, j) ==
    {PairRoute(r.member[k], i, j, r.route[i][j]) : k \in Used(r)}

-----------------------------------------------------------------------------
(* session_clear: an entry that remembers nothing of its last session.     *)

\* Mutant of Cleared: all bytes zero, punch included, where 0 says "shut".
ClearedToZero ==
    [ phase |-> "free", id |-> Unset, players |-> 0, joined |-> 0,
      version |-> Unset, member |-> [i \in Slot |-> Nobody], acked |-> {},
      punch |-> [i \in Slot |-> [j \in Slot |-> "shut"]],
      route |-> [i \in Slot |-> [j \in Slot |-> "unsent"]],
      start |-> Unset, idle |-> IdleCap, started |-> StartedCap,
      refan |-> RefanCap, silent |-> RelayCap ]

Cleared ==
    [ phase |-> "free", id |-> Unset, players |-> 0, joined |-> 0,
      version |-> Unset, member |-> [i \in Slot |-> Nobody], acked |-> {},
      punch |-> [i \in Slot |-> [j \in Slot |-> "unseen"]],
      route |-> [i \in Slot |-> [j \in Slot |-> "unsent"]],
      start |-> Unset, idle |-> IdleCap, started |-> StartedCap,
      refan |-> RefanCap, silent |-> RelayCap ]

Init ==
    /\ sessions = [s \in Index |-> Cleared]
    /\ net = Pool({}, {})

Become(s, r) == sessions' = [sessions EXCEPT ![s] = r]

Touch(r) == [r EXCEPT !.idle = 0]

-----------------------------------------------------------------------------
(* do_host_req                                                             *)

\* A repeat from the host of an open lobby gets the same id again, and every
\* introduction it may have lost.
HostAgain(from) ==
    \E s \in Index :
        /\ IsFirst(s, {t \in Hosted(from) : sessions[t].phase = "lobby"})
        /\ Become(s, Touch(sessions[s]))
        /\ Send({HostResp(from, sessions[s].id)} \cup IntrosTo(sessions[s], 0))

\* Mutant of HostsNoLobby: a retry is recognised only until someone has joined.
HostsNoEmptyLobby(from) ==
    \A t \in Hosted(from) : sessions[t].phase # "lobby" \/ sessions[t].joined > 1

HostsNoLobby(from) == \A t \in Hosted(from) : sessions[t].phase # "lobby"

\* Mutant of FreshIds: the candidate id is not looked up in the table.
AnyId == SessionId

FreshIds == {x \in SessionId : \A t \in Live : sessions[t].id # x}

HostRefused(from) ==
    /\ HostsNoLobby(from)
    /\ Live = Index \/ FreshIds = {}
    /\ Send({Reject(from, "FULL")})
    /\ UNCHANGED sessions

\* Mutant of Clamp: no upper bound.
ClampLow(n) == IF n < 2 THEN 2 ELSE n

Clamp(n) == IF n < 2 THEN 2 ELSE IF n > MaxPlayers THEN MaxPlayers ELSE n

Opened(from, n, v, x) ==
    [Cleared EXCEPT !.phase = "lobby", !.id = x, !.players = Clamp(n),
                    !.version = v, !.member[0] = from, !.joined = 1,
                    !.idle = 0]

HostOpens(from, n, v) ==
    /\ HostsNoLobby(from)
    /\ \E s \in Index, x \in FreshIds :
        /\ IsFirst(s, Index \ Live)
        /\ Become(s, Opened(from, n, v, x))
        /\ Send({HostResp(from, x)})

HostReq(from, n, v) ==
    HostAgain(from) \/ HostRefused(from) \/ HostOpens(from, n, v)

-----------------------------------------------------------------------------
(* do_join_req                                                             *)

JoinRefused(from, why) ==
    /\ Send({Reject(from, why)})
    /\ UNCHANGED sessions

JoinUnknown(from, x) ==
    /\ \A t \in Live : sessions[t].id # x
    /\ JoinRefused(from, "BAD_SESSION")

\* Mutant of OpenLobby: the phase is not looked at.
AnySession(s, x) == Found(s, x)

\* The session s of a JOIN_REQ that still is a lobby.
OpenLobby(s, x) == Found(s, x) /\ sessions[s].phase = "lobby"

JoinLate(from, x) ==
    /\ \E s \in Index : Found(s, x) /\ sessions[s].phase # "lobby"
    /\ JoinRefused(from, "EXPIRED")

JoinAgain(from, x) ==
    \E s \in Index, i \in Slot :
        LET r == sessions[s] IN
        /\ OpenLobby(s, x)
        /\ IsPeer(r, i, from)
        /\ Become(s, Touch(r))
        /\ Send({JoinResp(from, i, r.players)} \cup IntrosTo(r, i))

\* Mutant of IsMember: the host's own slot is skipped.
IsGuest(r, from) == \E i \in Slot \ {0} : r.member[i] = from

IsMember(r, from) == \E i \in Slot : r.member[i] = from

\* The version is compared before the capacity.
JoinMismatch(from, x, v) ==
    /\ \E s \in Index : /\ OpenLobby(s, x)
                        /\ ~ IsMember(sessions[s], from)
                        /\ sessions[s].version # v
    /\ JoinRefused(from, "VERSION_MISMATCH")

Full(r) == r.joined >= r.players \/ Used(r) = Slot

JoinFull(from, x, v) ==
    /\ \E s \in Index : /\ OpenLobby(s, x)
                        /\ ~ IsMember(sessions[s], from)
                        /\ sessions[s].version = v
                        /\ Full(sessions[s])
    /\ JoinRefused(from, "FULL")

Admitted(r, i, from) ==
    [r EXCEPT !.member[i] = from, !.joined = @ + 1, !.idle = 0]

JoinAdmits(from, x, v) ==
    \E s \in Index, i \in Slot :
        LET r == sessions[s]
            q == Admitted(r, i, from)
        IN  /\ OpenLobby(s, x)
            /\ ~ IsMember(r, from)
            /\ r.version = v
            /\ ~ Full(r)
            /\ IsFirst(i, Slot \ Used(r))
            /\ Become(s, q)
            /\ Send({JoinResp(from, i, r.players)} \cup MutualIntros(q, i))

JoinReq(from, x, v) ==
    \/ JoinUnknown(from, x)
    \/ JoinLate(from, x)
    \/ JoinAgain(from, x)
    \/ JoinMismatch(from, x, v)
    \/ JoinFull(from, x, v)
    \/ JoinAdmits(from, x, v)

-----------------------------------------------------------------------------
(* do_punch_report: rep, one side of the pair, tells whether its punch     *)
(* towards oth came through.                                               *)

Reporting(s, from, x, rep, oth) ==
    /\ Found(s, x)
    /\ IsPeer(sessions[s], rep, from)
    /\ rep # oth
    /\ oth \in Used(sessions[s])

Reported(r, rep, oth, v) == [r EXCEPT !.idle = 0, !.punch[rep][oth] = v]

ReportOneSided(from, x, rep, oth, v) ==
    \E s \in Index :
        LET r == Reported(sessions[s], rep, oth, v) IN
        /\ Reporting(s, from, x, rep, oth)
        /\ r.punch[oth][rep] = "unseen"
        /\ Become(s, r)
        /\ Send({})

\* Direct only if both directions saw the hole open.
Judgement(r, a, b) ==
    IF r.punch[a][b] = "open" /\ r.punch[b][a] = "open"
    THEN "direct" ELSE "relay"

Judged(r, a, b) ==
    LET route == Judgement(r, a, b) IN
    [r EXCEPT !.route[a][b] = route, !.route[b][a] = route,
              !.silent = IF route = "relay" THEN 0 ELSE @]

\* Mutant of ReportAgain: a later report decides the route anew.
ReportRejudges(from, x, rep, oth, v) ==
    \E s \in Index :
        LET r == Judged(Reported(sessions[s], rep, oth, v), rep, oth) IN
        /\ Reporting(s, from, x, rep, oth)
        /\ r.punch[oth][rep] # "unseen"
        /\ Become(s, r)
        /\ Send({PairRoute(from, rep, oth, r.route[rep][oth])})

\* The pair has its route: it is repeated, to the reporter alone.
ReportAgain(from, x, rep, oth, v) ==
    \E s \in Index :
        LET r == Reported(sessions[s], rep, oth, v) IN
        /\ Reporting(s, from, x, rep, oth)
        /\ r.punch[oth][rep] # "unseen"
        /\ r.route[rep][oth] # "unsent"
        /\ Become(s, r)
        /\ Send({PairRoute(from, rep, oth, r.route[rep][oth])})

ReportDecides(from, x, rep, oth, v) ==
    \E s \in Index :
        LET r == Reported(sessions[s], rep, oth, v)
            q == Judged(r, rep, oth)
        IN  /\ Reporting(s, from, x, rep, oth)
            /\ r.punch[oth][rep] # "unseen"
            /\ r.route[rep][oth] = "unsent"
            /\ Become(s, q)
            /\ Send(RouteToAll(q, rep, oth))

PunchReport(from, x, rep, oth, v) ==
    \/ ReportOneSided(from, x, rep, oth, v)
    \/ ReportAgain(from, x, rep, oth, v)
    \/ ReportDecides(from, x, rep, oth, v)

-----------------------------------------------------------------------------
(* do_start, do_start_ack, do_keepalive, do_relay                          *)

\* Mutant of Begun: the relay clock keeps running from the lobby.
BegunRelayClock(r, p) ==
    [r EXCEPT !.phase = "starting", !.start = p, !.idle = 0, !.started = 0,
              !.refan = 0]

Begun(r, p) ==
    [r EXCEPT !.phase = "starting", !.start = p, !.idle = 0, !.started = 0,
              !.silent = 0, !.refan = 0]

\* START carries no session id: the server takes the first entry, of any
\* phase, whose slot 0 is the sender.
StartFirst(from, p) ==
    \E s \in Index :
        LET r == Begun(sessions[s], p) IN
        /\ IsFirst(s, Hosted(from))
        /\ sessions[s].phase = "lobby"
        /\ Become(s, r)
        /\ Send(Starts(r, Used(r)))

\* Mutant of Restated: a retry counts as a new start.
BegunAgain(r, p) == [r EXCEPT !.start = p, !.idle = 0, !.refan = 0, !.started = 0]

Restated(r, p) == [r EXCEPT !.start = p, !.idle = 0, !.refan = 0]

Owing(r) == Used(r) \ r.acked

\* Mutant of StartAgain: the retry goes to every member.
StartAgainToAll(from, p) ==
    \E s \in Index :
        LET r == Restated(sessions[s], p) IN
        /\ IsFirst(s, Hosted(from))
        /\ sessions[s].phase = "starting"
        /\ Become(s, r)
        /\ Send(Starts(r, Used(r)))

StartAgain(from, p) ==
    \E s \in Index :
        LET r == Restated(sessions[s], p) IN
        /\ IsFirst(s, Hosted(from))
        /\ sessions[s].phase = "starting"
        /\ Become(s, r)
        /\ Send(Starts(r, Owing(r)))

Start(from, p) == StartFirst(from, p) \/ StartAgain(from, p)

Acked(r, i) ==
    LET acked == r.acked \cup {i} IN
    [r EXCEPT !.acked = acked, !.idle = 0,
              !.phase = IF Used(r) \subseteq acked THEN "running" ELSE @]

StartAck(from, x, i) ==
    \E s \in Index :
        LET r == sessions[s] IN
        /\ Found(s, x)
        /\ IsPeer(r, i, from)
        /\ Become(s, IF r.phase = "starting" THEN Acked(r, i) ELSE Touch(r))
        /\ Send({})

KeepAlive(from, x) ==
    \E s \in Index :
        /\ Found(s, x)
        /\ IsMember(sessions[s], from)
        /\ Become(s, Touch(sessions[s]))
        /\ Send({})

Forwarded(r) == [r EXCEPT !.idle = 0, !.silent = 0]

Relay(from, x, i, j) ==
    \E s \in Index :
        LET r == sessions[s] IN
        /\ Found(s, x)
        /\ r.member[i] = from
        /\ j \in Used(r)
        /\ Become(s, Forwarded(r))
        /\ Send({Relayed(r.member[j], x, i, j)})

-----------------------------------------------------------------------------
(* rv_tick, and time.                                                      *)

Started(r) == r.phase \in {"starting", "running"}

RefanDue(r) == r.phase = "starting" /\ r.refan >= RefanPeriod

\* Mutant of Expired: once relayed, a match has no deadline.
ExpiredUnlessRelayed(r) ==
    \/ r.phase = "lobby" /\ r.idle > LobbyExpiry
    \/ Started(r) /\ ~ HasRelay(r) /\ r.started > StartedExpiry

\* Mutant of Expired: a lobby has no deadline.
ExpiredOnceStarted(r) ==
    \/ Started(r) /\ ~ HasRelay(r) /\ r.started > StartedExpiry
    \/ Started(r) /\ HasRelay(r) /\ r.silent > RelayExpiry

\* Past its deadline: an idle lobby, a match the server does not relay for,
\* a relayed match that has gone silent.
Expired(r) ==
    \/ r.phase = "lobby" /\ r.idle > LobbyExpiry
    \/ Started(r) /\ ~ HasRelay(r) /\ r.started > StartedExpiry
    \/ Started(r) /\ HasRelay(r) /\ r.silent > RelayExpiry

Ticked(r) ==
    IF Expired(r) THEN Cleared
    ELSE IF RefanDue(r) THEN [r EXCEPT !.refan = 0] ELSE r

Tick ==
    /\ sessions' = [s \in Index |-> Ticked(sessions[s])]
    /\ Send(UNION {Starts(sessions[s], Owing(sessions[s])) :
                       s \in {t \in Index : RefanDue(sessions[t])}})

Older(age, cap) == IF age < cap THEN age + 1 ELSE age

Aged(r) ==
    [r EXCEPT !.idle    = Older(@, IdleCap),
              !.started = Older(@, StartedCap),
              !.refan   = Older(@, RefanCap),
              !.silent  = Older(@, RelayCap)]

AdvanceClock ==
    /\ sessions' = [s \in Index |-> Aged(sessions[s])]
    /\ Send({})

-----------------------------------------------------------------------------
Receive(from) ==
    \/ \E n \in 0 .. MaxPlayers + 1, v \in Version : HostReq(from, n, v)
    \/ \E x \in SessionId, v \in Version : JoinReq(from, x, v)
    \/ \E x \in SessionId, i, j \in Slot, v \in {"open", "shut"} :
           PunchReport(from, x, i, j, v)
    \/ \E p \in Params : Start(from, p)
    \/ \E x \in SessionId, i \in Slot : StartAck(from, x, i)
    \/ \E x \in SessionId : KeepAlive(from, x)
    \/ \E x \in SessionId, i, j \in Slot : Relay(from, x, i, j)

Next ==
    \/ \E from \in Endpoint : Receive(from)
    \/ Tick
    \/ AdvanceClock

Spec == Init /\ [][Next]_vars

\* rendezvous_main calls rv_tick every 100 ms whatever arrives, and time
\* passes; nothing is assumed of the clients.
FairSpec == Spec /\ WF_vars(Tick) /\ WF_vars(AdvanceClock)

-----------------------------------------------------------------------------
(* Properties.                                                             *)

\* The table holds sessions of the declared shape.
TypeOK == sessions \in [Index -> Session]

\* A session id names one live session: find_session can stop at the first
\* entry that matches.
IdsDistinct ==
    \A s, t \in Live : sessions[s].id = sessions[t].id => s = t

\* However often HOST_REQ is repeated, delayed or duplicated, an endpoint has
\* one open lobby at most: a retry never burns another table entry.
OneLobbyPerHost ==
    \A s, t \in Live :
        /\ sessions[s].phase = "lobby" /\ sessions[t].phase = "lobby"
        /\ sessions[s].member[0] = sessions[t].member[0]
        => s = t

\* Slots are handed out from 0 without a gap, one to an endpoint, never more
\* of them than the host asked for, and joined counts them.
SlotsInOrder(r) ==
    /\ 2 <= r.players
    /\ 1 <= r.joined /\ r.joined <= r.players
    /\ Used(r) = {i \in Slot : i < r.joined}
    /\ \A i, j \in Used(r) : r.member[i] = r.member[j] => i = j

MembershipOrdered == \A s \in Live : SlotsInOrder(sessions[s])

\* A verdict or a route is between two members of the very session that
\* negotiated it: none survives into an entry used again, and a route is
\* there only once both sides have reported.
RoutesNegotiated(r) ==
    /\ \A i, j \in Slot : r.punch[i][j] # "unseen" => {i, j} \subseteq Used(r)
    /\ \A i, j \in Slot :
           /\ r.route[i][j] = r.route[j][i]
           /\ r.route[i][j] # "unsent" =>
                  r.punch[i][j] # "unseen" /\ r.punch[j][i] # "unseen"

NoStaleRoute == \A s \in Index : RoutesNegotiated(sessions[s])

\* A match is RUNNING only when each of its members has acknowledged START,
\* those that joined last included.
RunningIsAcked(r) == r.phase = "running" => Used(r) = r.acked /\ r.start # Unset

RunningMeansEveryone == \A s \in Index : RunningIsAcked(sessions[s])

\* While an entry keeps its session, what has been decided stays decided: the
\* host and the routes, and from START on the set of members.
Kept(r, q) ==
    /\ q.id = r.id /\ q.member[0] = r.member[0]
    /\ \A i, j \in Slot : r.route[i][j] # "unsent" => q.route[i][j] = r.route[i][j]
    /\ Started(r) => q.member = r.member /\ Started(q)

DecisionsKept ==
    [][\A s \in Index : s \in Live /\ s \in Live' => Kept(sessions[s], sessions[s]')]_vars

\* The tick reclaims a started match only after the match itself, not the
\* lobby before it, has outlasted the deadline: one that relays is given a
\* whole relay deadline from START, however early its route was negotiated.
NotReapedEarly ==
    [][\A s \in Index :
           LET r == sessions[s] IN
           Started(r) /\ sessions'[s].phase = "free" =>
               /\ r.started > StartedExpiry
               /\ HasRelay(r) => r.started > RelayExpiry]_vars

\* START goes to members that still owe the acknowledgement, and to no one
\* else: neither a retry of the host nor the tick floods the others.
StartOnlyToUnacked ==
    [][\A m \in net' \ net :
           m.type = "START" =>
               \E s \in Live, i \in Slot : /\ sessions[s].member[i] = m.to
                                           /\ i \notin sessions[s].acked]_vars

\* A match that is not relayed gives its entry back although the host may
\* repeat START, and members send, for ever; and a relayed one does unless
\* packets are being relayed.
MatchReclaimed ==
    \A s \in Index :
        Started(sessions[s]) ~>
            (sessions[s].phase = "free" \/ HasRelay(sessions[s]))

RelayReclaimed ==
    \A s \in Index :
        (Started(sessions[s]) /\ sessions[s].silent > 0) ~>
            (sessions[s].phase = "free" \/ sessions[s].silent = 0)

\* A lobby nobody speaks for gives its entry back.
LobbyReclaimed ==
    \A s \in Index :
        (sessions[s].phase = "lobby" /\ sessions[s].idle > 0) ~>
            (sessions[s].phase # "lobby" \/ sessions[s].idle = 0)

=============================================================================
