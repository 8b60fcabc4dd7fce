----------------------------- MODULE LobbyProofs -----------------------------
(***************************************************************************)
(* A theorem about Lobby, for every number of clients and of slots, any    *)
(* loss, and with or without the relay forced: server and clients agree on *)
(* who sits where.                                                         *)
(*                                                                         *)
(* The server never forgets a member, since no deadline passes here; every *)
(* packet under way that names a slot tells who sits there; and a client   *)
(* believes only such packets.                                             *)
(***************************************************************************)
EXTENDS Lobby, TLAPS

USE ClientAssumption

Seat == [Slot -> Client \cup {Nobody}]

ClientFields ==
    {"stage", "slot", "session", "players", "peer", "acked", "reported", "route",
     "known", "started", "params"}

SessionFields ==
    {"phase", "id", "players", "joined", "version", "member", "acked", "punch",
     "route", "start", "idle", "started", "refan", "silent"}

\* What a packet says of a seat.
Tells(m, member) ==
    /\ m.type = "HOST_RESP"  => m.to \in Client /\ member[0] = m.to
    /\ m.type = "JOIN_RESP"  =>
           m.slot \in Slot /\ m.to \in Client /\ member[m.slot] = m.to
    /\ m.type = "PEER_INTRO" =>
           m.slot \in Slot /\ m.peer \in Client /\ member[m.slot] = m.peer

Knows(r, member) == \A i \in Slot : r.peer[i] # Nobody => r.peer[i] = member[i]

\* An entry of the table: nobody sits in a free one, and no deadline passes.
EntryOK(r) ==
    /\ DOMAIN r = SessionFields
    /\ r.member \in Seat
    /\ r.phase = "free" => \A i \in Slot : r.member[i] = Nobody
    /\ r.phase = "lobby" => r.idle = 0
    /\ r.phase \in {"starting", "running"} => r.started = 0 /\ r.silent = 0

PeerOK(r, member) ==
    /\ DOMAIN r = ClientFields
    /\ r.peer \in Seat
    /\ Knows(r, member)

IInv ==
    /\ DOMAIN sessions = {0} /\ EntryOK(sessions[0])
    /\ DOMAIN client = Client
    /\ \A c \in Client : PeerOK(client[c], sessions[0].member)
    /\ \A m \in up : m.from \in Client
    /\ \A m \in down : Tells(m, sessions[0].member)

-----------------------------------------------------------------------------
(* The server.                                                             *)

\* Whoever has a seat keeps it.
Keeps(old, new) == \A i \in Slot : old[i] # Nobody => new[i] = old[i]

LEMMA StillTold ==
  ASSUME NEW old \in Seat, NEW new \in Seat, Keeps(old, new), NEW m, Tells(m, old)
  PROVE  Tells(m, new)
<1>1. 0 \in Slot /\ Nobody \notin Client
  BY DEF Slot
<1>2. QED
  BY <1>1 DEF Tells, Keeps

LEMMA StillKnown ==
  ASSUME NEW old \in Seat, NEW new \in Seat, Keeps(old, new), NEW r, PeerOK(r, old)
  PROVE  PeerOK(r, new)
BY DEF PeerOK, Knows, Keeps, Seat

\* The entry becomes q and the server says what is in out.
LEMMA Answered ==
  ASSUME IInv, NEW q, NEW out, EntryOK(q), Keeps(sessions[0].member, q.member),
         \A m \in out : Tells(m, q.member),
         sessions' = [sessions EXCEPT ![0] = q], down' = down \cup out,
         up' \subseteq up, client' = client
  PROVE  IInv'
<1>1. DOMAIN sessions' = {0} /\ sessions'[0] = q
  BY DEF IInv
<1>2. sessions[0].member \in Seat /\ q.member \in Seat
  BY DEF IInv, EntryOK
<1>3. \A m \in down' : Tells(m, q.member)
  BY <1>2, StillTold DEF IInv
<1>4. \A c \in Client : PeerOK(client[c], q.member)
  BY <1>2, StillKnown DEF IInv
<1>5. QED
  BY <1>1, <1>3, <1>4 DEF IInv

\* Nothing is done but to say so.
LEMMA Refused ==
  ASSUME IInv, NEW out, \A m \in out : Tells(m, sessions[0].member),
         UNCHANGED sessions, down' = down \cup out, up' \subseteq up, client' = client
  PROVE  IInv'
BY DEF IInv

\* The members of an entry are clients.
LEMMA UsedAre ==
  ASSUME NEW r, r.member \in Seat
  PROVE  /\ \A i \in Server!Used(r) : i \in Slot /\ r.member[i] \in Client
         /\ Server!Slot = Slot
BY DEF Server!Used, Server!Slot, Slot, Seat

LEMMA TheEntry ==
  /\ Server!Index = {0}
  /\ \A s : Server!IsFirst(s, {0}) <=> s = 0
  /\ 0 \in Slot
BY DEF Server!Index, Server!IsFirst, Slot

\* Introductions name members.
LEMMA IntrosTell ==
  ASSUME NEW r, r.member \in Seat, NEW i \in Slot
  PROVE  /\ \A m \in Server!IntrosTo(r, i) : Tells(m, r.member)
         /\ \A m \in Server!MutualIntros(r, i) :
                r.member[i] \in Client => Tells(m, r.member)
BY UsedAre DEF Server!IntrosTo, Server!MutualIntros, Server!PeerIntro, Tells

\* A refreshed entry.
LEMMA TouchOK ==
  ASSUME NEW r, EntryOK(r)
  PROVE  EntryOK(Server!Touch(r)) /\ Server!Touch(r).member = r.member
BY DEF EntryOK, Server!Touch, SessionFields

LEMMA SameSeats ==
  ASSUME NEW r, NEW q, q.member = r.member
  PROVE  Keeps(r.member, q.member)
BY DEF Keeps

LEMMA HostReqOK ==
  ASSUME IInv, NEW m \in up, up' \subseteq up, client' = client,
         Server!HostReq(m.from, m.players, Build)
  PROVE  IInv'
<1> DEFINE r == sessions[0]
<1>0. EntryOK(r) /\ r.member \in Seat /\ m.from \in Client
  BY DEF IInv, EntryOK
<1>1. CASE Server!HostAgain(m.from)
  <2>1. PICK s \in Server!Index :
           /\ Server!IsFirst(s, {t \in Server!Hosted(m.from) : sessions[t].phase = "lobby"})
           /\ Server!Become(s, Server!Touch(sessions[s]))
           /\ Server!Send({Server!HostResp(m.from, sessions[s].id)}
                              \cup Server!IntrosTo(sessions[s], 0))
    BY <1>1 DEF Server!HostAgain
  <2>2. s = 0 /\ r.member[0] = m.from
    BY <2>1, TheEntry DEF Server!IsFirst, Server!Hosted
  <2> DEFINE out == {Server!HostResp(m.from, r.id)} \cup Server!IntrosTo(r, 0)
  <2>3. \A n \in out : Tells(n, r.member)
    BY <1>0, <2>2, IntrosTell, TheEntry DEF Server!HostResp, Tells
  <2>4. sessions' = [sessions EXCEPT ![0] = Server!Touch(r)] /\ down' = down \cup out
    BY <2>1, <2>2 DEF Server!Become, Server!Send, Deliver
  <2> HIDE DEF r, out
  <2>5. EntryOK(Server!Touch(r)) /\ Server!Touch(r).member = r.member
    BY <1>0, TouchOK
  <2>6. Keeps(r.member, Server!Touch(r).member)
    BY <2>5, SameSeats
  <2>7. QED
    BY <2>3, <2>4, <2>5, <2>6, Answered DEF r
<1>2. CASE Server!HostRefused(m.from)
  <2> DEFINE out == {Server!Reject(m.from, "FULL")}
  <2>1. UNCHANGED sessions /\ down' = down \cup out
    BY <1>2 DEF Server!HostRefused, Server!Send, Deliver
  <2>2. \A n \in out : Tells(n, r.member)
    BY DEF Server!Reject, Tells
  <2> HIDE DEF out
  <2>3. QED
    BY <2>1, <2>2, Refused
<1>3. CASE Server!HostOpens(m.from, m.players, Build)
  <2>1. PICK s \in Server!Index, x \in Server!FreshIds :
           /\ Server!IsFirst(s, Server!Index \ Server!Live)
           /\ Server!Become(s, Server!Opened(m.from, m.players, Build, x))
           /\ Server!Send({Server!HostResp(m.from, x)})
    BY <1>3 DEF Server!HostOpens
  <2>2. s = 0 /\ r.phase = "free"
    BY <2>1, TheEntry DEF Server!IsFirst, Server!Live
  <2> DEFINE q == Server!Opened(m.from, m.players, Build, x)
             out == {Server!HostResp(m.from, x)}
  <2>3. EntryOK(q) /\ q.member[0] = m.from
    BY <1>0, TheEntry DEF Server!Opened, Server!Cleared, EntryOK, SessionFields, Seat,
       Server!Slot, Slot
  <2>4. \A n \in out : Tells(n, q.member)
    BY <1>0, <2>3 DEF Server!HostResp, Tells
  <2>5. sessions' = [sessions EXCEPT ![0] = q] /\ down' = down \cup out
    BY <2>1, <2>2 DEF Server!Become, Server!Send, Deliver
  <2>6. Keeps(r.member, q.member)
    BY <1>0, <2>2 DEF EntryOK, Keeps
  <2> HIDE DEF q, out
  <2>7. QED
    BY <2>3, <2>4, <2>5, <2>6, Answered
<1>4. QED
  BY <1>1, <1>2, <1>3 DEF Server!HostReq

LEMMA JoinReqOK ==
  ASSUME IInv, NEW m \in up, up' \subseteq up, client' = client,
         Server!JoinReq(m.from, m.id, Build)
  PROVE  IInv'
<1> DEFINE r == sessions[0]
<1>0. EntryOK(r) /\ r.member \in Seat /\ m.from \in Client
  BY DEF IInv, EntryOK
<1>1. CASE \E why \in {"BAD_SESSION", "EXPIRED", "VERSION_MISMATCH", "FULL"} :
               Server!JoinRefused(m.from, why)
  <2>1. PICK why : Server!JoinRefused(m.from, why)
    BY <1>1
  <2> DEFINE out == {Server!Reject(m.from, why)}
  <2>2. UNCHANGED sessions /\ down' = down \cup out
    BY <2>1 DEF Server!JoinRefused, Server!Send, Deliver
  <2>3. \A n \in out : Tells(n, r.member)
    BY DEF Server!Reject, Tells
  <2> HIDE DEF out
  <2>4. QED
    BY <2>2, <2>3, Refused
<1>2. CASE Server!JoinAgain(m.from, m.id)
  <2>1. PICK s \in Server!Index, i \in Server!Slot :
           /\ Server!IsPeer(sessions[s], i, m.from)
           /\ Server!Become(s, Server!Touch(sessions[s]))
           /\ Server!Send({Server!JoinResp(m.from, i, sessions[s].players)}
                              \cup Server!IntrosTo(sessions[s], i))
    BY <1>2 DEF Server!JoinAgain
  <2>2. s = 0 /\ r.member[i] = m.from /\ i \in Slot
    BY <2>1, TheEntry DEF Server!IsFirst, Server!IsPeer, Server!Slot, Slot
  <2> DEFINE out == {Server!JoinResp(m.from, i, r.players)} \cup Server!IntrosTo(r, i)
  <2>3. \A n \in out : Tells(n, r.member)
    BY <1>0, <2>2, IntrosTell DEF Server!JoinResp, Tells
  <2>4. sessions' = [sessions EXCEPT ![0] = Server!Touch(r)] /\ down' = down \cup out
    BY <2>1, <2>2 DEF Server!Become, Server!Send, Deliver
  <2> HIDE DEF r, out
  <2>5. EntryOK(Server!Touch(r)) /\ Server!Touch(r).member = r.member
    BY <1>0, TouchOK
  <2>6. Keeps(r.member, Server!Touch(r).member)
    BY <2>5, SameSeats
  <2>7. QED
    BY <2>3, <2>4, <2>5, <2>6, Answered DEF r
<1>3. CASE Server!JoinAdmits(m.from, m.id, Build)
  <2>1. PICK s \in Server!Index, i \in Server!Slot :
           /\ Server!OpenLobby(s, m.id)
           /\ Server!IsFirst(i, Server!Slot \ Server!Used(sessions[s]))
           /\ Server!Become(s, Server!Admitted(sessions[s], i, m.from))
           /\ Server!Send({Server!JoinResp(m.from, i, sessions[s].players)}
                  \cup Server!MutualIntros(Server!Admitted(sessions[s], i, m.from), i))
    BY <1>3 DEF Server!JoinAdmits
  <2>2. s = 0 /\ r.phase = "lobby" /\ i \in Slot /\ r.member[i] = Nobody
    BY <2>1, TheEntry DEF Server!IsFirst, Server!Used, Server!OpenLobby, Server!Slot, Slot
  <2> DEFINE q == Server!Admitted(r, i, m.from)
             out == {Server!JoinResp(m.from, i, r.players)} \cup Server!MutualIntros(q, i)
  <2>3. EntryOK(q) /\ q.member[i] = m.from /\ Keeps(r.member, q.member)
    BY <1>0, <2>2 DEF Server!Admitted, EntryOK, SessionFields, Seat, Keeps
  <2>4. \A n \in out : Tells(n, q.member)
    <3>1. \A n \in Server!MutualIntros(q, i) : Tells(n, q.member)
      <4> HIDE DEF q
      <4>1. QED
        BY <1>0, <2>2, <2>3, IntrosTell DEF EntryOK
    <3>2. Tells(Server!JoinResp(m.from, i, r.players), q.member)
      BY <1>0, <2>2, <2>3 DEF Server!JoinResp, Tells
    <3>3. QED
      BY <3>1, <3>2
  <2>5. sessions' = [sessions EXCEPT ![0] = q] /\ down' = down \cup out
    BY <2>1, <2>2 DEF Server!Become, Server!Send, Deliver
  <2> HIDE DEF q, out
  <2>6. QED
    BY <2>3, <2>4, <2>5, Answered
<1>4. QED
  BY <1>1, <1>2, <1>3 DEF Server!JoinReq, Server!JoinUnknown, Server!JoinLate,
     Server!JoinMismatch, Server!JoinFull

\* The other handlers change no seat and tell of none.
LEMMA Otherwise ==
  ASSUME IInv, NEW q, NEW out, EntryOK(q), q.member = sessions[0].member,
         \A n \in out : n.type \in {"PAIR_ROUTE", "START"},
         sessions' = [sessions EXCEPT ![0] = q], down' = down \cup out,
         up' \subseteq up, client' = client
  PROVE  IInv'
<1>1. \A n \in out : Tells(n, q.member)
  BY DEF Tells
<1>2. QED
  BY <1>1, SameSeats, Answered

LEMMA PunchReportOK ==
  ASSUME IInv, NEW from, NEW x, NEW rep, NEW oth, NEW v, up' \subseteq up,
         client' = client, Server!PunchReport(from, x, rep, oth, v)
  PROVE  IInv'
<1> DEFINE r == sessions[0]
           q == Server!Reported(r, rep, oth, v)
           d == Server!Judged(q, rep, oth)
<1>1. EntryOK(r)
  BY DEF IInv
<1>2. EntryOK(q) /\ q.member = r.member
  BY <1>1 DEF EntryOK, Server!Reported, SessionFields
<1>3. EntryOK(d) /\ d.member = r.member
  <2> HIDE DEF q
  <2>1. QED
    BY <1>2 DEF EntryOK, Server!Judged, SessionFields
<1> DEFINE Outcome(t, out) ==
             /\ sessions' = [sessions EXCEPT ![0] = t] /\ down' = down \cup out
             /\ \A n \in out : n.type \in {"PAIR_ROUTE", "START"}
<1>4. \E t \in {q, d} : \E out : Outcome(t, out)
  <2>1. CASE Server!ReportOneSided(from, x, rep, oth, v)
    <3>1. Outcome(q, {})
      BY <2>1, TheEntry DEF Server!ReportOneSided, Server!Become, Server!Send, Deliver
    <3> HIDE DEF q, d, Outcome
    <3>2. QED
      BY <3>1
  <2>2. CASE Server!ReportAgain(from, x, rep, oth, v)
    <3>1. Outcome(q, {Server!PairRoute(from, rep, oth, q.route[rep][oth])})
      BY <2>2, TheEntry DEF Server!ReportAgain, Server!Become, Server!Send, Deliver,
         Server!PairRoute
    <3> HIDE DEF q, d, Outcome
    <3>2. QED
      BY <3>1
  <2>3. CASE Server!ReportDecides(from, x, rep, oth, v)
    <3>1. Outcome(d, Server!RouteToAll(d, rep, oth))
      BY <2>3, TheEntry DEF Server!ReportDecides, Server!Become, Server!Send, Deliver,
         Server!RouteToAll, Server!PairRoute
    <3> HIDE DEF q, d, Outcome
    <3>2. QED
      BY <3>1
  <2>4. QED
    BY <2>1, <2>2, <2>3 DEF Server!PunchReport
<1> HIDE DEF q, d
<1>5. QED
  BY <1>2, <1>3, <1>4, Otherwise

LEMMA StartOK ==
  ASSUME IInv, NEW from, NEW p, up' \subseteq up, client' = client,
         Server!Start(from, p)
  PROVE  IInv'
<1> DEFINE r == sessions[0]
<1>1. EntryOK(r)
  BY DEF IInv
<1>2. EntryOK(Server!Begun(r, p)) /\ Server!Begun(r, p).member = r.member
  BY <1>1 DEF EntryOK, Server!Begun, SessionFields
<1>3. r.phase = "starting" =>
          EntryOK(Server!Restated(r, p)) /\ Server!Restated(r, p).member = r.member
  BY <1>1 DEF EntryOK, Server!Restated, SessionFields
<1> DEFINE Outcome(t, out) ==
             /\ sessions' = [sessions EXCEPT ![0] = t] /\ down' = down \cup out
             /\ \A n \in out : n.type \in {"PAIR_ROUTE", "START"}
<1>4. CASE Server!StartFirst(from, p)
  <2> DEFINE q == Server!Begun(r, p)
  <2>1. Outcome(q, Server!Starts(q, Server!Used(q)))
    BY <1>4, TheEntry DEF Server!StartFirst, Server!Become, Server!Send, Deliver,
       Server!Starts, Server!StartPkt
  <2> HIDE DEF q
  <2>2. QED
    BY <1>2, <2>1, Otherwise DEF q
<1>5. CASE Server!StartAgain(from, p)
  <2> DEFINE q == Server!Restated(r, p)
  <2>1. Outcome(q, Server!Starts(q, Server!Owing(q))) /\ r.phase = "starting"
    BY <1>5, TheEntry DEF Server!StartAgain, Server!Become, Server!Send, Deliver,
       Server!Starts, Server!StartPkt
  <2> HIDE DEF q
  <2>2. QED
    BY <1>3, <2>1, Otherwise DEF q
<1>6. QED
  BY <1>4, <1>5 DEF Server!Start

LEMMA StartAckOK ==
  ASSUME IInv, NEW from, NEW x, NEW i, up' \subseteq up, client' = client,
         Server!StartAck(from, x, i)
  PROVE  IInv'
<1> DEFINE r == sessions[0]
           q == IF r.phase = "starting" THEN Server!Acked(r, i) ELSE Server!Touch(r)
<1>1. EntryOK(r)
  BY DEF IInv
<1>2. EntryOK(q) /\ q.member = r.member
  BY <1>1 DEF EntryOK, Server!Acked, Server!Touch, SessionFields
<1> DEFINE out == {}
<1>3. /\ sessions' = [sessions EXCEPT ![0] = q] /\ down' = down \cup out
      /\ \A n \in out : n.type \in {"PAIR_ROUTE", "START"}
  BY TheEntry DEF Server!StartAck, Server!Become, Server!Send, Deliver
<1> HIDE DEF q, out
<1>4. QED
  BY <1>2, <1>3, Otherwise

\* No deadline passes: the tick only repeats START.
LEMMA TickOK ==
  ASSUME IInv, Server!Tick, up' \subseteq up, client' = client
  PROVE  IInv'
<1> DEFINE r == sessions[0]
           q == Server!Ticked(r)
<1>1. EntryOK(r)
  BY DEF IInv
<1>2. ~ Server!Expired(r)
  BY <1>1 DEF Server!Expired, Server!Started, EntryOK
<1>3. EntryOK(q) /\ q.member = r.member
  BY <1>1, <1>2 DEF EntryOK, Server!Ticked, SessionFields
<1>4. sessions' = [sessions EXCEPT ![0] = q]
  BY TheEntry DEF Server!Tick, IInv
<1> DEFINE out == UNION {Server!Starts(sessions[s], Server!Owing(sessions[s])) :
                            s \in {t \in Server!Index : Server!RefanDue(sessions[t])}}
<1>5. down' = down \cup out /\ \A n \in out : n.type \in {"PAIR_ROUTE", "START"}
  BY DEF Server!Tick, Server!Send, Deliver, Server!Starts, Server!StartPkt
<1> HIDE DEF q, out
<1>6. QED
  BY <1>3, <1>4, <1>5, Otherwise

LEMMA ServeOK ==
  ASSUME IInv, NEW m \in up, Serve(m) \/ Unheard(m)
  PROVE  IInv'
<1>1. CASE Serve(m)
  BY <1>1, HostReqOK, JoinReqOK, PunchReportOK, StartOK, StartAckOK DEF Serve, Heard
<1>2. CASE Unheard(m)
  BY <1>2 DEF Unheard, IInv
<1>3. QED
  BY <1>1, <1>2

-----------------------------------------------------------------------------
(* The clients.                                                            *)

\* Packets of c, none of which names a seat.
Mine(c, out) ==
    \A p \in out : p.from = c /\ p.type \notin {"HOST_RESP", "JOIN_RESP", "PEER_INTRO"}

LEMMA Stepped ==
  ASSUME IInv, NEW c \in Client, NEW r, NEW in, NEW out, Step(c, r, in, out),
         PeerOK(r, sessions[0].member), Mine(c, out), UNCHANGED sessions
  PROVE  IInv'
<1>1. /\ DOMAIN client' = Client
      /\ \A d \in Client : client'[d] = IF d = c THEN r ELSE client[d]
  BY DEF Step, IInv
<1>2. \A m \in up' : m.from \in Client
  BY DEF Step, IInv, Mine
<1>3. \A m \in down' : Tells(m, sessions[0].member)
  BY DEF Step, IInv, Mine, Tells
<1>4. QED
  BY <1>1, <1>2, <1>3 DEF IInv

LEMMA AdvancedOK ==
  ASSUME NEW member, NEW r, PeerOK(r, member), NEW expired
  PROVE  PeerOK(Advanced(r, expired), member)
<1> DEFINE a == Reporting(r, expired)
           b == Gathered(a)
<1>1. PeerOK(a, member)
  BY DEF Reporting, PeerOK, Knows, ClientFields
<1>2. PeerOK(b, member)
  <2> HIDE DEF a
  <2>1. QED
    BY <1>1 DEF Gathered, PeerOK, Knows, ClientFields
<1>3. PeerOK(Concluded(b), member)
  <2> HIDE DEF b
  <2>1. QED
    BY <1>2 DEF Concluded, PeerOK, Knows, ClientFields
<1>4. QED
  BY <1>3 DEF Advanced

\* What a client sends is its own.
LEMMA SendsMine ==
  ASSUME NEW c \in Client, NEW r, NEW expired, NEW m
  PROVE  /\ Mine(c, Failures(c, r, expired))
         /\ Mine(c, Repeats(c, r, expired))
         /\ Mine(c, Replies(c, r, m))
         /\ Mine(c, {Request(c, r)})
<1>1. Mine(c, {Request(c, r)})
  BY DEF Mine, Request, HostReq, JoinReq
<1>2. \A i : Mine(c, {ReportOn(c, r, i)})
  BY DEF Mine, ReportOn, Report
<1>3. Mine(c, Failures(c, r, expired))
  BY <1>2 DEF Mine, Failures
<1>4. Mine(c, {Punch(c, r.peer[i], r.session, i) : i \in Probing(r)})
  BY DEF Mine, Punch
<1>5. Mine(c, {StartReq(c, r.params)})
  BY DEF Mine, StartReq
<1>6. Mine(c, Repeats(c, r, expired))
  BY <1>1, <1>2, <1>4, <1>5 DEF Mine, Repeats
<1>7. Mine(c, Replies(c, r, m))
  BY DEF Mine, Replies, StartAck, PunchAck, Report
<1>8. QED
  BY <1>1, <1>3, <1>6, <1>7

\* A client believes what the packet tells.
LEMMA HandledOK ==
  ASSUME NEW member \in Seat, NEW c \in Client, NEW r, PeerOK(r, member), NEW m,
         Tells(m, member), m.to = c
  PROVE  PeerOK(Handled(c, r, m), member)
<1>1. 0 \in Slot
  BY DEF Slot
<1>2. m.type = "HOST_RESP" => PeerOK(Registered(c, r, m), member)
  BY <1>1 DEF Registered, PeerOK, Knows, Tells, ClientFields, Seat
<1>3. m.type = "JOIN_RESP" => PeerOK(Seated(c, r, m), member)
  BY DEF Seated, PeerOK, Knows, Tells, ClientFields, Seat
<1>4. m.type = "PEER_INTRO" => PeerOK(Introduced(r, m), member)
  BY DEF Introduced, PeerOK, Knows, Tells, ClientFields, Seat
<1>5. PeerOK([r EXCEPT !.stage = "FAILED"], member)
  BY DEF PeerOK, Knows, ClientFields
<1>6. PeerOK(Reached(r, m), member)
  BY DEF Reached, PeerOK, Knows, ClientFields
<1>7. PeerOK(Informed(r, m), member)
  BY DEF Informed, PeerOK, Knows, ClientFields
<1>8. PeerOK(Told(c, r, m), member)
  BY DEF Told, PeerOK, Knows, ClientFields
<1>9. QED
  BY <1>2, <1>3, <1>4, <1>5, <1>6, <1>7, <1>8 DEF Handled

LEMMA DutyOK ==
  ASSUME IInv, NEW c \in Client, NEW r, NEW in, NEW replies, NEW timers,
         PeerOK(r, sessions[0].member), Mine(c, replies),
         Duty(c, r, in, replies, timers), UNCHANGED sessions
  PROVE  IInv'
<1>0. PICK expired :
         \E due \in SUBSET Repeats(c, r, expired) :
             Step(c, Advanced(r, expired), in, replies \cup Failures(c, r, expired) \cup due)
  BY DEF Duty
<1>1. PICK due \in SUBSET Repeats(c, r, expired) :
         Step(c, Advanced(r, expired), in, replies \cup Failures(c, r, expired) \cup due)
  BY <1>0
<1> DEFINE q == Advanced(r, expired)
           out == replies \cup Failures(c, r, expired) \cup due
<1>2. PeerOK(q, sessions[0].member)
  BY AdvancedOK
<1>3. Mine(c, out)
  BY SendsMine DEF Mine
<1>4. Step(c, q, in, out)
  BY <1>1
<1> HIDE DEF q, out
<1>5. QED
  BY <1>2, <1>3, <1>4, Stepped

LEMMA ReceiveOK ==
  ASSUME IInv, NEW c \in Client, NEW m \in Inbox(c), NEW timers, Receive(c, m, timers)
  PROVE  IInv'
<1> DEFINE r == client[c]
           q == Handled(c, r, m)
<1>1. UNCHANGED sessions /\ PeerOK(r, sessions[0].member) /\ sessions[0].member \in Seat
  BY DEF Receive, IInv, EntryOK
<1>2. PeerOK(q, sessions[0].member)
  BY <1>1, HandledOK DEF IInv, Inbox
<1>3. CASE PollOne(c, m, timers)
  <2>1. Step(c, q, {m}, {}) \/ Duty(c, q, {m}, Replies(c, r, m), timers)
    BY <1>3 DEF PollOne
  <2>2. Mine(c, {}) /\ Mine(c, Replies(c, r, m))
    BY SendsMine DEF Mine
  <2> HIDE DEF q, r
  <2>3. QED
    BY <1>1, <1>2, <2>1, <2>2, Stepped, DutyOK
<1>4. CASE PostPoll(c, m)
  <2> DEFINE out == IF m.type = "START" THEN {StartAck(c, r.session, r.slot)}
                    ELSE IF m.type = "PUNCH" THEN Replies(c, r, m) ELSE {}
  <2>1. Step(c, r, {m}, out)
    BY <1>4 DEF PostPoll
  <2>2. Mine(c, out)
    <3>1. Mine(c, {StartAck(c, r.session, r.slot)}) /\ Mine(c, {})
      BY DEF Mine, StartAck
    <3>2. Mine(c, Replies(c, r, m))
      BY SendsMine
    <3>3. QED
      BY <3>1, <3>2
  <2> HIDE DEF r, out
  <2>3. QED
    BY <1>1, <2>1, <2>2, Stepped
<1>5. QED
  BY <1>3, <1>4 DEF Receive

LEMMA BeginOK ==
  ASSUME IInv, NEW c \in Client, Begin(c)
  PROVE  IInv'
<1>1. UNCHANGED sessions
  BY DEF Begin
<1>2. CASE c = Host
  <2> DEFINE r == [Idle EXCEPT !.stage = "REGISTERING", !.players = MaxPlayers,
                               !.params = Match]
  <2>1. Step(c, r, {}, {Request(c, r)})
    BY <1>2 DEF Begin, HostBegin
  <2>2. PeerOK(r, sessions[0].member)
    BY DEF Idle, PeerOK, Knows, Seat, ClientFields
  <2> HIDE DEF r
  <2>3. QED
    BY <1>1, <2>1, <2>2, SendsMine, Stepped
<1>3. CASE c # Host
  <2> DEFINE r == [Idle EXCEPT !.stage = "JOINING", !.session = client[Host].session]
  <2>1. Step(c, r, {}, {Request(c, r)})
    BY <1>3 DEF Begin, JoinBegin
  <2>2. PeerOK(r, sessions[0].member)
    BY DEF Idle, PeerOK, Knows, Seat, ClientFields
  <2> HIDE DEF r
  <2>3. QED
    BY <1>1, <2>1, <2>2, SendsMine, Stepped
<1>4. QED
  BY <1>2, <1>3

LEMMA AloneOK ==
  ASSUME IInv, NEW c \in Client, Timers(c) \/ Abandon(c) \/ Retransmit(c)
  PROVE  IInv'
<1> DEFINE r == client[c]
<1>1. UNCHANGED sessions /\ PeerOK(r, sessions[0].member)
  BY DEF Timers, Abandon, Retransmit, IInv
<1>2. Mine(c, {})
  BY DEF Mine
<1>3. CASE Timers(c)
  BY <1>1, <1>2, <1>3, DutyOK DEF Timers, Quiet
<1>4. CASE Abandon(c)
  <2> DEFINE q == [r EXCEPT !.stage = "FAILED"]
  <2>1. PeerOK(q, sessions[0].member) /\ Step(c, q, {}, {})
    BY <1>1, <1>4 DEF Abandon, GiveUp, PeerOK, Knows, ClientFields
  <2> HIDE DEF q
  <2>2. QED
    BY <1>1, <1>2, <2>1, Stepped
<1>5. CASE Retransmit(c)
  <2> DEFINE q == Advanced(r, TRUE)
             out == Failures(c, r, TRUE) \cup Repeats(c, r, TRUE)
  <2>1. PeerOK(q, sessions[0].member) /\ Step(c, q, {}, out) /\ Mine(c, out)
    BY <1>1, <1>5, AdvancedOK, SendsMine DEF Retransmit, AllDue, Mine
  <2> HIDE DEF q, out
  <2>2. QED
    BY <1>1, <2>1, Stepped
<1>6. QED
  BY <1>3, <1>4, <1>5

-----------------------------------------------------------------------------
(* The theorems.                                                           *)

LEMMA InitOK == Init => IInv
<1> SUFFICES ASSUME Init PROVE IInv
  OBVIOUS
<1>1. DOMAIN sessions = {0} /\ EntryOK(sessions[0])
  BY TheEntry DEF Init, Server!Init, Server!Cleared, EntryOK, SessionFields, Seat,
     Server!Slot, Slot
<1>2. DOMAIN client = Client /\ \A c \in Client : PeerOK(client[c], sessions[0].member)
  BY DEF Init, ClientInit, Idle, PeerOK, Knows, Seat, ClientFields
<1>3. up = {} /\ down = {}
  BY DEF Init, ClientInit
<1>4. QED
  BY <1>1, <1>2, <1>3 DEF IInv

LEMMA NextOK ==
  ASSUME IInv, [Next]_vars
  PROVE  IInv'
<1>1. CASE \E m \in up : Serve(m) \/ Unheard(m)
  BY <1>1, ServeOK
<1>2. CASE ServerTick
  BY <1>2, TickOK DEF ServerTick
<1>3. CASE \E c \in Client : Begin(c) \/ Timers(c) \/ Abandon(c)
  BY <1>3, BeginOK, AloneOK
<1>4. CASE \E c \in Client : \E m \in Inbox(c) : Receive(c, m, TRUE)
  BY <1>4, ReceiveOK
<1>5. CASE Lose
  BY <1>5 DEF Lose, IInv
<1>6. CASE UNCHANGED vars
  BY <1>6 DEF vars, IInv
<1>7. QED
  BY <1>1, <1>2, <1>3, <1>4, <1>5, <1>6 DEF Next, Work

\* Everything under way and every roster tells who sits where, in every
\* reachable state.
THEOREM Invariance == Spec => []IInv
<1>1. Init => IInv
  BY InitOK
<1>2. IInv /\ [Next]_vars => IInv'
  BY NextOK
<1>3. QED
  BY <1>1, <1>2, PTL DEF Spec

\* Whoever a client believes to sit in a slot, itself included, is who the
\* server put there (lobby_client.c, handle_msg; rendezvous.c, do_join_req).
THEOREM RosterIsAgreed == Spec => []RosterAgrees
<1>1. IInv => RosterAgrees
  BY DEF IInv, PeerOK, Knows, RosterAgrees
<1>2. QED
  BY <1>1, Invariance, PTL

=============================================================================
