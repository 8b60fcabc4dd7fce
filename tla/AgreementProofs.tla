--------------------------- MODULE AgreementProofs ---------------------------
(***************************************************************************)
(* Lobby implements MatchSetup, for every number of clients and slots, any *)
(* loss, and with or without the relay forced.                             *)
(*                                                                         *)
(* The match starts only once the mesh of routes is complete, although the *)
(* server does not check it: a START under way tells that the server has   *)
(* routed every pair, since the host has been told so.  A client that is   *)
(* READY has the routes of its slot, although it may take a route for its  *)
(* own before it knows its slot: such a route silences it, so that the     *)
(* pair it stands for is never routed and the match never starts.          *)
(*                                                                         *)
(* The server of the lobby implements Rendezvous, whose theorems so hold   *)
(* of it; with them, a match that runs is a match all its players have.    *)
(***************************************************************************)
EXTENDS LobbyProofs

USE ClientAssumption

Unseated == {"IDLE"} \cup Asking
InMatch  == Joined \cup {"READY"}

Complete(r) == \A i, j \in Slot : i # j => r.route[i][j] # "unsent"

\* The entry of the table.
MeshOK(r) ==
    /\ r.punch \in [Slot -> [Slot -> {"unseen", "shut", "open"}]]
    /\ r.route \in [Slot -> [Slot -> {"unsent", "direct", "relay"}]]
    /\ \A i, j \in Slot :
           /\ r.punch[i][j] # "unseen" =>
                  i # j /\ r.member[i] # Nobody /\ r.member[j] # Nobody
           /\ r.route[i][j] = r.route[j][i]
           /\ r.route[i][j] # "unsent" => r.punch[i][j] # "unseen"
    /\ r.phase # "free" => r.players = MaxPlayers
    /\ Server!Started(r) => Complete(r)

\* Datagrams to the server, when the entry is r and the clients are cl.
UpOK(m, r, cl) ==
    /\ m.type = "HOST_REQ" => m.players = MaxPlayers
    /\ m.type = "PUNCH_REPORT" =>
           /\ m.verdict \in {"shut", "open"}
           /\ m.verdict = "open" => m.other \in cl[m.from].acked
    /\ m.type = "START" => Complete(r)

\* Datagrams to a client.
DownOK(m, r) ==
    /\ m.type = "JOIN_RESP" => m.players = MaxPlayers
    /\ m.type = "PAIR_ROUTE" =>
           /\ m.route \in {"direct", "relay"}
           /\ \A i, j \in Slot : i # j /\ m.pair = {i, j} => r.route[i][j] = m.route
    /\ m.type = "START" => Server!Started(r)
    /\ m.type = "PUNCH_ACK" => m.slot \in Slot

\* The server judges a link open only if the client was answered.
Answered_(c, q, r) ==
    \A i, j \in Slot :
        r.member[i] = c /\ (r.punch[i][j] = "open" \/ r.route[i][j] = "direct")
            => j \in q.acked

\* Client c, whose record is q.
ClientOK(c, q, r) ==
    /\ q.slot \in Slot
    /\ q.route \in [Slot -> {"unsent", "direct", "relay"}]
    /\ q.route[q.slot] = "unsent"
    /\ q.stage \in Unseated => q.slot = 0
    /\ q.stage = "IDLE" => q.acked = {}
    /\ q.stage = "JOINING" => c # Host
    /\ q.stage \in {"REGISTERING"} \cup InMatch => q.players = MaxPlayers
    /\ q.stage \in InMatch => q.peer[q.slot] = c
    /\ \A i, j \in Slot : i # j /\ {i, j} \in q.known => r.route[i][j] # "unsent"
    /\ q.started => Server!Started(r)
    /\ q.stage = "READY" => q.started /\ Unrouted(q) = {}
    /\ Answered_(c, q, r)

\* Of its link to slot j, c has said nothing, and nothing can make it.
Mute(c, j, r, U, D) ==
    /\ \A m \in U : m.type = "PUNCH_REPORT" /\ m.from = c => m.other # j
    /\ \A m \in D :
           /\ m.type = "PUNCH" /\ m.from = c => m.nonce # j
           /\ m.type = "PUNCH_ACK" /\ m.to = c => m.nonce # j
    /\ \A i \in Slot : r.member[i] = c => r.punch[i][j] = "unseen"

\* A route that c holds is the one of its slot, or has silenced c.
RouteOK(c, q, r, U, D) ==
    /\ q.stage \in Unseated => \A j \in Slot : Mute(c, j, r, U, D)
    /\ \A j \in Slot :
           q.route[j] # "unsent" =>
               \/ r.route[q.slot][j] = q.route[j]
               \/ q.stage \notin Unseated /\ Mute(c, j, r, U, D)

MeshInv ==
    /\ MeshOK(sessions[0])
    /\ \A m \in up : UpOK(m, sessions[0], client)
    /\ \A m \in down : DownOK(m, sessions[0])
    /\ \A c \in Client :
           /\ ClientOK(c, client[c], sessions[0])
           /\ RouteOK(c, client[c], sessions[0], up, down)

-----------------------------------------------------------------------------
(* The server.                                                             *)

\* Routes and START are for good.
Settles(r, q) ==
    /\ \A i, j \in Slot : r.route[i][j] # "unsent" => q.route[i][j] = r.route[i][j]
    /\ Server!Started(r) => Server!Started(q)

\* The server records no more than it was told.
Heeds(r, q, U, D, cl) ==
    \A c \in Client :
        /\ \A i, j \in Slot :
               Mute(c, j, r, U, D) /\ q.member[i] = c => q.punch[i][j] = "unseen"
        /\ Answered_(c, cl[c], q)

LEMMA StillDown ==
  ASSUME NEW r, NEW q, MeshOK(r), Settles(r, q), NEW m, DownOK(m, r)
  PROVE  DownOK(m, q)
BY DEF DownOK, Settles

LEMMA StillUp ==
  ASSUME NEW r, NEW q, Settles(r, q), NEW cl, NEW m, UpOK(m, r, cl)
  PROVE  UpOK(m, q, cl)
BY DEF UpOK, Settles, Complete

LEMMA StillClient ==
  ASSUME NEW r, NEW q, Settles(r, q), NEW c, NEW p, ClientOK(c, p, r),
         Answered_(c, p, q)
  PROVE  ClientOK(c, p, q)
BY DEF ClientOK, Settles

\* The datagrams under way: those to the server from U to V, the others from
\* D to E, without a probe or an answer to one.
Passes(U, V, D, E) ==
    /\ V \subseteq U
    /\ \A n \in E \ D : n.type \notin {"PUNCH", "PUNCH_ACK"}

\* Where c is mute the server has not heard it.
HeedsOne(c, r, q, U, D) ==
    \A i, j \in Slot :
        Mute(c, j, r, U, D) /\ q.member[i] = c => q.punch[i][j] = "unseen"

LEMMA StillRouted ==
  ASSUME NEW r, NEW q, Settles(r, q), NEW U, NEW V, NEW D, NEW E, Passes(U, V, D, E),
         NEW c, NEW p, p.slot \in Slot, RouteOK(c, p, r, U, D), HeedsOne(c, r, q, U, D)
  PROVE  RouteOK(c, p, q, V, E)
<1>1. \A j \in Slot : Mute(c, j, r, U, D) => Mute(c, j, q, V, E)
  BY DEF Mute, Passes, HeedsOne
<1>2. ASSUME NEW j \in Slot, p.route[j] # "unsent"
      PROVE  \/ q.route[p.slot][j] = p.route[j]
             \/ p.stage \notin Unseated /\ Mute(c, j, q, V, E)
  <2>1. CASE r.route[p.slot][j] = p.route[j]
    BY <1>2, <2>1 DEF Settles
  <2>2. CASE p.stage \notin Unseated /\ Mute(c, j, r, U, D)
    BY <1>1, <2>2
  <2>3. QED
    BY <1>2, <2>1, <2>2 DEF RouteOK
<1>3. QED
  BY <1>1, <1>2 DEF RouteOK

LEMMA Followed ==
  ASSUME IInv, MeshInv, NEW q, NEW out, MeshOK(q), Settles(sessions[0], q),
         Heeds(sessions[0], q, up, down, client),
         \A n \in out : DownOK(n, q) /\ n.type \notin {"PUNCH", "PUNCH_ACK"},
         sessions'[0] = q, down' = down \cup out,
         up' \subseteq up, client' = client
  PROVE  MeshInv'
<1>2. \A m \in up' : UpOK(m, q, client)
  BY StillUp DEF MeshInv
<1>3. \A m \in down' : DownOK(m, q)
  BY StillDown DEF MeshInv
<1>4. ASSUME NEW c \in Client
      PROVE  ClientOK(c, client[c], q) /\ RouteOK(c, client[c], q, up', down')
  <2>1. ClientOK(c, client[c], q)
    BY StillClient DEF MeshInv, Heeds
  <2>2. RouteOK(c, client[c], q, up', down')
    <3>1. client[c].slot \in Slot /\ RouteOK(c, client[c], sessions[0], up, down)
      BY DEF MeshInv, ClientOK
    <3>2. Passes(up, up', down, down') /\ HeedsOne(c, sessions[0], q, up, down)
      BY DEF Passes, Heeds, HeedsOne
    <3>3. QED
      BY <3>1, <3>2, StillRouted
  <2>3. QED
    BY <2>1, <2>2
<1>5. QED
  BY <1>2, <1>3, <1>4 DEF MeshInv

\* A step that leaves seats, punches and routes alone.
SameMesh(r, q) == q.member = r.member /\ q.punch = r.punch /\ q.route = r.route

LEMMA FollowedSame ==
  ASSUME IInv, MeshInv, NEW q, NEW out, SameMesh(sessions[0], q),
         q.players = sessions[0].players,
         q.phase = "free" <=> sessions[0].phase = "free",
         Server!Started(sessions[0]) => Server!Started(q),
         Server!Started(q) => Complete(sessions[0]),
         \A n \in out : DownOK(n, q) /\ n.type \notin {"PUNCH", "PUNCH_ACK"},
         sessions'[0] = q, down' = down \cup out,
         up' \subseteq up, client' = client
  PROVE  MeshInv'
<1>1. MeshOK(q)
  BY DEF MeshInv, MeshOK, SameMesh, Complete
<1>2. Settles(sessions[0], q)
  BY DEF Settles, SameMesh
<1>3. Heeds(sessions[0], q, up, down, client)
  BY DEF Heeds, SameMesh, Mute, MeshInv, ClientOK, Answered_
<1>4. QED
  BY <1>1, <1>2, <1>3, Followed

\* Datagrams get lost.
LEMMA FewerMesh ==
  ASSUME IInv, MeshInv, up' \subseteq up, down' \subseteq down, client' = client,
         UNCHANGED sessions
  PROVE  MeshInv'
<1>1. \A c, j : Mute(c, j, sessions[0], up, down) => Mute(c, j, sessions[0], up', down')
  BY DEF Mute
<1>2. \A c \in Client : RouteOK(c, client[c], sessions[0], up', down')
  BY <1>1 DEF RouteOK, MeshInv
<1>3. QED
  BY <1>2 DEF MeshInv

\* A refusal tells of nothing.
LEMMA RefusedMesh ==
  ASSUME IInv, MeshInv, NEW to, NEW why, UNCHANGED sessions,
         down' = down \cup {Server!Reject(to, why)}, up' \subseteq up, client' = client
  PROVE  MeshInv'
<1> DEFINE r == sessions[0]
           out == {Server!Reject(to, why)}
<1>1. \A n \in out : DownOK(n, r) /\ n.type \notin {"PUNCH", "PUNCH_ACK"}
  BY DEF Server!Reject, DownOK
<1>2. /\ SameMesh(r, r) /\ (Server!Started(r) => Complete(r)) /\ sessions'[0] = r
      /\ down' = down \cup out
  BY DEF SameMesh, MeshInv, MeshOK
<1> HIDE DEF out, r
<1>3. QED
  BY <1>1, <1>2, FollowedSame DEF r

LEMMA HostReqMesh ==
  ASSUME IInv, MeshInv, NEW m \in up, up' \subseteq up, client' = client,
         m.type = "HOST_REQ", Server!HostReq(m.from, m.players, Build)
  PROVE  MeshInv'
<1> DEFINE r == sessions[0]
<1>0. EntryOK(r) /\ MeshOK(r) /\ m.players = MaxPlayers /\ m.from \in Client
  BY DEF IInv, MeshInv, UpOK
<1>1. CASE Server!HostAgain(m.from)
  <2> DEFINE q == Server!Touch(r)
             out == {Server!HostResp(m.from, r.id)} \cup Server!IntrosTo(r, 0)
  <2>1. sessions'[0] = q /\ down' = down \cup out
    BY <1>1, TheEntry DEF IInv, Server!HostAgain, Server!Become, Server!Send, Deliver
  <2>2. /\ SameMesh(r, q) /\ q.players = r.players /\ q.phase = r.phase
        /\ Server!Started(r) => Complete(r)
    BY <1>0 DEF EntryOK, SessionFields, Server!Touch, SameMesh, MeshOK
  <2>3. \A n \in out : DownOK(n, q) /\ n.type \notin {"PUNCH", "PUNCH_ACK"}
    BY DEF Server!HostResp, Server!IntrosTo, Server!PeerIntro, DownOK
  <2>4. (Server!Started(r) <=> Server!Started(q))
    BY <2>2 DEF Server!Started
  <2> HIDE DEF q, out
  <2>5. QED
    BY <2>1, <2>2, <2>3, <2>4, FollowedSame
<1>2. CASE Server!HostRefused(m.from)
  <2>1. UNCHANGED sessions /\ down' = down \cup {Server!Reject(m.from, "FULL")}
    BY <1>2 DEF Server!HostRefused, Server!Send, Deliver
  <2>2. QED
    BY <2>1, RefusedMesh
<1>3. CASE Server!HostOpens(m.from, m.players, Build)
  <2>1. PICK s \in Server!Index, x \in Server!FreshIds :
           /\ Server!IsFirst(s, Server!Index \ Server!Live)
           /\ Server!Become(s, Server!Opened(m.from, m.players, Build, x))
           /\ Server!Send({Server!HostResp(m.from, x)})
    BY <1>3 DEF Server!HostOpens
  <2>2. s = 0 /\ r.phase = "free"
    BY <2>1, TheEntry DEF Server!IsFirst, Server!Live
  <2> DEFINE q == Server!Opened(m.from, m.players, Build, x)
             out == {Server!HostResp(m.from, x)}
  <2>3. /\ q.punch = [i \in Slot |-> [j \in Slot |-> "unseen"]]
        /\ q.route = [i \in Slot |-> [j \in Slot |-> "unsent"]]
        /\ q.players = MaxPlayers /\ q.phase = "lobby"
    <3>1. Server!Clamp(MaxPlayers) = MaxPlayers
      BY DEF Server!Clamp
    <3>2. QED
      BY <1>0, <3>1 DEF Server!Opened, Server!Cleared, Server!Slot, Slot
  <2>4. sessions'[0] = q /\ down' = down \cup out
    BY <2>1, <2>2 DEF IInv, Server!Become, Server!Send, Deliver
  <2>5. \A n \in out : DownOK(n, q) /\ n.type \notin {"PUNCH", "PUNCH_ACK"}
    BY DEF Server!HostResp, DownOK
  <2> HIDE DEF q, out
  <2>6. MeshOK(q)
    BY <2>3 DEF MeshOK, Server!Started
  <2>7. Settles(r, q)
    BY <1>0, <2>2 DEF Settles, MeshOK, EntryOK, Server!Started
  <2>8. Heeds(r, q, up, down, client)
    BY <2>3 DEF Heeds, Answered_
  <2>9. QED
    BY <2>4, <2>5, <2>6, <2>7, <2>8, Followed
<1>4. QED
  BY <1>1, <1>2, <1>3 DEF Server!HostReq

LEMMA JoinReqMesh ==
  ASSUME IInv, MeshInv, NEW m \in up, up' \subseteq up, client' = client,
         Server!JoinReq(m.from, m.id, Build)
  PROVE  MeshInv'
<1> DEFINE r == sessions[0]
<1>0. EntryOK(r) /\ MeshOK(r) /\ m.from \in Client
  BY DEF IInv, MeshInv
<1>1. CASE \E why : Server!JoinRefused(m.from, why)
  <2>1. PICK why : Server!JoinRefused(m.from, why)
    BY <1>1
  <2>2. UNCHANGED sessions /\ down' = down \cup {Server!Reject(m.from, why)}
    BY <2>1 DEF Server!JoinRefused, Server!Send, Deliver
  <2>3. QED
    BY <2>2, RefusedMesh
<1>2. CASE Server!JoinAgain(m.from, m.id)
  <2>1. PICK s \in Server!Index, i \in Server!Slot :
           /\ Server!OpenLobby(s, m.id)
           /\ Server!Become(s, Server!Touch(sessions[s]))
           /\ Server!Send({Server!JoinResp(m.from, i, sessions[s].players)}
                              \cup Server!IntrosTo(sessions[s], i))
    BY <1>2 DEF Server!JoinAgain
  <2>2. s = 0 /\ r.phase = "lobby"
    BY <2>1, TheEntry DEF Server!OpenLobby
  <2> DEFINE q == Server!Touch(r)
             out == {Server!JoinResp(m.from, i, r.players)} \cup Server!IntrosTo(r, i)
  <2>3. sessions'[0] = q /\ down' = down \cup out
    BY <2>1, <2>2 DEF IInv, Server!Become, Server!Send, Deliver
  <2>4. /\ SameMesh(r, q) /\ q.players = r.players /\ q.phase = r.phase
        /\ r.players = MaxPlayers
    BY <1>0, <2>2 DEF EntryOK, SessionFields, Server!Touch, SameMesh, MeshOK
  <2>5. \A n \in out : DownOK(n, q) /\ n.type \notin {"PUNCH", "PUNCH_ACK"}
    BY <2>4 DEF Server!JoinResp, Server!IntrosTo, Server!PeerIntro, DownOK
  <2>6. ~ Server!Started(r) /\ ~ Server!Started(q)
    BY <2>2, <2>4 DEF Server!Started
  <2> HIDE DEF q, out
  <2>7. QED
    BY <2>3, <2>4, <2>5, <2>6, FollowedSame
<1>3. CASE Server!JoinAdmits(m.from, m.id, Build)
  <2>1. PICK s \in Server!Index, i \in Server!Slot :
           /\ Server!OpenLobby(s, m.id)
           /\ Server!IsFirst(i, Server!Slot \ Server!Used(sessions[s]))
           /\ Server!Become(s, Server!Admitted(sessions[s], i, m.from))
           /\ Server!Send({Server!JoinResp(m.from, i, sessions[s].players)}
                  \cup Server!MutualIntros(Server!Admitted(sessions[s], i, m.from), i))
    BY <1>3 DEF Server!JoinAdmits
  <2>2. s = 0 /\ r.phase = "lobby" /\ i \in Slot /\ r.member[i] = Nobody
    BY <2>1, TheEntry DEF Server!IsFirst, Server!Used, Server!OpenLobby, Server!Slot, Slot
  <2> DEFINE q == Server!Admitted(r, i, m.from)
             out == {Server!JoinResp(m.from, i, r.players)} \cup Server!MutualIntros(q, i)
  <2>3. sessions'[0] = q /\ down' = down \cup out
    BY <2>1, <2>2 DEF IInv, Server!Become, Server!Send, Deliver
  <2>4. /\ q.punch = r.punch /\ q.route = r.route
        /\ q.players = r.players /\ q.phase = r.phase
        /\ q.member = [r.member EXCEPT ![i] = m.from]
        /\ r.players = MaxPlayers
    BY <1>0, <2>2 DEF EntryOK, SessionFields, Server!Admitted, MeshOK
  <2>5. \A n \in out : DownOK(n, q) /\ n.type \notin {"PUNCH", "PUNCH_ACK"}
    BY <2>4 DEF Server!JoinResp, Server!MutualIntros, Server!IntrosTo, Server!PeerIntro,
       DownOK
  <2>6. ~ Server!Started(r) /\ ~ Server!Started(q)
    BY <2>2, <2>4 DEF Server!Started
  <2> HIDE DEF q, out
  <2>7. \A j \in Slot : q.member[j] = IF j = i THEN m.from ELSE r.member[j]
    BY <1>0, <2>2, <2>4 DEF EntryOK, Seat
  <2>8. \A j \in Slot : r.punch[i][j] = "unseen" /\ r.route[i][j] = "unsent"
    BY <1>0, <2>2 DEF MeshOK
  <2>9. MeshOK(q)
    BY <1>0, <2>2, <2>4, <2>6, <2>7, <2>8 DEF MeshOK
  <2>10. Settles(r, q)
    BY <2>4, <2>6 DEF Settles
  <2>11. Heeds(r, q, up, down, client)
    BY <2>4, <2>7, <2>8 DEF Heeds, Mute, MeshInv, ClientOK, Answered_
  <2>12. QED
    BY <2>3, <2>5, <2>9, <2>10, <2>11, Followed
<1>4. QED
  BY <1>1, <1>2, <1>3 DEF Server!JoinReq, Server!JoinUnknown, Server!JoinLate,
     Server!JoinMismatch, Server!JoinFull

\* A report: what becomes of the entry.
LEMMA ReportedMesh ==
  ASSUME IInv, MeshInv, NEW m \in up, m.type = "PUNCH_REPORT",
         Server!Reporting(0, m.from, m.id, m.slot, m.other),
         NEW q, q = Server!Reported(sessions[0], m.slot, m.other, m.verdict)
  PROVE  /\ EntryOK(q) /\ MeshOK(q) /\ Settles(sessions[0], q)
         /\ Heeds(sessions[0], q, up, down, client)
         /\ q.punch[m.slot][m.other] = m.verdict
         /\ q.member = sessions[0].member /\ q.route = sessions[0].route
         /\ q.phase = sessions[0].phase /\ q.silent = sessions[0].silent
         /\ m.slot \in Slot /\ m.other \in Slot /\ m.slot # m.other
         /\ q.member[m.slot] = m.from /\ m.from \in Client
<1> DEFINE r == sessions[0]
           a == m.slot
           b == m.other
<1>1. EntryOK(r) /\ MeshOK(r) /\ m.from \in Client
  BY DEF IInv, MeshInv
<1>2. m.verdict \in {"shut", "open"} /\ (m.verdict = "open" => b \in client[m.from].acked)
  BY DEF MeshInv, UpOK
<1>3. a \in Slot /\ b \in Slot /\ a # b /\ r.member[a] = m.from /\ r.member[b] # Nobody
  BY DEF Server!Reporting, Server!IsPeer, Server!IsFirst, Server!Used, Server!Slot, Slot
<1>4. /\ q.member = r.member /\ q.route = r.route /\ q.phase = r.phase
      /\ q.players = r.players /\ q.silent = r.silent
      /\ q.punch = [r.punch EXCEPT ![a][b] = m.verdict]
  BY <1>1 DEF Server!Reported, EntryOK, SessionFields
<1>5. EntryOK(q)
  BY <1>1 DEF Server!Reported, EntryOK, SessionFields
<1>6. \A i, j \in Slot : q.punch[i][j] = IF i = a /\ j = b THEN m.verdict ELSE r.punch[i][j]
  BY <1>1, <1>3, <1>4 DEF MeshOK
<1>7. q.punch \in [Slot -> [Slot -> {"unseen", "shut", "open"}]]
  BY <1>1, <1>2, <1>3, <1>4 DEF MeshOK
<1> HIDE DEF r, a, b
<1>8. MeshOK(q)
  <2>1. \A i, j \in Slot : q.punch[i][j] # "unseen" =>
            i # j /\ q.member[i] # Nobody /\ q.member[j] # Nobody
    BY <1>1, <1>3, <1>4, <1>6 DEF MeshOK
  <2>2. \A i, j \in Slot : q.route[i][j] # "unsent" => q.punch[i][j] # "unseen"
    BY <1>1, <1>2, <1>4, <1>6 DEF MeshOK, a, b
  <2>3. Server!Started(q) => Complete(q)
    BY <1>1, <1>4 DEF MeshOK, Server!Started, Complete
  <2>4. QED
    BY <1>1, <1>4, <1>7, <2>1, <2>2, <2>3 DEF MeshOK
<1>9. Settles(r, q)
  BY <1>4 DEF Settles, Server!Started
<1>10. ASSUME NEW c \in Client, NEW i \in Slot, NEW j \in Slot, q.member[i] = c
       PROVE  /\ Mute(c, j, r, up, down) => q.punch[i][j] = "unseen"
              /\ q.punch[i][j] = "open" \/ q.route[i][j] = "direct"
                     => j \in client[c].acked
  <2>1. CASE i = a /\ j = b
    <3>1. c = m.from
      BY <1>3, <1>4, <1>10, <2>1
    <3>2. ~ Mute(c, j, r, up, down)
      BY <2>1, <3>1 DEF Mute, a, b
    <3>3. r.route[i][j] = "direct" => j \in client[c].acked
      BY <1>4, <1>10 DEF MeshInv, ClientOK, Answered_, r
    <3>4. QED
      BY <1>2, <1>4, <1>6, <2>1, <3>1, <3>2, <3>3
  <2>2. CASE ~ (i = a /\ j = b)
    <3>1. q.punch[i][j] = r.punch[i][j]
      BY <1>6, <2>2
    <3>2. QED
      BY <1>4, <1>10, <3>1 DEF Mute, MeshInv, ClientOK, Answered_, r
  <2>3. QED
    BY <2>1, <2>2
<1>11. Heeds(r, q, up, down, client)
  BY <1>10 DEF Heeds, Answered_
<1>12. QED
  BY <1>1, <1>3, <1>4, <1>5, <1>6, <1>8, <1>9, <1>11 DEF r, a, b

\* From r to q the pair of a and b got a route, direct only if both were open.
Judges(r, q, a, b) ==
    /\ \A i, j \in Slot : q.route[i][j] = "direct" =>
           r.route[i][j] = "direct" \/ r.punch[i][j] = "open"
    /\ \E v \in {"direct", "relay"} :
           q.route = [r.route EXCEPT ![a][b] = v, ![b][a] = v]

\* The verdict on a pair both sides have reported.
LEMMA JudgedMesh ==
  ASSUME NEW r, EntryOK(r), MeshOK(r), NEW a \in Slot, NEW b \in Slot, a # b,
         r.punch[a][b] # "unseen", r.punch[b][a] # "unseen", r.route[a][b] = "unsent",
         NEW q, q = Server!Judged(r, a, b)
  PROVE  /\ MeshOK(q) /\ Settles(r, q)
         /\ q.member = r.member /\ q.punch = r.punch /\ q.phase = r.phase
         /\ Judges(r, q, a, b)
<1> DEFINE v == Server!Judgement(r, a, b)
<1>1. /\ v \in {"direct", "relay"}
      /\ v = "direct" => r.punch[a][b] = "open" /\ r.punch[b][a] = "open"
  BY DEF Server!Judgement
<1>2. /\ q.member = r.member /\ q.punch = r.punch /\ q.phase = r.phase
      /\ q.players = r.players
      /\ q.route = [r.route EXCEPT ![a][b] = v, ![b][a] = v]
  BY DEF Server!Judged, EntryOK, SessionFields
<1> HIDE DEF v
<1>3. \A i, j \in Slot :
          q.route[i][j] = IF (i = a /\ j = b) \/ (i = b /\ j = a)
                          THEN v ELSE r.route[i][j]
  BY <1>2 DEF MeshOK
<1>4. q.route \in [Slot -> [Slot -> {"unsent", "direct", "relay"}]]
  BY <1>1, <1>2 DEF MeshOK
<1>6. r.route[b][a] = "unsent"
  BY DEF MeshOK
<1>7. MeshOK(q)
  <2>1. \A i, j \in Slot : q.route[i][j] = q.route[j][i]
    BY <1>3 DEF MeshOK
  <2>2. \A i, j \in Slot : q.route[i][j] # "unsent" => q.punch[i][j] # "unseen"
    BY <1>2, <1>3 DEF MeshOK
  <2>3. Server!Started(q) => Complete(q)
    BY <1>1, <1>2, <1>3 DEF MeshOK, Server!Started, Complete
  <2>4. /\ q.punch \in [Slot -> [Slot -> {"unseen", "shut", "open"}]]
        /\ \A i, j \in Slot : q.punch[i][j] # "unseen" =>
               i # j /\ q.member[i] # Nobody /\ q.member[j] # Nobody
        /\ q.phase # "free" => q.players = MaxPlayers
    BY <1>2 DEF MeshOK
  <2>5. QED
    BY <1>4, <2>1, <2>2, <2>3, <2>4 DEF MeshOK
<1>8. Settles(r, q)
  <2>1. \A i, j \in Slot : r.route[i][j] # "unsent" => q.route[i][j] = r.route[i][j]
    BY <1>3, <1>6
  <2>2. QED
    BY <1>2, <2>1 DEF Settles, Server!Started
<1>9. \A i, j \in Slot : q.route[i][j] = "direct" =>
          r.route[i][j] = "direct" \/ r.punch[i][j] = "open"
  BY <1>1, <1>3
<1>10. QED
  BY <1>1, <1>2, <1>7, <1>8, <1>9 DEF Judges

\* PAIR_ROUTE tells the route of a settled pair.
LEMMA RouteTold ==
  ASSUME NEW r, MeshOK(r), NEW to, NEW a \in Slot, NEW b \in Slot, r.route[a][b] # "unsent",
         a # b, NEW n, n = Server!PairRoute(to, a, b, r.route[a][b])
  PROVE  DownOK(n, r) /\ n.type \notin {"PUNCH", "PUNCH_ACK"}
<1>1. n.type = "PAIR_ROUTE" /\ n.pair = {a, b} /\ n.route = r.route[a][b]
  BY DEF Server!PairRoute
<1>2. n.route \in {"direct", "relay"} /\ r.route[b][a] = r.route[a][b]
  BY <1>1 DEF MeshOK
<1>3. \A i, j \in Slot : i # j /\ n.pair = {i, j} => (i = a /\ j = b) \/ (i = b /\ j = a)
  BY <1>1
<1>4. QED
  BY <1>1, <1>2, <1>3 DEF DownOK

LEMMA PunchReportMesh ==
  ASSUME IInv, MeshInv, NEW m \in up, up' \subseteq up, client' = client,
         m.type = "PUNCH_REPORT",
         Server!PunchReport(m.from, m.id, m.slot, m.other, m.verdict)
  PROVE  MeshInv'
<1> DEFINE r == sessions[0]
           a == m.slot
           b == m.other
           q == Server!Reported(r, a, b, m.verdict)
           d == Server!Judged(q, a, b)
<1>0. Server!Reporting(0, m.from, m.id, a, b)
  BY TheEntry DEF Server!PunchReport, Server!ReportOneSided, Server!ReportAgain,
     Server!ReportDecides
<1>1. /\ EntryOK(q) /\ MeshOK(q) /\ Settles(r, q) /\ Heeds(r, q, up, down, client)
      /\ q.punch[a][b] # "unseen" /\ a \in Slot /\ b \in Slot /\ a # b
  BY <1>0, ReportedMesh DEF MeshInv, UpOK
<1>2. CASE Server!ReportOneSided(m.from, m.id, a, b, m.verdict)
  <2> DEFINE out == {}
  <2>1. sessions'[0] = q /\ down' = down \cup out
    BY <1>2, TheEntry DEF IInv, Server!ReportOneSided, Server!Become, Server!Send, Deliver
  <2>2. \A n \in out : DownOK(n, q) /\ n.type \notin {"PUNCH", "PUNCH_ACK"}
    OBVIOUS
  <2> HIDE DEF q, out
  <2>3. QED
    BY <1>1, <2>1, <2>2, Followed
<1>3. CASE Server!ReportAgain(m.from, m.id, a, b, m.verdict)
  <2> DEFINE out == {Server!PairRoute(m.from, a, b, q.route[a][b])}
  <2>1. sessions'[0] = q /\ down' = down \cup out /\ q.route[a][b] # "unsent"
    BY <1>3, TheEntry DEF IInv, Server!ReportAgain, Server!Become, Server!Send, Deliver
  <2> HIDE DEF q
  <2>2. \A n \in out : DownOK(n, q) /\ n.type \notin {"PUNCH", "PUNCH_ACK"}
    BY <1>1, <2>1, RouteTold
  <2> HIDE DEF out
  <2>3. QED
    BY <1>1, <2>1, <2>2, Followed
<1>4. CASE Server!ReportDecides(m.from, m.id, a, b, m.verdict)
  <2> DEFINE out == Server!RouteToAll(d, a, b)
  <2>1. /\ sessions'[0] = d /\ down' = down \cup out
        /\ q.punch[b][a] # "unseen" /\ q.route[a][b] = "unsent"
    BY <1>4, TheEntry DEF IInv, Server!ReportDecides, Server!Become, Server!Send, Deliver
  <2>0. d = Server!Judged(q, a, b)
    OBVIOUS
  <2> HIDE DEF q, d, a, b
  <2>2. /\ MeshOK(d) /\ Settles(q, d) /\ d.member = q.member /\ d.punch = q.punch
        /\ Judges(q, d, a, b)
    BY <1>1, <2>0, <2>1, JudgedMesh
  <2>3. d.route[a][b] # "unsent"
    BY <1>1, <2>2 DEF MeshOK, Judges
  <2>4. \A n \in out : DownOK(n, d) /\ n.type \notin {"PUNCH", "PUNCH_ACK"}
    <3>1. SUFFICES ASSUME NEW n \in out
                   PROVE  DownOK(n, d) /\ n.type \notin {"PUNCH", "PUNCH_ACK"}
      OBVIOUS
    <3>2. PICK to : n = Server!PairRoute(to, a, b, d.route[a][b])
      BY DEF Server!RouteToAll
    <3> HIDE DEF out
    <3>3. QED
      BY <1>1, <2>2, <2>3, <3>2, RouteTold
  <2>5. Settles(r, d)
    BY <1>1, <2>2 DEF Settles
  <2>6. Heeds(r, d, up, down, client)
    BY <1>1, <2>2 DEF Heeds, Answered_, Judges
  <2> HIDE DEF out
  <2>7. QED
    BY <2>1, <2>2, <2>4, <2>5, <2>6, Followed
<1>5. QED
  BY <1>2, <1>3, <1>4 DEF Server!PunchReport

LEMMA StartMesh ==
  ASSUME IInv, MeshInv, NEW m \in up, m.type = "START", up' \subseteq up, client' = client,
         Server!Start(m.from, m.params)
  PROVE  MeshInv'
<1> DEFINE r == sessions[0]
           p == m.params
<1>1. EntryOK(r) /\ Complete(r)
  BY DEF IInv, MeshInv, UpOK
<1>2. CASE Server!StartFirst(m.from, p)
  <2> DEFINE q == Server!Begun(r, p)
             out == Server!Starts(q, Server!Used(q))
  <2>1. sessions'[0] = q /\ down' = down \cup out /\ r.phase = "lobby"
    BY <1>2, TheEntry DEF IInv, Server!StartFirst, Server!Become, Server!Send, Deliver
  <2>2. SameMesh(r, q) /\ q.players = r.players /\ q.phase = "starting"
    BY <1>1 DEF Server!Begun, EntryOK, SessionFields, SameMesh
  <2>3. \A n \in out : n.type = "START"
    BY DEF Server!Starts, Server!StartPkt
  <2> HIDE DEF q, out
  <2>4. \A n \in out : DownOK(n, q) /\ n.type \notin {"PUNCH", "PUNCH_ACK"}
    BY <2>2, <2>3 DEF DownOK, Server!Started
  <2>5. Server!Started(q) /\ ~ Server!Started(r)
    BY <2>1, <2>2 DEF Server!Started
  <2>6. QED
    BY <1>1, <2>1, <2>2, <2>4, <2>5, FollowedSame
<1>3. CASE Server!StartAgain(m.from, p)
  <2> DEFINE q == Server!Restated(r, p)
             out == Server!Starts(q, Server!Owing(q))
  <2>1. sessions'[0] = q /\ down' = down \cup out /\ r.phase = "starting"
    BY <1>3, TheEntry DEF IInv, Server!StartAgain, Server!Become, Server!Send, Deliver
  <2>2. SameMesh(r, q) /\ q.players = r.players /\ q.phase = "starting"
    BY <1>1, <2>1 DEF Server!Restated, EntryOK, SessionFields, SameMesh
  <2>3. \A n \in out : n.type = "START"
    BY DEF Server!Starts, Server!StartPkt
  <2> HIDE DEF q, out
  <2>4. \A n \in out : DownOK(n, q) /\ n.type \notin {"PUNCH", "PUNCH_ACK"}
    BY <2>2, <2>3 DEF DownOK, Server!Started
  <2>5. Server!Started(q)
    BY <2>2 DEF Server!Started
  <2>6. QED
    BY <1>1, <2>1, <2>2, <2>4, <2>5, FollowedSame
<1>4. QED
  BY <1>2, <1>3 DEF Server!Start

LEMMA StartAckMesh ==
  ASSUME IInv, MeshInv, NEW from, NEW x, NEW i, up' \subseteq up, client' = client,
         Server!StartAck(from, x, i)
  PROVE  MeshInv'
<1> DEFINE r == sessions[0]
           q == IF r.phase = "starting" THEN Server!Acked(r, i) ELSE Server!Touch(r)
           out == {}
<1>1. EntryOK(r) /\ (Server!Started(r) => Complete(r))
  BY DEF IInv, MeshInv, MeshOK
<1>2. sessions'[0] = q /\ down' = down \cup out
  BY TheEntry DEF IInv, Server!StartAck, Server!Become, Server!Send, Deliver
<1>3. /\ SameMesh(r, q) /\ q.players = r.players
      /\ (q.phase = r.phase \/ (q.phase = "running" /\ r.phase = "starting"))
  <2>1. CASE r.phase = "starting"
    BY <1>1, <2>1 DEF Server!Acked, EntryOK, SessionFields, SameMesh
  <2>2. CASE r.phase # "starting"
    <3>1. q = Server!Touch(r)
      BY <2>2
    <3>2. SameMesh(r, q) /\ q.players = r.players /\ q.phase = r.phase
      <4> HIDE DEF q, r
      <4>1. QED
        BY <1>1, <3>1 DEF Server!Touch, EntryOK, SessionFields, SameMesh
    <3> HIDE DEF q, r
    <3>3. QED
      BY <3>2
  <2>3. QED
    BY <2>1, <2>2
<1>4. \A n \in out : DownOK(n, q) /\ n.type \notin {"PUNCH", "PUNCH_ACK"}
  OBVIOUS
<1> HIDE DEF q, out
<1>5. /\ Server!Started(r) <=> Server!Started(q)
      /\ q.phase = "free" <=> r.phase = "free"
  BY <1>3 DEF Server!Started
<1>6. QED
  BY <1>1, <1>2, <1>3, <1>4, <1>5, FollowedSame

LEMMA TickMesh ==
  ASSUME IInv, MeshInv, Server!Tick, up' \subseteq up, client' = client
  PROVE  MeshInv'
<1> DEFINE r == sessions[0]
           q == Server!Ticked(r)
           out == UNION {Server!Starts(sessions[s], Server!Owing(sessions[s])) :
                            s \in {t \in Server!Index : Server!RefanDue(sessions[t])}}
<1>1. EntryOK(r) /\ (Server!Started(r) => Complete(r))
  BY DEF IInv, MeshInv, MeshOK
<1>2. ~ Server!Expired(r)
  BY <1>1 DEF Server!Expired, Server!Started, EntryOK
<1>3. sessions'[0] = q /\ down' = down \cup out
  BY TheEntry DEF Server!Tick, Server!Send, Deliver
<1>4. SameMesh(r, q) /\ q.players = r.players /\ q.phase = r.phase
  BY <1>1, <1>2 DEF Server!Ticked, EntryOK, SessionFields, SameMesh
<1>5. \A n \in out : n.type = "START" /\ Server!Started(r)
  BY TheEntry DEF Server!Starts, Server!StartPkt, Server!RefanDue, Server!Started
<1> HIDE DEF q, out
<1>6. Server!Started(r) <=> Server!Started(q)
  BY <1>4 DEF Server!Started
<1>7. \A n \in out : DownOK(n, q) /\ n.type \notin {"PUNCH", "PUNCH_ACK"}
  BY <1>5, <1>6 DEF DownOK
<1>8. QED
  BY <1>1, <1>3, <1>4, <1>6, <1>7, FollowedSame

LEMMA ServeMesh ==
  ASSUME IInv, MeshInv, NEW m \in up, Serve(m) \/ Unheard(m)
  PROVE  MeshInv'
<1>1. CASE Serve(m)
  BY <1>1, HostReqMesh, JoinReqMesh, PunchReportMesh, StartMesh, StartAckMesh
     DEF Serve, Heard
<1>2. CASE Unheard(m)
  <2>1. up' \subseteq up /\ UNCHANGED <<client, down, sessions>>
    BY <1>2 DEF Unheard
  <2>2. QED
    BY <2>1, FewerMesh
<1>3. QED
  BY <1>1, <1>2

-----------------------------------------------------------------------------
(* The clients.                                                            *)

\* A client that is q may speak of its link to slot j.
Free(q, r, j) ==
    /\ q.stage \notin Unseated
    /\ j \in Slot /\ q.route[j] # "unsent" => r.route[q.slot][j] = q.route[j]

\* A client that is q may send p.
MaySend(q, p, r, D) ==
    /\ p.type = "HOST_REQ" => p.players = MaxPlayers
    /\ p.type = "PUNCH_REPORT" =>
           /\ p.verdict \in {"shut", "open"}
           /\ p.verdict = "open" => p.other \in q.acked
           /\ Free(q, r, p.other)
    /\ p.type = "START" => Complete(r)
    /\ p.type = "PUNCH" => Free(q, r, p.nonce)
    /\ p.type = "PUNCH_ACK" =>
           /\ p.slot \in Slot
           /\ \E m \in D : m.type = "PUNCH" /\ m.from = p.to /\ m.nonce = p.nonce

Says(q, out, r, D) == \A p \in out : MaySend(q, p, r, D)

\* Client c may become q.
MayBe(c, q) ==
    /\ ClientOK(c, q, sessions[0])
    /\ RouteOK(c, q, sessions[0], up, down)
    /\ client[c].acked \subseteq q.acked

\* Where it is mute, it stays so unless it is free to speak.
LEMMA StillMute ==
  ASSUME NEW c, NEW d, NEW q, NEW out, NEW r, NEW U, NEW D, NEW j, Mine(c, out),
         Says(q, out, r, D), Mute(d, j, r, U, D), d = c => ~ Free(q, r, j)
  PROVE  Mute(d, j, r, U \cup out, D \cup out)
<1>1. ASSUME NEW p \in out, p.type = "PUNCH_REPORT" \/ p.type = "PUNCH", p.from = d
      PROVE  /\ p.type = "PUNCH_REPORT" => p.other # j
             /\ p.type = "PUNCH" => p.nonce # j
  BY <1>1 DEF Mine, Says, MaySend
<1>2. ASSUME NEW p \in out, p.type = "PUNCH_ACK", p.to = d
      PROVE  p.nonce # j
  BY <1>2 DEF Says, MaySend, Mute
<1>3. QED
  BY <1>1, <1>2 DEF Mute

LEMMA FewerMute ==
  ASSUME NEW c, NEW j, NEW r, NEW U, NEW D, NEW V, NEW E, Mute(c, j, r, U, D),
         V \subseteq U, E \subseteq D
  PROVE  Mute(c, j, r, V, E)
BY DEF Mute

LEMMA Spoken ==
  ASSUME IInv, MeshInv, NEW c \in Client, NEW q, NEW in, NEW out, Step(c, q, in, out),
         UNCHANGED sessions, MayBe(c, q), Mine(c, out), Says(q, out, sessions[0], down)
  PROVE  MeshInv'
<1> DEFINE r == sessions[0]
<1>1. \A d \in Client : client'[d] = IF d = c THEN q ELSE client[d]
  BY DEF Step, IInv
<1>2. up' \subseteq up \cup out /\ down' \subseteq down \cup out
  BY DEF Step
<1>3. \A m \in up' : UpOK(m, r, client')
  <2>1. ASSUME NEW m \in up
        PROVE  UpOK(m, r, client')
    <3>1. m.from \in Client /\ UpOK(m, r, client)
      BY DEF IInv, MeshInv
    <3>2. client[m.from].acked \subseteq client'[m.from].acked
      BY <1>1, <3>1 DEF MayBe
    <3>3. QED
      BY <3>1, <3>2 DEF UpOK
  <2>2. ASSUME NEW m \in out
        PROVE  UpOK(m, r, client')
    <3>1. client'[m.from] = q
      BY <1>1 DEF Mine
    <3>2. QED
      BY <3>1 DEF Says, MaySend, UpOK
  <2>3. QED
    BY <1>2, <2>1, <2>2
<1>4. \A m \in down' : DownOK(m, r)
  <2>1. ASSUME NEW m \in out, PeerToPeer(m)
        PROVE  DownOK(m, r)
    BY <2>1 DEF PeerToPeer, DownOK, Says, MaySend
  <2>2. QED
    BY <2>1 DEF Step, MeshInv
<1>5. ASSUME NEW d \in Client
      PROVE  /\ ClientOK(d, client'[d], r)
             /\ RouteOK(d, client'[d], r, up', down')
  <2> DEFINE p == client'[d]
  <2>1. ClientOK(d, p, r) /\ RouteOK(d, p, r, up, down)
    BY <1>1 DEF MayBe, MeshInv
  <2>2. d = c => p = q
    BY <1>1
  <2> HIDE DEF p, r
  <2>3. ASSUME NEW j \in Slot, Mute(d, j, r, up, down), d = c => ~ Free(q, r, j)
        PROVE  Mute(d, j, r, up', down')
    BY <1>2, <2>3, StillMute, FewerMute DEF r
  <2>4. RouteOK(d, p, r, up', down')
    <3>1. ASSUME p.stage \in Unseated, NEW j \in Slot
          PROVE  Mute(d, j, r, up', down')
      BY <2>1, <2>2, <2>3, <3>1 DEF RouteOK, Free
    <3>2. ASSUME NEW j \in Slot, p.route[j] # "unsent"
          PROVE  \/ r.route[p.slot][j] = p.route[j]
                 \/ p.stage \notin Unseated /\ Mute(d, j, r, up', down')
      <4>1. CASE r.route[p.slot][j] = p.route[j]
        BY <4>1
      <4>2. CASE r.route[p.slot][j] # p.route[j]
        <5>1. p.stage \notin Unseated /\ Mute(d, j, r, up, down)
          BY <2>1, <3>2, <4>2 DEF RouteOK
        <5>2. d = c => ~ Free(q, r, j)
          BY <2>2, <3>2, <4>2 DEF Free
        <5>3. QED
          BY <2>3, <5>1, <5>2
      <4>3. QED
        BY <4>1, <4>2
    <3>3. QED
      BY <3>1, <3>2 DEF RouteOK
  <2>5. QED
    BY <2>1, <2>4 DEF p, r
<1>6. sessions'[0] = r /\ MeshOK(r)
  BY DEF MeshInv
<1>7. QED
  BY <1>3, <1>4, <1>5, <1>6 DEF MeshInv

\* The duty of a poll changes only the stage.
Proceeds(p, q) ==
    /\ q.slot = p.slot /\ q.route = p.route /\ q.peer = p.peer /\ q.acked = p.acked
    /\ q.players = p.players /\ q.known = p.known /\ q.started = p.started
    /\ \/ q.stage = p.stage
       \/ /\ p.stage \in Joined /\ q.stage \in InMatch
          /\ q.stage = "READY" => q.started /\ Unrouted(q) = {}

LEMMA ProceedsMesh ==
  ASSUME NEW c, NEW p, NEW q, Proceeds(p, q), NEW r, NEW U, NEW D
  PROVE  /\ ClientOK(c, p, r) => ClientOK(c, q, r)
         /\ RouteOK(c, p, r, U, D) => RouteOK(c, q, r, U, D)
         /\ \A out : Says(p, out, r, D) => Says(q, out, r, D)
<1>1. p.stage \in Unseated <=> q.stage \in Unseated
  BY DEF Proceeds, Unseated, Asking, Joined, InMatch
<1>2. \A j : Free(p, r, j) <=> Free(q, r, j)
  BY <1>1 DEF Free, Proceeds
<1>3. \A out : Says(p, out, r, D) => Says(q, out, r, D)
  BY <1>2 DEF Says, MaySend, Proceeds
<1>4. RouteOK(c, p, r, U, D) => RouteOK(c, q, r, U, D)
  BY <1>1 DEF RouteOK, Proceeds
<1>5. Unrouted(q) = Unrouted(p)
  BY DEF Unrouted, Others, Proceeds
<1>6. ASSUME ClientOK(c, p, r)
      PROVE  ClientOK(c, q, r)
  <2>1. Answered_(c, q, r)
    BY <1>6 DEF ClientOK, Answered_, Proceeds
  <2>2. CASE q.stage = p.stage
    BY <1>5, <1>6, <2>1, <2>2 DEF ClientOK, Proceeds
  <2>3. CASE /\ p.stage \in Joined /\ q.stage \in InMatch
             /\ q.stage = "READY" => q.started /\ Unrouted(q) = {}
    <3>1. p.stage \in InMatch /\ q.stage \notin Unseated /\ q.stage # "JOINING"
          /\ q.stage # "REGISTERING" /\ q.stage # "IDLE"
      BY <2>3 DEF InMatch, Joined, Unseated, Asking
    <3>2. QED
      BY <1>6, <2>1, <2>3, <3>1 DEF ClientOK, Proceeds
  <2>4. QED
    BY <2>2, <2>3 DEF Proceeds
<1>7. QED
  BY <1>3, <1>4, <1>6

LEMMA AdvancedProceeds ==
  ASSUME NEW member, NEW p, PeerOK(p, member), NEW expired
  PROVE  Proceeds(p, Advanced(p, expired))
<1> DEFINE a == Reporting(p, expired)
           b == Gathered(a)
           d == Concluded(b)
<1>1. /\ DOMAIN a = ClientFields
      /\ a.slot = p.slot /\ a.route = p.route /\ a.peer = p.peer /\ a.acked = p.acked
      /\ a.players = p.players /\ a.known = p.known /\ a.started = p.started
      /\ a.stage = p.stage
  BY DEF Reporting, PeerOK, ClientFields
<1>2. /\ DOMAIN b = ClientFields
      /\ b.slot = a.slot /\ b.route = a.route /\ b.peer = a.peer /\ b.acked = a.acked
      /\ b.players = a.players /\ b.known = a.known /\ b.started = a.started
      /\ b.stage = a.stage \/ (a.stage \in Joined /\ b.stage = "PUNCHING")
  <2> HIDE DEF a
  <2>1. QED
    BY <1>1 DEF Gathered, ClientFields, Joined
<1>3. /\ d.slot = b.slot /\ d.route = b.route /\ d.peer = b.peer /\ d.acked = b.acked
      /\ d.players = b.players /\ d.known = b.known /\ d.started = b.started
      /\ \/ d.stage = b.stage
         \/ /\ b.stage \in Joined /\ d.stage \in InMatch
            /\ d.stage = "READY" => d.started /\ Unrouted(b) = {}
  <2> HIDE DEF b
  <2>1. QED
    BY <1>2 DEF Concluded, ClientFields, Joined, InMatch
<1>4. d = Advanced(p, expired)
  BY DEF Advanced
<1> HIDE DEF a, b, d
<1>5. Unrouted(d) = Unrouted(b)
  BY <1>3 DEF Unrouted, Others
<1>6. Proceeds(p, d)
  BY <1>1, <1>2, <1>3, <1>5 DEF Proceeds, Joined, InMatch
<1>7. QED
  BY <1>4, <1>6

\* What a client repeats or reports on its own.
LEMMA SendsMesh ==
  ASSUME NEW c \in Client, NEW p, NEW r, ClientOK(c, p, r), NEW D, NEW expired
  PROVE  /\ Says(p, Failures(c, p, expired), r, D)
         /\ Says(p, Repeats(c, p, expired), r, D)
<1>1. ASSUME NEW i \in Unrouted(p), p.stage = "PUNCHING"
      PROVE  /\ Says(p, {ReportOn(c, p, i)}, r, D)
             /\ \A to : Says(p, {Punch(c, to, p.session, i)}, r, D)
  <2>1. Free(p, r, i)
    BY <1>1 DEF Free, Unrouted, Unseated, Asking
  <2>2. QED
    BY <2>1 DEF Says, MaySend, ReportOn, Report, Verdict, Punch
<1>2. Probing(p) \subseteq Unrouted(p) /\ (Probing(p) # {} => p.stage = "PUNCHING")
  BY DEF Probing
<1>3. Says(p, Failures(c, p, expired), r, D)
  BY <1>1, <1>2 DEF Failures, Says
<1>4. ASSUME p.stage \in Asking \/ p.stage = "WAITING_PEERS"
      PROVE  Says(p, {Request(c, p)}, r, D)
  <2>1. c = Host => p.players = MaxPlayers
    BY <1>4 DEF ClientOK, Asking, InMatch, Joined
  <2>2. QED
    BY <2>1 DEF Says, MaySend, Request, HostReq, JoinReq
<1>5. ASSUME Starting(c, p)
      PROVE  Says(p, {StartReq(c, p.params)}, r, D)
  <2>1. p.players = MaxPlayers /\ Pairs(MaxPlayers) \subseteq p.known
    BY <1>5 DEF Starting, AllPairsDecided, ClientOK, InMatch, Joined
  <2>2. \A i, j \in Slot : i # j => {i, j} \in Pairs(MaxPlayers)
    BY DEF Pairs, Slot
  <2>3. Complete(r)
    BY <2>1, <2>2 DEF Complete, ClientOK
  <2>4. QED
    BY <2>3 DEF Says, MaySend, StartReq
<1>6. Says(p, {ReportOn(c, p, i) : i \in Unrouted(p) \cap p.reported}, r, D)
          \/ p.stage # "PUNCHING"
  BY <1>1 DEF Says
<1>7. Says(p, {Punch(c, p.peer[i], p.session, i) : i \in Probing(p)}, r, D)
  BY <1>1, <1>2 DEF Says
<1>8. QED
  BY <1>3, <1>4, <1>5, <1>6, <1>7 DEF Repeats, Says

\* What a client makes of a packet: r is the entry, c was p.
Learns(c, p, q, r, U, D) ==
    ClientOK(c, q, r) /\ RouteOK(c, q, r, U, D) /\ p.acked \subseteq q.acked

\* Nobody at work knows its slot and has a route for it.
LEMMA SeatedMesh ==
  ASSUME NEW c \in Client, NEW p, NEW r, NEW U, NEW D, EntryOK(r), MeshOK(r),
         PeerOK(p, r.member), ClientOK(c, p, r), RouteOK(c, p, r, U, D),
         p.stage = "JOINING", NEW m, m.type = "JOIN_RESP", m.to = c,
         Tells(m, r.member), DownOK(m, r)
  PROVE  Learns(c, p, Seated(c, p, m), r, U, D)
<1> DEFINE q == Seated(c, p, m)
           s == m.slot
<1>1. s \in Slot /\ r.member[s] = c /\ m.players = MaxPlayers /\ 0 \in Slot
  BY TheEntry DEF Tells, DownOK
<1>2. \A j \in Slot : Mute(c, j, r, U, D) /\ p.slot = 0
  BY DEF RouteOK, ClientOK, Unseated, Asking
<1>3. p.route[s] = "unsent"
  <2>1. ASSUME p.route[s] # "unsent"
        PROVE  FALSE
    <3>1. r.route[0][s] = p.route[s]
      BY <1>1, <1>2, <2>1 DEF RouteOK, Unseated, Asking
    <3>2. r.punch[s][0] # "unseen"
      BY <1>1, <2>1, <3>1 DEF MeshOK
    <3>3. QED
      BY <1>1, <1>2, <3>2 DEF Mute
  <2>2. QED
    BY <2>1
<1>4. /\ q.slot = s /\ q.players = MaxPlayers /\ q.peer[s] = c
      /\ q.stage = "WAITING_PEERS" /\ q.route = p.route /\ q.acked = p.acked
      /\ q.known = p.known /\ q.started = p.started
  BY <1>1 DEF Seated, PeerOK, ClientFields, Seat
<1> HIDE DEF q, s
<1>5. ClientOK(c, q, r)
  BY <1>1, <1>3, <1>4 DEF ClientOK, Answered_, Unseated, Asking, InMatch, Joined
<1>6. RouteOK(c, q, r, U, D)
  BY <1>2, <1>4 DEF RouteOK, Unseated, Asking
<1>7. QED
  BY <1>4, <1>5, <1>6 DEF Learns, q

LEMMA RegisteredMesh ==
  ASSUME NEW c \in Client, NEW p, NEW r, NEW U, NEW D,
         PeerOK(p, r.member), ClientOK(c, p, r), RouteOK(c, p, r, U, D),
         p.stage = "REGISTERING", NEW m
  PROVE  Learns(c, p, Registered(c, p, m), r, U, D)
<1> DEFINE q == Registered(c, p, m)
<1>1. \A j \in Slot : Mute(c, j, r, U, D) /\ p.slot = 0
  BY DEF RouteOK, ClientOK, Unseated, Asking
<1>2. /\ q.slot = 0 /\ q.players = p.players /\ q.peer[0] = c
      /\ q.stage = "WAITING_PEERS" /\ q.route = p.route /\ q.acked = p.acked
      /\ q.known = p.known /\ q.started = p.started
  BY TheEntry DEF Registered, PeerOK, ClientFields, Seat
<1> HIDE DEF q
<1>3. p.players = MaxPlayers /\ p.slot = 0
  BY DEF ClientOK, Unseated, Asking
<1>4. ClientOK(c, q, r)
  BY <1>2, <1>3 DEF ClientOK, Answered_, Unseated, Asking, InMatch, Joined
<1>5. RouteOK(c, q, r, U, D)
  BY <1>1, <1>2 DEF RouteOK, Unseated, Asking
<1>6. QED
  BY <1>2, <1>4, <1>5 DEF Learns, q

LEMMA IntroducedMesh ==
  ASSUME NEW c \in Client, NEW p, NEW r, NEW U, NEW D,
         PeerOK(p, r.member), ClientOK(c, p, r), RouteOK(c, p, r, U, D),
         p.stage \in Active, NEW m, m.slot \in Slot, m.slot # p.slot
  PROVE  Learns(c, p, Introduced(p, m), r, U, D)
<1> DEFINE q == Introduced(p, m)
<1>1. /\ q.slot = p.slot /\ q.players = p.players /\ q.peer[p.slot] = p.peer[p.slot]
      /\ q.stage = p.stage /\ q.acked = p.acked
      /\ q.known = p.known /\ q.started = p.started
      /\ q.route \in [Slot -> {"unsent", "direct", "relay"}]
      /\ \A j \in Slot : q.route[j] \in {p.route[j], "unsent"}
  BY DEF Introduced, PeerOK, ClientFields, Seat, ClientOK
<1> HIDE DEF q
<1>2. p.stage # "READY" /\ p.stage # "IDLE" /\ p.slot \in Slot
  BY DEF Active, Asking, Joined, ClientOK
<1>3. ClientOK(c, q, r)
  BY <1>1, <1>2 DEF ClientOK, Answered_
<1>4. RouteOK(c, q, r, U, D)
  BY <1>1 DEF RouteOK
<1>5. QED
  BY <1>1, <1>3, <1>4 DEF Learns, q

LEMMA InformedMesh ==
  ASSUME NEW c \in Client, NEW p, NEW r, NEW U, NEW D, MeshOK(r),
         PeerOK(p, r.member), ClientOK(c, p, r), RouteOK(c, p, r, U, D),
         p.stage \in Active, NEW m, m.type = "PAIR_ROUTE", DownOK(m, r)
  PROVE  Learns(c, p, Informed(p, m), r, U, D)
<1> DEFINE q == Informed(p, m)
<1>1. /\ q.slot = p.slot /\ q.players = p.players /\ q.peer = p.peer
      /\ q.stage = p.stage /\ q.acked = p.acked
      /\ q.known = p.known \cup {m.pair} /\ q.started = p.started
      /\ q.route = [i \in Slot |-> IF i # p.slot /\ m.pair = {i, p.slot}
                                   THEN m.route ELSE p.route[i]]
  BY DEF Informed, PeerOK, ClientFields
<1> HIDE DEF q
<1>2. /\ m.route \in {"direct", "relay"}
      /\ \A i, j \in Slot : i # j /\ m.pair = {i, j} => r.route[i][j] = m.route
  BY DEF DownOK
<1>3. p.stage # "READY" /\ p.stage # "IDLE" /\ p.slot \in Slot
  BY DEF Active, Asking, Joined, ClientOK
<1>4. \A i, j \in Slot : i # j /\ {i, j} \in q.known => r.route[i][j] # "unsent"
  BY <1>1, <1>2 DEF ClientOK
<1>5. q.route \in [Slot -> {"unsent", "direct", "relay"}] /\ q.route[q.slot] = "unsent"
  BY <1>1, <1>2, <1>3 DEF ClientOK
<1>6. ClientOK(c, q, r)
  BY <1>1, <1>3, <1>4, <1>5 DEF ClientOK, Answered_
<1>7. \A j \in Slot : q.route[j] = p.route[j] \/ r.route[q.slot][j] = q.route[j]
  BY <1>1, <1>2, <1>3 DEF MeshOK
<1>8. RouteOK(c, q, r, U, D)
  BY <1>1, <1>7 DEF RouteOK
<1>9. QED
  BY <1>1, <1>6, <1>8 DEF Learns, q

\* The other packets touch neither slot nor routes.
LEMMA OtherwiseMesh ==
  ASSUME NEW c \in Client, NEW p, NEW q, NEW r, NEW U, NEW D,
         ClientOK(c, p, r), RouteOK(c, p, r, U, D), p.stage \in Active,
         q.slot = p.slot, q.players = p.players, q.peer = p.peer, q.route = p.route,
         q.known = p.known, p.acked \subseteq q.acked,
         q.stage = p.stage \/ q.stage = "FAILED",
         q.started => p.started \/ Server!Started(r)
  PROVE  Learns(c, p, q, r, U, D)
<1>1. p.stage # "READY" /\ p.stage # "IDLE"
  BY DEF Active, Asking, Joined
<1>2. Answered_(c, q, r)
  BY DEF ClientOK, Answered_
<1>3. q.stage \in Unseated => p.stage \in Unseated
  BY DEF Unseated, Asking
<1>4. ClientOK(c, q, r)
  BY <1>1, <1>2, <1>3 DEF ClientOK, Unseated, Asking, InMatch, Joined
<1>5. RouteOK(c, q, r, U, D)
  BY <1>3 DEF RouteOK, Unseated, Asking
<1>6. QED
  BY <1>4, <1>5 DEF Learns

LEMMA HandledMesh ==
  ASSUME IInv, MeshInv, NEW c \in Client, NEW m \in Inbox(c), client[c].stage \in Active
  PROVE  MayBe(c, Handled(c, client[c], m))
<1> DEFINE p == client[c]
           r == sessions[0]
           q == Handled(c, p, m)
<1>1. /\ EntryOK(r) /\ MeshOK(r) /\ PeerOK(p, r.member) /\ Tells(m, r.member)
      /\ DownOK(m, r) /\ ClientOK(c, p, r) /\ RouteOK(c, p, r, up, down)
      /\ m.to = c /\ p.stage \in Active
  BY DEF IInv, MeshInv, Inbox
<1> DEFINE ok(x) == Learns(c, p, x, r, up, down)
<1> HIDE DEF p, r
<1>2. m.type = "HOST_RESP" /\ p.stage = "REGISTERING" => ok(Registered(c, p, m))
  BY <1>1, RegisteredMesh
<1>3. m.type = "JOIN_RESP" /\ p.stage = "JOINING" => ok(Seated(c, p, m))
  BY <1>1, SeatedMesh
<1>4. ok([p EXCEPT !.stage = "FAILED"])
  <2> DEFINE x == [p EXCEPT !.stage = "FAILED"]
  <2>1. /\ x.slot = p.slot /\ x.players = p.players /\ x.peer = p.peer
        /\ x.route = p.route /\ x.known = p.known /\ x.acked = p.acked
        /\ x.stage = "FAILED" /\ x.started = p.started
    BY <1>1 DEF PeerOK, ClientFields
  <2> HIDE DEF x
  <2>2. QED
    BY <1>1, <2>1, OtherwiseMesh DEF x
<1>5. m.type = "PEER_INTRO" /\ m.slot # p.slot => ok(Introduced(p, m))
  BY <1>1, IntroducedMesh DEF Tells
<1>6. ok(Reached(p, m))
  <2> DEFINE x == Reached(p, m)
  <2>1. /\ x.slot = p.slot /\ x.players = p.players /\ x.peer = p.peer
        /\ x.route = p.route /\ x.known = p.known /\ p.acked \subseteq x.acked
        /\ x.stage = p.stage /\ x.started = p.started
    BY <1>1 DEF Reached, PeerOK, ClientFields
  <2> HIDE DEF x
  <2>2. QED
    BY <1>1, <2>1, OtherwiseMesh DEF x
<1>7. m.type = "PAIR_ROUTE" => ok(Informed(p, m))
  BY <1>1, InformedMesh
<1>8. m.type = "START" => ok(Told(c, p, m))
  <2> DEFINE x == Told(c, p, m)
  <2>1. /\ x.slot = p.slot /\ x.players = p.players /\ x.peer = p.peer
        /\ x.route = p.route /\ x.known = p.known /\ x.acked = p.acked
        /\ x.stage = p.stage \/ x.stage = "FAILED"
    BY <1>1 DEF Told, PeerOK, ClientFields
  <2>2. m.type = "START" => Server!Started(r)
    BY <1>1 DEF DownOK
  <2> HIDE DEF x
  <2>3. QED
    BY <1>1, <2>1, <2>2, OtherwiseMesh DEF x
<1>9. ok(p)
  BY <1>1 DEF Learns
<1>10. ok(q)
  BY <1>2, <1>3, <1>4, <1>5, <1>6, <1>7, <1>8, <1>9 DEF Handled
<1>11. QED
  BY <1>10 DEF Learns, MayBe, p, r

\* What it answers, it may send.
LEMMA RepliesMesh ==
  ASSUME IInv, MeshInv, NEW c \in Client, NEW m \in Inbox(c),
         client[c].stage \in Active \cup {"READY"}
  PROVE  /\ m.type # "PUNCH_ACK" =>
                \A q : Says(q, Replies(c, client[c], m), sessions[0], down)
         /\ Says(Handled(c, client[c], m), Replies(c, client[c], m), sessions[0], down)
<1> DEFINE p == client[c]
           r == sessions[0]
           q == Handled(c, p, m)
<1>0. PeerOK(p, r.member) /\ RouteOK(c, p, r, up, down) /\ p.slot \in Slot
  BY DEF IInv, MeshInv, ClientOK
<1>1. \A x : Says(x, {}, r, down) /\ Says(x, {StartAck(c, p.session, p.slot)}, r, down)
  BY DEF Says, MaySend, StartAck
<1>2. m.type = "PUNCH" =>
          \A x : Says(x, {PunchAck(c, m.from, m.id, p.slot, m.nonce)}, r, down)
  BY <1>0 DEF Says, MaySend, PunchAck, Inbox
<1>3. m.type = "PUNCH_ACK" /\ Answers(p, m) =>
          Says(q, {Report(c, p.session, p.slot, m.slot, "open")}, r, down)
  <2>1. SUFFICES ASSUME m.type = "PUNCH_ACK", Answers(p, m)
                 PROVE  Says(q, {Report(c, p.session, p.slot, m.slot, "open")}, r, down)
    OBVIOUS
  <2>2. q = Reached(p, m)
    BY <2>1 DEF Handled
  <2>3. /\ q.slot = p.slot /\ q.route = p.route /\ q.stage = p.stage
        /\ m.slot \in q.acked
    BY <1>0, <2>2 DEF Reached, PeerOK, ClientFields
  <2>4. ~ Mute(c, m.slot, r, up, down)
    BY <2>1 DEF Mute, Answers, Inbox
  <2>5. m.slot \in Slot
    BY <2>1 DEF MeshInv, DownOK, Inbox
  <2>6. Free(q, r, m.slot)
    BY <1>0, <2>3, <2>4, <2>5 DEF Free, RouteOK
  <2> HIDE DEF q
  <2>7. QED
    BY <2>3, <2>6 DEF Says, MaySend, Report
<1> HIDE DEF q, p, r
<1>4. QED
  BY <1>1, <1>2, <1>3 DEF Replies, q, p, r

LEMMA DutyMesh ==
  ASSUME IInv, MeshInv, NEW c \in Client, NEW p, NEW in, NEW replies, NEW timers,
         PeerOK(p, sessions[0].member), MayBe(c, p), Mine(c, replies),
         Says(p, replies, sessions[0], down),
         Duty(c, p, in, replies, timers), UNCHANGED sessions
  PROVE  MeshInv'
<1>0. PICK expired :
         \E due \in SUBSET Repeats(c, p, expired) :
             Step(c, Advanced(p, expired), in, replies \cup Failures(c, p, expired) \cup due)
  BY DEF Duty
<1>1. PICK due \in SUBSET Repeats(c, p, expired) :
         Step(c, Advanced(p, expired), in, replies \cup Failures(c, p, expired) \cup due)
  BY <1>0
<1> DEFINE q == Advanced(p, expired)
           out == replies \cup Failures(c, p, expired) \cup due
<1>2. Proceeds(p, q)
  BY AdvancedProceeds
<1>3. Mine(c, out)
  BY SendsMine DEF Mine
<1>4. Says(p, out, sessions[0], down)
  <2>1. Says(p, Failures(c, p, expired), sessions[0], down)
        /\ Says(p, Repeats(c, p, expired), sessions[0], down)
    BY SendsMesh DEF MayBe
  <2>2. QED
    BY <2>1 DEF Says
<1>5. Step(c, q, in, out)
  BY <1>1
<1> HIDE DEF q, out
<1>6. MayBe(c, q)
  BY <1>2, ProceedsMesh DEF MayBe, Proceeds
<1>7. Says(q, out, sessions[0], down)
  BY <1>2, <1>4, ProceedsMesh
<1>8. QED
  BY <1>3, <1>5, <1>6, <1>7, Spoken

LEMMA ReceiveMesh ==
  ASSUME IInv, MeshInv, NEW c \in Client, NEW m \in Inbox(c), NEW timers,
         Receive(c, m, timers)
  PROVE  MeshInv'
<1> DEFINE p == client[c]
           q == Handled(c, p, m)
<1>1. UNCHANGED sessions /\ PeerOK(p, sessions[0].member) /\ sessions[0].member \in Seat
  BY DEF Receive, IInv, EntryOK
<1>2. PeerOK(q, sessions[0].member)
  BY <1>1, HandledOK DEF IInv, Inbox
<1>3. Mine(c, {}) /\ Mine(c, Replies(c, p, m))
  BY SendsMine DEF Mine
<1>4. CASE PollOne(c, m, timers)
  <2>1. Step(c, q, {m}, {}) \/ Duty(c, q, {m}, Replies(c, p, m), timers)
    BY <1>4 DEF PollOne
  <2>2. MayBe(c, q) /\ Says(q, Replies(c, p, m), sessions[0], down)
    BY <1>4, HandledMesh, RepliesMesh DEF PollOne
  <2>3. Says(q, {}, sessions[0], down)
    BY DEF Says
  <2> HIDE DEF q, p
  <2>4. QED
    BY <1>1, <1>2, <1>3, <2>1, <2>2, <2>3, Spoken, DutyMesh
<1>5. CASE PostPoll(c, m)
  <2> DEFINE out == IF m.type = "START" THEN {StartAck(c, p.session, p.slot)}
                    ELSE IF m.type = "PUNCH" THEN Replies(c, p, m) ELSE {}
  <2>1. Step(c, p, {m}, out) /\ p.stage = "READY"
    BY <1>5 DEF PostPoll
  <2>2. Mine(c, out)
    <3>1. Mine(c, {StartAck(c, p.session, p.slot)})
      BY DEF Mine, StartAck
    <3>2. QED
      BY <1>3, <3>1
  <2>3. Says(p, out, sessions[0], down)
    <3>1. Says(p, {}, sessions[0], down)
          /\ Says(p, {StartAck(c, p.session, p.slot)}, sessions[0], down)
      BY DEF Says, MaySend, StartAck
    <3>2. m.type = "PUNCH" => Says(p, Replies(c, p, m), sessions[0], down)
      BY <2>1, RepliesMesh
    <3>3. QED
      BY <3>1, <3>2
  <2>4. MayBe(c, p)
    BY DEF MeshInv, MayBe
  <2> HIDE DEF p, out
  <2>5. QED
    BY <1>1, <2>1, <2>2, <2>3, <2>4, Spoken
<1>6. QED
  BY <1>4, <1>5 DEF Receive

\* A client that is about to ask has nothing to be proved of it.
LEMMA Beginning ==
  ASSUME IInv, MeshInv, NEW c \in Client, client[c].stage = "IDLE", NEW p,
         UNCHANGED sessions, Step(c, p, {}, {Request(c, p)}),
         p.stage \in Asking, p.stage = "JOINING" => c # Host,
         p.stage = "REGISTERING" => p.players = MaxPlayers,
         c = Host => p.stage = "REGISTERING",
         p.slot = 0, p.acked = {}, p.known = {}, p.started = FALSE,
         p.route = [i \in Slot |-> "unsent"]
  PROVE  MeshInv'
<1> DEFINE r == sessions[0]
<1>1. \A j \in Slot : Mute(c, j, r, up, down)
  BY DEF MeshInv, RouteOK, Unseated
<1>2. MeshOK(r) /\ client[c].acked = {}
  BY DEF MeshInv, ClientOK
<1>3. \A i, j \in Slot : r.member[i] = c =>
          r.punch[i][j] = "unseen" /\ r.route[i][j] = "unsent"
  BY <1>1, <1>2 DEF Mute, MeshOK
<1>4. 0 \in Slot /\ p.stage # "READY" /\ p.stage \notin InMatch
  BY TheEntry DEF Asking, InMatch, Joined
<1> HIDE DEF r
<1>5. ClientOK(c, p, r)
  BY <1>3, <1>4 DEF ClientOK, Answered_
<1>6. RouteOK(c, p, r, up, down)
  BY <1>1 DEF RouteOK
<1>7. MayBe(c, p)
  BY <1>2, <1>5, <1>6 DEF MayBe, r
<1>8. Says(p, {Request(c, p)}, sessions[0], down)
  BY DEF Says, MaySend, Request, HostReq, JoinReq
<1>9. QED
  BY <1>7, <1>8, SendsMine, Spoken

LEMMA BeginMesh ==
  ASSUME IInv, MeshInv, NEW c \in Client, Begin(c)
  PROVE  MeshInv'
<1>1. CASE c = Host
  <2> DEFINE p == [Idle EXCEPT !.stage = "REGISTERING", !.players = MaxPlayers,
                               !.params = Match]
  <2>1. Step(c, p, {}, {Request(c, p)}) /\ client[c].stage = "IDLE" /\ UNCHANGED sessions
    BY <1>1 DEF Begin, HostBegin
  <2>2. /\ p.stage = "REGISTERING" /\ p.players = MaxPlayers
        /\ p.slot = 0 /\ p.acked = {} /\ p.known = {} /\ p.started = FALSE
        /\ p.route = [i \in Slot |-> "unsent"]
    BY DEF Idle
  <2> HIDE DEF p
  <2>3. QED
    BY <1>1, <2>1, <2>2, Beginning DEF Asking
<1>2. CASE c # Host
  <2> DEFINE p == [Idle EXCEPT !.stage = "JOINING", !.session = client[Host].session]
  <2>1. Step(c, p, {}, {Request(c, p)}) /\ client[c].stage = "IDLE" /\ UNCHANGED sessions
    BY <1>2 DEF Begin, JoinBegin
  <2>2. /\ p.stage = "JOINING"
        /\ p.slot = 0 /\ p.acked = {} /\ p.known = {} /\ p.started = FALSE
        /\ p.route = [i \in Slot |-> "unsent"]
    BY DEF Idle
  <2> HIDE DEF p
  <2>3. QED
    BY <1>2, <2>1, <2>2, Beginning DEF Asking
<1>3. QED
  BY <1>1, <1>2

LEMMA AloneMesh ==
  ASSUME IInv, MeshInv, NEW c \in Client, Timers(c) \/ Abandon(c)
  PROVE  MeshInv'
<1> DEFINE p == client[c]
           r == sessions[0]
<1>1. UNCHANGED sessions /\ PeerOK(p, r.member) /\ MayBe(c, p) /\ p.stage \in Active
  BY DEF Timers, Abandon, IInv, MeshInv, MayBe, Quiet, GiveUp
<1>2. Mine(c, {}) /\ \A q : Says(q, {}, r, down)
  BY DEF Mine, Says
<1>3. CASE Timers(c)
  BY <1>1, <1>2, <1>3, DutyMesh DEF Timers, Quiet
<1>4. CASE Abandon(c)
  <2> DEFINE q == [p EXCEPT !.stage = "FAILED"]
  <2>1. /\ Step(c, q, {}, {})
        /\ q.slot = p.slot /\ q.players = p.players /\ q.peer = p.peer
        /\ q.route = p.route /\ q.known = p.known /\ q.acked = p.acked
        /\ q.stage = "FAILED" /\ q.started = p.started
    BY <1>1, <1>4 DEF Abandon, GiveUp, PeerOK, ClientFields
  <2> HIDE DEF p, q
  <2>2. MayBe(c, q)
    BY <1>1, <2>1, OtherwiseMesh DEF MayBe, Learns, p
  <2>3. QED
    BY <1>1, <1>2, <2>1, <2>2, Spoken
<1>5. QED
  BY <1>3, <1>4

LEMMA InitMesh == Init => MeshInv
<1> SUFFICES ASSUME Init PROVE MeshInv
  OBVIOUS
<1> DEFINE r == sessions[0]
<1>1. /\ r.phase = "free"
      /\ r.punch = [i \in Slot |-> [j \in Slot |-> "unseen"]]
      /\ r.route = [i \in Slot |-> [j \in Slot |-> "unsent"]]
      /\ r.member = [i \in Slot |-> Nobody]
  BY TheEntry DEF Init, Server!Init, Server!Cleared, Server!Slot, Slot
<1>2. up = {} /\ down = {} /\ \A c \in Client : client[c] = Idle
  BY DEF Init, ClientInit
<1> HIDE DEF r
<1>3. MeshOK(r)
  BY <1>1 DEF MeshOK, Server!Started
<1>4. ASSUME NEW c \in Client
      PROVE  ClientOK(c, Idle, r) /\ RouteOK(c, Idle, r, {}, {})
  <2>1. /\ Idle.stage = "IDLE" /\ Idle.slot = 0 /\ Idle.acked = {} /\ Idle.known = {}
        /\ Idle.started = FALSE /\ Idle.route = [i \in Slot |-> "unsent"]
    BY DEF Idle
  <2>2. ClientOK(c, Idle, r)
    BY <1>1, <2>1, TheEntry DEF ClientOK, Answered_, InMatch, Joined, Asking
  <2>3. RouteOK(c, Idle, r, {}, {})
    BY <1>1, <2>1 DEF RouteOK, Mute
  <2>4. QED
    BY <2>2, <2>3
<1>5. QED
  BY <1>2, <1>3, <1>4 DEF MeshInv, r

LEMMA NextMesh ==
  ASSUME IInv, MeshInv, [Next]_vars
  PROVE  MeshInv'
<1>1. CASE \E m \in up : Serve(m) \/ Unheard(m)
  BY <1>1, ServeMesh
<1>2. CASE ServerTick
  BY <1>2, TickMesh DEF ServerTick
<1>3. CASE \E c \in Client : Begin(c) \/ Timers(c) \/ Abandon(c)
  BY <1>3, BeginMesh, AloneMesh
<1>4. CASE \E c \in Client : \E m \in Inbox(c) : Receive(c, m, TRUE)
  BY <1>4, ReceiveMesh
<1>5. CASE Lose
  BY <1>5, FewerMesh DEF Lose
<1>6. CASE UNCHANGED vars
  BY <1>6, FewerMesh DEF vars
<1>7. QED
  BY <1>1, <1>2, <1>3, <1>4, <1>5, <1>6 DEF Next, Work

\* The strengthening that carries the agreement, in every reachable state.
THEOREM MeshInvariance == Spec => []MeshInv
<1>1. Init => MeshInv
  BY InitMesh
<1>2. IInv /\ MeshInv /\ [Next]_vars => MeshInv'
  BY NextMesh
<1>3. QED
  BY <1>1, <1>2, Invariance, PTL DEF Spec

\* A READY client has the routes of its slot (fill_result, lobby_client.c).
LEMMA ReadyRoutes ==
  ASSUME IInv, MeshInv, NEW c \in Client, client[c].stage = "READY"
  PROVE  /\ Server!Started(sessions[0])
         /\ client[c].slot \in Slot
         /\ sessions[0].member[client[c].slot] = c
         /\ client[c].route = sessions[0].route[client[c].slot]
<1> DEFINE p == client[c]
           r == sessions[0]
<1>1. /\ PeerOK(p, r.member) /\ ClientOK(c, p, r) /\ RouteOK(c, p, r, up, down)
      /\ MeshOK(r)
  BY DEF IInv, MeshInv
<1> HIDE DEF p, r
<1>2. p.stage = "READY" /\ p.slot \in Slot /\ p.started /\ p.peer[p.slot] = c
      /\ p.players = MaxPlayers /\ Unrouted(p) = {}
  BY <1>1 DEF ClientOK, InMatch, p
<1>3. r.member[p.slot] = c /\ Server!Started(r) /\ Complete(r)
  BY <1>1, <1>2 DEF PeerOK, Knows, ClientOK, MeshOK
<1>4. \A j \in Slot : j # p.slot => p.route[j] # "unsent"
  BY <1>2 DEF Unrouted, Others, Slot
<1>5. ASSUME NEW j \in Slot
      PROVE  p.route[j] = r.route[p.slot][j]
  <2>1. CASE j = p.slot
    BY <1>1, <1>2, <2>1 DEF MeshOK, ClientOK
  <2>2. CASE j # p.slot
    <3>1. r.route[p.slot][j] # "unsent"
      BY <1>2, <1>3, <2>2 DEF Complete
    <3>2. r.punch[p.slot][j] # "unseen"
      BY <1>1, <1>2, <3>1 DEF MeshOK
    <3>3. ~ Mute(c, j, r, up, down)
      BY <1>2, <1>3, <3>2 DEF Mute
    <3>4. QED
      BY <1>1, <1>4, <2>2, <3>3 DEF RouteOK
  <2>3. QED
    BY <2>1, <2>2
<1>6. p.route \in [Slot -> {"unsent", "direct", "relay"}]
      /\ r.route[p.slot] \in [Slot -> {"unsent", "direct", "relay"}]
  BY <1>1, <1>2 DEF ClientOK, MeshOK
<1>7. p.route = r.route[p.slot]
  BY <1>5, <1>6
<1>8. QED
  BY <1>2, <1>3, <1>7 DEF p, r

\* A READY client reaches directly only those who answered it
\* (fill_result, lobby_client.c; do_punch_report, rendezvous.c).
THEOREM DirectIsAnswered == Spec => []DirectMeansAnswered
<1>1. ASSUME IInv, MeshInv
      PROVE  DirectMeansAnswered
  <2>1. SUFFICES ASSUME NEW c \in Client, NEW i \in Slot, client[c].stage = "READY",
                        client[c].route[i] = "direct"
                 PROVE  i \in client[c].acked
    BY DEF DirectMeansAnswered, Ready
  <2>2. /\ client[c].slot \in Slot /\ sessions[0].member[client[c].slot] = c
        /\ sessions[0].route[client[c].slot][i] = "direct"
    BY <1>1, <2>1, ReadyRoutes
  <2>3. Answered_(c, client[c], sessions[0])
    BY <1>1 DEF MeshInv, ClientOK
  <2>4. QED
    BY <2>2, <2>3 DEF Answered_
<1>2. QED
  BY <1>1, Invariance, MeshInvariance, PTL

-----------------------------------------------------------------------------
(* The players find each other.                                            *)

Gathering == {"PUNCHING", "AWAITING_START", "READY"}

\* Once it has left the lobby, a client knows who sits in every slot.
Full(q) == q.stage \in Gathering => \A i \in Slot : q.peer[i] # Nobody

FullInv == \A c \in Client : Full(client[c])

LEMMA AdvancedFull ==
  ASSUME NEW member, NEW c, NEW p, PeerOK(p, member), NEW r, ClientOK(c, p, r), Full(p),
         NEW expired
  PROVE  Full(Advanced(p, expired))
<1> DEFINE a == Reporting(p, expired)
           b == Gathered(a)
           d == Concluded(b)
<1>1. /\ DOMAIN a = ClientFields
      /\ a.peer = p.peer /\ a.players = p.players /\ a.stage = p.stage
  BY DEF Reporting, PeerOK, ClientFields
<1>2. DOMAIN b = ClientFields /\ b.peer = a.peer /\ Full(b)
  <2> HIDE DEF a
  <2>1. CASE a.stage = "WAITING_PEERS" /\ AllPresent(a)
    <3>1. a.players = MaxPlayers
      BY <1>1, <2>1 DEF ClientOK, InMatch, Joined
    <3>2. \A i \in Slot : a.peer[i] # Nobody
      BY <2>1, <3>1 DEF AllPresent, Slot
    <3>3. b = [a EXCEPT !.stage = "PUNCHING"]
      BY <2>1 DEF Gathered
    <3>4. DOMAIN b = ClientFields /\ b.peer = a.peer
      BY <1>1, <3>3 DEF ClientFields
    <3> HIDE DEF b
    <3>5. QED
      BY <3>2, <3>4 DEF Full
  <2>2. CASE ~ (a.stage = "WAITING_PEERS" /\ AllPresent(a))
    <3>1. b = a
      BY <2>2 DEF Gathered
    <3> HIDE DEF b
    <3>2. QED
      BY <1>1, <3>1 DEF Full
  <2>3. QED
    BY <2>1, <2>2
<1>3. d.peer = b.peer /\ (d.stage = b.stage \/ b.stage \in Gathering)
  <2> HIDE DEF b
  <2>1. QED
    BY <1>2 DEF Concluded, ClientFields, Gathering
<1>4. d = Advanced(p, expired)
  BY DEF Advanced
<1> HIDE DEF a, b, d
<1>5. Full(d)
  BY <1>2, <1>3 DEF Full
<1>6. QED
  BY <1>4, <1>5

LEMMA HandledFull ==
  ASSUME NEW member \in Seat, NEW c, NEW p, PeerOK(p, member), Full(p),
         p.stage \in Active, NEW m, Tells(m, member)
  PROVE  Full(Handled(c, p, m))
<1>1. Full(Registered(c, p, m)) /\ Full(Seated(c, p, m))
  BY DEF Registered, Seated, Full, Gathering, PeerOK, ClientFields
<1>2. m.type = "PEER_INTRO" => Full(Introduced(p, m))
  <2>1. SUFFICES ASSUME m.type = "PEER_INTRO" PROVE Full(Introduced(p, m))
    OBVIOUS
  <2> DEFINE q == Introduced(p, m)
  <2>2. m.slot \in Slot /\ m.peer # Nobody
    BY <2>1 DEF Tells
  <2>3. q.stage = p.stage /\ \A i \in Slot : q.peer[i] = IF i = m.slot THEN m.peer ELSE p.peer[i]
    BY <2>2 DEF Introduced, PeerOK, ClientFields, Seat
  <2> HIDE DEF q
  <2>4. Full(q)
    BY <2>2, <2>3 DEF Full
  <2>5. QED
    BY <2>4 DEF q
<1>3. Full([p EXCEPT !.stage = "FAILED"])
  BY DEF Full, Gathering, PeerOK, ClientFields
<1>4. ASSUME NEW q, q.peer = p.peer, q.stage = p.stage
      PROVE  Full(q)
  BY <1>4 DEF Full
<1>5. /\ Reached(p, m).peer = p.peer /\ Reached(p, m).stage = p.stage
      /\ Informed(p, m).peer = p.peer /\ Informed(p, m).stage = p.stage
  BY DEF Reached, Informed, PeerOK, ClientFields
<1>6. Full(Told(c, p, m))
  <2> DEFINE q == [p EXCEPT !.params = m.params, !.started = TRUE]
  <2>1. q.peer = p.peer /\ q.stage = p.stage
    BY DEF PeerOK, ClientFields
  <2> HIDE DEF q
  <2>2. Full(q)
    BY <1>4, <2>1
  <2>3. QED
    BY <1>3, <2>2 DEF Told, q
<1>7. QED
  BY <1>1, <1>2, <1>3, <1>4, <1>5, <1>6 DEF Handled

\* A client becomes q, a full one.
Fills(c) ==
    \E q, in, out : Step(c, q, in, out) /\ Full(q)

LEMMA FillsFull ==
  ASSUME IInv, FullInv, NEW c \in Client, Fills(c)
  PROVE  FullInv'
<1>1. PICK q, in, out : Step(c, q, in, out) /\ Full(q)
  BY DEF Fills
<1>2. \A d \in Client : client'[d] = IF d = c THEN q ELSE client[d]
  BY <1>1 DEF Step, IInv
<1>3. QED
  BY <1>1, <1>2 DEF FullInv

LEMMA DutyFull ==
  ASSUME NEW c \in Client, NEW p, NEW member, PeerOK(p, member), NEW r, ClientOK(c, p, r),
         Full(p), NEW in, NEW replies, NEW timers, Duty(c, p, in, replies, timers)
  PROVE  Fills(c)
<1>1. PICK expired, out : Step(c, Advanced(p, expired), in, out)
  BY DEF Duty
<1>2. Full(Advanced(p, expired))
  BY AdvancedFull
<1>3. QED
  BY <1>1, <1>2 DEF Fills

LEMMA PollFull ==
  ASSUME IInv, MeshInv, FullInv, NEW c \in Client,
         \/ Begin(c) \/ Timers(c) \/ Abandon(c)
         \/ \E m \in Inbox(c) : Receive(c, m, TRUE)
  PROVE  Fills(c)
<1> DEFINE p == client[c]
           r == sessions[0]
<1>1. /\ PeerOK(p, r.member) /\ r.member \in Seat /\ Full(p) /\ ClientOK(c, p, r)
  BY DEF IInv, MeshInv, FullInv, EntryOK
<1>2. Full([p EXCEPT !.stage = "FAILED"])
  BY <1>1 DEF Full, Gathering, PeerOK, ClientFields
<1>3. CASE Begin(c)
  <2> DEFINE h == [Idle EXCEPT !.stage = "REGISTERING", !.players = MaxPlayers,
                               !.params = Match]
             g == [Idle EXCEPT !.stage = "JOINING", !.session = client[Host].session]
  <2>1. h.stage = "REGISTERING" /\ g.stage = "JOINING"
    BY DEF Idle
  <2>2. Step(c, h, {}, {Request(c, h)}) \/ Step(c, g, {}, {Request(c, g)})
    BY <1>3 DEF Begin, HostBegin, JoinBegin
  <2> HIDE DEF h, g
  <2>3. Full(h) /\ Full(g)
    BY <2>1 DEF Full, Gathering
  <2>4. QED
    BY <2>2, <2>3 DEF Fills
<1>4. CASE Timers(c)
  BY <1>1, <1>4, DutyFull DEF Timers, Quiet
<1>5. CASE Abandon(c)
  BY <1>2, <1>5 DEF Abandon, GiveUp, Fills
<1>6. ASSUME NEW m \in Inbox(c), PollOne(c, m, TRUE)
      PROVE  Fills(c)
  <2> DEFINE q == Handled(c, p, m)
  <2>1. p.stage \in Active /\ Tells(m, r.member) /\ m.to = c
    BY <1>6 DEF PollOne, Inbox, IInv
  <2>2. Full(q)
    BY <1>1, <2>1, HandledFull
  <2>3. PeerOK(q, r.member)
    BY <1>1, <2>1, HandledOK
  <2>4. ClientOK(c, q, r)
    BY <2>1, HandledMesh DEF MayBe
  <2>5. Step(c, q, {m}, {}) \/ Duty(c, q, {m}, Replies(c, p, m), TRUE)
    BY <1>6 DEF PollOne
  <2> HIDE DEF q, p, r
  <2>6. QED
    BY <2>2, <2>3, <2>4, <2>5, DutyFull DEF Fills
<1>7. CASE \E m \in Inbox(c) : PostPoll(c, m)
  BY <1>1, <1>7 DEF PostPoll, Fills
<1>8. QED
  BY <1>3, <1>4, <1>5, <1>6, <1>7 DEF Receive

LEMMA NextFull ==
  ASSUME IInv, MeshInv, FullInv, [Next]_vars
  PROVE  FullInv'
<1>1. CASE UNCHANGED client
  BY <1>1 DEF FullInv
<1>2. CASE \E c \in Client : \/ Begin(c) \/ Timers(c) \/ Abandon(c)
                             \/ \E m \in Inbox(c) : Receive(c, m, TRUE)
  BY <1>2, PollFull, FillsFull
<1>3. QED
  BY <1>1, <1>2 DEF Next, Work, Serve, Unheard, ServerTick, Lose, vars

\* Nobody leaves the lobby before it knows everyone (enter_punching,
\* lobby_client.c).
THEOREM FullRoster == Spec => []FullInv
<1>1. Init => FullInv
  BY DEF Init, ClientInit, Idle, FullInv, Full, Gathering
<1>2. IInv /\ MeshInv /\ FullInv /\ [Next]_vars => FullInv'
  BY NextFull
<1>3. QED
  BY <1>1, <1>2, Invariance, MeshInvariance, PTL DEF Spec

\* Two players who are READY have each other's address in each other's slot,
\* and the same kind of route to each other (fill_result, lobby_client.c).
THEOREM PlayersFindEachOther == Spec => []PlayersMeet
<1>1. ASSUME IInv, MeshInv, FullInv
      PROVE  PlayersMeet
  <2>1. SUFFICES ASSUME NEW c \in Client, NEW d \in Client, c # d,
                        client[c].stage = "READY", client[d].stage = "READY"
                 PROVE  /\ client[c].peer[client[d].slot] = d
                        /\ client[c].route[client[d].slot] = client[d].route[client[c].slot]
                        /\ client[c].route[client[d].slot] # "unsent"
    BY DEF PlayersMeet, Ready
  <2> DEFINE r == sessions[0]
             i == client[c].slot
             j == client[d].slot
  <2>2. /\ Server!Started(r) /\ i \in Slot /\ j \in Slot
        /\ r.member[i] = c /\ client[c].route = r.route[i]
        /\ r.member[j] = d /\ client[d].route = r.route[j]
    BY <1>1, <2>1, ReadyRoutes
  <2>3. MeshOK(r) /\ Knows(client[c], r.member) /\ Full(client[c])
    BY <1>1 DEF IInv, MeshInv, FullInv, PeerOK
  <2>4. client[c].peer[j] = d
    BY <2>1, <2>2, <2>3 DEF Full, Knows, Gathering
  <2>5. r.route[i][j] = r.route[j][i] /\ r.route[i][j] # "unsent"
    BY <2>1, <2>2, <2>3 DEF MeshOK, Complete
  <2>6. QED
    BY <2>2, <2>4, <2>5
<1>2. QED
  BY <1>1, Invariance, MeshInvariance, FullRoster, PTL

-----------------------------------------------------------------------------
(* The steps of Lobby, seen through the mapping.                           *)

Entered == {[client |-> c, slot |-> client[c].slot, route |-> client[c].route] :
               c \in {d \in Client : Ready(d)}}

Failed == {c \in Client : client[c].stage = "FAILED"}

\* What those who have entered have in common.
ReadyInv ==
    \A c \in Client :
        client[c].stage = "READY" =>
            /\ Server!Started(sessions[0])
            /\ client[c].slot \in Slot
            /\ sessions[0].member[client[c].slot] = c
            /\ client[c].route = sessions[0].route[client[c].slot]

LEMMA ReadyAgree == IInv /\ MeshInv => ReadyInv
BY ReadyRoutes DEF ReadyInv

LEMMA ReadyAgreeAfter == (IInv /\ MeshInv => ReadyInv)'
BY ReadyAgree, PTL

\* The entry goes from r to q with the same routes.
SameDeal(r, q) == q.route = r.route /\ (Server!Started(q) <=> Server!Started(r))

\* A pair gets its route.
ArbitratesOn(r, q, i, j) ==
    /\ i # j /\ r.route[i][j] = "unsent"
    /\ \E v \in {"direct", "relay"} :
           q.route = [r.route EXCEPT ![i][j] = v, ![j][i] = v]

Arbitrates(r, q) ==
    /\ \E i, j \in Slot : ArbitratesOn(r, q, i, j)
    /\ Server!Started(q) <=> Server!Started(r)

\* The match is on.
Agrees(r, q) ==
    /\ q.route = r.route /\ Complete(r)
    /\ ~ Server!Started(r) /\ Server!Started(q)

LEMMA ServerMaps ==
  ASSUME NEW q, sessions'[0] = q, UNCHANGED client,
         \/ SameDeal(sessions[0], q)
         \/ Arbitrates(sessions[0], q)
         \/ Agrees(sessions[0], q)
  PROVE  [Agreement!Next]_(Agreement!vars)
<1>1. CASE SameDeal(sessions[0], q)
  BY <1>1 DEF SameDeal, Agreement!vars, Ready, Server!Started
<1>2. CASE Arbitrates(sessions[0], q)
  <2>1. PICK i \in Slot, j \in Slot : ArbitratesOn(sessions[0], q, i, j)
    BY <1>2 DEF Arbitrates
  <2>2. Agreement!Arbitrate(i, j)
    BY <1>2, <2>1 DEF Arbitrates, ArbitratesOn, Agreement!Arbitrate, Ready, Server!Started
  <2>3. QED
    BY <2>2 DEF Agreement!Next, Agreement!Slot, Slot
<1>3. CASE Agrees(sessions[0], q)
  <2>1. Agreement!Agree
    BY <1>3 DEF Agrees, Agreement!Agree, Ready, Server!Started, Complete,
       Agreement!Slot, Slot
  <2>2. QED
    BY <2>1 DEF Agreement!Next
<1>4. QED
  BY <1>1, <1>2, <1>3

\* Of a client, only that it gets READY or FAILED is seen.
LEMMA ClientMaps ==
  ASSUME IInv, MeshInv, IInv', MeshInv', UNCHANGED sessions, NEW c \in Client,
         NEW q, NEW in, NEW out, Step(c, q, in, out),
         client[c].stage \notin {"READY", "FAILED"} \/ q = client[c]
  PROVE  [Agreement!Next]_(Agreement!vars)
<1>1. \A d \in Client : client'[d] = IF d = c THEN q ELSE client[d]
  BY DEF Step, IInv
<1>2. ReadyInv /\ ReadyInv'
  BY ReadyAgree, ReadyAgreeAfter
<1>3. CASE client[c].stage \notin {"READY", "FAILED"} /\ q.stage = "READY"
  <2> DEFINE i == q.slot
  <2>1. /\ Server!Started(sessions[0]) /\ i \in Slot
        /\ sessions[0].member[i] = c /\ q.route = sessions[0].route[i]
    BY <1>1, <1>2, <1>3 DEF ReadyInv
  <2>2. Failed' = Failed /\ c \notin Failed
    BY <1>1, <1>3 DEF Failed
  <2>3. Entered' = Entered \cup
                       {[client |-> c, slot |-> i, route |-> sessions[0].route[i]]}
    BY <1>1, <1>3, <2>1 DEF Entered, Ready
  <2>4. \A e \in Entered : e.client # c /\ e.slot # i
    BY <1>2, <1>3, <2>1 DEF Entered, Ready, ReadyInv
  <2> HIDE DEF i
  <2>5. Agreement!Enter(c, i)
    BY <2>1, <2>2, <2>3, <2>4 DEF Agreement!Enter, Entered, Failed
  <2>6. QED
    BY <2>1, <2>5 DEF Agreement!Next, Agreement!Slot, Slot
<1>4. CASE client[c].stage \notin {"READY", "FAILED"} /\ q.stage = "FAILED"
  <2>1. Failed' = Failed \cup {c}
    BY <1>1, <1>4 DEF Failed
  <2>2. Entered' = Entered /\ \A e \in Entered : e.client # c
    BY <1>1, <1>4 DEF Entered, Ready
  <2>3. Agreement!Fail(c)
    BY <2>1, <2>2 DEF Agreement!Fail, Entered, Failed
  <2>4. QED
    BY <2>3 DEF Agreement!Next
<1>5. CASE \/ client[c].stage \notin {"READY", "FAILED"}
              /\ q.stage \notin {"READY", "FAILED"}
           \/ q = client[c]
  <2>1. Failed' = Failed
    BY <1>1, <1>5 DEF Failed
  <2>2. Entered' = Entered
    BY <1>1, <1>5 DEF Entered, Ready
  <2>3. QED
    BY <2>1, <2>2 DEF Agreement!vars, Entered, Failed
<1>6. QED
  BY <1>3, <1>4, <1>5

\* Of the server's handlers, only a report can give a pair its route, and
\* only START can put the match on.
LEMMA HostReqMaps ==
  ASSUME IInv, MeshInv, NEW from, NEW n, Server!HostReq(from, n, Build)
  PROVE  SameDeal(sessions[0], sessions'[0])
<1> DEFINE r == sessions[0]
<1>0. EntryOK(r) /\ MeshOK(r)
  BY DEF IInv, MeshInv
<1>1. CASE Server!HostAgain(from)
  <2> DEFINE q == Server!Touch(r)
  <2>1. sessions'[0] = q
    BY <1>1, TheEntry DEF IInv, Server!HostAgain, Server!Become
  <2>2. SameDeal(r, q)
    BY <1>0 DEF EntryOK, SessionFields, Server!Touch, SameDeal, Server!Started
  <2>3. QED
    BY <2>1, <2>2
<1>2. CASE Server!HostRefused(from)
  BY <1>2 DEF Server!HostRefused, SameDeal
<1>3. CASE Server!HostOpens(from, n, Build)
  <2>1. PICK x \in Server!FreshIds :
           /\ r.phase = "free"
           /\ sessions'[0] = Server!Opened(from, n, Build, x)
    BY <1>3, TheEntry DEF IInv, Server!HostOpens, Server!Become, Server!IsFirst, Server!Live
  <2> DEFINE q == Server!Opened(from, n, Build, x)
  <2>2. /\ q.route = [i \in Slot |-> [j \in Slot |-> "unsent"]]
        /\ q.phase = "lobby"
    BY DEF Server!Opened, Server!Cleared, Server!Slot, Slot
  <2>3. \A i, j \in Slot : r.route[i][j] = "unsent"
    BY <1>0, <2>1 DEF MeshOK, EntryOK
  <2>4. r.route = [i \in Slot |-> [j \in Slot |-> "unsent"]]
    BY <1>0, <2>3 DEF MeshOK
  <2> HIDE DEF q
  <2>5. SameDeal(r, q)
    BY <2>1, <2>2, <2>4 DEF SameDeal, Server!Started
  <2>6. QED
    BY <2>1, <2>5 DEF q
<1>4. QED
  BY <1>1, <1>2, <1>3 DEF Server!HostReq

LEMMA JoinReqMaps ==
  ASSUME IInv, MeshInv, NEW from, NEW x, Server!JoinReq(from, x, Build)
  PROVE  SameDeal(sessions[0], sessions'[0])
<1> DEFINE r == sessions[0]
<1>0. EntryOK(r)
  BY DEF IInv
<1>1. CASE UNCHANGED sessions
  BY <1>1 DEF SameDeal
<1>2. CASE Server!JoinAgain(from, x)
  <2> DEFINE q == Server!Touch(r)
  <2>1. sessions'[0] = q
    BY <1>2, TheEntry DEF IInv, Server!JoinAgain, Server!Become, Server!OpenLobby
  <2>2. SameDeal(r, q)
    BY <1>0 DEF EntryOK, SessionFields, Server!Touch, SameDeal, Server!Started
  <2>3. QED
    BY <2>1, <2>2
<1>3. CASE Server!JoinAdmits(from, x, Build)
  <2>1. PICK i \in Server!Slot : sessions'[0] = Server!Admitted(r, i, from)
    BY <1>3, TheEntry DEF IInv, Server!JoinAdmits, Server!Become, Server!OpenLobby
  <2> DEFINE q == Server!Admitted(r, i, from)
  <2>2. SameDeal(r, q)
    BY <1>0 DEF EntryOK, SessionFields, Server!Admitted, SameDeal, Server!Started
  <2>3. QED
    BY <2>1, <2>2
<1>4. QED
  BY <1>1, <1>2, <1>3 DEF Server!JoinReq, Server!JoinUnknown, Server!JoinLate,
     Server!JoinMismatch, Server!JoinFull, Server!JoinRefused

LEMMA PunchReportMaps ==
  ASSUME IInv, MeshInv, NEW m \in up, m.type = "PUNCH_REPORT",
         Server!PunchReport(m.from, m.id, m.slot, m.other, m.verdict)
  PROVE  \/ SameDeal(sessions[0], sessions'[0])
         \/ Arbitrates(sessions[0], sessions'[0])
<1> DEFINE r == sessions[0]
           a == m.slot
           b == m.other
           q == Server!Reported(r, a, b, m.verdict)
           d == Server!Judged(q, a, b)
<1>0. Server!Reporting(0, m.from, m.id, a, b)
  BY TheEntry DEF Server!PunchReport, Server!ReportOneSided, Server!ReportAgain,
     Server!ReportDecides
<1>1. /\ EntryOK(q) /\ MeshOK(q) /\ q.route = r.route /\ q.phase = r.phase
      /\ q.punch[a][b] # "unseen" /\ a \in Slot /\ b \in Slot /\ a # b
  BY <1>0, ReportedMesh DEF MeshInv, UpOK
<1>2. CASE \/ Server!ReportOneSided(m.from, m.id, a, b, m.verdict)
           \/ Server!ReportAgain(m.from, m.id, a, b, m.verdict)
  <2>1. sessions'[0] = q
    BY <1>2, TheEntry DEF IInv, Server!ReportOneSided, Server!ReportAgain, Server!Become
  <2> HIDE DEF q
  <2>2. QED
    BY <1>1, <2>1 DEF SameDeal, Server!Started
<1>3. CASE Server!ReportDecides(m.from, m.id, a, b, m.verdict)
  <2>1. /\ sessions'[0] = d
        /\ q.punch[b][a] # "unseen" /\ q.route[a][b] = "unsent"
    BY <1>3, TheEntry DEF IInv, Server!ReportDecides, Server!Become
  <2>2. d = Server!Judged(q, a, b)
    OBVIOUS
  <2> HIDE DEF q, d, a, b
  <2>3. d.phase = q.phase /\ Judges(q, d, a, b)
    BY <1>1, <2>1, <2>2, JudgedMesh
  <2>4. ArbitratesOn(r, d, a, b)
    BY <1>1, <2>1, <2>3 DEF ArbitratesOn, Judges
  <2>5. Server!Started(d) <=> Server!Started(r)
    BY <1>1, <2>3 DEF Server!Started
  <2> HIDE DEF r
  <2>6. QED
    BY <1>1, <2>1, <2>4, <2>5 DEF Arbitrates, r
<1>4. QED
  BY <1>2, <1>3 DEF Server!PunchReport

LEMMA StartMaps ==
  ASSUME IInv, MeshInv, NEW m \in up, m.type = "START", Server!Start(m.from, m.params)
  PROVE  \/ SameDeal(sessions[0], sessions'[0])
         \/ Agrees(sessions[0], sessions'[0])
<1> DEFINE r == sessions[0]
           p == m.params
<1>1. EntryOK(r) /\ Complete(r)
  BY DEF IInv, MeshInv, UpOK
<1>2. CASE Server!StartFirst(m.from, p)
  <2> DEFINE q == Server!Begun(r, p)
  <2>1. sessions'[0] = q /\ r.phase = "lobby"
    BY <1>2, TheEntry DEF IInv, Server!StartFirst, Server!Become
  <2>2. q.route = r.route /\ q.phase = "starting"
    BY <1>1 DEF Server!Begun, EntryOK, SessionFields
  <2> HIDE DEF q
  <2>3. QED
    BY <1>1, <2>1, <2>2 DEF Agrees, Server!Started
<1>3. CASE Server!StartAgain(m.from, p)
  <2> DEFINE q == Server!Restated(r, p)
  <2>1. sessions'[0] = q
    BY <1>3, TheEntry DEF IInv, Server!StartAgain, Server!Become
  <2>2. q.route = r.route /\ q.phase = r.phase
    BY <1>1 DEF Server!Restated, EntryOK, SessionFields
  <2> HIDE DEF q
  <2>3. QED
    BY <2>1, <2>2 DEF SameDeal, Server!Started
<1>4. QED
  BY <1>2, <1>3 DEF Server!Start

LEMMA StartAckMaps ==
  ASSUME IInv, NEW from, NEW x, NEW i, Server!StartAck(from, x, i)
  PROVE  SameDeal(sessions[0], sessions'[0])
<1> DEFINE r == sessions[0]
           q == IF r.phase = "starting" THEN Server!Acked(r, i) ELSE Server!Touch(r)
<1>1. EntryOK(r)
  BY DEF IInv
<1>2. sessions'[0] = q
  BY TheEntry DEF IInv, Server!StartAck, Server!Become
<1>3. q.route = r.route /\ (Server!Started(q) <=> Server!Started(r))
  <2>1. CASE r.phase = "starting"
    BY <1>1, <2>1 DEF Server!Acked, EntryOK, SessionFields, Server!Started
  <2>2. CASE r.phase # "starting"
    BY <1>1, <2>2 DEF Server!Touch, EntryOK, SessionFields, Server!Started
  <2>3. QED
    BY <2>1, <2>2
<1> HIDE DEF q
<1>4. QED
  BY <1>2, <1>3 DEF SameDeal

LEMMA TickMaps ==
  ASSUME IInv, Server!Tick
  PROVE  SameDeal(sessions[0], sessions'[0])
<1> DEFINE r == sessions[0]
           q == Server!Ticked(r)
<1>1. EntryOK(r)
  BY DEF IInv
<1>2. ~ Server!Expired(r)
  BY <1>1 DEF Server!Expired, Server!Started, EntryOK
<1>3. sessions'[0] = q
  BY TheEntry DEF Server!Tick
<1>4. q.route = r.route /\ q.phase = r.phase
  BY <1>1, <1>2 DEF Server!Ticked, EntryOK, SessionFields
<1> HIDE DEF q
<1>5. QED
  BY <1>3, <1>4 DEF SameDeal, Server!Started

LEMMA ServeMaps ==
  ASSUME IInv, MeshInv, NEW m \in up, Serve(m) \/ Unheard(m)
  PROVE  [Agreement!Next]_(Agreement!vars)
<1>1. UNCHANGED client
  BY DEF Serve, Unheard
<1>2. \/ SameDeal(sessions[0], sessions'[0])
      \/ Arbitrates(sessions[0], sessions'[0])
      \/ Agrees(sessions[0], sessions'[0])
  <2>1. CASE Serve(m)
    BY <2>1, HostReqMaps, JoinReqMaps, PunchReportMaps, StartMaps, StartAckMaps
       DEF Serve, Heard
  <2>2. CASE Unheard(m)
    BY <2>2 DEF Unheard, SameDeal
  <2>3. QED
    BY <2>1, <2>2
<1>3. QED
  BY <1>1, <1>2, ServerMaps

LEMMA PollMaps ==
  ASSUME IInv, MeshInv, IInv', MeshInv', NEW c \in Client,
         \/ Begin(c) \/ Timers(c) \/ Abandon(c)
         \/ \E m \in Inbox(c) : Receive(c, m, TRUE)
  PROVE  [Agreement!Next]_(Agreement!vars)
<1>1. UNCHANGED sessions
  BY DEF Begin, Timers, Abandon, Receive
<1>2. \E q, in, out :
          /\ Step(c, q, in, out)
          /\ client[c].stage \notin {"READY", "FAILED"} \/ q = client[c]
  <2>1. CASE Begin(c)
    BY <2>1 DEF Begin, HostBegin, JoinBegin
  <2>2. CASE Timers(c)
    BY <2>2 DEF Timers, Quiet, Duty, Active, Asking, Joined
  <2>3. CASE Abandon(c)
    BY <2>3 DEF Abandon, GiveUp, Active, Asking, Joined
  <2>4. CASE \E m \in Inbox(c) : PollOne(c, m, TRUE)
    BY <2>4 DEF PollOne, Duty, Active, Asking, Joined
  <2>5. CASE \E m \in Inbox(c) : PostPoll(c, m)
    BY <2>5 DEF PostPoll
  <2>6. QED
    BY <2>1, <2>2, <2>3, <2>4, <2>5 DEF Receive
<1>3. QED
  BY <1>1, <1>2, ClientMaps

LEMMA InitMaps == Init => Agreement!Init
<1> SUFFICES ASSUME Init PROVE Agreement!Init
  OBVIOUS
<1>1. /\ sessions[0].route = [i \in Slot |-> [j \in Slot |-> "unsent"]]
      /\ sessions[0].phase = "free"
  BY TheEntry DEF Init, Server!Init, Server!Cleared, Server!Slot, Slot
<1>2. \A c \in Client : client[c].stage = "IDLE"
  BY DEF Init, ClientInit, Idle
<1>3. QED
  BY <1>1, <1>2 DEF Agreement!Init, Agreement!Slot, Slot, Ready, Server!Started

LEMMA NextMaps ==
  ASSUME IInv, MeshInv, IInv', MeshInv', [Next]_vars
  PROVE  [Agreement!Next]_(Agreement!vars)
<1>1. CASE \E m \in up : Serve(m) \/ Unheard(m)
  BY <1>1, ServeMaps
<1>2. CASE ServerTick
  BY <1>2, TickMaps, ServerMaps DEF ServerTick
<1>3. CASE \E c \in Client : \/ Begin(c) \/ Timers(c) \/ Abandon(c)
                             \/ \E m \in Inbox(c) : Receive(c, m, TRUE)
  BY <1>3, PollMaps
<1>4. CASE Lose
  <2>1. SameDeal(sessions[0], sessions'[0]) /\ UNCHANGED client
    BY <1>4 DEF Lose, SameDeal
  <2>2. QED
    BY <2>1, ServerMaps
<1>5. CASE UNCHANGED vars
  <2>1. SameDeal(sessions[0], sessions'[0]) /\ UNCHANGED client
    BY <1>5 DEF vars, SameDeal
  <2>2. QED
    BY <2>1, ServerMaps
<1>6. QED
  BY <1>1, <1>2, <1>3, <1>4, <1>5 DEF Next, Work

\* Lobby implements MatchSetup: whatever is lost, repeated or overtaken, those
\* who get READY are in different slots with the routes of one settled mesh
\* (lobby_client.c, lobby_poll; rendezvous.c, do_punch_report and do_start).
THEOREM AgreementIsReached == Spec => ReachesAgreement
<1>1. Init => Agreement!Init
  BY InitMaps
<1>2. /\ IInv /\ IInv' /\ MeshInv /\ MeshInv'
      /\ [Next]_vars
      => [Agreement!Next]_(Agreement!vars)
  BY NextMaps
<1>3. QED
  BY <1>1, <1>2, Invariance, MeshInvariance, PTL DEF Spec, ReachesAgreement, Agreement!Spec

-----------------------------------------------------------------------------
(* The server of the lobby is the server of Rendezvous, on one session: as *)
(* far as its table goes, nothing happens to it that does not happen there *)
(* among any clients.  What is proved of that server for an open world is  *)
(* so brought to this one.                                                 *)

\* Where the packets of a server go of which only the table is looked at.
Discard(pool, out) == {}

\* The server by its table alone, with the theorems about it.
Table ==
    INSTANCE RendezvousProofs
    WITH NumSessions <- 1, Endpoint <- Client, SessionId <- {Code},
         Version <- {Build}, Params <- {Match},
         LobbyExpiry <- 0, StartedExpiry <- 0, RelayExpiry <- 0,
         RefanPeriod <- 0, net <- {}, Pool <- Discard

\* What the server reads and writes is the same in both.
LEMMA SameReading ==
  /\ Table!Index = Server!Index /\ Table!Slot = Server!Slot /\ Table!Live = Server!Live
  /\ \A k, S : Table!IsFirst(k, S) <=> Server!IsFirst(k, S)
  /\ \A s, x : Table!Found(s, x) <=> Server!Found(s, x)
  /\ \A s, x : Table!OpenLobby(s, x) <=> Server!OpenLobby(s, x)
  /\ \A r, i, from : Table!IsPeer(r, i, from) <=> Server!IsPeer(r, i, from)
  /\ \A r : Table!Used(r) = Server!Used(r)
  /\ \A r : Table!Full(r) <=> Server!Full(r)
  /\ \A r, from : Table!IsMember(r, from) <=> Server!IsMember(r, from)
  /\ \A from : Table!Hosted(from) = Server!Hosted(from)
  /\ \A from : Table!HostsNoLobby(from) <=> Server!HostsNoLobby(from)
  /\ Table!FreshIds = Server!FreshIds
  /\ \A s, r : Table!Become(s, r) <=> Server!Become(s, r)
  /\ \A out : Table!Send(out)
BY DEF Table!Index, Server!Index, Table!Slot, Server!Slot, Table!Live, Server!Live,
   Table!IsFirst, Server!IsFirst, Table!Found, Server!Found, Table!OpenLobby,
   Server!OpenLobby, Table!IsPeer, Server!IsPeer, Table!Used, Server!Used, Table!Full,
   Server!Full, Table!IsMember, Server!IsMember, Table!Hosted, Server!Hosted,
   Table!HostsNoLobby, Server!HostsNoLobby, Table!FreshIds, Server!FreshIds,
   Table!Become, Server!Become, Table!Send, Discard

LEMMA HostReqServes ==
  ASSUME NEW from, NEW n, NEW v, Server!HostReq(from, n, v)
  PROVE  Table!HostReq(from, n, v)
<1>1. \A x : Table!Opened(from, n, v, x) = Server!Opened(from, n, v, x)
  BY DEF Table!Opened, Server!Opened, Table!Clamp, Server!Clamp, Table!Cleared,
     Server!Cleared, Table!Slot, Server!Slot, Table!IdleCap, Server!IdleCap,
     Table!StartedCap, Server!StartedCap, Table!RelayCap, Server!RelayCap,
     Table!RefanCap, Server!RefanCap
<1>2. \A r : Table!Touch(r) = Server!Touch(r)
  BY DEF Table!Touch, Server!Touch
<1>3. CASE Server!HostAgain(from)
  BY <1>2, <1>3, SameReading DEF Server!HostAgain, Table!HostAgain, Table!HostReq
<1>4. CASE Server!HostRefused(from)
  BY <1>4, SameReading DEF Server!HostRefused, Table!HostRefused, Table!HostReq
<1>5. CASE Server!HostOpens(from, n, v)
  BY <1>1, <1>5, SameReading DEF Server!HostOpens, Table!HostOpens, Table!HostReq
<1>6. QED
  BY <1>3, <1>4, <1>5 DEF Server!HostReq

LEMMA JoinReqServes ==
  ASSUME NEW from, NEW x, NEW v, Server!JoinReq(from, x, v)
  PROVE  Table!JoinReq(from, x, v)
<1>1. \A r, i : Table!Admitted(r, i, from) = Server!Admitted(r, i, from)
  BY DEF Table!Admitted, Server!Admitted
<1>2. \A r : Table!Touch(r) = Server!Touch(r)
  BY DEF Table!Touch, Server!Touch
<1>3. CASE Server!JoinUnknown(from, x) \/ Server!JoinLate(from, x)
  BY <1>3, SameReading DEF Server!JoinUnknown, Table!JoinUnknown, Server!JoinLate,
     Table!JoinLate, Server!JoinRefused, Table!JoinRefused, Table!JoinReq
<1>4. CASE Server!JoinMismatch(from, x, v) \/ Server!JoinFull(from, x, v)
  BY <1>4, SameReading DEF Server!JoinMismatch, Table!JoinMismatch, Server!JoinFull,
     Table!JoinFull, Server!JoinRefused, Table!JoinRefused, Table!JoinReq
<1>5. CASE Server!JoinAgain(from, x)
  BY <1>2, <1>5, SameReading DEF Server!JoinAgain, Table!JoinAgain, Table!JoinReq
<1>6. CASE Server!JoinAdmits(from, x, v)
  BY <1>1, <1>6, SameReading DEF Server!JoinAdmits, Table!JoinAdmits, Table!JoinReq
<1>7. QED
  BY <1>3, <1>4, <1>5, <1>6 DEF Server!JoinReq

LEMMA PunchReportServes ==
  ASSUME NEW from, NEW x, NEW a, NEW b, NEW v, Server!PunchReport(from, x, a, b, v)
  PROVE  Table!PunchReport(from, x, a, b, v)
<1>1. \A r : Table!Reported(r, a, b, v) = Server!Reported(r, a, b, v)
  BY DEF Table!Reported, Server!Reported
<1>2. \A r : Table!Judged(r, a, b) = Server!Judged(r, a, b)
  BY DEF Table!Judged, Server!Judged, Table!Judgement, Server!Judgement
<1>3. \A s : Table!Reporting(s, from, x, a, b) <=> Server!Reporting(s, from, x, a, b)
  BY SameReading DEF Table!Reporting, Server!Reporting
<1>4. CASE Server!ReportOneSided(from, x, a, b, v)
  BY <1>1, <1>3, <1>4, SameReading DEF Server!ReportOneSided, Table!ReportOneSided,
     Table!PunchReport
<1>5. CASE Server!ReportAgain(from, x, a, b, v)
  BY <1>1, <1>3, <1>5, SameReading DEF Server!ReportAgain, Table!ReportAgain,
     Table!PunchReport
<1>6. CASE Server!ReportDecides(from, x, a, b, v)
  BY <1>1, <1>2, <1>3, <1>6, SameReading DEF Server!ReportDecides, Table!ReportDecides,
     Table!PunchReport
<1>7. QED
  BY <1>4, <1>5, <1>6 DEF Server!PunchReport

LEMMA StartServes ==
  ASSUME NEW from, NEW p, Server!Start(from, p)
  PROVE  Table!Start(from, p)
<1>1. \A r : /\ Table!Begun(r, p) = Server!Begun(r, p)
             /\ Table!Restated(r, p) = Server!Restated(r, p)
  BY DEF Table!Begun, Server!Begun, Table!Restated, Server!Restated
<1>2. QED
  BY <1>1, SameReading DEF Server!Start, Table!Start, Server!StartFirst, Table!StartFirst,
     Server!StartAgain, Table!StartAgain

LEMMA StartAckServes ==
  ASSUME NEW from, NEW x, NEW i, Server!StartAck(from, x, i)
  PROVE  Table!StartAck(from, x, i)
<1>1. \A r : Table!Acked(r, i) = Server!Acked(r, i) /\ Table!Touch(r) = Server!Touch(r)
  BY DEF Table!Acked, Server!Acked, Table!Touch, Server!Touch, Table!Used, Server!Used,
     Table!Slot, Server!Slot
<1>2. QED
  BY <1>1, SameReading DEF Server!StartAck, Table!StartAck

LEMMA TickServes ==
  ASSUME Server!Tick
  PROVE  Table!Tick
<1>1. \A r : Table!Ticked(r) = Server!Ticked(r)
  BY DEF Table!Ticked, Server!Ticked, Table!Expired, Server!Expired, Table!Started,
     Server!Started, Table!HasRelay, Server!HasRelay, Table!RefanDue, Server!RefanDue,
     Table!Cleared, Server!Cleared, Table!Slot, Server!Slot, Table!IdleCap, Server!IdleCap,
     Table!StartedCap, Server!StartedCap, Table!RelayCap, Server!RelayCap,
     Table!RefanCap, Server!RefanCap
<1>2. QED
  BY <1>1, SameReading DEF Server!Tick, Table!Tick

-----------------------------------------------------------------------------
(* One match for all.                                                      *)

\* Who acknowledges START has it, and it is the one match.
UpDeal(m, cl) ==
    /\ m.type = "START" => m.params = Match
    /\ m.type = "START_ACK" => cl[m.from].started

DownDeal(m) == m.type = "START" => m.params = Match

ClientDeal(c, q) ==
    /\ q.started => q.params = Match /\ q.stage # "IDLE"
    /\ c = Host /\ q.stage # "IDLE" => q.params = Match

EntryDeal(r, cl) ==
    /\ Server!Started(r) => r.start = Match
    /\ \A i \in r.acked : /\ i \in Slot /\ r.member[i] \in Client
                          /\ cl[r.member[i]].started

DealInv ==
    /\ \A m \in up : UpDeal(m, client)
    /\ \A m \in down : DownDeal(m)
    /\ \A c \in Client : ClientDeal(c, client[c])
    /\ EntryDeal(sessions[0], client)

\* The server takes a packet: the entry becomes q and out is sent.
LEMMA ServerDeals ==
  ASSUME DealInv, NEW q, NEW out, EntryDeal(q, client), \A n \in out : DownDeal(n),
         sessions'[0] = q, down' = down \cup out, up' \subseteq up, client' = client
  PROVE  DealInv'
<1>1. EntryDeal(sessions[0], client)'
  BY DEF EntryDeal, Server!Started
<1>2. QED
  BY <1>1 DEF DealInv, UpDeal, DownDeal, ClientDeal

\* What the deal is made of stays.
SameDealt(r, q) ==
    /\ q.acked = r.acked /\ q.member = r.member
    /\ Server!Started(q) => Server!Started(r) /\ q.start = r.start

LEMMA SameEntryDeal ==
  ASSUME NEW r, NEW q, NEW cl, EntryDeal(r, cl), SameDealt(r, q)
  PROVE  EntryDeal(q, cl)
BY DEF EntryDeal, SameDealt

LEMMA TouchDealt ==
  ASSUME NEW r, EntryOK(r)
  PROVE  SameDealt(r, Server!Touch(r))
BY DEF EntryOK, SessionFields, Server!Touch, SameDealt, Server!Started

LEMMA HostReqDeal ==
  ASSUME IInv, DealInv, NEW from, NEW n, Server!HostReq(from, n, Build),
         up' \subseteq up, client' = client
  PROVE  DealInv'
<1> DEFINE r == sessions[0]
<1>0. EntryOK(r) /\ EntryDeal(r, client)
  BY DEF IInv, DealInv
<1>1. CASE Server!HostAgain(from)
  <2> DEFINE q == Server!Touch(r)
             out == {Server!HostResp(from, r.id)} \cup Server!IntrosTo(r, 0)
  <2>1. sessions'[0] = q /\ down' = down \cup out
    BY <1>1, TheEntry DEF IInv, Server!HostAgain, Server!Become, Server!Send, Deliver
  <2>2. \A m \in out : DownDeal(m)
    BY DEF Server!HostResp, Server!IntrosTo, Server!PeerIntro, DownDeal
  <2>3. EntryDeal(q, client)
    BY <1>0, TouchDealt, SameEntryDeal
  <2> HIDE DEF q, out
  <2>4. QED
    BY <2>1, <2>2, <2>3, ServerDeals
<1>2. CASE Server!HostRefused(from)
  <2> DEFINE out == {Server!Reject(from, "FULL")}
  <2>1. sessions'[0] = r /\ down' = down \cup out
    BY <1>2 DEF Server!HostRefused, Server!Send, Deliver
  <2>2. \A m \in out : DownDeal(m)
    BY DEF Server!Reject, DownDeal
  <2> HIDE DEF out, r
  <2>3. QED
    BY <1>0, <2>1, <2>2, ServerDeals
<1>3. CASE Server!HostOpens(from, n, Build)
  <2>1. PICK x \in Server!FreshIds :
           /\ sessions'[0] = Server!Opened(from, n, Build, x)
           /\ down' = down \cup {Server!HostResp(from, x)}
    BY <1>3, TheEntry DEF IInv, Server!HostOpens, Server!Become, Server!IsFirst,
       Server!Send, Deliver
  <2> DEFINE q == Server!Opened(from, n, Build, x)
             out == {Server!HostResp(from, x)}
  <2>2. q.phase = "lobby" /\ q.acked = {}
    BY DEF Server!Opened, Server!Cleared
  <2>3. \A m \in out : DownDeal(m)
    BY DEF Server!HostResp, DownDeal
  <2>4. sessions'[0] = q /\ down' = down \cup out
    BY <2>1
  <2> HIDE DEF q, out
  <2>5. EntryDeal(q, client)
    BY <2>2 DEF EntryDeal, Server!Started
  <2>6. QED
    BY <2>3, <2>4, <2>5, ServerDeals
<1>4. QED
  BY <1>1, <1>2, <1>3 DEF Server!HostReq

LEMMA JoinReqDeal ==
  ASSUME IInv, DealInv, NEW from, NEW x, Server!JoinReq(from, x, Build),
         up' \subseteq up, client' = client
  PROVE  DealInv'
<1> DEFINE r == sessions[0]
<1>0. EntryOK(r) /\ EntryDeal(r, client)
  BY DEF IInv, DealInv
<1>1. CASE \E why : Server!JoinRefused(from, why)
  <2>1. PICK why : Server!JoinRefused(from, why)
    BY <1>1
  <2> DEFINE out == {Server!Reject(from, why)}
  <2>2. sessions'[0] = r /\ down' = down \cup out
    BY <2>1 DEF Server!JoinRefused, Server!Send, Deliver
  <2>3. \A m \in out : DownDeal(m)
    BY DEF Server!Reject, DownDeal
  <2> HIDE DEF out, r
  <2>4. QED
    BY <1>0, <2>2, <2>3, ServerDeals
<1>2. CASE Server!JoinAgain(from, x)
  <2>1. PICK i \in Server!Slot :
           /\ sessions'[0] = Server!Touch(r)
           /\ down' = down \cup ({Server!JoinResp(from, i, r.players)}
                                     \cup Server!IntrosTo(r, i))
    BY <1>2, TheEntry DEF IInv, Server!JoinAgain, Server!Become, Server!OpenLobby,
       Server!Send, Deliver
  <2> DEFINE q == Server!Touch(r)
             out == {Server!JoinResp(from, i, r.players)} \cup Server!IntrosTo(r, i)
  <2>2. \A m \in out : DownDeal(m)
    BY DEF Server!JoinResp, Server!IntrosTo, Server!PeerIntro, DownDeal
  <2>3. EntryDeal(q, client)
    BY <1>0, TouchDealt, SameEntryDeal
  <2>4. sessions'[0] = q /\ down' = down \cup out
    BY <2>1
  <2> HIDE DEF q, out
  <2>5. QED
    BY <2>2, <2>3, <2>4, ServerDeals
<1>3. CASE Server!JoinAdmits(from, x, Build)
  <2>1. PICK i \in Server!Slot :
           /\ r.phase = "lobby"
           /\ Server!IsFirst(i, Server!Slot \ Server!Used(r))
           /\ sessions'[0] = Server!Admitted(r, i, from)
           /\ down' = down \cup ({Server!JoinResp(from, i, r.players)}
                          \cup Server!MutualIntros(Server!Admitted(r, i, from), i))
    BY <1>3, TheEntry DEF IInv, Server!JoinAdmits, Server!Become, Server!OpenLobby,
       Server!Send, Deliver
  <2> DEFINE q == Server!Admitted(r, i, from)
             out == {Server!JoinResp(from, i, r.players)} \cup Server!MutualIntros(q, i)
  <2>2. \A m \in out : DownDeal(m)
    BY DEF Server!JoinResp, Server!MutualIntros, Server!IntrosTo, Server!PeerIntro, DownDeal
  <2>3. q.acked = r.acked /\ q.phase = "lobby" /\ q.member = [r.member EXCEPT ![i] = from]
    BY <1>0, <2>1 DEF Server!Admitted, EntryOK, SessionFields
  <2>4. r.member[i] = Nobody
    BY <2>1 DEF Server!IsFirst, Server!Used
  <2>5. sessions'[0] = q /\ down' = down \cup out
    BY <2>1
  <2> HIDE DEF q, out
  <2>6. EntryDeal(q, client)
    BY <1>0, <2>3, <2>4 DEF EntryDeal, Server!Started, EntryOK, Seat
  <2>7. QED
    BY <2>2, <2>5, <2>6, ServerDeals
<1>4. QED
  BY <1>1, <1>2, <1>3 DEF Server!JoinReq, Server!JoinUnknown, Server!JoinLate,
     Server!JoinMismatch, Server!JoinFull

LEMMA PunchReportDeal ==
  ASSUME IInv, DealInv, NEW from, NEW x, NEW a, NEW b, NEW v,
         Server!PunchReport(from, x, a, b, v), up' \subseteq up, client' = client
  PROVE  DealInv'
<1> DEFINE r == sessions[0]
           q == Server!Reported(r, a, b, v)
           d == Server!Judged(q, a, b)
<1>0. EntryOK(r) /\ EntryDeal(r, client)
  BY DEF IInv, DealInv
<1>1. SameDealt(r, q) /\ DOMAIN q = SessionFields
  BY <1>0 DEF Server!Reported, EntryOK, SessionFields, SameDealt, Server!Started
<1>2. SameDealt(q, d)
  <2> HIDE DEF q
  <2>1. QED
    BY <1>1 DEF Server!Judged, SessionFields, SameDealt, Server!Started
<1>3. EntryDeal(q, client) /\ EntryDeal(d, client)
  BY <1>0, <1>1, <1>2, SameEntryDeal
<1>4. \A w, k : \A m \in Server!RouteToAll(w, a, b) \cup {Server!PairRoute(from, a, b, k)} :
          DownDeal(m)
  BY DEF Server!RouteToAll, Server!PairRoute, DownDeal
<1>5. CASE Server!ReportOneSided(from, x, a, b, v)
  <2> DEFINE out == {}
  <2>1. sessions'[0] = q /\ down' = down \cup out /\ \A m \in out : DownDeal(m)
    BY <1>5, TheEntry DEF IInv, Server!ReportOneSided, Server!Become, Server!Send, Deliver
  <2> HIDE DEF q, out
  <2>2. QED
    BY <1>3, <2>1, ServerDeals
<1>6. CASE Server!ReportAgain(from, x, a, b, v)
  <2> DEFINE out == {Server!PairRoute(from, a, b, q.route[a][b])}
  <2>1. sessions'[0] = q /\ down' = down \cup out
    BY <1>6, TheEntry DEF IInv, Server!ReportAgain, Server!Become, Server!Send, Deliver
  <2>2. \A m \in out : DownDeal(m)
    BY <1>4
  <2> HIDE DEF q, out
  <2>3. QED
    BY <1>3, <2>1, <2>2, ServerDeals
<1>7. CASE Server!ReportDecides(from, x, a, b, v)
  <2> DEFINE out == Server!RouteToAll(d, a, b)
  <2>1. sessions'[0] = d /\ down' = down \cup out
    BY <1>7, TheEntry DEF IInv, Server!ReportDecides, Server!Become, Server!Send, Deliver
  <2>2. \A m \in out : DownDeal(m)
    BY <1>4
  <2> HIDE DEF d, out
  <2>3. QED
    BY <1>3, <2>1, <2>2, ServerDeals
<1>8. QED
  BY <1>5, <1>6, <1>7 DEF Server!PunchReport

LEMMA StartDeal ==
  ASSUME IInv, DealInv, NEW m \in up, m.type = "START", Server!Start(m.from, m.params),
         up' \subseteq up, client' = client
  PROVE  DealInv'
<1> DEFINE r == sessions[0]
<1>0. EntryOK(r) /\ EntryDeal(r, client) /\ m.params = Match
  BY DEF IInv, DealInv, UpDeal
<1>1. ASSUME NEW q, NEW S, q.acked = r.acked, q.member = r.member, q.start = Match,
             sessions'[0] = q, down' = down \cup Server!Starts(q, S)
      PROVE  DealInv'
  <2>1. EntryDeal(q, client)
    BY <1>0, <1>1 DEF EntryDeal
  <2>2. \A n \in Server!Starts(q, S) : DownDeal(n)
    BY <1>1 DEF Server!Starts, Server!StartPkt, DownDeal
  <2>3. QED
    BY <1>1, <2>1, <2>2, ServerDeals
<1>2. CASE Server!StartFirst(m.from, m.params)
  <2> DEFINE q == Server!Begun(r, m.params)
  <2>1. sessions'[0] = q /\ down' = down \cup Server!Starts(q, Server!Used(q))
    BY <1>2, TheEntry DEF IInv, Server!StartFirst, Server!Become, Server!Send, Deliver
  <2>2. q.acked = r.acked /\ q.member = r.member /\ q.start = Match
    BY <1>0 DEF Server!Begun, EntryOK, SessionFields
  <2> HIDE DEF q
  <2>3. QED
    BY <1>1, <2>1, <2>2
<1>3. CASE Server!StartAgain(m.from, m.params)
  <2> DEFINE q == Server!Restated(r, m.params)
  <2>1. sessions'[0] = q /\ down' = down \cup Server!Starts(q, Server!Owing(q))
    BY <1>3, TheEntry DEF IInv, Server!StartAgain, Server!Become, Server!Send, Deliver
  <2>2. q.acked = r.acked /\ q.member = r.member /\ q.start = Match
    BY <1>0 DEF Server!Restated, EntryOK, SessionFields
  <2> HIDE DEF q
  <2>3. QED
    BY <1>1, <2>1, <2>2
<1>4. QED
  BY <1>2, <1>3 DEF Server!Start

\* Only who sits in a slot can acknowledge for it.
LEMMA StartAckDeal ==
  ASSUME IInv, DealInv, NEW m \in up, m.type = "START_ACK",
         Server!StartAck(m.from, m.id, m.slot), up' \subseteq up, client' = client
  PROVE  DealInv'
<1> DEFINE r == sessions[0]
           i == m.slot
           q == IF r.phase = "starting" THEN Server!Acked(r, i) ELSE Server!Touch(r)
           out == {}
<1>0. /\ EntryOK(r) /\ EntryDeal(r, client) /\ m.from \in Client
      /\ client[m.from].started
  BY DEF IInv, DealInv, UpDeal
<1>1. /\ sessions'[0] = q /\ down' = down \cup out /\ \A n \in out : DownDeal(n)
      /\ Server!IsPeer(r, i, m.from)
  BY TheEntry DEF IInv, Server!StartAck, Server!Become, Server!Send, Deliver
<1>2. i \in Slot /\ r.member[i] = m.from
  BY <1>1 DEF Server!IsPeer, Server!IsFirst, Server!Slot, Slot
<1>3. EntryDeal(q, client)
  <2>1. CASE r.phase = "starting"
    <3> DEFINE w == Server!Acked(r, i)
    <3>1. w.acked = r.acked \cup {i} /\ w.member = r.member /\ w.start = r.start
      BY <1>0 DEF Server!Acked, EntryOK, SessionFields
    <3>2. q = w /\ Server!Started(r)
      BY <2>1 DEF Server!Started
    <3> HIDE DEF w, q
    <3>3. QED
      BY <1>0, <1>2, <3>1, <3>2 DEF EntryDeal
  <2>2. CASE r.phase # "starting"
    <3>1. q = Server!Touch(r)
      BY <2>2
    <3> HIDE DEF q
    <3>2. QED
      BY <1>0, <3>1, TouchDealt, SameEntryDeal
  <2>3. QED
    BY <2>1, <2>2
<1> HIDE DEF q, out
<1>4. QED
  BY <1>1, <1>3, ServerDeals

LEMMA TickDeal ==
  ASSUME IInv, DealInv, Server!Tick, up' \subseteq up, client' = client
  PROVE  DealInv'
<1> DEFINE r == sessions[0]
           q == Server!Ticked(r)
           out == UNION {Server!Starts(sessions[s], Server!Owing(sessions[s])) :
                            s \in {t \in Server!Index : Server!RefanDue(sessions[t])}}
<1>1. EntryOK(r) /\ EntryDeal(r, client)
  BY DEF IInv, DealInv
<1>2. ~ Server!Expired(r)
  BY <1>1 DEF Server!Expired, Server!Started, EntryOK
<1>3. sessions'[0] = q /\ down' = down \cup out
  BY TheEntry DEF Server!Tick, Server!Send, Deliver
<1>4. SameDealt(r, q)
  BY <1>1, <1>2 DEF Server!Ticked, EntryOK, SessionFields, SameDealt, Server!Started
<1>5. \A n \in out : DownDeal(n)
  BY <1>1, TheEntry DEF Server!Starts, Server!StartPkt, Server!RefanDue, Server!Started,
     EntryDeal, DownDeal
<1> HIDE DEF q, out
<1>6. EntryDeal(q, client)
  BY <1>1, <1>4, SameEntryDeal
<1>7. QED
  BY <1>3, <1>5, <1>6, ServerDeals

LEMMA ServeDeal ==
  ASSUME IInv, DealInv, NEW m \in up, Serve(m) \/ Unheard(m)
  PROVE  DealInv'
<1>1. up' \subseteq up /\ client' = client
  BY DEF Serve, Unheard
<1>2. CASE Serve(m)
  BY <1>1, <1>2, HostReqDeal, JoinReqDeal, PunchReportDeal, StartDeal, StartAckDeal
     DEF Serve, Heard
<1>3. CASE Unheard(m)
  BY <1>3 DEF Unheard, DealInv
<1>4. QED
  BY <1>2, <1>3

\* What a client sends of the deal is true of what it becomes.
Vouched(c, q, out) ==
    \A p \in out : /\ p.type = "START" => p.params = Match
                   /\ p.type = "START_ACK" => p.from = c /\ q.started

\* A client becomes q, keeping to the deal.
Deals(c) ==
    \E q, in, out :
        /\ Step(c, q, in, out)
        /\ ClientDeal(c, q) /\ (client[c].started => q.started)
        /\ Vouched(c, q, out)

LEMMA ClientDeals ==
  ASSUME IInv, DealInv, NEW c \in Client, Deals(c), UNCHANGED sessions
  PROVE  DealInv'
<1>1. PICK q, in, out : /\ Step(c, q, in, out)
                        /\ ClientDeal(c, q) /\ (client[c].started => q.started)
                        /\ Vouched(c, q, out)
  BY DEF Deals
<1>2. \A d \in Client : client'[d] = IF d = c THEN q ELSE client[d]
  BY <1>1 DEF Step, IInv
<1>3. \A d \in Client : ClientDeal(d, client'[d]) /\ (client[d].started => client'[d].started)
  BY <1>1, <1>2 DEF DealInv
<1>4. \A m \in up' : UpDeal(m, client')
  <2>1. ASSUME NEW m \in up
        PROVE  UpDeal(m, client')
    BY <1>3 DEF DealInv, UpDeal, IInv
  <2>2. ASSUME NEW m \in out
        PROVE  UpDeal(m, client')
    BY <1>1, <1>2 DEF Vouched, UpDeal
  <2>3. QED
    BY <1>1, <2>1, <2>2 DEF Step
<1>5. \A m \in down' : DownDeal(m)
  BY <1>1 DEF Step, DealInv, Vouched, DownDeal
<1>6. EntryDeal(sessions[0], client')
  BY <1>3 DEF DealInv, EntryDeal
<1>7. QED
  BY <1>3, <1>4, <1>5, <1>6 DEF DealInv

LEMMA AdvancedDeal ==
  ASSUME NEW c, NEW p, DOMAIN p = ClientFields, ClientDeal(c, p), NEW expired
  PROVE  /\ ClientDeal(c, Advanced(p, expired))
         /\ Advanced(p, expired).started = p.started
<1> DEFINE a == Reporting(p, expired)
           b == Gathered(a)
           d == Concluded(b)
<1>1. /\ DOMAIN a = ClientFields
      /\ a.started = p.started /\ a.params = p.params /\ a.stage = p.stage
  BY DEF Reporting, ClientFields
<1> HIDE DEF a
<1>2. /\ DOMAIN b = ClientFields
      /\ b.started = a.started /\ b.params = a.params
      /\ b.stage = "IDLE" <=> a.stage = "IDLE"
  BY <1>1 DEF Gathered, ClientFields
<1> HIDE DEF b
<1>3. /\ d.started = b.started /\ d.params = b.params
      /\ d.stage = "IDLE" <=> b.stage = "IDLE"
  BY <1>2 DEF Concluded, ClientFields
<1>4. Advanced(p, expired) = d
  BY DEF Advanced, a, b
<1> HIDE DEF d
<1>5. QED
  BY <1>1, <1>2, <1>3, <1>4 DEF ClientDeal

LEMMA DutyDeal ==
  ASSUME NEW c \in Client, NEW p, DOMAIN p = ClientFields, ClientDeal(c, p),
         client[c].started => p.started, NEW in, NEW replies, Vouched(c, p, replies),
         NEW timers, Duty(c, p, in, replies, timers)
  PROVE  Deals(c)
<1>1. PICK expired, due :
        /\ due \subseteq Repeats(c, p, expired)
        /\ Step(c, Advanced(p, expired), in, replies \cup Failures(c, p, expired) \cup due)
  BY DEF Duty
<1> DEFINE q == Advanced(p, expired)
           out == replies \cup Failures(c, p, expired) \cup due
<1>2. ClientDeal(c, q) /\ q.started = p.started
  BY AdvancedDeal
<1>3. \A m \in Failures(c, p, expired) : m.type = "PUNCH_REPORT"
  BY DEF Failures, ReportOn, Report
<1>4. \A m \in Repeats(c, p, expired) :
        m.type # "START_ACK" /\ (m.type = "START" => m.params = Match)
  <2>1. Request(c, p).type \in {"HOST_REQ", "JOIN_REQ"}
    BY DEF Request, HostReq, JoinReq
  <2>2. Starting(c, p) => p.params = Match
    BY DEF Starting, ClientDeal, Joined
  <2>3. QED
    BY <2>1, <2>2 DEF Repeats, ReportOn, Report, Punch, StartReq
<1>5. Vouched(c, q, out)
  <2> HIDE DEF q
  <2>1. QED
    BY <1>1, <1>2, <1>3, <1>4 DEF Vouched
<1>6. Step(c, q, in, out)
  BY <1>1
<1> HIDE DEF q, out
<1>7. QED
  BY <1>2, <1>5, <1>6 DEF Deals

LEMMA HandledDeal ==
  ASSUME NEW c \in Client, NEW p, DOMAIN p = ClientFields, ClientDeal(c, p),
         p.stage \in Active, NEW m, DownDeal(m)
  PROVE  /\ ClientDeal(c, Handled(c, p, m))
         /\ p.started => Handled(c, p, m).started
         /\ Handled(c, p, m).stage # "FAILED" =>
                Vouched(c, Handled(c, p, m), Replies(c, p, m))
<1>1. p.stage # "IDLE" /\ (c = Host => p.params = Match)
  BY DEF Active, Asking, Joined, ClientDeal
<1>2. ASSUME NEW q, q.started = p.started, q.params = p.params, q.stage # "IDLE"
      PROVE  ClientDeal(c, q) /\ (p.started => q.started)
  BY <1>1, <1>2 DEF ClientDeal
<1> DEFINE Kept(q) == q.started = p.started /\ q.params = p.params /\ q.stage # "IDLE"
<1>3. Kept(Registered(c, p, m)) /\ Kept(Seated(c, p, m)) /\ Kept(Introduced(p, m))
  BY <1>1 DEF Registered, Seated, Introduced, ClientFields
<1>4. Kept(Reached(p, m)) /\ Kept(Informed(p, m))
  BY <1>1 DEF Reached, Informed, ClientFields
<1> DEFINE f == [p EXCEPT !.stage = "FAILED"]
<1>5. f.started = p.started /\ f.params = p.params /\ f.stage = "FAILED"
  BY DEF ClientFields
<1>6. m.type = "START" =>
        /\ ClientDeal(c, Told(c, p, m)) /\ (p.started => Told(c, p, m).started)
        /\ Told(c, p, m).stage # "FAILED" => Told(c, p, m).started
  <2> SUFFICES ASSUME m.type = "START"
               PROVE  /\ ClientDeal(c, Told(c, p, m)) /\ (p.started => Told(c, p, m).started)
                      /\ Told(c, p, m).stage # "FAILED" => Told(c, p, m).started
    OBVIOUS
  <2> DEFINE g == [p EXCEPT !.params = m.params, !.started = TRUE]
  <2>1. g.started = TRUE /\ g.params = Match /\ g.stage # "IDLE"
    BY <1>1 DEF ClientFields, DownDeal
  <2>2. Told(c, p, m) = f \/ Told(c, p, m) = g
    BY DEF Told
  <2> HIDE DEF f, g
  <2>3. ClientDeal(c, f) /\ (p.started => f.started)
    BY <1>2, <1>5
  <2>4. ClientDeal(c, g)
    BY <2>1 DEF ClientDeal
  <2>5. QED
    BY <1>5, <2>1, <2>2, <2>3, <2>4
<1>7. /\ ClientDeal(c, Handled(c, p, m))
      /\ p.started => Handled(c, p, m).started
  <2> HIDE DEF f
  <2>1. ClientDeal(c, f) /\ (p.started => f.started)
    BY <1>2, <1>5
  <2>2. QED
    BY <1>2, <1>3, <1>4, <1>6, <2>1 DEF Handled, f
<1>8. ASSUME Handled(c, p, m).stage # "FAILED"
      PROVE  Vouched(c, Handled(c, p, m), Replies(c, p, m))
  <2>1. CASE m.type = "START" /\ p.stage \in Joined
    <3>1. Handled(c, p, m) = Told(c, p, m)
      BY <2>1 DEF Handled
    <3>2. Told(c, p, m).started
      BY <1>6, <1>8, <2>1, <3>1
    <3>3. Replies(c, p, m) \subseteq {StartAck(c, p.session, p.slot)}
      BY <2>1 DEF Replies
    <3>4. QED
      BY <3>1, <3>2, <3>3 DEF Vouched, StartAck
  <2>2. CASE ~ (m.type = "START" /\ p.stage \in Joined)
    <3>1. \A n \in Replies(c, p, m) : n.type \in {"PUNCH_ACK", "PUNCH_REPORT"}
      BY <2>2 DEF Replies, PunchAck, Report
    <3>2. QED
      BY <3>1 DEF Vouched
  <2>3. QED
    BY <2>1, <2>2
<1>9. QED
  BY <1>7, <1>8

LEMMA PollDeal ==
  ASSUME IInv, MeshInv, DealInv, NEW c \in Client,
         \/ Begin(c) \/ Timers(c) \/ Abandon(c)
         \/ \E m \in Inbox(c) : Receive(c, m, TRUE)
  PROVE  Deals(c)
<1> DEFINE p == client[c]
<1>1. /\ DOMAIN p = ClientFields /\ ClientDeal(c, p)
      /\ p.stage = "READY" => p.started
  BY DEF IInv, PeerOK, MeshInv, ClientOK, DealInv
<1>2. Vouched(c, p, {})
  BY DEF Vouched
<1>3. CASE Begin(c)
  <2> DEFINE h == [Idle EXCEPT !.stage = "REGISTERING", !.players = MaxPlayers,
                               !.params = Match]
             g == [Idle EXCEPT !.stage = "JOINING", !.session = client[Host].session]
  <2>1. /\ \/ c = Host /\ Step(c, h, {}, {Request(c, h)})
           \/ c # Host /\ Step(c, g, {}, {Request(c, g)})
        /\ p.stage = "IDLE"
    BY <1>3 DEF Begin, HostBegin, JoinBegin
  <2>2. h.params = Match /\ ~ g.started
    BY DEF Idle
  <2>3. ClientDeal(c, h) /\ (c # Host => ClientDeal(c, g))
    BY <2>2 DEF ClientDeal
  <2>4. \A r : Vouched(c, r, {Request(c, r)})
    BY DEF Vouched, Request, HostReq, JoinReq
  <2>5. ~ p.started
    BY <1>1, <2>1 DEF ClientDeal
  <2> HIDE DEF h, g, p
  <2>6. QED
    BY <2>1, <2>3, <2>4, <2>5 DEF Deals, p
<1>4. CASE Timers(c)
  BY <1>1, <1>2, <1>4, DutyDeal DEF Timers, Quiet
<1>5. CASE Abandon(c)
  <2> DEFINE f == [p EXCEPT !.stage = "FAILED"]
  <2>1. f.started = p.started /\ f.params = p.params /\ f.stage # "IDLE"
    BY <1>1 DEF ClientFields
  <2>2. Step(c, f, {}, {}) /\ p.stage # "IDLE"
    BY <1>5 DEF Abandon, GiveUp, Active, Asking, Joined
  <2> HIDE DEF f
  <2>3. ClientDeal(c, f) /\ Vouched(c, f, {})
    BY <1>1, <2>1, <2>2 DEF ClientDeal, Vouched
  <2>4. QED
    BY <2>1, <2>2, <2>3 DEF Deals
<1>6. ASSUME NEW m \in Inbox(c), PollOne(c, m, TRUE)
      PROVE  Deals(c)
  <2> DEFINE q == Handled(c, p, m)
  <2>1. p.stage \in Active /\ DownDeal(m) /\ Tells(m, sessions[0].member) /\ m.to = c
    BY <1>6 DEF PollOne, Inbox, IInv, DealInv
  <2>2. /\ ClientDeal(c, q) /\ (p.started => q.started)
        /\ q.stage # "FAILED" => Vouched(c, q, Replies(c, p, m))
    BY <1>1, <2>1, HandledDeal
  <2>3. DOMAIN q = ClientFields
    BY <2>1, HandledOK DEF IInv, EntryOK, PeerOK
  <2>4. IF q.stage = "FAILED" THEN Step(c, q, {m}, {})
        ELSE Duty(c, q, {m}, Replies(c, p, m), TRUE)
    BY <1>6 DEF PollOne
  <2>5. Vouched(c, q, {})
    BY DEF Vouched
  <2> HIDE DEF q
  <2>6. QED
    BY <2>2, <2>3, <2>4, <2>5, DutyDeal DEF Deals
<1>7. ASSUME NEW m \in Inbox(c), PostPoll(c, m)
      PROVE  Deals(c)
  <2> DEFINE out == IF m.type = "START" THEN {StartAck(c, p.session, p.slot)}
                    ELSE IF m.type = "PUNCH" THEN Replies(c, p, m) ELSE {}
  <2>1. Step(c, p, {m}, out) /\ p.stage = "READY"
    BY <1>7 DEF PostPoll
  <2>2. Vouched(c, p, out)
    <3>1. CASE m.type = "START"
      BY <1>1, <2>1, <3>1 DEF Vouched, StartAck
    <3>2. CASE m.type = "PUNCH"
      BY <3>2 DEF Vouched, Replies, PunchAck
    <3>3. QED
      BY <1>2, <3>1, <3>2
  <2> HIDE DEF p, out
  <2>3. QED
    BY <1>1, <2>1, <2>2 DEF Deals, p
<1>8. QED
  BY <1>3, <1>4, <1>5, <1>6, <1>7 DEF Receive

LEMMA InitDeal == Init => DealInv
<1> SUFFICES ASSUME Init PROVE DealInv
  OBVIOUS
<1>1. /\ sessions[0].phase = "free" /\ sessions[0].acked = {}
      /\ down = {} /\ up = {}
  BY TheEntry DEF Init, ClientInit, Server!Init, Server!Cleared, Deliver
<1>2. \A c \in Client : client[c].stage = "IDLE" /\ ~ client[c].started
  BY DEF Init, ClientInit, Idle
<1>3. QED
  BY <1>1, <1>2 DEF DealInv, ClientDeal, EntryDeal, Server!Started

LEMMA NextDeal ==
  ASSUME IInv, MeshInv, DealInv, [Next]_vars
  PROVE  DealInv'
<1>1. CASE \E m \in up : Serve(m) \/ Unheard(m)
  BY <1>1, ServeDeal
<1>2. CASE ServerTick
  BY <1>2, TickDeal DEF ServerTick
<1>3. ASSUME NEW c \in Client,
             \/ Begin(c) \/ Timers(c) \/ Abandon(c)
             \/ \E m \in Inbox(c) : Receive(c, m, TRUE)
      PROVE  DealInv'
  <2>1. UNCHANGED sessions
    BY <1>3 DEF Begin, Timers, Abandon, Receive
  <2>2. QED
    BY <1>3, <2>1, PollDeal, ClientDeals
<1>4. CASE Lose \/ UNCHANGED vars
  <2>1. /\ UNCHANGED <<client, sessions>>
        /\ up' \subseteq up /\ down' \subseteq down
    BY <1>4 DEF Lose, vars
  <2>2. QED
    BY <2>1 DEF DealInv, UpDeal, DownDeal, ClientDeal, EntryDeal, Server!Started
<1>5. QED
  BY <1>1, <1>2, <1>3, <1>4 DEF Next, Work

\* There is one deal: whoever takes START, repeats it or acknowledges it has
\* the parameters the host decided on, and no acknowledgement is counted of a
\* client that has not been told (lobby_client.c, handle_start; rendezvous.c,
\* do_start and do_start_ack).
THEOREM DealIsOne == Spec => []DealInv
BY InitDeal, NextDeal, Invariance, MeshInvariance, PTL DEF Spec

-----------------------------------------------------------------------------
(* Every step of the lobby is a step of the table, or leaves it.           *)

LEMMA TableAssumptions ==
  Table!SizeAssumption /\ Table!DeadlineAssumption /\ Table!SentinelAssumption
BY NetworkAssumption
DEF Table!SizeAssumption, Table!DeadlineAssumption, Table!SentinelAssumption

LEMMA TableInit == Init => Table!Init
BY SameReading DEF Init, Server!Init, Table!Init, Server!Cleared, Table!Cleared, Discard,
   Table!Slot, Server!Slot, Table!IdleCap, Server!IdleCap,
   Table!StartedCap, Server!StartedCap, Table!RelayCap, Server!RelayCap,
   Table!RefanCap, Server!RefanCap

LEMMA HeardServes ==
  ASSUME IInv, MeshInv, DealInv, Table!IInv, NEW m \in up, Heard(m)
  PROVE  [Table!Next]_(Table!vars)
<1>1. m.from \in Client
  BY DEF IInv
<1>2. CASE m.type = "HOST_REQ" /\ Server!HostReq(m.from, m.players, Build)
  <2>1. m.players \in 0 .. MaxPlayers + 1
    BY <1>2 DEF MeshInv, UpOK
  <2>2. QED
    BY <1>1, <1>2, <2>1, HostReqServes DEF Table!Next, Table!Receive
<1>3. ASSUME NEW s, NEW x, Table!Found(s, x)
      PROVE  x = Code
  BY <1>3 DEF Table!Found, Table!IsFirst, Table!Live, Table!IInv, Table!EntryOK, Table!Session
<1>4. CASE m.type = "JOIN_REQ" /\ Server!JoinReq(m.from, m.id, Build)
  <2>1. Table!JoinReq(m.from, m.id, Build)
    BY <1>4, JoinReqServes
  <2>2. CASE m.id = Code
    BY <1>1, <2>1, <2>2 DEF Table!Next, Table!Receive
  <2>3. CASE m.id # Code
    <3>1. UNCHANGED sessions
      BY <1>3, <2>1, <2>3 DEF Table!JoinReq, Table!JoinUnknown, Table!JoinLate,
         Table!JoinMismatch, Table!JoinFull, Table!JoinAgain, Table!JoinAdmits,
         Table!OpenLobby, Table!JoinRefused
    <3>2. QED
      BY <3>1 DEF Table!vars
  <2>4. QED
    BY <2>2, <2>3
<1>5. CASE /\ m.type = "PUNCH_REPORT"
           /\ Server!PunchReport(m.from, m.id, m.slot, m.other, m.verdict)
  <2>1. Table!PunchReport(m.from, m.id, m.slot, m.other, m.verdict)
    BY <1>5, PunchReportServes
  <2>2. PICK s : Table!Reporting(s, m.from, m.id, m.slot, m.other)
    BY <2>1 DEF Table!PunchReport, Table!ReportOneSided, Table!ReportAgain, Table!ReportDecides
  <2>3. m.slot \in Table!Slot /\ m.other \in Table!Slot /\ m.id = Code
    BY <1>3, <2>2 DEF Table!Reporting, Table!IsPeer, Table!IsFirst, Table!Used
  <2>4. m.verdict \in {"open", "shut"}
    BY <1>5 DEF MeshInv, UpOK
  <2>5. QED
    BY <1>1, <2>1, <2>3, <2>4 DEF Table!Next, Table!Receive
<1>6. CASE m.type = "START" /\ Server!Start(m.from, m.params)
  <2>1. m.params = Match
    BY <1>6 DEF DealInv, UpDeal
  <2>2. QED
    BY <1>1, <1>6, <2>1, StartServes DEF Table!Next, Table!Receive
<1>7. CASE m.type = "START_ACK" /\ Server!StartAck(m.from, m.id, m.slot)
  <2>1. Table!StartAck(m.from, m.id, m.slot)
    BY <1>7, StartAckServes
  <2>2. m.slot \in Table!Slot /\ m.id = Code
    BY <1>3, <2>1 DEF Table!StartAck, Table!IsPeer, Table!IsFirst
  <2>3. QED
    BY <1>1, <2>1, <2>2 DEF Table!Next, Table!Receive
<1>8. QED
  BY <1>2, <1>4, <1>5, <1>6, <1>7 DEF Heard

LEMMA NextServes ==
  ASSUME IInv, MeshInv, DealInv, Table!IInv, [Next]_vars
  PROVE  [Table!Next]_(Table!vars)
<1>1. CASE \E m \in up : Serve(m)
  BY <1>1, HeardServes DEF Serve
<1>2. CASE ServerTick
  BY <1>2, TickServes DEF ServerTick, Table!Next
<1>3. CASE UNCHANGED sessions
  BY <1>3 DEF Table!vars
<1>4. QED
  BY <1>1, <1>2, <1>3 DEF Next, Work, Unheard, Begin, Timers, Abandon, Receive, Lose, vars

\* The lobby's server implements Rendezvous: what its clients, with their
\* repeats and what the network does to them, make of the table is what
\* rv_handle and rv_tick may make of it (rendezvous.c).  The clients keep to
\* what the server expects of a packet: known slots, one verdict, one START.
THEOREM ServerServes == Spec => Table!Spec
<1>1. Init => Table!Init /\ Table!IInv
  BY TableInit, TableAssumptions, Table!InitIInv
<1>2. Table!IInv /\ [Table!Next]_(Table!vars) => Table!IInv'
  BY TableAssumptions, Table!NextIInv
<1>3. IInv /\ MeshInv /\ DealInv /\ Table!IInv /\ [Next]_vars => [Table!Next]_(Table!vars)
  BY NextServes
<1>4. QED
  BY <1>1, <1>2, <1>3, Invariance, MeshInvariance, DealIsOne, PTL DEF Spec, Table!Spec

\* So the server's promises hold here: slots handed out in order and once, no
\* verdict or route without both reports, and nothing decided taken back
\* (rendezvous.c, do_join_req, do_punch_report and do_start).
THEOREM ServerGuarantees ==
    Spec => /\ [](Table!MembershipOrdered /\ Table!NoStaleRoute)
            /\ Table!DecisionsKept
BY ServerServes, TableAssumptions, Table!MembershipIsOrdered, Table!RoutesAreFresh,
   Table!DecisionsAreKept, PTL

\* The match runs: in each slot there is a client that has its START.
EveryoneTold ==
    sessions[0].phase = "running" =>
        \A i \in Slot : \E c \in Client : /\ sessions[0].member[i] = c
                                         /\ client[c].started
                                         /\ client[c].params = Match

\* A session is RUNNING only when every slot has its player, and each of them
\* has taken the START of this very match (do_start_ack, rendezvous.c, counts
\* acknowledgements; that it counts enough of them, and true ones, is up to the
\* clients: the host starts a full lobby, and nobody acknowledges unheard).
THEOREM RunningIsTold == Spec => []EveryoneTold
<1>1. IInv /\ MeshInv /\ DealInv /\ Table!IInv => EveryoneTold
  <2> SUFFICES ASSUME IInv, MeshInv, DealInv, Table!IInv, sessions[0].phase = "running",
                      NEW i \in Slot
               PROVE  \E c \in Client : /\ sessions[0].member[i] = c
                                       /\ client[c].started
                                       /\ client[c].params = Match
    BY DEF EveryoneTold
  <2>1. PICK j \in Slot : j # i
    <3>1. 0 \in Slot /\ 1 \in Slot
      BY DEF Slot
    <3>2. QED
      BY <3>1
  <2>2. sessions[0].member[i] # Nobody
    BY <2>1 DEF MeshInv, MeshOK, Complete, Server!Started
  <2>3. i \in sessions[0].acked
    BY <2>2, TheEntry, SameReading DEF Table!IInv, Table!EntryOK, Table!RunningIsAcked,
       Table!Used, Table!Slot, Table!Index, Slot
  <2>4. QED
    BY <2>2, <2>3 DEF DealInv, EntryDeal, ClientDeal, IInv, Seat, EntryOK
<1>2. QED
  BY <1>1, ServerServes, TableAssumptions, Table!Invariance, Invariance, MeshInvariance,
     DealIsOne, PTL

=============================================================================
