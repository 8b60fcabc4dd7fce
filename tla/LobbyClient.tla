----------------------------- MODULE LobbyClient -----------------------------
(***************************************************************************)
(* The client half of the lobby (src/netplay/lobby_client.c): register or  *)
(* join, learn the peers, punch, collect the routes, wait for START.       *)
(*                                                                         *)
(* One action is one lobby_poll: at most one datagram handled, then the    *)
(* whole duty of the stage.  A poll that drains several is as many polls   *)
(* in which no timer has run out: the network delivers in any order, so    *)
(* the duty in between makes no difference.  A timer is a choice: what it  *)
(* would resend is a set of packets, of which a poll sends any.            *)
(*                                                                         *)
(* A nonce is modelled by the slot it was drawn for: its owner is the      *)
(* addressee of the PUNCH_ACK that echoes it.  An address is its client.   *)
(* KEEPALIVE, which only tells the server to wait, is left out, since no   *)
(* deadline of the server passes here.                                     *)
(***************************************************************************)
EXTENDS Integers

CONSTANTS
    Client,       \* the players' programs, each with one UDP socket
    Host,         \* the one that registers; the others are given its code
    MaxPlayers,   \* the number of players, and of slots
    Match,        \* the parameters the host puts into START
    ForcedRelay,  \* lobby_set_forced_relay: the hook that suppresses punching
    Nobody,       \* an unused slot
    Unset         \* a session id or START not received yet

ASSUME ClientAssumption ==
    /\ Host \in Client /\ Nobody \notin Client
    /\ MaxPlayers \in Nat \ {0, 1}
    /\ ForcedRelay \in BOOLEAN
    /\ Match # Unset

VARIABLES
    client,  \* client[c]: c's LobbyClient
    up,      \* datagrams under way to the server
    down     \* datagrams under way to clients, from the server and each other

Slot == 0 .. MaxPlayers - 1

Joined == {"WAITING_PEERS", "PUNCHING", "AWAITING_START"}
Asking == {"REGISTERING", "JOINING"}
Active == Asking \cup Joined

Pairs(n) == {{i, j} : i, j \in 0 .. n - 1} \ {{i} : i \in 0 .. n - 1}

\* client_init
Idle ==
    [ stage |-> "IDLE", slot |-> 0, session |-> Unset, players |-> 0,
      peer     |-> [i \in Slot |-> Nobody],     \* present, and its address
      acked    |-> {},                          \* slots that answered a punch
      reported |-> {},
      route    |-> [i \in Slot |-> "unsent"],   \* -1
      known    |-> {},                          \* route_known
      started  |-> FALSE,                       \* start_seen
      params   |-> Unset ]

ClientInit ==
    /\ client = [c \in Client |-> Idle]
    /\ up = {}
    /\ down = {}

-----------------------------------------------------------------------------
(* Packets the client sends.                                               *)

HostReq(c, n)        == [from |-> c, type |-> "HOST_REQ", players |-> n]
JoinReq(c, x)        == [from |-> c, type |-> "JOIN_REQ", id |-> x]
Report(c, x, i, j, v) == [from |-> c, type |-> "PUNCH_REPORT", id |-> x,
                         slot |-> i, other |-> j, verdict |-> v]
StartReq(c, p)       == [from |-> c, type |-> "START", params |-> p]
StartAck(c, x, i)    == [from |-> c, type |-> "START_ACK", id |-> x, slot |-> i]
Punch(c, to, x, i)   == [to |-> to, type |-> "PUNCH", from |-> c, id |-> x,
                         nonce |-> i]
PunchAck(c, to, x, i, nonce) ==
    [to |-> to, type |-> "PUNCH_ACK", from |-> c, id |-> x, slot |-> i,
     nonce |-> nonce]

\* What a client still unanswered keeps asking.
Request(c, r) == IF c = Host THEN HostReq(c, r.players) ELSE JoinReq(c, r.session)

\* Mutant of Verdict: whatever was to be reported was reached.
VerdictOpen(r, i) == "open"

Verdict(r, i) == IF i \in r.acked THEN "open" ELSE "shut"

ReportOn(c, r, i) == Report(c, r.session, r.slot, i, Verdict(r, i))

-----------------------------------------------------------------------------
(* Predicates of a client's state.                                         *)

Others(r) == (0 .. r.players - 1) \ {r.slot}

\* Mutant of AllPresent: the last of the players is not waited for.
AllPresentButLast(r) ==
    r.players > 0 /\ \A i \in 0 .. r.players - 2 : r.peer[i] # Nobody

AllPresent(r) ==
    r.players > 0 /\ \A i \in 0 .. r.players - 1 : r.peer[i] # Nobody

Unrouted(r) == {i \in Others(r) : r.route[i] = "unsent"}

\* Mutant of AllPairsDecided: the host asks for its own routes only.
OwnPairsDecided(r) == r.players >= 2 /\ Unrouted(r) = {}

AllPairsDecided(r) == r.players >= 2 /\ Pairs(r.players) \subseteq r.known

-----------------------------------------------------------------------------
(* handle_msg.  Each case is what is left of r once m is handled; a packet *)
(* that meets no case leaves r as it is.                                   *)

Registered(c, r, m) ==
    [r EXCEPT !.session = m.id, !.slot = 0, !.peer[0] = c,
              !.stage = "WAITING_PEERS"]

\* Mutant of Seated: present is set in the slot held before.
SeatedTooSoon(c, r, m) ==
    [r EXCEPT !.slot = m.slot, !.players = m.players, !.peer[r.slot] = c,
              !.stage = "WAITING_PEERS"]

Seated(c, r, m) ==
    [r EXCEPT !.slot = m.slot, !.players = m.players, !.peer[m.slot] = c,
              !.stage = "WAITING_PEERS"]

\* A first introduction also forgets the route.
Introduced(r, m) ==
    [r EXCEPT !.peer[m.slot] = m.peer,
              !.route[m.slot] = IF r.peer[m.slot] = Nobody THEN "unsent" ELSE @]

\* The PUNCH_ACK answers a probe of ours to that very slot, for the first time.
Answers(r, m) ==
    /\ m.slot # r.slot /\ r.peer[m.slot] # Nobody
    /\ m.id = r.session /\ m.nonce = m.slot
    /\ m.slot \notin r.acked

Reached(r, m) ==
    [r EXCEPT !.acked = @ \cup {m.slot}, !.reported = @ \cup {m.slot}]

Informed(r, m) ==
    [r EXCEPT !.known = @ \cup {m.pair},
              !.route = [i \in Slot |-> IF i # r.slot /\ m.pair = {i, r.slot}
                                        THEN m.route ELSE @[i]]]

\* The host compares the echo of its own START; the others take it over.
Told(c, r, m) ==
    IF c = Host /\ m.params # r.params THEN [r EXCEPT !.stage = "FAILED"]
    ELSE [r EXCEPT !.params = m.params, !.started = TRUE]

Handled(c, r, m) ==
    CASE m.type = "HOST_RESP"  /\ r.stage = "REGISTERING" -> Registered(c, r, m)
      [] m.type = "JOIN_RESP"  /\ r.stage = "JOINING" -> Seated(c, r, m)
      [] m.type = "REJECT"     /\ r.stage \in Asking -> [r EXCEPT !.stage = "FAILED"]
      [] m.type = "PEER_INTRO" /\ m.slot # r.slot -> Introduced(r, m)
      [] m.type = "PUNCH_ACK"  /\ Answers(r, m) -> Reached(r, m)
      [] m.type = "PAIR_ROUTE" -> Informed(r, m)
      [] m.type = "START"      /\ r.stage \in Joined -> Told(c, r, m)
      [] OTHER -> r

\* What handling m sends, whatever the timers say.
Replies(c, r, m) ==
    CASE m.type = "START" /\ r.stage \in Joined /\ Told(c, r, m).stage # "FAILED" ->
             {StartAck(c, r.session, r.slot)}
      [] m.type = "PUNCH" /\ m.id = r.session ->
             {PunchAck(c, m.from, m.id, r.slot, m.nonce)}
      [] m.type = "PUNCH_ACK" /\ Answers(r, m) ->
             {Report(c, r.session, r.slot, m.slot, "open")}
      [] OTHER -> {}

-----------------------------------------------------------------------------
(* lobby_poll after the drain: the duty of each stage.  expired says that  *)
(* the punch budget, which runs for all peers at once, has run out; with   *)
(* the relay forced it counts as run out from the start.                   *)

Probing(r) == IF r.stage = "PUNCHING" THEN Unrouted(r) \ r.reported ELSE {}

\* Reports of failure, due the moment the budget is gone.
Failures(c, r, expired) ==
    IF expired THEN {ReportOn(c, r, i) : i \in Probing(r)} ELSE {}

Starting(c, r) ==
    c = Host /\ r.stage \in Joined /\ ~ r.started /\ AllPairsDecided(r)

\* Mutant of Repeats: a report is sent once.
RepeatsNoReport(c, r, expired) ==
    (IF \/ r.stage \in Asking
        \/ r.stage = "WAITING_PEERS" /\ ~ AllPresent(r)
     THEN {Request(c, r)} ELSE {})
    \cup (IF expired
          THEN {}
          ELSE {Punch(c, r.peer[i], r.session, i) : i \in Probing(r)})
    \cup (IF Starting(c, r) THEN {StartReq(c, r.params)} ELSE {})

\* What runs on a timer, and is sent again until it is answered.
Repeats(c, r, expired) ==
    (IF \/ r.stage \in Asking
        \/ r.stage = "WAITING_PEERS" /\ ~ AllPresent(r)
     THEN {Request(c, r)} ELSE {})
    \cup (IF r.stage = "PUNCHING"
          THEN {ReportOn(c, r, i) : i \in Unrouted(r) \cap r.reported} ELSE {})
    \cup (IF expired
          THEN {}
          ELSE {Punch(c, r.peer[i], r.session, i) : i \in Probing(r)})
    \cup (IF Starting(c, r) THEN {StartReq(c, r.params)} ELSE {})

Reporting(r, expired) ==
    IF expired THEN [r EXCEPT !.reported = @ \cup Probing(r)] ELSE r

\* enter_punching; the probes wait for the next poll.
Gathered(r) ==
    IF r.stage = "WAITING_PEERS" /\ AllPresent(r)
    THEN [r EXCEPT !.stage = "PUNCHING"] ELSE r

\* The end of the bootstrap: the own routes are in, and so is START.
Concluded(r) ==
    IF /\ r.stage \in {"PUNCHING", "AWAITING_START"}
       /\ r.players > 0 /\ Unrouted(r) = {}
    THEN [r EXCEPT !.stage = IF r.started THEN "READY" ELSE "AWAITING_START"]
    ELSE r

Advanced(r, expired) == Concluded(Gathered(Reporting(r, expired)))

-----------------------------------------------------------------------------
PeerToPeer(p) == p.type \in {"PUNCH", "PUNCH_ACK"}

\* c becomes r, having taken the packets in and sent those in out.
Step(c, r, in, out) ==
    /\ client' = [client EXCEPT ![c] = r]
    /\ up' = up \cup {p \in out : ~ PeerToPeer(p)}
    /\ down' = (down \ in) \cup {p \in out : PeerToPeer(p)}

Inbox(c) == {m \in down : m.to = c}

\* lobby_host_begin
HostBegin ==
    LET r == [Idle EXCEPT !.stage = "REGISTERING", !.players = MaxPlayers,
                          !.params = Match]
    IN  /\ client[Host].stage = "IDLE"
        /\ Step(Host, r, {}, {Request(Host, r)})

\* lobby_join_begin, once the host has been told the code it shows.
JoinBegin(c) ==
    LET r == [Idle EXCEPT !.stage = "JOINING", !.session = client[Host].session]
    IN  /\ client[c].stage = "IDLE"
        /\ client[Host].session # Unset
        /\ Step(c, r, {}, {Request(c, r)})

\* The duty of a poll that drained the packets in and was left with r.
\* timers: some timers may have run out, and then any of them.
Duty(c, r, in, replies, timers) ==
    \E expired \in (IF ForcedRelay THEN {TRUE} ELSE {FALSE, timers}) :
        \E due \in SUBSET (IF timers THEN Repeats(c, r, expired) ELSE {}) :
            Step(c, Advanced(r, expired), in,
                 replies \cup Failures(c, r, expired) \cup due)

Quiet(c) ==
    /\ client[c].stage \in Active
    /\ Duty(c, client[c], {}, {}, TRUE)

PollOne(c, m, timers) ==
    LET r == Handled(c, client[c], m) IN
    /\ m \in Inbox(c)
    /\ client[c].stage \in Active
    /\ IF r.stage = "FAILED"
       THEN Step(c, r, {m}, {})
       ELSE Duty(c, r, {m}, Replies(c, client[c], m), timers)

\* Mutant of PostPoll: nothing is answered any more.
PostPollDeaf(c, m) ==
    /\ m \in Inbox(c)
    /\ client[c].stage = "READY"
    /\ Step(c, client[c], {m}, {})

\* lobby_post_poll, fed by the adapter: a START is acknowledged again and a
\* PUNCH still answered.
PostPoll(c, m) ==
    LET r == client[c] IN
    /\ m \in Inbox(c)
    /\ r.stage = "READY"
    /\ Step(c, r, {m},
            IF m.type = "START" THEN {StartAck(c, r.session, r.slot)}
            ELSE IF m.type = "PUNCH" THEN Replies(c, r, m) ELSE {})

\* The 30 s deadline of the bootstrap, or too many retries of a request.
GiveUp(c) ==
    /\ client[c].stage \in Active
    /\ Step(c, [client[c] EXCEPT !.stage = "FAILED"], {}, {})

\* A poll in which every timer has run out: it happens again and again.
AllDue(c) ==
    LET r == client[c] IN
    /\ r.stage \in Active
    /\ Step(c, Advanced(r, TRUE), {},
            Failures(c, r, TRUE) \cup Repeats(c, r, TRUE))

=============================================================================
