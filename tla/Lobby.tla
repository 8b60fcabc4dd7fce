-------------------------------- MODULE Lobby --------------------------------
(***************************************************************************)
(* One lobby: the rendezvous server and its clients over a datagram        *)
(* network that delays, reorders, duplicates (by retransmission) and       *)
(* loses.  The server has one session and no deadline of its passes: what  *)
(* is asked is whether the clients agree on one match, and get there.      *)
(*                                                                         *)
(* A packet that is never delivered is a lost one as far as safety goes;   *)
(* Lose, with a bound on the losses, is there for liveness.                *)
(***************************************************************************)
EXTENDS LobbyClient, FiniteSets

CONSTANTS
    Code,     \* the one session id
    Build,    \* the one net_version
    Losses,   \* bound: how many packets the network loses
    Flight    \* bound: how many packets are under way at a time

ASSUME NetworkAssumption ==
    /\ Losses \in Nat /\ Flight \in Nat
    /\ Code # Unset /\ Build # Unset

VARIABLES
    sessions,  \* the server's table
    lost       \* how many packets have been lost

vars == <<client, up, down, lost, sessions>>

Deliver(net, out) == net \cup out

Server ==
    INSTANCE Rendezvous
    WITH NumSessions <- 1, Endpoint <- Client, SessionId <- {Code},
         Version <- {Build}, Params <- {Match},
         LobbyExpiry <- 0, StartedExpiry <- 0, RelayExpiry <- 0,
         RefanPeriod <- 0, net <- down, Pool <- Deliver

Init ==
    /\ ClientInit
    /\ Server!Init
    /\ lost = 0

-----------------------------------------------------------------------------
(* The server takes one packet.                                            *)

Heard(m) ==
    \/ m.type = "HOST_REQ"     /\ Server!HostReq(m.from, m.players, Build)
    \/ m.type = "JOIN_REQ"     /\ Server!JoinReq(m.from, m.id, Build)
    \/ m.type = "PUNCH_REPORT" /\ Server!PunchReport(m.from, m.id, m.slot,
                                                     m.other, m.verdict)
    \/ m.type = "START"        /\ Server!Start(m.from, m.params)
    \/ m.type = "START_ACK"    /\ Server!StartAck(m.from, m.id, m.slot)

Serve(m) ==
    /\ m \in up
    /\ up' = up \ {m}
    /\ Heard(m)
    /\ UNCHANGED <<client, lost>>

\* START of a match already running: do_start does nothing.
Unheard(m) ==
    /\ m \in up /\ m.type = "START"
    /\ sessions[0].phase \notin {"lobby", "starting"}
    /\ up' = up \ {m}
    /\ UNCHANGED <<client, down, sessions, lost>>

\* rv_tick, which has nothing to do but repeat START.
ServerTick == Server!Tick /\ UNCHANGED <<client, up, lost>>

-----------------------------------------------------------------------------
(* A client polls.                                                         *)

Receive(c, m, timers) ==
    /\ PollOne(c, m, timers) \/ PostPoll(c, m)
    /\ UNCHANGED <<sessions, lost>>

Begin(c) ==
    /\ IF c = Host THEN HostBegin ELSE JoinBegin(c)
    /\ UNCHANGED <<sessions, lost>>

Timers(c) == Quiet(c) /\ UNCHANGED <<sessions, lost>>

Retransmit(c) == AllDue(c) /\ UNCHANGED <<sessions, lost>>

Abandon(c) == GiveUp(c) /\ UNCHANGED <<sessions, lost>>

\* The network drops a packet.
Lose ==
    /\ lost < Losses
    /\ lost' = lost + 1
    /\ \/ \E m \in up : up' = up \ {m} /\ UNCHANGED down
       \/ \E m \in down : down' = down \ {m} /\ UNCHANGED up
    /\ UNCHANGED <<client, sessions>>

Bounded == Cardinality(up') + Cardinality(down') <= Flight

\* Everything but the loss of patience.
Work ==
    /\ \/ \E m \in up : Serve(m) \/ Unheard(m)
       \/ ServerTick
       \/ \E c \in Client : Begin(c) \/ Timers(c)
       \/ \E c \in Client : \E m \in Inbox(c) : Receive(c, m, TRUE)
       \/ Lose
    /\ Bounded

Next == Work \/ \E c \in Client : Abandon(c)

Spec == Init /\ [][Next]_vars

-----------------------------------------------------------------------------
(* Progress.  The network is prompt: no timer, 500 ms at least, runs out   *)
(* while a packet is under way.  It may still drop Losses of them.         *)

Calm == up = {} /\ down = {}

Prompt ==
    \/ \E m \in up : Serve(m)
    \/ \E c \in Client : \E m \in Inbox(c) : Receive(c, m, FALSE)
    \/ \E c \in Client : Begin(c)
    \/ Calm /\ ServerTick
    \/ \E c \in Client : Calm /\ Timers(c)
    \/ Lose

\* The event loops of server and clients take their packets, the players get
\* round to hosting and joining, and timers run out again and again.  (Strong
\* fairness of the timers: they wait for a calm network only in this model.)
Fairness ==
    /\ WF_vars(\E m \in up : Serve(m))
    /\ SF_vars(Calm /\ ServerTick)
    /\ \A c \in Client :
           /\ WF_vars(Begin(c))
           /\ WF_vars(\E m \in Inbox(c) : Receive(c, m, FALSE))
           /\ SF_vars(Calm /\ Retransmit(c))

PromptSpec == Init /\ [][Prompt]_vars /\ Fairness

-----------------------------------------------------------------------------
(* Properties.                                                             *)

Ready(c) == client[c].stage = "READY"

\* The clients and the server together keep the promise of MatchSetup: those
\* who get READY are in different slots with the routes of one settled mesh,
\* and the match starts only once the whole mesh is settled, which the server
\* never checks: it relies on the host for that.
Agreement ==
    INSTANCE MatchSetup
    WITH verdict <- sessions[0].route,
         agreed  <- Server!Started(sessions[0]),
         entered <- {[client |-> c, slot |-> client[c].slot,
                      route |-> client[c].route] :
                         c \in {d \in Client : Ready(d)}},
         failed  <- {c \in Client : client[c].stage = "FAILED"}

ReachesAgreement == Agreement!Spec

\* The result of the bootstrap (lobby_client.c, fill_result) gives a DIRECT
\* route only to a peer that has answered a probe of one's own: it never names
\* an address that was not learnt.
DirectMeansAnswered ==
    \A c \in Client, i \in Slot :
        Ready(c) /\ client[c].route[i] = "direct" => i \in client[c].acked

\* Whoever a client believes to sit in a slot, itself included, is who the
\* server put there, whatever introductions were lost, repeated or overtaken.
RosterAgrees ==
    \A c \in Client, i \in Slot :
        client[c].peer[i] # Nobody => client[c].peer[i] = sessions[0].member[i]

\* Two players who are READY have found each other: in the slot of the other
\* each has the other's address, and both reach each other by the same kind of
\* route (lobby_client.c, fill_result), although each was introduced and told
\* the routes on its own.
PlayersMeet ==
    \A c, d \in Client :
        LET i == client[c].slot
            j == client[d].slot
        IN  c # d /\ Ready(c) /\ Ready(d) =>
                /\ client[c].peer[j] = d
                /\ client[c].route[j] = client[d].route[i]
                /\ client[c].route[j] # "unsent"

\* Although packets get lost, everyone gets to play.
EveryoneReady == <>(\A c \in Client : Ready(c))

\* The server hears every acknowledgement of START, those repeated after READY
\* included: the session does not stay STARTING under a match being played.
MatchAcknowledged == <>(sessions[0].phase = "running")

=============================================================================
