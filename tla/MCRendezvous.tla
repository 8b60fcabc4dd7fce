---------------------------- MODULE MCRendezvous ----------------------------
(* Small instances of Rendezvous for TLC.                                  *)
EXTENDS Rendezvous, FiniteSets, TLC

\* Only what the last step sent: enough for the properties of the server
\* alone, whose clients send whatever they like.
LastSent(in, out) == out

\* Of those, what the properties of the server read, and why it refused.
Outcome(in, out) ==
    {m \in out : m.type = "START"} \cup
    {[type |-> "REJECT", reason |-> m.reason] : m \in {n \in out : n.type = "REJECT"}}

Interchangeable ==
    Permutations(Endpoint) \cup Permutations(SessionId) \cup Permutations(Version)

\* A lobby of two that has negotiated nothing yet.
Plain(r) == r.players = 2 /\ \A i, j \in Slot : r.punch[i][j] = "unseen"

\* Sessions side by side are plain, and time passes over plain ones: a pair of
\* such sessions, or their deadlines, meet every operation that opens, fills,
\* starts and reclaims an entry of the table.  A session alone in the table may
\* be of any size and negotiate its pairs in every order.  What a session
\* negotiates no other session reads.
Separable ==
    Cardinality(Live') > 1 \/ (\E s \in Live : sessions'[s].idle > sessions[s].idle)
        => \A s \in Live' : Plain(sessions'[s])

\* KeepAlive and Relay only touch the clocks of a session and are in the run of
\* two players.
ServerNext ==
    \/ \E from \in Endpoint :
           \/ \E n \in 2 .. MaxPlayers, v \in Version : HostReq(from, n, v)
           \/ \E x \in SessionId, v \in Version : JoinReq(from, x, v)
           \/ \E x \in SessionId, i, j \in Slot, v \in {"open", "shut"} :
                  PunchReport(from, x, i, j, v)
           \/ \E p \in Params : Start(from, p)
           \/ \E x \in SessionId, i \in Slot : StartAck(from, x, i)
    \/ Tick
    \/ AdvanceClock

ServerSpec == Init /\ [][ServerNext]_vars

=============================================================================
