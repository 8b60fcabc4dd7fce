----------------------------- MODULE MatchSetup -----------------------------
(***************************************************************************)
(* What a lobby promises, whatever the network does: each player either    *)
(* fails or enters the one match, in a slot of its own, with the route to  *)
(* every other player that both of them know; nobody enters before every   *)
(* pair has its route, and no route changes afterwards.                    *)
(***************************************************************************)
EXTENDS Integers

CONSTANTS
    Client,      \* the players' programs
    MaxPlayers   \* slots of the match

VARIABLES
    verdict,  \* verdict[i][j]: how slots i and j will exchange inputs
    agreed,   \* whether the match is on
    entered,  \* the views of those who have entered it
    failed    \* those who have given up

vars == <<verdict, agreed, entered, failed>>

Slot == 0 .. MaxPlayers - 1

Init ==
    /\ verdict = [i \in Slot |-> [j \in Slot |-> "unsent"]]
    /\ agreed = FALSE
    /\ entered = {}
    /\ failed = {}

Arbitrate(i, j) ==
    /\ i # j /\ verdict[i][j] = "unsent"
    /\ \E v \in {"direct", "relay"} :
           verdict' = [verdict EXCEPT ![i][j] = v, ![j][i] = v]
    /\ UNCHANGED <<agreed, entered, failed>>

Agree ==
    /\ ~ agreed
    /\ \A i, j \in Slot : i # j => verdict[i][j] # "unsent"
    /\ agreed' = TRUE
    /\ UNCHANGED <<verdict, entered, failed>>

Enter(c, i) ==
    /\ agreed /\ c \notin failed
    /\ \A e \in entered : e.client # c /\ e.slot # i
    /\ entered' = entered \cup {[client |-> c, slot |-> i, route |-> verdict[i]]}
    /\ UNCHANGED <<verdict, agreed, failed>>

Fail(c) ==
    /\ \A e \in entered : e.client # c
    /\ failed' = failed \cup {c}
    /\ UNCHANGED <<verdict, agreed, entered>>

Next ==
    \/ \E i, j \in Slot : Arbitrate(i, j)
    \/ Agree
    \/ \E c \in Client, i \in Slot : Enter(c, i)
    \/ \E c \in Client : Fail(c)

Spec == Init /\ [][Next]_vars

=============================================================================
