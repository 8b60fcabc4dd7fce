----------------------------- MODULE MCRollback -----------------------------
(* Small instances of Rollback for TLC. *)
EXTENDS Rollback, FiniteSets, TLC

Alike == Permutations(Player)

\* Peers have nothing in common while they are in sync_frame, so it is enough
\* to look at one of them being in it at a time.
InTurn ==
    \A p, q \in Player :
        pump[p].stage # "idle" /\ pump[q].stage # "idle" => p = q

\* Inputs are only ever compared with others of the same player and tick, so
\* each true one may be called by the same name; guesses are right or wrong.
Pressed == CHOOSE i \in Input : TRUE

OneName == \A q \in Player : \A k \in 1 .. Len(chosen[q]) : chosen[q][k] = Pressed

\* Bound: the test hook is used again only if its effect has been undone.
OneSpoilt ==
    \A p \in Player : Cardinality(Flipped(p)) + (IF armed[p] THEN 1 ELSE 0) <= 1

TurnNext == Next /\ (InTurn /\ OneName /\ OneSpoilt)'

TurnSpec == Init /\ [][TurnNext]_vars

=============================================================================
