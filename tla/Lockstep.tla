------------------------------ MODULE Lockstep ------------------------------
(***************************************************************************)
(* What a rollback session promises (src/netplay/sync_session.h:6-8): as   *)
(* far as the inputs of everybody are known, each peer has run the match   *)
(* on exactly those inputs, in order, once, as if it had waited for them.  *)
(***************************************************************************)
EXTENDS Integers, Sequences

CONSTANTS
    Player,  \* the peers, one player each
    Input    \* what a player can press in a tick

VARIABLES
    given,   \* given[q]: the inputs q has given, tick by tick
    run      \* run[p]: the inputs p has run the match on, for good

vars == <<given, run>>

Init ==
    /\ given = [q \in Player |-> <<>>]
    /\ run = [p \in Player |-> <<>>]

Give(q) ==
    /\ \E i \in Input : given' = [given EXCEPT ![q] = Append(@, i)]
    /\ UNCHANGED run

\* p goes on to tick t, with the inputs everybody has given.
Catch(p, t) ==
    /\ t > Len(run[p])
    /\ \A q \in Player : t <= Len(given[q])
    /\ run' = [run EXCEPT ![p] =
                  [k \in 1 .. t |-> IF k <= Len(run[p]) THEN run[p][k]
                                    ELSE [q \in Player |-> given[q][k]]]]
    /\ UNCHANGED given

Next ==
    \E p \in Player : Give(p) \/ \E t \in 1 .. Len(given[p]) : Catch(p, t)

Spec == Init /\ [][Next]_vars

=============================================================================
