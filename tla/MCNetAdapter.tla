---------------------------- MODULE MCNetAdapter ----------------------------
(***************************************************************************)
(* The network adapter with small sizes: a delay that jitters across the   *)
(* half of a small clock's range.                                          *)
(***************************************************************************)
EXTENDS NetAdapter

Profiles == {[delay |-> 1, jitter |-> 1, loss |-> TRUE, reorder |-> TRUE]}

\* The delay queue and the ring share no variable: datagrams arrive only while
\* nothing is delayed, and are dealt with before the clock goes on.  That leaves
\* out no order of the steps of either.
Apart ==
    /\ inbox' # inbox /\ pumping = 0 => dq = <<>> /\ clock = 0
    /\ clock' # clock => inbox = <<>> /\ count = 0

ApartSpec == Init /\ [][Next /\ Apart]_vars

=============================================================================
