------------------------------ MODULE Mailbox ------------------------------
(***************************************************************************)
(* What the network adapter promises the lobby client: the control packets *)
(* in the order they came, the oldest first to go when there are too many. *)
(***************************************************************************)
EXTENDS Integers, Sequences

CONSTANTS
    Letter,   \* control packets
    Capacity  \* how many are kept

VARIABLE box

Init == box = <<>>

Put(m) ==
    box' = Append(IF Len(box) < Capacity THEN box ELSE Tail(box), m)

Take == box # <<>> /\ box' = Tail(box)

\* The adapter is shut down.
Empty == box' = <<>>

Next == (\E m \in Letter : Put(m)) \/ Take \/ Empty

Spec == Init /\ [][Next]_box

=============================================================================
