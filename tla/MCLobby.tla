------------------------------ MODULE MCLobby ------------------------------
(* Small instances of Lobby for TLC.                                       *)
EXTENDS Lobby, TLC

SameGuests == Permutations(Client \ {Host})

\* Nobody loses patience.
WorkSpec == Init /\ [][Work]_vars

\* The one packet lost is the answer to a JOIN_REQ.
SeatLost ==
    lost' # lost => up' = up /\ \A m \in down \ down' : m.type = "JOIN_RESP"

SeatLostSpec == Init /\ [][Prompt /\ SeatLost]_vars /\ Fairness

=============================================================================
