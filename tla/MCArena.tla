------------------------------- MODULE MCArena -------------------------------
(* Small instances of ArenaMatch for TLC. *)
EXTENDS ArenaMatch

\* Player 1 presses anything, player 2 only grabs, throws and lays, and the
\* others are the inert opponents of arena_tuning.h.
OneMover ==
    [i \in 1 .. NumSlots |->
        CASE i = 1 -> Buttons
          [] i = 2 -> {b \in Buttons : ~ b.jump /\ ~ b.set}
          [] OTHER -> {Released}]
=============================================================================
