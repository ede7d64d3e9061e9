---------------------------- MODULE MCJuliusLibc ----------------------------
(***************************************************************************)
(* JuliusLibc on small numbers: two hexadecimal digits stand for sixteen,   *)
(* three decimal ones for nineteen.                                        *)
(***************************************************************************)
EXTENDS JuliusLibc

MCSixteens == [k \in 0 .. 2 |-> CASE k = 0 -> 1 [] k = 1 -> 16 [] k = 2 -> 256]
MCTens == [k \in 0 .. 3 |-> CASE k = 0 -> 1 [] k = 1 -> 10 [] k = 2 -> 100 [] k = 3 -> 1000]
MCDecArgs == {-128, -127, -10, -1, 0, 7, 10, 99, 100, 127}
MCFillArgs == {-56, 0, 257}
=============================================================================
