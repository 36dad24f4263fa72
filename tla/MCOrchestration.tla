--------------------------- MODULE MCOrchestration ---------------------------
(* Plans for the runs of Orchestration. *)
EXTENDS Conditions

Two == 1 .. 2

\* A node, and one that needs it.
Pair == [n \in Two |-> IF n = 1 THEN {} ELSE {1}]

Three == 1 .. 3

\* Two independent nodes and one that needs both.
Join == [n \in Three |-> IF n = 3 THEN {1, 2} ELSE {}]

Four == 1 .. 4

\* Three independent nodes and one that needs the first and the last of them.
Wide == [n \in Four |-> IF n = 4 THEN {1, 3} ELSE {}]

\* A chain: each node needs the one before it.
Chain == [n \in Three |-> IF n = 1 THEN {} ELSE {n - 1}]

\* Three independent nodes.
Flat == [n \in Three |-> {}]
=============================================================================
