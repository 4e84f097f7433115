--------------------------- MODULE MCSharedVariable ---------------------------
(* Instances of SharedVariableWaiters for TLC. *)
EXTENDS SharedVariableWaiters

CONSTANTS w1, w2, w3

W(op, v, t) == [op |-> op, value |-> v, timeout |-> t]

(* TestSharedVariables: one thread waits for 1 and two for 2; set 1, then 2. *)
TestThreads == {w1, w2, w3}
TestWants == {[w \in TestThreads |-> W("until", IF w = w1 THEN 1 ELSE 2, "infinite")]}
TestScripts == {<<1, 2>>}
=============================================================================
