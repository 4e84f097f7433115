-------------------------- MODULE MCRingBufferStream --------------------------
(* An instance of RingBufferStream for TLC: bytes are the numbers from 1 on, *)
(* and 0 is a byte of the array that was never written.                      *)
EXTENDS RingBufferStream

Bytes == 0 .. Bound
Runs == {[i \in 1 .. n |-> first + i - 1] : n \in 0 .. MaxWant, first \in 1 .. Bound}
InputRuns == {bs \in Runs : \A i \in DOMAIN bs : bs[i] <= Bound}
=============================================================================
