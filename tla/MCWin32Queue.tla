----------------------------- MODULE MCWin32Queue -----------------------------
(* Instances of Win32Queue for TLC. *)
EXTENDS Win32Queue

CONSTANTS p1, p2, c1, c2, i1, i2

Four == {p1, p2, c1, c2}
Items == {i1, i2}

Push(ts) == [op : {"push"}, timeout : ts, item : Item]
Read(os, ts) == [op : os, timeout : ts, item : {NoItem}]

(* Two threads push and two read, one of each waiting as long as it takes,   *)
(* the others with finite timeouts or none.                                  *)
Busy == [t \in Four |->
  CASE t = p1 -> Push({"infinite"})
    [] t = p2 -> Push({"finite"})
    [] t = c1 -> Read({"pop"}, {"infinite"})
    [] t = c2 -> Read({"peek"}, {"finite"}) \cup Read({"pop"}, {"zero"})]
=============================================================================
