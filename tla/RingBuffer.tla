------------------------------ MODULE RingBuffer ------------------------------
(***************************************************************************)
(* yeti/Source/Core/YetiRingBuffer.cpp: bytes in a fixed array between the *)
(* place where the next one is read (out) and the place where the next one *)
(* is written (in).  One place stays free, so that in = out means empty.   *)
(*                                                                         *)
(* Positions are counted from m_data_.start, so m_data_.end is Size.  The  *)
(* callers keep the contract of the test program: they write no more than  *)
(* get_space() and read no more than get_available() bytes, and they hand  *)
(* move_in no more than get_contiguous_space() bytes, which they have      *)
(* copied to get_in().                                                     *)
(***************************************************************************)
EXTENDS Integers, Sequences

CONSTANTS
  Size,     \* m_size_, the length of the array
  Byte,     \* what a byte can be
  Garbage,  \* what a byte of the array can be before it is written
  Inputs    \* the sequences of bytes that are written

ASSUME RingAssumption ==
  Size \in Nat \ {0} /\ Inputs \subseteq Seq(Byte) /\ Garbage \subseteq Byte

VARIABLES
  data,     \* the array
  in,       \* m_in_
  out,      \* m_out_
  closed,   \* m_closed_
  answer    \* what the last operation did, and the bytes it copied in or out

ringVars == <<data, in, out, closed, answer>>

Slot == 0 .. Size - 1
Deed == {"nothing", "written", "read", "peeked", "flushed", "closed", "failed"}

TypeOK ==
  /\ data \in [Slot -> Byte]
  /\ in \in Slot /\ out \in Slot
  /\ closed \in BOOLEAN
  /\ answer \in [did : Deed, bytes : Seq(Byte)]

(* The array is not initialised. *)
Init ==
  /\ data \in [Slot -> Garbage]
  /\ in = 0 /\ out = 0
  /\ closed = FALSE
  /\ answer = [did |-> "nothing", bytes |-> << >>]

-----------------------------------------------------------------------------
ContiguousSpace ==
  IF in < out THEN out - in - 1 ELSE IF out = 0 THEN Size - in - 1 ELSE Size - in

Space_NoFreePlace == IF in < out THEN out - in ELSE Size - in + out
Space == IF in < out THEN out - in - 1 ELSE Size - in + out - 1

ContiguousAvailable == IF out <= in THEN in - out ELSE Size - out

Available == IF out <= in THEN in - out ELSE Size - out + in

Answer(did, bs) == answer' = [did |-> did, bytes |-> bs]

Lower(a, b) == IF a < b THEN a ELSE b

(* read and write go from end to start when they reach it exactly, ... *)
Wrap(pos) == IF pos = Size THEN 0 ELSE pos

(* ... move_in and move_out when they reach or pass it. *)
Fold(pos) == IF pos >= Size THEN pos - Size ELSE pos

(* How much of n bytes write (read) copies before it goes on at the start. *)
WriteChunk(n) == IF in < out THEN n ELSE Lower(Size - in, n)
ReadChunk(n) == IF in > out THEN n ELSE Lower(Size - out, n)

(* data after a copy of bs to the places from pos on. *)
Copied(d, pos, bs) ==
  [s \in Slot |-> IF pos <= s /\ s < pos + Len(bs) THEN bs[s - pos + 1] ELSE d[s]]

(* The n bytes from pos on. *)
Taken(pos, n) == [i \in 1 .. n |-> data[pos + i - 1]]

Write(bs) ==
  LET chunk == WriteChunk(Len(bs))
      next == Wrap(in + chunk)
      rest == Len(bs) - chunk
  IN  /\ ~closed /\ Len(bs) <= Space
      /\ data' = Copied(Copied(data, in, SubSeq(bs, 1, chunk)), next, SubSeq(bs, chunk + 1, Len(bs)))
      /\ in' = IF rest = 0 THEN next ELSE Wrap(next + rest)
      /\ Answer("written", bs)
      /\ UNCHANGED <<out, closed>>

Read(n) ==
  LET chunk == ReadChunk(n)
      next == Wrap(out + chunk)
      rest == n - chunk
  IN  /\ ~closed /\ n <= Available
      /\ out' = IF rest = 0 THEN next ELSE Wrap(next + rest)
      /\ Answer("read", Taken(out, chunk) \o Taken(next, rest))
      /\ UNCHANGED <<data, in, closed>>

(* read and write of a closed buffer, whatever they are asked to copy. *)
Refuse ==
  /\ closed
  /\ Answer("failed", << >>)
  /\ UNCHANGED <<data, in, out, closed>>

ReadByte ==
  /\ Available > 0
  /\ Answer("read", <<data[out]>>)
  /\ out' = Wrap(out + 1)
  /\ UNCHANGED <<data, in, closed>>

PeekByte(offset) ==
  /\ offset < Available
  /\ Answer("peeked", <<data[Fold(out + offset)]>>)
  /\ UNCHANGED <<data, in, out, closed>>

(* The caller has put the bytes at get_in() itself. *)
MoveIn(bs) ==
  /\ Len(bs) <= ContiguousSpace
  /\ data' = Copied(data, in, bs)
  /\ in' = Fold(in + Len(bs))
  /\ Answer("written", bs)
  /\ UNCHANGED <<out, closed>>

(* The caller has used the bytes at get_out() itself. *)
MoveOut(n) ==
  /\ n <= ContiguousAvailable
  /\ Answer("read", Taken(out, n))
  /\ out' = Fold(out + n)
  /\ UNCHANGED <<data, in, closed>>

Flush ==
  /\ in' = 0 /\ out' = 0
  /\ Answer("flushed", << >>)
  /\ UNCHANGED <<data, closed>>

Close ==
  /\ closed' = TRUE
  /\ Answer("closed", << >>)
  /\ UNCHANGED <<data, in, out>>

Next ==
  \/ \E bs \in Inputs : Write(bs) \/ MoveIn(bs)
  \/ \E n \in 0 .. Size : Read(n) \/ MoveOut(n) \/ PeekByte(n)
  \/ ReadByte \/ Refuse \/ Flush \/ Close

Spec == Init /\ [][Next]_ringVars

-----------------------------------------------------------------------------
(* The bytes between out and in. *)
Contents == [i \in 1 .. Available |-> data[Fold(out + i - 1)]]

Promise == INSTANCE ByteQueue WITH
  bytes <- Contents, shut <- closed, reply <- answer, Room <- Size - 1

(* YetiRingBuffer.cpp:33-163: whatever sizes are asked for, wherever in the  *)
(* array the two positions are and in whatever order the operations come,    *)
(* the buffer is a queue: nothing is lost, repeated, reordered or            *)
(* overwritten at the end of the array, and full is not taken for empty.     *)
ImplementsByteQueue == Promise!Spec
=============================================================================
