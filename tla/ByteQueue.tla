------------------------------- MODULE ByteQueue -------------------------------
(***************************************************************************)
(* What a ring buffer promises: a queue of at most Room bytes, filled at   *)
(* one end and emptied at the other by any numbers of bytes that fit, which*)
(* can be emptied at once, and which answers nothing but errors to read    *)
(* and write once it is closed.                                            *)
(***************************************************************************)
EXTENDS Naturals, Sequences

CONSTANTS
  Inputs,   \* the sequences of bytes that are written
  Room      \* how many bytes the queue can hold

VARIABLES
  bytes,    \* what was written and not read yet, oldest first
  shut,     \* close was called
  reply     \* what the last operation did, and the bytes it copied in or out

vars == <<bytes, shut, reply>>

Reply(did, bs) == reply' = [did |-> did, bytes |-> bs]

Init == bytes = << >> /\ shut = FALSE /\ reply = [did |-> "nothing", bytes |-> << >>]

Put ==
  \E bs \in Inputs :
    /\ Len(bytes) + Len(bs) <= Room
    /\ bytes' = bytes \o bs
    /\ Reply("written", bs)
    /\ UNCHANGED shut

(* read, read_byte, and move_out, whose caller has used the bytes itself. *)
Take ==
  \E n \in 0 .. Len(bytes) :
    /\ bytes' = SubSeq(bytes, n + 1, Len(bytes))
    /\ Reply("read", SubSeq(bytes, 1, n))
    /\ UNCHANGED shut

Look ==
  /\ \E i \in 1 .. Len(bytes) : Reply("peeked", <<bytes[i]>>)
  /\ UNCHANGED <<bytes, shut>>

Clear == bytes' = << >> /\ Reply("flushed", << >>) /\ UNCHANGED shut

Shut == shut' = TRUE /\ Reply("closed", << >>) /\ UNCHANGED bytes

Refuse == shut /\ Reply("failed", << >>) /\ UNCHANGED <<bytes, shut>>

Next == Put \/ Take \/ Look \/ Clear \/ Shut \/ Refuse

Spec == Init /\ [][Next]_vars
=============================================================================
