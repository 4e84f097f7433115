--------------------------- MODULE RingBufferStream ---------------------------
(***************************************************************************)
(* Platinum/Source/Extras/PltRingBufferStream.cpp: a ring buffer between   *)
(* threads that write and threads that read.  Read and Write look under    *)
(* m_Lock whether they can go on, leave the lock, sleep if they cannot,    *)
(* and take the lock again to copy in at most two contiguous pieces.       *)
(*                                                                         *)
(* Before the stream is made, its owner may have used the ring buffer      *)
(* directly (PltRingBufferStream.cpp:71-80 takes it as it is).  Bytes are  *)
(* numbered in the order in which they are offered.                        *)
(***************************************************************************)
EXTENDS RingBuffer

CONSTANTS
  Reader,      \* the threads that call Read
  Writer,      \* the thread that calls Write and, when it is done, SetEOS
  MaxWant,     \* bound: how many bytes one call asks for
  Bound        \* bound: how many bytes are offered altogether

Thread == Reader \cup Writer
Nobody == "nobody"

Numbered(first, n) == [i \in 1 .. n |-> first + i - 1]

(* A byte is its number, and Inputs are the runs of at most MaxWant bytes.   *)
ASSUME StreamAssumption ==
  /\ Reader \cap Writer = {} /\ Nobody \notin Thread
  /\ \A v, w \in Writer : v = w
  /\ MaxWant \in Nat /\ Bound \in Nat
  /\ 1 .. Bound \subseteq Byte
  /\ \A first \in 1 .. Bound, n \in 0 .. MaxWant :
       first + n <= Bound + 1 => Numbered(first, n) \in Inputs
  /\ \A bs \in Inputs : \A i \in DOMAIN bs : bs[i] <= Bound

VARIABLES
  shared,         \* the stream has been made
  blocking,       \* m_Blocking
  eos, aborted,   \* m_Eos, m_Aborted
  totalRead, totalWritten,   \* m_TotalBytesRead, m_TotalBytesWritten
  lock,           \* the thread inside m_Lock
  pc,             \* where each thread is
  want,           \* how many bytes its call asks for
  moved,          \* the bytes it has copied so far
  code,           \* what its last call returned
  next,           \* the number of the next byte that is offered
  kept            \* the bytes the stream found in the buffer, until it is flushed

callVars == <<pc, want, moved, code>>
flags == <<shared, blocking, eos, aborted>>
totals == <<totalRead, totalWritten, kept>>
streamVars == <<flags, totals, lock, callVars, next>>
vars == <<ringVars, streamVars>>

StreamTypeOK ==
  /\ TypeOK
  /\ shared \in BOOLEAN /\ blocking \in BOOLEAN /\ eos \in BOOLEAN /\ aborted \in BOOLEAN
  /\ totalRead \in 0 .. Bound /\ totalWritten \in 0 .. Bound
  /\ lock \in Thread \cup {Nobody}
  /\ pc \in [Thread -> {"idle", "test", "lock", "first", "second", "leave"}]
  /\ want \in [Thread -> 0 .. MaxWant]
  /\ moved \in [Thread -> Seq(Byte)]
  /\ code \in [Thread -> {"none", "SUCCESS", "EOS", "INTERRUPTED", "WOULD_BLOCK", "FAILED"}]
  /\ next \in 1 .. Bound + 1
  /\ kept \in 0 .. Size - 1

StreamInit ==
  /\ Init
  /\ shared = FALSE /\ blocking \in BOOLEAN /\ eos = FALSE /\ aborted = FALSE
  /\ totalRead = 0 /\ totalWritten = 0
  /\ lock = Nobody
  /\ pc = [t \in Thread |-> "idle"]
  /\ want = [t \in Thread |-> 0]
  /\ moved = [t \in Thread |-> << >>]
  /\ code = [t \in Thread |-> "none"]
  /\ next = 1 /\ kept = 0

-----------------------------------------------------------------------------
Goto(t, l) == pc' = [pc EXCEPT ![t] = l]
Returns(t, c) == Goto(t, "idle") /\ code' = [code EXCEPT ![t] = c]

(* The owner of the ring buffer, before the stream is made. *)
Direct ==
  /\ ~shared
  /\ Next
  /\ LET n == Len(answer'.bytes) IN
     IF answer'.did = "written"
     THEN answer'.bytes = Numbered(next, n) /\ next' = next + n
     ELSE next' = next
  /\ UNCHANGED <<flags, totals, lock, callVars>>

Construct ==
  /\ ~shared
  /\ shared' = TRUE
  /\ kept' = Available
  /\ UNCHANGED <<ringVars, blocking, eos, aborted, totalRead, totalWritten, lock, callVars, next>>

(* A thread calls Read or Write. *)
Call(t) ==
  /\ shared /\ pc[t] = "idle"
  /\ \E n \in 1 .. MaxWant :
       /\ t \in Writer => next + n <= Bound + 1
       /\ want' = [want EXCEPT ![t] = n]
  /\ moved' = [moved EXCEPT ![t] = << >>]
  /\ code' = [code EXCEPT ![t] = "none"]
  /\ Goto(t, "test")
  /\ UNCHANGED <<ringVars, flags, totals, lock, next>>

(* The first visit to the lock, which looks and leaves.  A call that finds   *)
(* nothing to do but to wait sleeps and comes back: nothing has changed.     *)
Looks(t) ==
  /\ pc[t] = "test" /\ lock = Nobody
  /\ UNCHANGED <<ringVars, flags, totals, lock, want, moved, next>>

(* What is there is read before the end of the stream is reported. *)
ReadTest(r) ==
  /\ Looks(r)
  /\ \/ aborted /\ Returns(r, "INTERRUPTED")
     \/ ~aborted /\ Available > 0 /\ Goto(r, "lock") /\ UNCHANGED code
     \/ ~aborted /\ Available = 0 /\ eos /\ Returns(r, "EOS")
     \/ ~aborted /\ Available = 0 /\ ~eos /\ ~blocking /\ Returns(r, "WOULD_BLOCK")

WriteTest_SpaceFirst(w) ==
  /\ Looks(w)
  /\ \/ aborted /\ Returns(w, "INTERRUPTED")
     \/ ~aborted /\ Space > 0 /\ Goto(w, "lock") /\ UNCHANGED code
     \/ ~aborted /\ Space = 0 /\ eos /\ Returns(w, "EOS")
     \/ ~aborted /\ Space = 0 /\ ~eos /\ ~blocking /\ Returns(w, "WOULD_BLOCK")

WriteTest_NoAbort(w) ==
  /\ Looks(w)
  /\ \/ eos /\ Returns(w, "EOS")
     \/ ~eos /\ Space > 0 /\ Goto(w, "lock") /\ UNCHANGED code
     \/ ~eos /\ Space = 0 /\ ~blocking /\ Returns(w, "WOULD_BLOCK")

WriteTest(w) ==
  /\ Looks(w)
  /\ \/ aborted /\ Returns(w, "INTERRUPTED")
     \/ ~aborted /\ eos /\ Returns(w, "EOS")
     \/ ~aborted /\ ~eos /\ Space > 0 /\ Goto(w, "lock") /\ UNCHANGED code
     \/ ~aborted /\ ~eos /\ Space = 0 /\ ~blocking /\ Returns(w, "WOULD_BLOCK")

(* The second visit, which copies. *)
Relock(t) ==
  /\ pc[t] = "lock" /\ lock = Nobody
  /\ lock' = t
  /\ Goto(t, "first")
  /\ UNCHANGED <<ringVars, flags, totals, want, moved, code, next>>

Copying(t) == pc[t] \in {"first", "second"}
AfterPiece(t) == Goto(t, IF pc[t] = "first" THEN "second" ELSE "leave")

Wanting(t) == want[t] - Len(moved[t])
ReadPiece(r) == Lower(Wanting(r), ContiguousAvailable)
WritePiece(w) == Lower(Wanting(w), ContiguousSpace)
Piece(t) == IF t \in Reader THEN ReadPiece(t) ELSE WritePiece(t)

ReadSome_Swapped(r) ==
  /\ Copying(r) /\ ReadPiece(r) > 0
  /\ Read(ReadPiece(r))
  /\ moved' = [moved EXCEPT ![r] = answer'.bytes \o @]
  /\ totalRead' = totalRead + ReadPiece(r)
  /\ AfterPiece(r)
  /\ UNCHANGED <<flags, totalWritten, kept, lock, want, code, next>>

ReadSome(r) ==
  /\ Copying(r) /\ ReadPiece(r) > 0
  /\ Read(ReadPiece(r))
  /\ moved' = [moved EXCEPT ![r] = @ \o answer'.bytes]
  /\ totalRead' = totalRead + ReadPiece(r)
  /\ AfterPiece(r)
  /\ UNCHANGED <<flags, totalWritten, kept, lock, want, code, next>>

WriteSome(w) ==
  /\ Copying(w) /\ WritePiece(w) > 0
  /\ LET bs == Numbered(next, WritePiece(w)) IN
       /\ Write(bs)
       /\ moved' = [moved EXCEPT ![w] = @ \o bs]
       /\ next' = next + Len(bs)
  /\ totalWritten' = totalWritten + WritePiece(w)
  /\ AfterPiece(w)
  /\ UNCHANGED <<flags, totalRead, kept, lock, want, code>>

(* The ring buffer was closed: its error is passed on. *)
CopyFails(t) ==
  /\ Copying(t) /\ Piece(t) > 0
  /\ Refuse
  /\ lock' = Nobody
  /\ Returns(t, "FAILED")
  /\ UNCHANGED <<flags, totals, want, moved, next>>

(* Nothing left to copy, no more or nothing at all. *)
CopyEnds(t) ==
  /\ Copying(t) /\ Piece(t) = 0
  /\ Goto(t, "leave")
  /\ UNCHANGED <<ringVars, flags, totals, lock, want, moved, code, next>>

Leave(t) ==
  /\ pc[t] = "leave"
  /\ lock' = Nobody
  /\ Returns(t, "SUCCESS")
  /\ UNCHANGED <<ringVars, flags, totals, want, moved, next>>

StreamFlush ==
  /\ shared /\ lock = Nobody
  /\ Flush
  /\ totalRead' = 0 /\ totalWritten' = 0 /\ kept' = 0
  /\ UNCHANGED <<flags, lock, callVars, next>>

(* The writer has written all it has. *)
SetEOS ==
  /\ shared /\ lock = Nobody
  /\ \A w \in Writer : pc[w] = "idle"
  /\ eos' = TRUE
  /\ UNCHANGED <<ringVars, shared, blocking, aborted, totals, lock, callVars, next>>

(* Anybody, at any time. *)
Abort ==
  /\ shared /\ lock = Nobody
  /\ aborted' = TRUE
  /\ UNCHANGED <<ringVars, shared, blocking, eos, totals, lock, callVars, next>>

Step(t) ==
  \/ t \in Reader /\ (ReadTest(t) \/ ReadSome(t))
  \/ t \in Writer /\ (WriteTest(t) \/ WriteSome(t))
  \/ Relock(t) \/ CopyFails(t) \/ CopyEnds(t) \/ Leave(t)

StreamNext ==
  \/ Direct \/ Construct
  \/ \E t \in Thread : Call(t) \/ Step(t)
  \/ StreamFlush \/ SetEOS \/ Abort

StreamSpec == StreamInit /\ [][StreamNext]_vars

(***************************************************************************)
(* Fairness: every thread inside a call runs, and the mutex does not pass  *)
(* one over for ever.  Nobody has to call anything.                        *)
(***************************************************************************)
FairSpec == StreamSpec /\ \A t \in Thread : SF_vars(Step(t))

-----------------------------------------------------------------------------
(* The bytes in the buffer are those that were offered last, in order.       *)
InOrder == Contents = Numbered(next - Available, Available)

(* The two pieces of one Read join without a gap or a repetition.            *)
PiecesJoin == \A r \in Reader : moved[r] # << >> =>
  moved[r] = Numbered(moved[r][1], Len(moved[r]))

(* PltRingBufferStream.cpp:130, 196: "try twice in case available data was   *)
(* not contiguous": two are enough to move all that is wanted and possible.  *)
TwoTriesSuffice ==
  \A t \in Thread : pc[t] = "leave" =>
    \/ Wanting(t) = 0
    \/ IF t \in Reader THEN Available = 0 ELSE Space = 0

(* The totals of Tell tell how much is in the buffer (PltRingBufferStream.h: *)
(* 92-95, 103-106).                                                          *)
TellsAgree == shared => totalWritten - totalRead + kept = Available

(* PltRingBufferStream.cpp:127-147, 193-211, 221-230: no byte is lost,       *)
(* doubled or left behind by the copy in two pieces, whatever was split at   *)
(* the end of the array, gave up half-way or was flushed in between.         *)
BytesAccounted == StreamTypeOK /\ InOrder /\ PiecesJoin /\ TwoTriesSuffice /\ TellsAgree

(* PltRingBufferStream.cpp:113-118, 176-179: who was told the end of the     *)
(* stream has missed nothing, for the writer sets it after its last Write.   *)
EosIsTheEnd == (\E r \in Reader : code[r] = "EOS") => Available = 0

(* PltRingBufferStream.cpp:104-147, 168-211: between the look and the copy   *)
(* the lock is free.  A writer that is alone on its side still finds the     *)
(* room it saw, and a reader that is alone the bytes, unless a Flush, which  *)
(* also restarts the count, has taken them.                                  *)
FindsWhatItSaw ==
  \A t \in Thread : pc[t] = "leave" /\ moved[t] = << >> =>
    t \in Reader /\ totalRead = 0 /\ kept = 0

(* PltRingBufferStream.cpp:104-125, 168-191: no call stays blocked after     *)
(* Abort or SetEOS, a reader beside bytes, or a writer beside room.          *)
CallsGoOn ==
  /\ \A t \in Thread : ((eos \/ aborted) /\ pc[t] # "idle") ~> pc[t] = "idle"
  /\ \A r \in Reader : (pc[r] = "test" /\ Available > 0) ~> (pc[r] # "test" \/ Available = 0)
  /\ \A w \in Writer : (pc[w] = "test" /\ Space > 0) ~> (pc[w] # "test" \/ Space = 0)
=============================================================================
