---------------------------- MODULE StreamProofs -----------------------------
(***************************************************************************)
(* For every size of the array and every bytes that are written, the ring  *)
(* buffer is a queue of at most Size - 1 bytes, and the threads that read  *)
(* and write through the stream lose, double and reorder none of them.     *)
(*                                                                         *)
(* The argument for the ring.  Write, in one copy or in two, and move_in   *)
(* put the bytes at the places in, in + 1, ... counted modulo Size (Puts); *)
(* read, read_byte and move_out take them from out, out + 1, ... (Takes).  *)
(* What follows about the contents needs no more than that.                *)
(*                                                                         *)
(* The argument for the stream.  Its bytes are numbered, so order is that  *)
(* the contents are a run of numbers which ends before next (InOrder).     *)
(* One thread at a time is inside the lock (Locked); there it has copied   *)
(* the run just before the contents (Joins), and once it has copied a      *)
(* piece, the rest lies in one (Suffices).                                 *)
(*                                                                         *)
(* The buffered stream (the second half).  Whatever the source delivers    *)
(* and whatever sizes the buffer gets, what is in the buffer are the last  *)
(* bytes delivered (Behind), and what the call in progress took so far is  *)
(* in the hands of its caller but for the bytes it may drop (Lines,        *)
(* Reads), so read_line, read and peek hand out every byte once, in order. *)
(***************************************************************************)
EXTENDS RingBufferStream, BufferedInputStream, SequenceTheorems, TLAPS

(* The array and the position in after bs has been put, folded at the end. *)
Puts(bs) ==
  /\ in' = Fold(in + Len(bs))
  /\ data' = [s \in Slot |->
       IF in <= s /\ s < in + Len(bs) THEN bs[s - in + 1]
       ELSE IF s + Size < in + Len(bs) THEN bs[s + Size - in + 1]
       ELSE data[s]]
  /\ out' = out

(* The position out and the answer after n bytes have been taken. *)
Takes(n) ==
  /\ out' = Fold(out + n)
  /\ answer' = [did |-> "read", bytes |-> [i \in 1 .. n |-> data[Fold(out + i - 1)]]]
  /\ in' = in /\ data' = data

(* The two halves of a sequence. *)
LEMMA Halves ==
  ASSUME NEW bs \in Seq(Byte), NEW k \in 0 .. Len(bs)
  PROVE  /\ Len(SubSeq(bs, 1, k)) = k
         /\ \A i \in 1 .. k : SubSeq(bs, 1, k)[i] = bs[i]
         /\ Len(SubSeq(bs, k + 1, Len(bs))) = Len(bs) - k
         /\ \A i \in 1 .. Len(bs) - k : SubSeq(bs, k + 1, Len(bs))[i] = bs[k + i]
  OBVIOUS

(* Two sequences, one after the other. *)
LEMMA Joined ==
  ASSUME NEW a \in Seq(Byte), NEW b \in Seq(Byte)
  PROVE  a \o b = [i \in 1 .. Len(a) + Len(b) |-> IF i <= Len(a) THEN a[i] ELSE b[i - Len(a)]]
<1> DEFINE f == [i \in 1 .. Len(a) + Len(b) |-> IF i <= Len(a) THEN a[i] ELSE b[i - Len(a)]]
<1>1. /\ a \o b \in Seq(Byte) /\ Len(a \o b) = Len(a) + Len(b)
      /\ \A i \in 1 .. Len(a) + Len(b) : (a \o b)[i] = f[i]
  BY ConcatProperties
<1>2. Len(a \o b) \in Nat /\ Len(a) + Len(b) \in Nat
  BY <1>1
<1>3. f \in Seq(Byte) /\ Len(f) = Len(a) + Len(b)
  <2>1. \A i \in 1 .. Len(a) + Len(b) : f[i] \in Byte
    BY <1>1
  <2> QED
    BY <1>2, <2>1
<1> QED
  BY <1>1, <1>2, <1>3, SeqEqual

(* All positions are inside the array, and one place is free. *)
LEMMA Bounds ==
  ASSUME TypeOK
  PROVE  /\ Available \in Nat /\ Space \in Nat
         /\ Available + Space = Size - 1
         /\ ContiguousSpace \in Nat /\ ContiguousSpace <= Space
         /\ ContiguousAvailable \in Nat /\ ContiguousAvailable <= Available
         /\ Size \in Nat /\ Size > 0
  BY RingAssumption DEF TypeOK, Slot, Available, Space, ContiguousSpace, ContiguousAvailable

(* The contents are a sequence of bytes as long as get_available() says. *)
LEMMA ContentsType ==
  ASSUME TypeOK
  PROVE  /\ Contents \in Seq(Byte)
         /\ Len(Contents) = Available
         /\ \A i \in 1 .. Available : Contents[i] = data[Fold(out + i - 1)]
<1>1. Available \in Nat /\ Size \in Nat /\ Size > 0 /\ Available < Size
  BY Bounds
<1>2. \A i \in 1 .. Available : Fold(out + i - 1) \in Slot
  BY <1>1, RingAssumption DEF TypeOK, Slot, Fold
<1>3. Contents \in [1 .. Available -> Byte]
  BY <1>2 DEF TypeOK, Contents
<1> QED
  BY <1>1, <1>3 DEF Contents

(* YetiRingBuffer.cpp:141-163: both copies of write put the bytes folded.    *)
LEMMA WritePuts ==
  ASSUME TypeOK, NEW bs \in Seq(Byte), Write(bs)
  PROVE  Puts(bs)
<1> DEFINE n == Len(bs)
           chunk == WriteChunk(n)
           start == Wrap(in + chunk)
           rest == n - chunk
<1>1. /\ n \in Nat /\ n <= Space /\ Size \in Nat /\ Size > 0
      /\ in \in 0 .. Size - 1 /\ out \in 0 .. Size - 1
  BY Bounds DEF Write, TypeOK, Slot
<1>2. /\ chunk \in 0 .. n /\ rest \in 0 .. n /\ in + chunk <= Size
      /\ rest > 0 => in + chunk = Size /\ out <= in /\ rest < Size
      /\ start = IF in + chunk = Size THEN 0 ELSE in + chunk
  BY <1>1 DEF WriteChunk, Lower, Space, Wrap
<1>3. in' = Fold(in + n)
  <2>1. in' = IF rest = 0 THEN start ELSE Wrap(start + rest)
    BY DEF Write
  <2> HIDE DEF chunk, start, rest, n
  <2>2. chunk + rest = n
    BY <1>1, <1>2 DEF rest, n
  <2>3. CASE rest = 0
    BY <1>1, <1>2, <2>1, <2>2, <2>3 DEF Fold
  <2>4. CASE rest > 0
    BY <1>1, <1>2, <2>1, <2>2, <2>4 DEF Fold, Wrap
  <2> QED
    BY <1>2, <2>3, <2>4
<1>4. ASSUME NEW s \in Slot
      PROVE  data'[s] = IF in <= s /\ s < in + n THEN bs[s - in + 1]
                        ELSE IF s + Size < in + n THEN bs[s + Size - in + 1]
                        ELSE data[s]
  <2> DEFINE b1 == SubSeq(bs, 1, chunk)
             b2 == SubSeq(bs, chunk + 1, n)
             d1 == Copied(data, in, b1)
  <2>1. data' = Copied(d1, start, b2)
    BY DEF Write
  <2> HIDE DEF chunk
  <2>2. /\ Len(b1) = chunk /\ \A i \in 1 .. chunk : b1[i] = bs[i]
    BY <1>1, <1>2, Halves
  <2>3. /\ Len(b2) = rest /\ \A i \in 1 .. rest : b2[i] = bs[chunk + i]
    BY <1>1, <1>2, Halves
  <2> HIDE DEF start, rest, b1, b2
  <2>4. d1[s] = IF in <= s /\ s < in + chunk THEN bs[s - in + 1] ELSE data[s]
    BY <1>1, <1>2, <2>2 DEF Copied, Slot
  <2> HIDE DEF d1
  <2>5. data'[s] = IF start <= s /\ s < start + rest THEN bs[chunk + s - start + 1] ELSE d1[s]
    BY <1>1, <1>2, <2>1, <2>3 DEF Copied, Slot
  <2>6. chunk + rest = n
    BY <1>1, <1>2 DEF rest, n
  <2> HIDE DEF n
  <2>7. CASE rest = 0
    BY <1>1, <1>2, <2>4, <2>5, <2>6, <2>7 DEF Slot
  <2>8. CASE rest > 0
    <3>1. start = 0 /\ in + chunk = Size /\ rest <= out /\ out <= in
      BY <1>1, <1>2, <2>6, <2>8 DEF Space
    <3> QED
      BY <1>1, <1>2, <2>4, <2>5, <2>6, <3>1 DEF Slot
  <2> QED
    BY <1>2, <2>7, <2>8
<1>5. data' = [s \in Slot |-> data'[s]]
  BY DEF Write, Copied
<1> HIDE DEF chunk, start, rest
<1>6. data' = [s \in Slot |->
        IF in <= s /\ s < in + n THEN bs[s - in + 1]
        ELSE IF s + Size < in + n THEN bs[s + Size - in + 1]
        ELSE data[s]]
  BY <1>4, <1>5, Zenon
<1> QED
  BY <1>3, <1>6 DEF Puts, Write

(* YetiRingBuffer.cpp:82-91: move_in does the same with a single copy.       *)
LEMMA MoveInPuts ==
  ASSUME TypeOK, NEW bs \in Seq(Byte), MoveIn(bs)
  PROVE  Puts(bs) /\ Len(bs) <= Space
<1>1. /\ Len(bs) \in Nat /\ Len(bs) <= ContiguousSpace /\ ContiguousSpace <= Space
      /\ in + Len(bs) <= Size /\ Space \in Nat /\ ContiguousSpace \in Nat
  BY Bounds DEF MoveIn, TypeOK, Slot, ContiguousSpace
<1>2. data' = Copied(data, in, bs) /\ in' = Fold(in + Len(bs)) /\ out' = out
  BY DEF MoveIn
<1>3. \A s \in Slot : ~(s + Size < in + Len(bs))
  BY <1>1, RingAssumption DEF Slot, TypeOK
<1> QED
  BY <1>1, <1>2, <1>3 DEF Puts, Copied

(* YetiRingBuffer.cpp:116-139: both copies of read take the bytes folded.    *)
LEMMA ReadTakes ==
  ASSUME TypeOK, NEW n \in Nat, Read(n)
  PROVE  Takes(n)
<1> DEFINE chunk == ReadChunk(n)
           start == Wrap(out + chunk)
           rest == n - chunk
<1>1. /\ n <= Available /\ Size \in Nat /\ Size > 0
      /\ in \in 0 .. Size - 1 /\ out \in 0 .. Size - 1
  BY Bounds DEF Read, TypeOK, Slot
<1>2. /\ chunk \in 0 .. n /\ rest \in 0 .. n /\ out + chunk <= Size
      /\ rest > 0 => out + chunk = Size /\ rest < Size
      /\ start = IF out + chunk = Size THEN 0 ELSE out + chunk
  BY <1>1 DEF ReadChunk, Lower, Available, Wrap
<1>3. /\ out' = IF rest = 0 THEN start ELSE Wrap(start + rest)
      /\ answer' = [did |-> "read", bytes |-> Taken(out, chunk) \o Taken(start, rest)]
      /\ in' = in /\ data' = data
  BY DEF Read, Answer
<1> HIDE DEF chunk, start
<1>4. out' = Fold(out + n)
  <2>1. CASE rest = 0
    BY <1>1, <1>2, <1>3, <2>1 DEF Fold
  <2>2. CASE rest > 0
    BY <1>1, <1>2, <1>3, <2>2 DEF Fold, Wrap
  <2> QED
    BY <1>2, <2>1, <2>2
<1>5. Taken(out, chunk) \o Taken(start, rest) = [i \in 1 .. n |-> data[Fold(out + i - 1)]]
  <2> DEFINE a == Taken(out, chunk)
             b == Taken(start, rest)
  <2>1. /\ a \in Seq(Byte) /\ Len(a) = chunk
        /\ \A i \in 1 .. chunk : a[i] = data[out + i - 1]
    BY <1>1, <1>2 DEF Taken, TypeOK, Slot
  <2>2. /\ b \in Seq(Byte) /\ Len(b) = rest
        /\ \A i \in 1 .. rest : b[i] = data[start + i - 1]
    <3>1. \A i \in 1 .. rest : start + i - 1 \in Slot
      BY <1>1, <1>2 DEF Slot
    <3> QED
      BY <1>1, <1>2, <3>1 DEF Taken, TypeOK
  <2> HIDE DEF a, b
  <2>3. a \o b = [i \in 1 .. n |-> IF i <= chunk THEN a[i] ELSE b[i - chunk]]
    <3>1. Len(a) + Len(b) = n
      BY <1>2, <2>1, <2>2
    <3> QED
      BY <2>1, <2>2, <3>1, Joined
  <2>4. ASSUME NEW i \in 1 .. n
        PROVE  (IF i <= chunk THEN a[i] ELSE b[i - chunk]) = data[Fold(out + i - 1)]
    <3> HIDE DEF rest
    <3>0. chunk + rest = n
      BY <1>2 DEF rest
    <3>1. CASE i <= chunk
      <4>1. Fold(out + i - 1) = out + i - 1
        BY <1>1, <1>2, <3>1 DEF Fold
      <4> QED
        BY <1>2, <2>1, <3>1, <4>1
    <3>2. CASE i > chunk
      <4>1. rest > 0 /\ i - chunk \in 1 .. rest
        BY <1>2, <3>0, <3>2
      <4>2. Fold(out + i - 1) = start + (i - chunk) - 1
        BY <1>1, <1>2, <3>0, <3>2, <4>1 DEF Fold
      <4>3. b[i - chunk] = data[start + (i - chunk) - 1]
        BY <2>2, <4>1
      <4> QED
        BY <1>2, <3>2, <4>2, <4>3
    <3> QED
      BY <1>2, <3>1, <3>2
  <2> QED
    BY <2>3, <2>4 DEF a, b
<1> QED
  BY <1>3, <1>4, <1>5 DEF Takes

-----------------------------------------------------------------------------
(* Both kinds of writing append to the contents.                             *)
LEMMA PutsAppends ==
  ASSUME TypeOK, NEW bs \in Seq(Byte), Len(bs) <= Space, Puts(bs)
  PROVE  /\ data' \in [Slot -> Byte] /\ in' \in Slot /\ out' \in Slot
         /\ Contents' = Contents \o bs
<1> DEFINE n == Len(bs)
<1>1. /\ n \in Nat /\ n <= Space /\ Available + Space = Size - 1 /\ Size \in Nat /\ Size > 0
      /\ in \in 0 .. Size - 1 /\ out \in 0 .. Size - 1 /\ Available \in Nat
  BY Bounds DEF TypeOK, Slot
<1>2. /\ in' = Fold(in + n) /\ out' = out
      /\ data' = [s \in Slot |->
           IF in <= s /\ s < in + n THEN bs[s - in + 1]
           ELSE IF s + Size < in + n THEN bs[s + Size - in + 1]
           ELSE data[s]]
  BY DEF Puts
<1> HIDE DEF n
<1>3. in' \in Slot /\ out' \in Slot
  BY <1>1, <1>2, Bounds DEF Fold, Slot
<1>4. data' \in [Slot -> Byte]
  <2>1. ASSUME NEW s \in Slot
        PROVE  data'[s] \in Byte
    BY <1>1, <1>2 DEF TypeOK, Slot, n
  <2> QED
    BY <1>2, <2>1
<1>5. Available' = Available + n
  BY <1>1, <1>2 DEF Available, Space, Fold
<1>6. \A i \in 1 .. Available : Fold(out + i - 1) \in Slot /\ data'[Fold(out + i - 1)] = data[Fold(out + i - 1)]
  <2> SUFFICES ASSUME NEW i \in 1 .. Available
               PROVE  Fold(out + i - 1) \in Slot /\ data'[Fold(out + i - 1)] = data[Fold(out + i - 1)]
    OBVIOUS
  <2> DEFINE s == Fold(out + i - 1)
  <2>1. s \in Slot /\ ~(in <= s /\ s < in + n) /\ ~(s + Size < in + n)
    BY <1>1 DEF Fold, Slot, Available, Space
  <2> HIDE DEF s
  <2> QED
    BY <1>2, <2>1 DEF s
<1>7. \A i \in 1 .. n : data'[Fold(out + Available + i - 1)] = bs[i]
  <2> SUFFICES ASSUME NEW i \in 1 .. n
               PROVE  data'[Fold(out + Available + i - 1)] = bs[i]
    OBVIOUS
  <2> DEFINE s == Fold(out + Available + i - 1)
  <2>1. /\ s \in Slot
        /\ \/ in <= s /\ s < in + n /\ s - in + 1 = i
           \/ ~(in <= s /\ s < in + n) /\ s + Size < in + n /\ s + Size - in + 1 = i
    BY <1>1 DEF Fold, Slot, Available, Space
  <2> HIDE DEF s
  <2> QED
    BY <1>2, <2>1 DEF s
<1>8. Contents' = Contents \o bs
  <2>1. Contents' = [i \in 1 .. Available + n |-> data'[Fold(out + i - 1)]]
    BY <1>2, <1>5 DEF Contents, Fold
  <2>2. Contents \o bs = [i \in 1 .. Available + n |-> IF i <= Available THEN Contents[i] ELSE bs[i - Available]]
    <3>1. Contents \in Seq(Byte) /\ Len(Contents) = Available
      BY ContentsType
    <3>2. Contents \o bs = [i \in 1 .. Len(Contents) + Len(bs) |->
                               IF i <= Len(Contents) THEN Contents[i] ELSE bs[i - Len(Contents)]]
      BY <3>1, Joined
    <3> QED
      BY <3>1, <3>2 DEF n
  <2>3. ASSUME NEW i \in 1 .. Available + n
        PROVE  data'[Fold(out + i - 1)] = IF i <= Available THEN Contents[i] ELSE bs[i - Available]
    <3>1. CASE i <= Available
      <4>1. i \in 1 .. Available
        BY <1>1, <3>1
      <4>2. Contents[i] = data[Fold(out + i - 1)]
        BY <4>1, ContentsType
      <4> QED
        BY <1>6, <3>1, <4>1, <4>2
    <3>2. CASE i > Available
      <4>1. i - Available \in 1 .. n /\ out + Available + (i - Available) - 1 = out + i - 1
        BY <1>1, <3>2
      <4> QED
        BY <1>1, <1>7, <3>2, <4>1
    <3> QED
      BY <1>1, <3>1, <3>2
  <2> QED
    BY <2>1, <2>2, <2>3
<1> QED
  BY <1>3, <1>4, <1>8

(* The first n bytes of the contents, and the others.                        *)
LEMMA TakesRemoves ==
  ASSUME TypeOK, NEW n \in 0 .. Available, Takes(n)
  PROVE  /\ out' \in Slot /\ in' = in /\ data' = data
         /\ answer' = [did |-> "read", bytes |-> SubSeq(Contents, 1, n)]
         /\ SubSeq(Contents, 1, n) \in Seq(Byte)
         /\ Contents' = SubSeq(Contents, n + 1, Len(Contents))
<1>1. /\ Size \in Nat /\ Size > 0 /\ Available \in Nat /\ Available < Size
      /\ in \in 0 .. Size - 1 /\ out \in 0 .. Size - 1
  BY Bounds DEF TypeOK, Slot
<1>2. /\ out' = Fold(out + n) /\ in' = in /\ data' = data
      /\ answer' = [did |-> "read", bytes |-> [i \in 1 .. n |-> data[Fold(out + i - 1)]]]
  BY DEF Takes
<1>3. out' \in Slot /\ Available' = Available - n
  BY <1>1, <1>2 DEF Fold, Slot, Available
<1>4. /\ Contents \in Seq(Byte) /\ Len(Contents) = Available
      /\ \A i \in 1 .. Available : Contents[i] = data[Fold(out + i - 1)]
  BY ContentsType
<1>5. /\ SubSeq(Contents, 1, n) \in Seq(Byte)
      /\ SubSeq(Contents, 1, n) = [i \in 1 .. n |-> data[Fold(out + i - 1)]]
  BY <1>1, <1>4
<1>6. SubSeq(Contents, n + 1, Available) = [i \in 1 .. Available - n |-> Contents[n + i]]
  BY <1>1, <1>4
<1>7. Contents' = [i \in 1 .. Available - n |-> data[Fold(out' + i - 1)]]
  BY <1>2, <1>3 DEF Contents, Fold
<1>8. ASSUME NEW i \in 1 .. Available - n
      PROVE  data[Fold(out' + i - 1)] = Contents[n + i]
  <2>1. Fold(out' + i - 1) = Fold(out + (n + i) - 1) /\ n + i \in 1 .. Available
    BY <1>1, <1>2 DEF Fold, Slot
  <2> QED
    BY <1>4, <2>1
<1> QED
  BY <1>2, <1>3, <1>4, <1>5, <1>6, <1>7, <1>8

-----------------------------------------------------------------------------
(* Reading a byte is taking one, and moving out is taking without a copy.    *)
LEMMA ReadByteTakes ==
  ASSUME TypeOK, ReadByte
  PROVE  Takes(1) /\ 1 \in 0 .. Available
<1>1. Size \in Nat /\ Size > 0 /\ Available \in Nat /\ out \in 0 .. Size - 1
  BY Bounds DEF TypeOK, Slot
<1>2. out' = Fold(out + 1) /\ Fold(out + 1 - 1) = out
  BY <1>1 DEF ReadByte, Wrap, Fold
<1>3. [i \in 1 .. 1 |-> data[Fold(out + i - 1)]] = <<data[out]>>
  BY <1>2
<1> QED
  BY <1>1, <1>2, <1>3 DEF ReadByte, Takes, Answer

LEMMA MoveOutTakes ==
  ASSUME TypeOK, NEW n \in Nat, MoveOut(n)
  PROVE  Takes(n) /\ n \in 0 .. Available
<1>1. /\ Size \in Nat /\ Size > 0 /\ Available \in Nat /\ out \in 0 .. Size - 1
      /\ n <= ContiguousAvailable /\ ContiguousAvailable <= Available
      /\ ContiguousAvailable \in Nat
  BY Bounds DEF MoveOut, TypeOK, Slot
<1>2. out + n <= Size
  BY <1>1 DEF ContiguousAvailable, TypeOK, Slot
<1>3. \A i \in 1 .. n : Fold(out + i - 1) = out + i - 1
  BY <1>1, <1>2 DEF Fold
<1>4. Taken(out, n) = [i \in 1 .. n |-> data[Fold(out + i - 1)]]
  BY <1>3 DEF Taken
<1> QED
  BY <1>1, <1>4 DEF MoveOut, Takes, Answer

(* What one step does: it keeps the types and is a step of the queue.        *)
LEMMA StepSafe ==
  ASSUME TypeOK, Next
  PROVE  TypeOK' /\ Promise!Next
<1>1. /\ Contents \in Seq(Byte) /\ Len(Contents) = Available
      /\ Available \in Nat /\ Available + Space = Size - 1 /\ Size \in Nat
      /\ \A i \in 1 .. Available : Contents[i] = data[Fold(out + i - 1)]
  BY ContentsType, Bounds
<1> DEFINE Stays == data' = data /\ in' = in /\ out' = out
<1>2. Stays => /\ data' \in [Slot -> Byte] /\ in' \in Slot /\ out' \in Slot
               /\ Contents' = Contents
  BY DEF TypeOK, Contents, Available, Fold
<1>3. ASSUME NEW bs \in Inputs, Puts(bs), Len(bs) <= Space,
             Answer("written", bs), closed' = closed
      PROVE  TypeOK' /\ Promise!Put
  <2>1. bs \in Seq(Byte)
    BY RingAssumption
  <2>2. /\ data' \in [Slot -> Byte] /\ in' \in Slot /\ out' \in Slot
        /\ Contents' = Contents \o bs
    BY <1>3, <2>1, PutsAppends
  <2>3. Len(Contents) + Len(bs) <= Size - 1
    BY <1>1, <1>3, <2>1, Bounds
  <2>4. TypeOK'
    BY <1>3, <2>1, <2>2 DEF TypeOK, Answer, Deed
  <2> QED
    BY <1>3, <2>2, <2>3, <2>4 DEF Promise!Put, Promise!Reply, Answer
<1>4. ASSUME NEW n \in 0 .. Available, Takes(n), closed' = closed
      PROVE  TypeOK' /\ Promise!Take
  <2>1. /\ out' \in Slot /\ in' = in /\ data' = data
        /\ answer' = [did |-> "read", bytes |-> SubSeq(Contents, 1, n)]
        /\ SubSeq(Contents, 1, n) \in Seq(Byte)
        /\ Contents' = SubSeq(Contents, n + 1, Len(Contents))
    BY <1>4, TakesRemoves
  <2>2. TypeOK'
    BY <1>4, <2>1 DEF TypeOK, Deed
  <2> QED
    BY <1>1, <1>4, <2>1, <2>2 DEF Promise!Take, Promise!Reply
<1>5. ASSUME NEW bs \in Inputs, Write(bs) \/ MoveIn(bs)
      PROVE  TypeOK' /\ Promise!Put
  <2>1. bs \in Seq(Byte)
    BY RingAssumption
  <2>2. Puts(bs) /\ Len(bs) <= Space /\ Answer("written", bs) /\ closed' = closed
    BY <1>5, <2>1, WritePuts, MoveInPuts DEF Write, MoveIn
  <2> QED
    BY <1>3, <2>2
<1>6. ASSUME NEW n \in 0 .. Size, Read(n) \/ MoveOut(n)
      PROVE  TypeOK' /\ Promise!Take
  <2>1. n \in Nat
    BY <1>1
  <2>2. Takes(n) /\ n \in 0 .. Available /\ closed' = closed
    BY <1>1, <1>6, <2>1, ReadTakes, MoveOutTakes DEF Read, MoveOut
  <2> QED
    BY <1>4, <2>2
<1>7. ASSUME NEW i \in 0 .. Size, PeekByte(i)
      PROVE  TypeOK' /\ Promise!Look
  <2>1. i + 1 \in 1 .. Available /\ data[Fold(out + i)] = Contents[i + 1] /\ Contents[i + 1] \in Byte
    <3>1. i + 1 \in 1 .. Available /\ out + (i + 1) - 1 = out + i
      BY <1>1, <1>7 DEF PeekByte, TypeOK, Slot
    <3> QED
      BY <1>1, <3>1
  <2>2. answer' = [did |-> "peeked", bytes |-> <<Contents[i + 1]>>]
    BY <1>7, <2>1 DEF PeekByte, Answer
  <2>3. TypeOK'
    BY <1>2, <1>7, <2>1, <2>2 DEF TypeOK, PeekByte, Deed
  <2> QED
    BY <1>1, <1>2, <1>7, <2>1, <2>2, <2>3 DEF Promise!Look, Promise!Reply, PeekByte
<1>8. ASSUME ReadByte
      PROVE  TypeOK' /\ Promise!Take
  <2>1. Takes(1) /\ 1 \in 0 .. Available /\ closed' = closed
    BY <1>8, ReadByteTakes DEF ReadByte
  <2> QED
    BY <1>4, <2>1
<1>9. ASSUME Refuse
      PROVE  TypeOK' /\ Promise!Refuse
  BY <1>2, <1>9 DEF Refuse, Answer, Deed, TypeOK, Promise!Refuse, Promise!Reply
<1>10. ASSUME Flush
       PROVE  TypeOK' /\ Promise!Clear
  <2>1. Contents' = << >>
    BY <1>10 DEF Flush, Contents, Available
  <2>2. TypeOK'
    BY <1>1, <1>10, RingAssumption DEF Flush, TypeOK, Slot, Answer, Deed
  <2> QED
    BY <1>10, <2>1, <2>2 DEF Flush, Answer, Promise!Clear, Promise!Reply
<1>11. ASSUME Close
       PROVE  TypeOK' /\ Promise!Shut
  BY <1>2, <1>11 DEF Close, Answer, Deed, TypeOK, Promise!Shut, Promise!Reply
<1> QED
  BY <1>5, <1>6, <1>7, <1>8, <1>9, <1>10, <1>11 DEF Next, Promise!Next

LEMMA InitSafe ==
  ASSUME Init
  PROVE  TypeOK /\ Promise!Init
<1>1. TypeOK
  <2>1. data \in [Slot -> Byte] /\ 0 \in Slot
    BY RingAssumption DEF Init, Slot
  <2>2. << >> \in Seq(Byte)
    OBVIOUS
  <2> QED
    BY <2>1, <2>2 DEF Init, TypeOK, Deed
<1>2. Contents = << >>
  BY DEF Init, Contents, Available
<1> QED
  BY <1>1, <1>2 DEF Init, Promise!Init

LEMMA StutterSafe ==
  ASSUME TypeOK, UNCHANGED ringVars
  PROVE  TypeOK' /\ UNCHANGED Promise!vars
  BY DEF TypeOK, ringVars, Promise!vars, Contents, Available, Fold

(* YetiRingBuffer.cpp:8-114: the two positions stay inside the array,        *)
(* whatever is read, written, moved or flushed.                              *)
THEOREM TypeCorrect == Spec => []TypeOK
<1>1. TypeOK /\ [Next]_ringVars => TypeOK'
  BY StepSafe, StutterSafe
<1> QED
  BY <1>1, InitSafe, PTL DEF Spec

(* YetiRingBuffer.cpp:33-163: for every size, the ring buffer is a queue of  *)
(* at most Size - 1 bytes: no byte is lost, repeated, reordered or           *)
(* overwritten at the end of the array, and full is not taken for empty.     *)
THEOREM Implements == Spec => ImplementsByteQueue
<1>1. TypeOK /\ [Next]_ringVars => [Promise!Next]_Promise!vars
  BY StepSafe, StutterSafe
<1> QED
  BY <1>1, InitSafe, TypeCorrect, PTL DEF Spec, ImplementsByteQueue, Promise!Spec

-----------------------------------------------------------------------------
(* The stream around the ring buffer.                                        *)

LEMMA Run ==
  ASSUME NEW first \in Int, NEW n \in Nat
  PROVE  /\ Numbered(first, n) \in Seq(Int) /\ Len(Numbered(first, n)) = n
         /\ \A i \in 1 .. n : Numbered(first, n)[i] = first + i - 1
  BY DEF Numbered

(* A run of bytes cut in two, and two runs joined.                           *)
LEMMA RunCut ==
  ASSUME NEW first \in Int, NEW m \in Nat, NEW n \in 0 .. m
  PROVE  /\ SubSeq(Numbered(first, m), 1, n) = Numbered(first, n)
         /\ SubSeq(Numbered(first, m), n + 1, m) = Numbered(first + n, m - n)
<1>1. /\ Numbered(first, m) \in Seq(Int) /\ Len(Numbered(first, m)) = m
      /\ \A i \in 1 .. m : Numbered(first, m)[i] = first + i - 1
  BY Run
<1>2. SubSeq(Numbered(first, m), 1, n) = [i \in 1 .. n |-> Numbered(first, m)[i]]
  BY <1>1
<1>3. SubSeq(Numbered(first, m), n + 1, m) = [i \in 1 .. m - n |-> Numbered(first, m)[n + i]]
  BY <1>1
<1>4. \A i \in 1 .. n : Numbered(first, m)[i] = first + i - 1
  BY <1>1
<1>5. \A i \in 1 .. m - n : Numbered(first, m)[n + i] = first + n + i - 1
  BY <1>1
<1> QED
  BY <1>2, <1>3, <1>4, <1>5 DEF Numbered

LEMMA RunJoin ==
  ASSUME NEW first \in Int, NEW m \in Nat, NEW n \in Nat
  PROVE  Numbered(first, m) \o Numbered(first + m, n) = Numbered(first, m + n)
<1> DEFINE a == Numbered(first, m)
           b == Numbered(first + m, n)
<1>1. /\ a \in Seq(Int) /\ Len(a) = m /\ \A i \in 1 .. m : a[i] = first + i - 1
      /\ b \in Seq(Int) /\ Len(b) = n /\ \A i \in 1 .. n : b[i] = first + m + i - 1
      /\ m + n \in Nat
  BY Run
<1>2. /\ Numbered(first, m + n) \in Seq(Int) /\ Len(Numbered(first, m + n)) = m + n
      /\ \A i \in 1 .. m + n : Numbered(first, m + n)[i] = first + i - 1
  BY <1>1, Run
<1> HIDE DEF a, b
<1>3. /\ a \o b \in Seq(Int) /\ Len(a \o b) = m + n
      /\ \A i \in 1 .. m + n : (a \o b)[i] = IF i <= m THEN a[i] ELSE b[i - m]
  BY <1>1, ConcatProperties
<1>4. \A i \in 1 .. m + n : (a \o b)[i] = first + i - 1
  BY <1>1, <1>3
<1>5. a \o b = Numbered(first, m + n)
  <2>1. Len(a \o b) = Len(Numbered(first, m + n))
    BY <1>2, <1>3
  <2>2. \A i \in 1 .. Len(a \o b) : (a \o b)[i] = Numbered(first, m + n)[i]
    BY <1>2, <1>3, <1>4
  <2> QED
    BY <1>2, <1>3, <2>1, <2>2, SeqEqual
<1> QED
  BY <1>5 DEF a, b

(* The room after a step.                                                    *)
LEMMA BoundsAfter ==
  ASSUME TypeOK'
  PROVE  /\ Available' \in Nat /\ Space' \in Nat
         /\ Available' + Space' = Size - 1
         /\ Len(Contents') = Available'
<1>1. PICK x \in 0 .. Size - 1, y \in 0 .. Size - 1 : x = in' /\ y = out'
  BY DEF TypeOK, Slot
<1>2. Available' \in Nat /\ Space' \in Nat /\ Available' + Space' = Size - 1
  <2>1. Size \in Nat
    BY RingAssumption
  <2>2. /\ Available' = IF y <= x THEN x - y ELSE Size - y + x
        /\ Space' = IF x < y THEN y - x - 1 ELSE Size - x + y - 1
    BY <1>1 DEF Available, Space
  <2> QED
    BY <2>1, <2>2
<1>3. PICK n \in Nat : n = Available'
  BY <1>2
<1>4. Contents' = [i \in 1 .. n |-> data'[Fold(out' + i - 1)]]
  BY <1>3 DEF Contents, Fold
<1>5. Len(Contents') = n
  BY <1>4
<1> QED
  BY <1>2, <1>3, <1>5

(* YetiRingBuffer.cpp:116-139 for a contiguous piece: what was the end of    *)
(* the array is behind after it.                                             *)
LEMMA PieceRead ==
  ASSUME TypeOK, NEW n \in 1 .. ContiguousAvailable, Read(n)
  PROVE  /\ Available' = Available - n
         /\ n = ContiguousAvailable => ContiguousAvailable' = Available'
         /\ answer'.bytes = SubSeq(Contents, 1, n)
         /\ Contents' = SubSeq(Contents, n + 1, Available)
         /\ n \in 0 .. Available
<1>1. /\ ContiguousAvailable \in Nat /\ ContiguousAvailable <= Available /\ Available \in Nat
      /\ Size \in Nat /\ Size > 0 /\ in \in 0 .. Size - 1 /\ out \in 0 .. Size - 1
  BY Bounds DEF TypeOK, Slot
<1>2. n \in Nat /\ n \in 0 .. Available
  BY <1>1
<1>3. Takes(n)
  BY <1>2, ReadTakes
<1>4. /\ answer'.bytes = SubSeq(Contents, 1, n)
      /\ Contents' = SubSeq(Contents, n + 1, Len(Contents))
      /\ Len(Contents) = Available
  BY <1>2, <1>3, TakesRemoves, ContentsType
<1>5. out' = Fold(out + n) /\ in' = in
  BY <1>3 DEF Takes
<1>6. Available' = Available - n
  BY <1>1, <1>2, <1>5 DEF Available, Fold
<1>7. ASSUME n = ContiguousAvailable
      PROVE  ContiguousAvailable' = Available'
  BY <1>1, <1>2, <1>5, <1>7 DEF Available, ContiguousAvailable, Fold
<1> QED
  BY <1>2, <1>4, <1>6, <1>7

(* YetiRingBuffer.cpp:141-163, the same for writing.                         *)
LEMMA PieceWritten ==
  ASSUME TypeOK, NEW bs \in Seq(Byte), Len(bs) \in 1 .. ContiguousSpace, Write(bs)
  PROVE  /\ Space' = Space - Len(bs) /\ Available' = Available + Len(bs)
         /\ Len(bs) = ContiguousSpace => ContiguousSpace' = Space'
         /\ Contents' = Contents \o bs
<1>1. /\ ContiguousSpace \in Nat /\ ContiguousSpace <= Space /\ Space \in Nat
      /\ Size \in Nat /\ Size > 0 /\ in \in 0 .. Size - 1 /\ out \in 0 .. Size - 1
  BY Bounds DEF TypeOK, Slot
<1>2. PICK n \in Nat : n = Len(bs)
  OBVIOUS
<1>3. n <= Space /\ n >= 1 /\ n <= ContiguousSpace
  BY <1>1, <1>2
<1>4. Puts(bs)
  BY WritePuts
<1>5. Contents' = Contents \o bs
  BY <1>1, <1>2, <1>3, <1>4, PutsAppends
<1>6. in' = Fold(in + n) /\ out' = out
  BY <1>2, <1>4 DEF Puts
<1>7. Space' = Space - n /\ Available' = Available + n
  BY <1>1, <1>3, <1>6 DEF Available, Space, Fold
<1>8. ASSUME n = ContiguousSpace
      PROVE  ContiguousSpace' = Space'
  BY <1>1, <1>3, <1>6, <1>8 DEF Space, ContiguousSpace, Fold
<1> QED
  BY <1>2, <1>5, <1>7, <1>8

LEMMA RoomAfter ==
  ASSUME TypeOK, TypeOK', NEW n \in Int, Available' = Available + n
  PROVE  Space' = Space - n
<1>1. PICK a \in Nat, s \in Nat : a = Available /\ s = Space
  BY Bounds
<1>2. PICK b \in Nat, r \in Nat : b = Available' /\ r = Space'
  BY BoundsAfter
<1>3. PICK z \in Nat : z = Size
  BY RingAssumption
<1>4. a + s = z - 1
  BY <1>1, <1>3, Bounds
<1>5. b + r = z - 1
  BY <1>2, <1>3, BoundsAfter
<1>6. b = a + n
  BY <1>1, <1>2
<1>7. r = s - n
  BY <1>4, <1>5, <1>6
<1> QED
  BY <1>1, <1>2, <1>7

(* A step that leaves the ring buffer's places alone.                        *)
LEMMA Quiet ==
  ASSUME UNCHANGED <<data, in, out>>
  PROVE  /\ Contents' = Contents /\ Available' = Available /\ Space' = Space
         /\ ContiguousAvailable' = ContiguousAvailable /\ ContiguousSpace' = ContiguousSpace
  BY DEF Contents, Available, Space, ContiguousAvailable, ContiguousSpace, Fold

-----------------------------------------------------------------------------
(* m_Lock has one thread inside. *)
Inside == {"first", "second", "leave"}
Locked(t) == pc[t] \in Inside <=> lock = t

(* A call copies nothing before its second visit to the lock. *)
Calling(t) == pc[t] # "idle" =>
  /\ want[t] > 0 /\ Len(moved[t]) <= want[t]
  /\ pc[t] \in {"test", "lock", "first"} => moved[t] = << >>
  /\ pc[t] = "second" => moved[t] # << >>

(* What a reader has copied is what was there just before the contents. *)
Joins(t) == t \in Reader =>
  /\ moved[t] # << >> => moved[t] = Numbered(moved[t][1], Len(moved[t]))
  /\ pc[t] \in Inside => moved[t] = Numbered(next - Available - Len(moved[t]), Len(moved[t]))

(* After the first piece the array's end is not in the way any more. *)
Suffices(t) ==
  /\ pc[t] = "second" =>
       \/ Wanting(t) = 0
       \/ IF t \in Reader THEN ContiguousAvailable = Available ELSE ContiguousSpace = Space
  /\ pc[t] = "leave" =>
       \/ Wanting(t) = 0
       \/ IF t \in Reader THEN Available = 0 ELSE Space = 0

(* There are enough bytes left for what the writer wants to write. *)
Offers(t) == t \in Writer /\ pc[t] # "idle" => next + Wanting(t) <= Bound + 1

(* The writer is done when it has set the end of the stream. *)
Ended(t) ==
  /\ t \in Writer /\ eos => pc[t] \in {"idle", "test"}
  /\ t \in Reader /\ code[t] = "EOS" => eos /\ Available = 0

(* Nobody else takes the room that the writer saw. *)
RoomStays(t) == t \in Writer =>
  /\ pc[t] \in {"lock", "first"} => Space > 0
  /\ pc[t] = "leave" => moved[t] # << >>

InHand(t) ==
  /\ Locked(t) /\ Calling(t) /\ Joins(t) /\ Suffices(t)
  /\ Offers(t) /\ Ended(t) /\ RoomStays(t)

(* Nobody uses the stream before it is made. *)
Unmade == ~shared =>
  /\ totalRead = 0 /\ totalWritten = 0 /\ kept = 0 /\ ~eos /\ lock = Nobody
  /\ \A t \in Thread : pc[t] = "idle" /\ moved[t] = << >> /\ code[t] = "none"

(* What is in the buffer, and what the totals count, has been offered. *)
Counts == Available < next /\ totalWritten + kept < next

IInv ==
  /\ StreamTypeOK /\ InOrder /\ TellsAgree /\ Unmade /\ Counts
  /\ \A t \in Thread : InHand(t)

(* What is a number, and who is a thread.                                    *)
LEMMA Numbers ==
  ASSUME StreamTypeOK
  PROVE  /\ TypeOK
         /\ Available \in Nat /\ Space \in Nat /\ Available + Space = Size - 1
         /\ ContiguousAvailable \in Nat /\ ContiguousAvailable <= Available
         /\ ContiguousSpace \in Nat /\ ContiguousSpace <= Space
         /\ ContiguousAvailable = 0 => Available = 0
         /\ ContiguousSpace = 0 => Space = 0
         /\ next \in Nat /\ totalRead \in Nat /\ totalWritten \in Nat /\ kept \in Nat
         /\ \A t \in Thread : want[t] \in Nat /\ moved[t] \in Seq(Byte) /\ Wanting(t) \in Int
<1>1. TypeOK
  BY DEF StreamTypeOK
<1>2. /\ Available \in Nat /\ Space \in Nat /\ Available + Space = Size - 1
      /\ ContiguousAvailable \in Nat /\ ContiguousAvailable <= Available
      /\ ContiguousSpace \in Nat /\ ContiguousSpace <= Space
  BY <1>1, Bounds
<1>3. /\ ContiguousAvailable = 0 => Available = 0
      /\ ContiguousSpace = 0 => Space = 0
  <2>1. in \in 0 .. Size - 1 /\ out \in 0 .. Size - 1
    BY <1>1 DEF TypeOK, Slot
  <2>2. Size \in Nat
    BY RingAssumption
  <2> QED
    BY <2>1, <2>2 DEF Available, Space, ContiguousAvailable, ContiguousSpace
<1>4. next \in Nat /\ totalRead \in Nat /\ totalWritten \in Nat /\ kept \in Nat
  BY StreamAssumption DEF StreamTypeOK
<1>5. ASSUME NEW t \in Thread
      PROVE  want[t] \in Nat /\ moved[t] \in Seq(Byte) /\ Wanting(t) \in Int
  <2>1. want[t] \in Nat /\ moved[t] \in Seq(Byte)
    BY StreamAssumption DEF StreamTypeOK
  <2>2. Len(moved[t]) \in Nat
    BY <2>1
  <2> QED
    BY <2>1, <2>2 DEF Wanting
<1> QED
  BY <1>1, <1>2, <1>3, <1>4, <1>5

LEMMA Threads ==
  /\ \A r \in Reader : r \in Thread /\ r \notin Writer
  /\ \A w \in Writer : w \in Thread /\ w \notin Reader
  /\ \A t \in Thread : t # Nobody
  /\ \A t \in Thread : t \notin Reader => t \in Writer
  BY StreamAssumption DEF Thread

(* A step that copies nothing leaves the counts right.                       *)
Still == UNCHANGED <<data, in, out, next, shared, totals>>

LEMMA StillCounts ==
  ASSUME IInv, Still
  PROVE  /\ InOrder' /\ TellsAgree' /\ Counts'
         /\ Available' = Available /\ Space' = Space
         /\ ContiguousAvailable' = ContiguousAvailable /\ ContiguousSpace' = ContiguousSpace
         /\ next' = next /\ shared' = shared /\ totalRead' = totalRead
         /\ totalWritten' = totalWritten /\ kept' = kept
  BY Quiet DEF Still, IInv, InOrder, TellsAgree, Counts, totals

(* ... and what is true of the threads it does not move.                     *)
LEMMA StillOwn ==
  ASSUME IInv, Still, NEW u \in Thread,
         pc'[u] = pc[u], want'[u] = want[u], moved'[u] = moved[u], code'[u] = code[u],
         lock' = u <=> lock = u,
         eos' = eos \/ (eos' /\ (u \in Writer => pc[u] = "idle"))
  PROVE  InHand(u)'
<1>1. /\ Available' = Available /\ Space' = Space /\ next' = next
      /\ ContiguousAvailable' = ContiguousAvailable /\ ContiguousSpace' = ContiguousSpace
  BY StillCounts
<1>2. InHand(u)
  BY DEF IInv
<1>3. Locked(u)' /\ Calling(u)'
  BY <1>2 DEF InHand, Locked, Calling
<1>4. Joins(u)'
  BY <1>1, <1>2 DEF InHand, Joins
<1>5. Suffices(u)' /\ Offers(u)'
  BY <1>1, <1>2 DEF InHand, Suffices, Offers, Wanting
<1>6. Ended(u)'
  BY <1>1, <1>2 DEF InHand, Ended
<1>7. RoomStays(u)'
  BY <1>1, <1>2 DEF InHand, RoomStays
<1> QED
  BY <1>3, <1>4, <1>5, <1>6, <1>7 DEF InHand

(* A step of one thread that copies nothing has to be looked at there only.  *)
LEMMA StillInv ==
  ASSUME IInv, Still, shared, StreamTypeOK', NEW t \in Thread, InHand(t)', eos' = eos,
         \A u \in Thread \ {t} :
           /\ pc'[u] = pc[u] /\ want'[u] = want[u] /\ moved'[u] = moved[u] /\ code'[u] = code[u]
           /\ lock' = u <=> lock = u
  PROVE  IInv'
<1>1. InOrder' /\ TellsAgree' /\ Counts' /\ shared' = shared
  BY StillCounts
<1>2. ASSUME NEW u \in Thread
      PROVE  InHand(u)'
  <2>1. CASE u = t
    BY <2>1
  <2>2. CASE u # t
    BY <2>2, StillOwn
  <2> QED
    BY <2>1, <2>2
<1>3. Unmade'
  BY <1>1 DEF Unmade
<1> QED
  BY <1>1, <1>2, <1>3 DEF IInv

(* The threads before the first call.                                        *)
LEMMA IdleOwn ==
  ASSUME NEW t \in Thread, pc[t] = "idle", moved[t] = << >>, code[t] = "none", lock = Nobody, ~eos
  PROVE  InHand(t)
<1>1. Locked(t) /\ Calling(t) /\ Suffices(t)
  BY Threads DEF Locked, Calling, Suffices, Inside
<1>2. Joins(t) /\ Offers(t) /\ Ended(t) /\ RoomStays(t)
  BY DEF Joins, Offers, Ended, RoomStays, Inside
<1> QED
  BY <1>1, <1>2 DEF InHand

LEMMA IdleOwnAfter ==
  ASSUME NEW t \in Thread, pc'[t] = "idle", moved'[t] = << >>, code'[t] = "none", lock' = Nobody, ~eos'
  PROVE  InHand(t)'
<1>1. Locked(t)' /\ Calling(t)' /\ Suffices(t)'
  BY Threads DEF Locked, Calling, Suffices, Inside
<1>2. Joins(t)' /\ Offers(t)' /\ Ended(t)' /\ RoomStays(t)'
  BY DEF Joins, Offers, Ended, RoomStays, Inside
<1> QED
  BY <1>1, <1>2 DEF InHand

LEMMA InvInit ==
  ASSUME StreamInit
  PROVE  IInv
<1>1. TypeOK /\ Contents = << >> /\ Available = 0
  <2>1. Init
    BY DEF StreamInit
  <2>2. in = 0 /\ out = 0
    BY <2>1 DEF Init
  <2>3. Contents = << >> /\ Available = 0
    BY <2>2 DEF Contents, Available
  <2> QED
    BY <2>1, <2>3, InitSafe
<1>2. /\ shared = FALSE /\ blocking \in BOOLEAN /\ eos = FALSE /\ aborted = FALSE
      /\ totalRead = 0 /\ totalWritten = 0 /\ lock = Nobody
      /\ pc = [t \in Thread |-> "idle"] /\ want = [t \in Thread |-> 0]
      /\ moved = [t \in Thread |-> << >>] /\ code = [t \in Thread |-> "none"]
      /\ next = 1 /\ kept = 0
  BY DEF StreamInit
<1>3. StreamTypeOK
  <2>1. 0 \in 0 .. Bound /\ 0 \in 0 .. MaxWant /\ 1 \in 1 .. Bound + 1
    BY StreamAssumption
  <2>2. 0 \in 0 .. Size - 1
    BY RingAssumption
  <2>3. << >> \in Seq(Byte)
    OBVIOUS
  <2> QED
    BY <1>1, <1>2, <2>1, <2>2, <2>3 DEF StreamTypeOK
<1>4. InOrder
  BY <1>1 DEF InOrder, Numbered
<1>5. TellsAgree /\ Counts /\ Unmade
  BY <1>1, <1>2 DEF TellsAgree, Counts, Unmade
<1>6. \A t \in Thread : InHand(t)
  BY <1>2, IdleOwn
<1> QED
  BY <1>3, <1>4, <1>5, <1>6 DEF IInv

(* Before the stream is made its owner moves the bytes.                      *)
LEMMA InvDirect ==
  ASSUME IInv, Direct
  PROVE  IInv'
<1>1. /\ ~shared /\ Next /\ UNCHANGED <<flags, totals, lock, callVars>>
      /\ IF answer'.did = "written"
         THEN /\ answer'.bytes = Numbered(next, Len(answer'.bytes))
              /\ next' = next + Len(answer'.bytes)
         ELSE next' = next
  BY DEF Direct
<1>2. /\ pc' = pc /\ want' = want /\ moved' = moved /\ code' = code /\ lock' = lock
      /\ shared' = shared /\ totalRead' = totalRead /\ totalWritten' = totalWritten
      /\ kept' = kept /\ blocking' = blocking /\ eos' = eos /\ aborted' = aborted
  BY <1>1 DEF callVars, flags, totals
<1>3. StreamTypeOK /\ TypeOK /\ InOrder /\ ~shared /\ Unmade /\ Available < next
  BY <1>1 DEF IInv, StreamTypeOK, Counts
<1>4. TypeOK' /\ Promise!Next
  BY <1>1, <1>3, StepSafe
<1>5. Available' \in Nat /\ Len(Contents') = Available'
  BY <1>4, BoundsAfter
<1>6. /\ Contents \in Seq(Byte) /\ Len(Contents) = Available /\ Available \in Nat
      /\ next \in Nat /\ next <= Bound + 1 /\ next >= 1
      /\ Contents = Numbered(next - Available, Available)
  BY <1>3, ContentsType, Numbers, StreamAssumption DEF StreamTypeOK, InOrder
<1> DEFINE Good == InOrder' /\ (Available < next)' /\ next' \in 1 .. Bound + 1
<1>7. ASSUME Promise!Put
      PROVE  Good
  <2>1. PICK bs \in Inputs : Contents' = Contents \o bs /\ answer' = [did |-> "written", bytes |-> bs]
    BY <1>7 DEF Promise!Put, Promise!Reply
  <2>2. bs \in Seq(Byte) /\ \A i \in DOMAIN bs : bs[i] <= Bound
    BY RingAssumption, StreamAssumption
  <2>3. PICK n \in Nat : n = Len(bs)
    BY <2>2
  <2>4. bs = Numbered(next, n) /\ next' = next + n
    BY <1>1, <2>1, <2>3
  <2>5. next + n <= Bound + 1
    <3>1. CASE n = 0
      BY <1>6, <3>1
    <3>2. CASE n > 0
      <4>1. n \in DOMAIN bs /\ bs[n] = next + n - 1
        BY <1>6, <2>4, <3>2, Run DEF Numbered
      <4> QED
        BY <1>6, <2>2, <4>1, StreamAssumption
    <3> QED
      BY <3>1, <3>2
  <2>6. PICK a \in Nat, f \in Int : a = Available /\ f = next - a
    BY <1>6
  <2>7. Contents' = Numbered(f, a + n) /\ a + n \in Nat
    <3>1. Numbered(f, a) \o Numbered(f + a, n) = Numbered(f, a + n)
      BY RunJoin
    <3>2. f + a = next
      BY <1>6, <2>6
    <3> QED
      BY <1>6, <2>1, <2>4, <2>6, <3>1, <3>2
  <2>8. Available' = a + n
    <3>1. Len(Numbered(f, a + n)) = a + n
      BY <2>7, Run
    <3> QED
      BY <1>5, <2>7, <3>1
  <2>9. next' - Available' = f
    BY <1>6, <2>4, <2>6, <2>8
  <2>10. InOrder'
    BY <2>7, <2>8, <2>9 DEF InOrder
  <2> QED
    BY <1>3, <1>6, <2>4, <2>5, <2>6, <2>8, <2>10
<1>8. ASSUME next' = next, NEW n \in 0 .. Available, Contents' = SubSeq(Contents, n + 1, Len(Contents))
      PROVE  Good
  <2>1. PICK a \in Nat, f \in Int : a = Available /\ f = next - a
    BY <1>6
  <2>2. Contents' = Numbered(f + n, a - n) /\ a - n \in Nat /\ f + n \in Int
    <3>1. SubSeq(Numbered(f, a), n + 1, a) = Numbered(f + n, a - n)
      BY <2>1, RunCut
    <3> QED
      BY <1>6, <1>8, <2>1, <3>1
  <2>3. Available' = a - n
    <3>1. Len(Numbered(f + n, a - n)) = a - n
      BY <2>2, Run
    <3> QED
      BY <1>5, <2>2, <3>1
  <2>4. next' - Available' = f + n
    BY <1>6, <1>8, <2>1, <2>3
  <2>5. InOrder'
    BY <2>2, <2>3, <2>4 DEF InOrder
  <2> QED
    BY <1>3, <1>6, <1>8, <2>1, <2>3, <2>5
<1>9. ASSUME Promise!Take
      PROVE  Good
  <2>1. PICK n \in 0 .. Available : Contents' = SubSeq(Contents, n + 1, Len(Contents))
    BY <1>6, <1>9 DEF Promise!Take
  <2>2. next' = next
    BY <1>1, <1>9 DEF Promise!Take, Promise!Reply
  <2> QED
    BY <1>8, <2>1, <2>2
<1>10. ASSUME Promise!Clear
       PROVE  Good
  <2>1. Contents' = << >> /\ next' = next
    BY <1>1, <1>10 DEF Promise!Clear, Promise!Reply
  <2>2. Available' = 0
    BY <1>5, <2>1
  <2>3. InOrder'
    BY <2>1, <2>2 DEF InOrder, Numbered
  <2> QED
    BY <1>6, <2>1, <2>2, <2>3
<1>11. ASSUME Promise!Look \/ Promise!Shut \/ Promise!Refuse
       PROVE  Good
  <2>1. Contents' = Contents
    BY <1>11 DEF Promise!Look, Promise!Shut, Promise!Refuse
  <2>2. next' = next
    BY <1>1, <1>11 DEF Promise!Look, Promise!Shut, Promise!Refuse, Promise!Reply
  <2>3. Available' = Available
    BY <1>5, <1>6, <2>1
  <2>4. InOrder'
    BY <1>3, <2>1, <2>2, <2>3 DEF InOrder
  <2> QED
    BY <1>3, <1>6, <2>2, <2>3, <2>4
<1>12. Good
  BY <1>4, <1>7, <1>9, <1>10, <1>11 DEF Promise!Next
<1> HIDE DEF Good
<1>13. StreamTypeOK'
  BY <1>2, <1>3, <1>4, <1>12 DEF StreamTypeOK, Good
<1>14. /\ \A t \in Thread : pc'[t] = "idle" /\ moved'[t] = << >> /\ code'[t] = "none"
       /\ lock' = Nobody /\ ~shared' /\ ~eos'
       /\ totalRead' = 0 /\ totalWritten' = 0 /\ kept' = 0
  BY <1>2, <1>3 DEF Unmade
<1>15. \A t \in Thread : InHand(t)'
  BY <1>14, IdleOwnAfter
<1>16. Unmade' /\ TellsAgree'
  BY <1>14 DEF Unmade, TellsAgree
<1>17. Counts'
  BY <1>12, <1>14 DEF Counts, Good
<1> QED
  BY <1>12, <1>13, <1>15, <1>16, <1>17 DEF IInv, Good

(* PltRingBufferStream.cpp:71-80: the stream takes the buffer as it is.      *)
LEMMA InvConstruct ==
  ASSUME IInv, Construct
  PROVE  IInv'
<1>1. /\ ~shared /\ shared' = TRUE /\ kept' = Available
      /\ UNCHANGED <<ringVars, blocking, eos, aborted, totalRead, totalWritten, lock, callVars, next>>
  BY DEF Construct
<1>2. /\ pc' = pc /\ want' = want /\ moved' = moved /\ code' = code /\ lock' = lock
      /\ totalRead' = totalRead /\ totalWritten' = totalWritten /\ next' = next
      /\ blocking' = blocking /\ eos' = eos /\ aborted' = aborted
      /\ data' = data /\ in' = in /\ out' = out
  BY <1>1 DEF callVars, ringVars
<1>3. Contents' = Contents /\ Available' = Available /\ Space' = Space
  BY <1>2, Quiet
<1>4. StreamTypeOK /\ TypeOK /\ InOrder /\ Unmade /\ Available < next
  BY DEF IInv, StreamTypeOK, Counts
<1>5. Available \in Nat /\ Available \in 0 .. Size - 1
  <2>1. Available \in Nat /\ Space \in Nat /\ Available + Space = Size - 1
    BY <1>4, Numbers
  <2> QED
    BY <2>1, RingAssumption
<1>6. TypeOK'
  BY <1>1, <1>4, StutterSafe
<1>7. StreamTypeOK'
  BY <1>1, <1>2, <1>4, <1>5, <1>6 DEF StreamTypeOK
<1>8. /\ \A t \in Thread : pc'[t] = "idle" /\ moved'[t] = << >> /\ code'[t] = "none"
      /\ lock' = Nobody /\ totalRead' = 0 /\ totalWritten' = 0 /\ ~eos'
  BY <1>1, <1>2, <1>4 DEF Unmade
<1>9. \A t \in Thread : InHand(t)'
  BY <1>8, IdleOwnAfter
<1>10. Unmade'
  BY <1>1 DEF Unmade
<1>11. TellsAgree' /\ InOrder'
  BY <1>1, <1>2, <1>3, <1>4, <1>5, <1>8 DEF TellsAgree, InOrder
<1>12. Counts'
  BY <1>1, <1>2, <1>3, <1>4, <1>5, <1>8 DEF Counts
<1> QED
  BY <1>7, <1>9, <1>10, <1>11, <1>12 DEF IInv

-----------------------------------------------------------------------------
(* PltRingBufferStream.cpp:104-125, 168-191: a call begins, looks and leaves *)
(* the lock, or comes back for it.                                           *)
LEMMA InvCall ==
  ASSUME IInv, NEW t \in Thread, Call(t)
  PROVE  IInv'
<1>1. PICK n \in 1 .. MaxWant :
        (t \in Writer => next + n <= Bound + 1) /\ want' = [want EXCEPT ![t] = n]
  BY DEF Call
<1>2. /\ shared /\ pc[t] = "idle" /\ pc' = [pc EXCEPT ![t] = "test"]
      /\ moved' = [moved EXCEPT ![t] = << >>] /\ code' = [code EXCEPT ![t] = "none"]
      /\ UNCHANGED <<ringVars, flags, totals, lock, next>>
  BY DEF Call, Goto
<1>3. StreamTypeOK /\ InHand(t)
  BY DEF IInv
<1>4. Still /\ lock' = lock /\ eos' = eos /\ blocking' = blocking /\ aborted' = aborted
  BY <1>2 DEF Still, ringVars, flags
<1>5. TypeOK'
  BY <1>2, <1>3, StutterSafe DEF StreamTypeOK
<1>6. n \in 0 .. MaxWant /\ n > 0 /\ n \in Nat
  BY StreamAssumption
<1>7. StreamTypeOK'
  <2>1. << >> \in Seq(Byte)
    OBVIOUS
  <2> QED
    BY <1>1, <1>2, <1>3, <1>4, <1>5, <1>6, <2>1 DEF StreamTypeOK, Still, totals
<1>8. /\ pc'[t] = "test" /\ want'[t] = n /\ moved'[t] = << >> /\ code'[t] = "none"
      /\ lock' = lock /\ next' = next
  BY <1>1, <1>2, <1>3 DEF StreamTypeOK
<1>9. Locked(t)'
  BY <1>2, <1>3, <1>8 DEF InHand, Locked, Inside
<1>10. Calling(t)' /\ Joins(t)' /\ Suffices(t)' /\ Ended(t)' /\ RoomStays(t)'
  BY <1>6, <1>8 DEF Calling, Joins, Suffices, Ended, RoomStays, Inside
<1>11. Offers(t)'
  BY <1>1, <1>6, <1>8 DEF Offers, Wanting
<1>12. InHand(t)'
  BY <1>9, <1>10, <1>11 DEF InHand
<1>13. \A u \in Thread \ {t} :
         /\ pc'[u] = pc[u] /\ want'[u] = want[u] /\ moved'[u] = moved[u] /\ code'[u] = code[u]
         /\ lock' = u <=> lock = u
  BY <1>1, <1>2, <1>3 DEF StreamTypeOK
<1> QED
  BY <1>2, <1>4, <1>7, <1>12, <1>13, StillInv

(* A step of t that copies nothing and keeps what it wants and has.          *)
LEMMA InvMove ==
  ASSUME IInv, Still, shared, NEW t \in Thread, TypeOK', pc[t] # "idle",
         UNCHANGED <<flags, want, moved>>,
         NEW l \in {"idle", "test", "lock", "first", "second", "leave"},
         NEW c \in {"none", "SUCCESS", "EOS", "INTERRUPTED", "WOULD_BLOCK", "FAILED"},
         pc' = [pc EXCEPT ![t] = l], code' = [code EXCEPT ![t] = c],
         lock' \in Thread \cup {Nobody},
         \A u \in Thread \ {t} : lock' = u <=> lock = u,
         l \in Inside <=> lock' = t,
         l \in Inside => pc[t] \in Inside \/ (l = "first" /\ moved[t] = << >>),
         l \in {"test", "lock", "first"} => pc[t] \in {"test", "lock", "first"},
         l # "second",
         l = "leave" =>
           \/ Wanting(t) = 0
           \/ IF t \in Reader THEN Available = 0 ELSE Space = 0,
         t \in Reader /\ c = "EOS" => eos /\ Available = 0,
         t \in Writer /\ eos => l \in {"idle", "test"},
         t \in Writer /\ l \in {"lock", "first"} => Space > 0,
         t \in Writer /\ l = "leave" => moved[t] # << >>
  PROVE  IInv'
<1>1. StreamTypeOK /\ InHand(t) /\ eos' = eos /\ want' = want /\ moved' = moved /\ shared' = shared
  BY DEF IInv, flags
<1>2. /\ Available' = Available /\ Space' = Space /\ next' = next
      /\ ContiguousAvailable' = ContiguousAvailable /\ ContiguousSpace' = ContiguousSpace
      /\ totalRead' = totalRead /\ totalWritten' = totalWritten /\ kept' = kept
  BY StillCounts
<1>3. StreamTypeOK'
  BY <1>1, <1>2 DEF StreamTypeOK, flags
<1>4. pc'[t] = l /\ code'[t] = c
  BY <1>1 DEF StreamTypeOK
<1>5. Locked(t)'
  BY <1>4 DEF Locked
<1>6. Calling(t)'
  BY <1>1, <1>4 DEF InHand, Calling
<1>7. Joins(t)'
  <2>1. CASE l \in Inside /\ pc[t] \in Inside
    BY <1>1, <1>2, <1>4, <2>1 DEF InHand, Joins
  <2>2. CASE l = "first" /\ moved[t] = << >>
    BY <1>1, <1>4, <2>2 DEF Joins, Numbered
  <2>3. CASE l \notin Inside
    BY <1>1, <1>4, <2>3 DEF InHand, Joins
  <2> QED
    BY <2>1, <2>2, <2>3
<1>8. Suffices(t)'
  BY <1>1, <1>2, <1>4 DEF Suffices, Wanting
<1>9. Offers(t)'
  BY <1>1, <1>2, <1>4 DEF InHand, Offers, Wanting
<1>10. Ended(t)' /\ RoomStays(t)'
  BY <1>1, <1>2, <1>4 DEF Ended, RoomStays
<1>11. InHand(t)'
  BY <1>5, <1>6, <1>7, <1>8, <1>9, <1>10 DEF InHand
<1>12. \A u \in Thread \ {t} :
         /\ pc'[u] = pc[u] /\ want'[u] = want[u] /\ moved'[u] = moved[u] /\ code'[u] = code[u]
         /\ lock' = u <=> lock = u
  BY <1>1 DEF StreamTypeOK
<1> QED
  BY <1>1, <1>3, <1>11, <1>12, StillInv

LEMMA InvTest ==
  ASSUME IInv, NEW t \in Thread, (t \in Reader /\ ReadTest(t)) \/ (t \in Writer /\ WriteTest(t))
  PROVE  IInv'
<1>1. /\ pc[t] = "test" /\ lock = Nobody /\ lock' = lock
      /\ UNCHANGED <<ringVars, flags, totals, want, moved, next>>
  BY DEF ReadTest, WriteTest, Looks
<1>2. StreamTypeOK /\ InHand(t) /\ shared
  <2>1. StreamTypeOK /\ InHand(t) /\ Unmade
    BY DEF IInv
  <2> QED
    BY <1>1, <2>1 DEF Unmade
<1>3. TypeOK' /\ Still
  BY <1>1, <1>2, StutterSafe DEF StreamTypeOK, Still, ringVars, flags
<1>4. lock' \in Thread \cup {Nobody} /\ \A u \in Thread : lock' = u <=> lock = u
  BY <1>1, <1>2 DEF StreamTypeOK
<1>5. code = [code EXCEPT ![t] = code[t]]
  BY <1>2 DEF StreamTypeOK
<1>6. code[t] \in {"none", "SUCCESS", "EOS", "INTERRUPTED", "WOULD_BLOCK", "FAILED"}
  BY <1>2 DEF StreamTypeOK
<1>7. lock' # t /\ moved[t] = << >>
  BY <1>1, <1>2, Threads DEF InHand, Calling
<1>8. ASSUME NEW c \in {"EOS", "INTERRUPTED", "WOULD_BLOCK"}, Returns(t, c),
             t \in Reader /\ c = "EOS" => eos /\ Available = 0
      PROVE  IInv'
  <2>1. pc' = [pc EXCEPT ![t] = "idle"] /\ code' = [code EXCEPT ![t] = c]
    BY <1>8 DEF Returns, Goto
  <2> QED
    BY <1>1, <1>2, <1>3, <1>4, <1>7, <1>8, <2>1, InvMove DEF Inside
<1>9. ASSUME Goto(t, "lock"), UNCHANGED code, t \in Writer => ~eos /\ Space > 0
      PROVE  IInv'
  <2>1. pc' = [pc EXCEPT ![t] = "lock"] /\ code' = [code EXCEPT ![t] = code[t]]
    BY <1>5, <1>9 DEF Goto
  <2>2. t \in Reader /\ code[t] = "EOS" => eos /\ Available = 0
    BY <1>2 DEF InHand, Ended
  <2> QED
    BY <1>1, <1>2, <1>3, <1>4, <1>6, <1>7, <1>9, <2>1, <2>2, InvMove DEF Inside
<1>10. CASE t \in Reader /\ ReadTest(t)
  <2>1. t \notin Writer
    BY <1>10, Threads
  <2> QED
    BY <1>8, <1>9, <1>10, <2>1 DEF ReadTest
<1>11. CASE t \in Writer /\ WriteTest(t)
  <2>1. t \notin Reader
    BY <1>11, Threads
  <2> QED
    BY <1>8, <1>9, <1>11, <2>1 DEF WriteTest
<1> QED
  BY <1>10, <1>11

LEMMA InvRelock ==
  ASSUME IInv, NEW t \in Thread, Relock(t)
  PROVE  IInv'
<1>1. /\ pc[t] = "lock" /\ lock = Nobody /\ lock' = t /\ pc' = [pc EXCEPT ![t] = "first"]
      /\ UNCHANGED <<ringVars, flags, totals, want, moved, code, next>>
  BY DEF Relock, Goto
<1>2. StreamTypeOK /\ InHand(t) /\ shared
  <2>1. StreamTypeOK /\ InHand(t) /\ Unmade
    BY DEF IInv
  <2> QED
    BY <1>1, <2>1 DEF Unmade
<1>3. TypeOK' /\ Still
  BY <1>1, <1>2, StutterSafe DEF StreamTypeOK, Still, ringVars, flags
<1>4. \A u \in Thread \ {t} : lock' = u <=> lock = u
  BY <1>1, Threads
<1>5. /\ code' = [code EXCEPT ![t] = code[t]]
      /\ code[t] \in {"none", "SUCCESS", "EOS", "INTERRUPTED", "WOULD_BLOCK", "FAILED"}
  BY <1>1, <1>2 DEF StreamTypeOK
<1>6. moved[t] = << >>
  BY <1>1, <1>2 DEF InHand, Calling
<1>7. /\ t \in Reader /\ code[t] = "EOS" => eos /\ Available = 0
      /\ t \in Writer => ~eos /\ Space > 0
  BY <1>1, <1>2 DEF InHand, Ended, RoomStays
<1> QED
  BY <1>1, <1>2, <1>3, <1>4, <1>5, <1>6, <1>7, InvMove DEF Inside

(* PltRingBufferStream.cpp:134, 140, 147: a thread inside leaves the lock or *)
(* the loop.                                                                 *)
LEMMA InsideLocks ==
  ASSUME IInv, NEW t \in Thread, pc[t] \in Inside
  PROVE  /\ lock = t /\ shared
         /\ \A u \in Thread \ {t} : pc[u] \notin Inside /\ lock # u
<1>1. \A u \in Thread : Locked(u)
  BY DEF IInv, InHand
<1>2. lock = t
  BY <1>1 DEF Locked
<1>3. shared
  BY <1>2, Threads DEF IInv, Unmade
<1> QED
  BY <1>1, <1>2, <1>3 DEF Locked

LEMMA InvReturns ==
  ASSUME IInv, NEW t \in Thread, CopyFails(t) \/ Leave(t)
  PROVE  IInv'
<1>1. PICK c \in {"SUCCESS", "FAILED"} : code' = [code EXCEPT ![t] = c]
  BY DEF CopyFails, Leave, Returns
<1>2. /\ pc[t] \in Inside /\ lock' = Nobody /\ pc' = [pc EXCEPT ![t] = "idle"]
      /\ UNCHANGED <<data, in, out, closed, flags, totals, want, moved, next>>
      /\ Refuse \/ UNCHANGED ringVars
  BY DEF CopyFails, Leave, Copying, Returns, Goto, Inside, Refuse, ringVars
<1>3. StreamTypeOK /\ TypeOK
  BY DEF IInv, StreamTypeOK
<1>4. TypeOK'
  BY <1>2, <1>3, StepSafe, StutterSafe DEF Next
<1>5. Still
  BY <1>2 DEF Still, flags
<1>6. lock = t /\ shared /\ \A u \in Thread \ {t} : lock # u
  BY <1>2, InsideLocks
<1>7. lock' # t /\ \A u \in Thread \ {t} : lock' = u <=> lock = u
  BY <1>2, <1>6, Threads
<1>8. pc[t] # "idle"
  BY <1>2 DEF Inside
<1> QED
  BY <1>1, <1>2, <1>4, <1>5, <1>6, <1>7, <1>8, InvMove DEF Inside

LEMMA InvCopyEnds ==
  ASSUME IInv, NEW t \in Thread, CopyEnds(t)
  PROVE  IInv'
<1>1. /\ pc[t] \in {"first", "second"} /\ Piece(t) = 0 /\ pc' = [pc EXCEPT ![t] = "leave"]
      /\ UNCHANGED <<ringVars, flags, totals, lock, want, moved, code, next>>
  BY DEF CopyEnds, Copying, Goto
<1>2. StreamTypeOK /\ InHand(t) /\ TypeOK
  BY DEF IInv, StreamTypeOK
<1>3. TypeOK' /\ Still
  BY <1>1, <1>2, StutterSafe DEF StreamTypeOK, Still, ringVars, flags
<1>4. lock = t /\ shared
  BY <1>1, InsideLocks DEF Inside
<1>5. /\ code' = [code EXCEPT ![t] = code[t]]
      /\ code[t] \in {"none", "SUCCESS", "EOS", "INTERRUPTED", "WOULD_BLOCK", "FAILED"}
  BY <1>1, <1>2 DEF StreamTypeOK
<1>6. /\ Available \in Nat /\ Space \in Nat /\ ContiguousAvailable \in Nat /\ ContiguousSpace \in Nat
      /\ ContiguousAvailable = 0 => Available = 0
      /\ ContiguousSpace = 0 => Space = 0
      /\ Wanting(t) \in Int
  BY <1>2, Numbers
<1>7. \/ Wanting(t) = 0
      \/ IF t \in Reader THEN Available = 0 ELSE Space = 0
  <2>1. Wanting(t) >= 0
    <3>1. Len(moved[t]) <= want[t] /\ want[t] \in Nat /\ moved[t] \in Seq(Byte)
      BY <1>1, <1>2, Numbers DEF InHand, Calling
    <3> QED
      BY <3>1 DEF Wanting
  <2>2. CASE t \in Reader
    <3>1. Wanting(t) = 0 \/ ContiguousAvailable = 0
      BY <1>1, <1>6, <2>1, <2>2 DEF Piece, ReadPiece, Lower
    <3> QED
      BY <1>6, <2>2, <3>1
  <2>3. CASE t \notin Reader
    <3>1. Wanting(t) = 0 \/ ContiguousSpace = 0
      BY <1>1, <1>6, <2>1, <2>3 DEF Piece, WritePiece, Lower
    <3> QED
      BY <1>6, <2>3, <3>1
  <2> QED
    BY <2>2, <2>3
<1>8. ASSUME t \in Writer
      PROVE  ~eos /\ moved[t] # << >>
  <2>1. ~eos
    BY <1>1, <1>2, <1>8 DEF InHand, Ended
  <2>2. ASSUME pc[t] = "first"
        PROVE  FALSE
    <3>1. Space > 0 /\ moved[t] = << >> /\ want[t] > 0 /\ want[t] \in Nat
      BY <1>2, <1>8, <2>2, Numbers DEF InHand, RoomStays, Calling
    <3>2. Wanting(t) = want[t]
      BY <3>1 DEF Wanting
    <3> QED
      BY <1>6, <1>7, <1>8, <3>1, <3>2, Threads
  <2> QED
    BY <1>1, <1>2, <2>1, <2>2 DEF InHand, Calling
<1>9. t \in Reader /\ code[t] = "EOS" => eos /\ Available = 0
  BY <1>2 DEF InHand, Ended
<1> QED
  BY <1>1, <1>2, <1>3, <1>4, <1>5, <1>7, <1>8, <1>9, InvMove DEF Inside

(* PltRingBufferStream.cpp:232-262: SetEOS and Abort.                        *)
LEMMA InvFlags ==
  ASSUME IInv, SetEOS \/ Abort
  PROVE  IInv'
<1>1. /\ UNCHANGED <<ringVars, shared, blocking, totals, lock, callVars, next>>
      /\ shared /\ aborted' \in {aborted, TRUE}
      /\ eos' = eos \/ (eos' = TRUE /\ \A w \in Writer : pc[w] = "idle")
  BY DEF SetEOS, Abort
<1>2. StreamTypeOK /\ TypeOK
  BY DEF IInv, StreamTypeOK
<1>3. TypeOK' /\ Still
  BY <1>1, <1>2, StutterSafe DEF Still, ringVars
<1>4. /\ pc' = pc /\ want' = want /\ moved' = moved /\ code' = code /\ lock' = lock
      /\ blocking' = blocking
  BY <1>1 DEF callVars
<1>5. InOrder' /\ TellsAgree' /\ Counts' /\ shared' = shared /\ next' = next
      /\ totalRead' = totalRead /\ totalWritten' = totalWritten /\ kept' = kept
  BY <1>3, StillCounts
<1>6. StreamTypeOK'
  <2>1. eos' \in BOOLEAN /\ aborted' \in BOOLEAN
    BY <1>1, <1>2 DEF StreamTypeOK
  <2> QED
    BY <1>2, <1>3, <1>4, <1>5, <2>1 DEF StreamTypeOK
<1>7. \A u \in Thread : InHand(u)'
  <2> SUFFICES ASSUME NEW u \in Thread
               PROVE  InHand(u)'
    OBVIOUS
  <2>1. eos' = eos \/ (eos' /\ (u \in Writer => pc[u] = "idle"))
    BY <1>1
  <2> QED
    BY <1>3, <1>4, <2>1, StillOwn
<1>8. Unmade'
  BY <1>1, <1>5 DEF Unmade
<1> QED
  BY <1>5, <1>6, <1>7, <1>8 DEF IInv

(* PltRingBufferStream.cpp:221-230: Flush, with nobody inside the lock.      *)
LEMMA InvFlush ==
  ASSUME IInv, StreamFlush
  PROVE  IInv'
<1>1. /\ shared /\ lock = Nobody /\ Flush
      /\ totalRead' = 0 /\ totalWritten' = 0 /\ kept' = 0
      /\ UNCHANGED <<flags, lock, callVars, next>>
  BY DEF StreamFlush
<1>2. StreamTypeOK /\ TypeOK
  BY DEF IInv, StreamTypeOK
<1>3. TypeOK'
  BY <1>1, <1>2, StepSafe DEF Next
<1>4. /\ pc' = pc /\ want' = want /\ moved' = moved /\ code' = code /\ lock' = lock
      /\ shared' = shared /\ blocking' = blocking /\ eos' = eos /\ aborted' = aborted
      /\ next' = next
  BY <1>1 DEF callVars, flags
<1>5. Contents' = << >> /\ Available' = 0
  BY <1>1 DEF Flush, Contents, Available
<1>6. Space > 0 => Space' > 0
  <2>1. PICK a \in Nat, s \in Nat : a = Available /\ s = Space
    BY <1>2, Bounds
  <2>2. Available' = Available + (0 - a)
    BY <1>5, <2>1
  <2>3. Space' = Space - (0 - a)
    BY <1>2, <1>3, <2>2, RoomAfter
  <2>4. Space' = s + a
    BY <2>1, <2>3
  <2> QED
    BY <2>1, <2>4
<1>7. StreamTypeOK'
  <2>1. 0 \in 0 .. Bound /\ 0 \in 0 .. Size - 1
    BY StreamAssumption, RingAssumption
  <2> QED
    BY <1>1, <1>2, <1>3, <1>4, <2>1 DEF StreamTypeOK
<1>8. InOrder' /\ TellsAgree' /\ Counts' /\ Unmade'
  <2>1. next \in Nat /\ next >= 1
    BY <1>2, StreamAssumption DEF StreamTypeOK
  <2>2. InOrder'
    BY <1>5 DEF InOrder, Numbered
  <2>3. TellsAgree' /\ Counts'
    BY <1>1, <1>4, <1>5, <2>1 DEF TellsAgree, Counts
  <2> QED
    BY <1>1, <1>4, <2>2, <2>3 DEF Unmade
<1>9. ASSUME NEW u \in Thread
      PROVE  InHand(u)'
  <2>1. InHand(u) /\ pc[u] \notin Inside
    BY <1>1, Threads DEF IInv, InHand, Locked
  <2>2. Locked(u)' /\ Calling(u)' /\ Joins(u)' /\ Suffices(u)'
    BY <1>4, <2>1 DEF InHand, Locked, Calling, Joins, Suffices, Inside
  <2>3. Offers(u)' /\ Ended(u)'
    BY <1>4, <1>5, <2>1 DEF InHand, Offers, Ended, Wanting
  <2>4. RoomStays(u)'
    BY <1>4, <1>6, <2>1 DEF InHand, RoomStays, Inside
  <2> QED
    BY <2>2, <2>3, <2>4 DEF InHand
<1> QED
  BY <1>7, <1>8, <1>9 DEF IInv

(* PltRingBufferStream.cpp:130-143: one piece of a Read.                     *)
LEMMA InvReadSome ==
  ASSUME IInv, NEW t \in Reader, ReadSome(t)
  PROVE  IInv'
<1>1. /\ pc[t] \in {"first", "second"} /\ ReadPiece(t) > 0 /\ Read(ReadPiece(t))
      /\ moved' = [moved EXCEPT ![t] = @ \o answer'.bytes]
      /\ totalRead' = totalRead + ReadPiece(t)
      /\ pc' = [pc EXCEPT ![t] = IF pc[t] = "first" THEN "second" ELSE "leave"]
      /\ UNCHANGED <<flags, totalWritten, kept, lock, want, code, next>>
  BY DEF ReadSome, Copying, AfterPiece, Goto
<1>2. /\ StreamTypeOK /\ TypeOK /\ InOrder /\ TellsAgree /\ Counts /\ InHand(t)
      /\ t \in Thread /\ t \notin Writer
  BY Threads DEF IInv, StreamTypeOK
<1>3. lock = t /\ shared /\ \A u \in Thread \ {t} : pc[u] \notin Inside /\ lock # u
  BY <1>1, <1>2, InsideLocks DEF Inside
<1>4. /\ want' = want /\ code' = code /\ lock' = lock /\ next' = next
      /\ shared' = shared /\ blocking' = blocking /\ eos' = eos /\ aborted' = aborted
      /\ totalWritten' = totalWritten /\ kept' = kept
  BY <1>1 DEF flags
<1>5. /\ Available \in Nat /\ Space \in Nat /\ Available + Space = Size - 1
      /\ ContiguousAvailable \in Nat /\ ContiguousAvailable <= Available
      /\ next \in Nat /\ totalRead \in Nat /\ totalWritten \in Nat /\ kept \in Nat
      /\ want[t] \in Nat /\ moved[t] \in Seq(Byte) /\ Wanting(t) \in Int
  BY <1>2, Numbers
<1>6. PICK n \in Nat, a \in Nat, m \in Nat, f \in Int :
        /\ n = ReadPiece(t) /\ a = Available /\ m = Len(moved[t]) /\ f = next - a
  <2>1. ReadPiece(t) \in Nat
    BY <1>1, <1>5 DEF ReadPiece, Lower
  <2>2. Len(moved[t]) \in Nat
    BY <1>5
  <2>3. next - Available \in Int
    BY <1>5
  <2> QED
    BY <1>5, <2>1, <2>2, <2>3
<1>7. /\ n \in 1 .. ContiguousAvailable /\ n <= want[t] - m
      /\ n = want[t] - m \/ n = ContiguousAvailable
  BY <1>1, <1>5, <1>6 DEF ReadPiece, Lower, Wanting
<1>8. /\ Available' = a - n
      /\ n = ContiguousAvailable => ContiguousAvailable' = Available'
      /\ answer'.bytes = SubSeq(Contents, 1, n)
      /\ Contents' = SubSeq(Contents, n + 1, a)
      /\ n \in 0 .. a
  BY <1>1, <1>2, <1>6, <1>7, PieceRead
<1>9. /\ answer'.bytes = Numbered(f, n) /\ Contents' = Numbered(f + n, a - n)
      /\ Len(Numbered(f, n)) = n
  <2>1. Contents = Numbered(f, a)
    BY <1>2, <1>6 DEF InOrder
  <2> QED
    BY <1>8, <2>1, RunCut, Run
<1>10. TypeOK'
  <2>1. n \in 0 .. Size
    BY <1>5, <1>6, <1>8, RingAssumption
  <2> QED
    BY <1>1, <1>2, <1>6, <2>1, StepSafe DEF Next
<1>11. Space > 0 => Space' > 0
  <2>1. Available' = Available + (0 - n)
    BY <1>6, <1>8
  <2>2. Space' = Space - (0 - n)
    BY <1>2, <1>10, <2>1, RoomAfter
  <2> QED
    BY <1>5, <2>2
<1>12. moved[t] = Numbered(f - m, m)
  BY <1>1, <1>2, <1>6 DEF InHand, Joins, Inside
<1>13. /\ moved'[t] = Numbered(f - m, m + n) /\ Len(moved'[t]) = m + n /\ moved'[t] # << >>
       /\ moved'[t] \in Seq(Byte)
  <2>1. moved'[t] = moved[t] \o answer'.bytes
    BY <1>1, <1>2 DEF StreamTypeOK
  <2>2. f - m \in Int /\ f - m + m = f /\ m + n \in Nat
    OBVIOUS
  <2>3. moved'[t] = Numbered(f - m, m + n)
    <3>1. PICK g \in Int : g = f - m /\ g + m = f
      OBVIOUS
    <3>2. Numbered(g, m) \o Numbered(g + m, n) = Numbered(g, m + n)
      BY RunJoin
    <3> QED
      BY <1>9, <1>12, <2>1, <3>1, <3>2
  <2>4. Len(moved'[t]) = m + n
    BY <2>2, <2>3, Run
  <2>5. answer'.bytes \in Seq(Byte)
    BY <1>10 DEF TypeOK
  <2>6. moved'[t] \in Seq(Byte)
    BY <1>5, <2>1, <2>5
  <2>7. m + n > 0
    BY <1>7
  <2> QED
    BY <2>3, <2>4, <2>6, <2>7
<1>14. totalRead' = totalRead + n /\ totalRead' \in 0 .. Bound
  <2>1. totalWritten - totalRead + kept = a /\ totalWritten + kept < next /\ next <= Bound + 1
    BY <1>2, <1>3, <1>6 DEF TellsAgree, Counts, StreamTypeOK
  <2>2. totalRead' = totalRead + n
    BY <1>1, <1>6
  <2> QED
    BY <1>5, <1>8, <2>1, <2>2, StreamAssumption
<1>15. StreamTypeOK'
  <2>1. moved' \in [Thread -> Seq(Byte)]
    BY <1>1, <1>2, <1>13 DEF StreamTypeOK
  <2> QED
    BY <1>1, <1>2, <1>4, <1>10, <1>14, <2>1 DEF StreamTypeOK
<1>16. InOrder' /\ TellsAgree' /\ Counts' /\ Unmade'
  <2>1. next' - Available' = f + n
    BY <1>4, <1>5, <1>6, <1>8
  <2>2. InOrder'
    BY <1>8, <1>9, <2>1 DEF InOrder
  <2>3. TellsAgree'
    <3>1. PICK x \in Nat, y \in Nat, k \in Nat : x = totalRead /\ y = totalWritten /\ k = kept
      BY <1>5
    <3>2. y - x + k = a
      BY <1>2, <1>3, <1>6, <3>1 DEF TellsAgree
    <3>3. y - (x + n) + k = a - n
      BY <3>2
    <3> QED
      BY <1>4, <1>8, <1>14, <3>1, <3>3 DEF TellsAgree
  <2>4. Counts'
    BY <1>2, <1>4, <1>5, <1>6, <1>8 DEF Counts
  <2> QED
    BY <1>3, <1>4, <2>2, <2>3, <2>4 DEF Unmade
<1>17. pc'[t] = IF pc[t] = "first" THEN "second" ELSE "leave"
  BY <1>1, <1>2 DEF StreamTypeOK
<1>18. InHand(t)'
  <2>1. Locked(t)'
    BY <1>3, <1>4, <1>17 DEF Locked, Inside
  <2>2. Calling(t)'
    <3>1. want[t] > 0 /\ m + n <= want[t]
      BY <1>5, <1>7
    <3> QED
      BY <1>4, <1>13, <1>17, <3>1 DEF Calling
  <2>3. Joins(t)'
    <3>1. next' - Available' - (m + n) = f - m
      BY <1>4, <1>5, <1>6, <1>8
    <3>2. moved'[t][1] = f - m
      <4>1. 1 \in 1 .. m + n /\ f - m \in Int /\ m + n \in Nat
        BY <1>7
      <4>2. Numbered(f - m, m + n)[1] = f - m + 1 - 1
        BY <4>1 DEF Numbered
      <4> QED
        BY <1>13, <4>1, <4>2
    <3> QED
      BY <1>13, <3>1, <3>2 DEF Joins
  <2>4. Suffices(t)'
    <3>1. Wanting(t)' = want[t] - (m + n)
      BY <1>4, <1>13 DEF Wanting
    <3>0. want[t] - (m + n) = 0 \/ n = ContiguousAvailable
      BY <1>5, <1>7
    <3>2. CASE pc[t] = "first"
      BY <1>2, <1>8, <1>17, <3>0, <3>1, <3>2 DEF Suffices
    <3>3. CASE pc[t] = "second"
      <4>1. Wanting(t) = 0 \/ ContiguousAvailable = a
        BY <1>2, <1>6, <3>3 DEF InHand, Suffices
      <4>2. Wanting(t) # 0
        BY <1>5, <1>6, <1>7 DEF Wanting
      <4>3. want[t] - (m + n) = 0 \/ Available' = 0
        BY <1>8, <3>0, <4>1, <4>2
      <4> QED
        BY <1>2, <1>17, <3>1, <3>3, <4>3 DEF Suffices
    <3> QED
      BY <1>1, <3>2, <3>3
  <2>5. Offers(t)' /\ RoomStays(t)'
    BY <1>2 DEF Offers, RoomStays
  <2>6. Ended(t)'
    BY <1>2, <1>4, <1>6, <1>7, <1>8 DEF InHand, Ended
  <2> QED
    BY <2>1, <2>2, <2>3, <2>4, <2>5, <2>6 DEF InHand
<1>19. ASSUME NEW u \in Thread, u # t
       PROVE  InHand(u)'
  <2>1. /\ InHand(u) /\ pc[u] \notin Inside /\ lock # u
        /\ pc'[u] = pc[u] /\ moved'[u] = moved[u]
    BY <1>1, <1>2, <1>3, <1>19 DEF IInv, StreamTypeOK
  <2>2. Locked(u)' /\ Calling(u)' /\ Joins(u)' /\ Suffices(u)'
    BY <1>4, <2>1 DEF InHand, Locked, Calling, Joins, Suffices, Inside
  <2>3. Offers(u)'
    BY <1>4, <2>1 DEF InHand, Offers, Wanting
  <2>4. Ended(u)'
    BY <1>4, <1>6, <1>7, <1>8, <2>1 DEF InHand, Ended
  <2>5. RoomStays(u)'
    BY <1>4, <1>5, <1>11, <2>1 DEF InHand, RoomStays, Inside
  <2> QED
    BY <2>2, <2>3, <2>4, <2>5 DEF InHand
<1> QED
  BY <1>15, <1>16, <1>18, <1>19 DEF IInv

(* PltRingBufferStream.cpp:196-207: one piece of a Write.                    *)
LEMMA OfferedInputs ==
  ASSUME IInv, NEW t \in Writer, WriteSome(t)
  PROVE  /\ Numbered(next, WritePiece(t)) \in Inputs
         /\ WritePiece(t) \in 1 .. ContiguousSpace /\ WritePiece(t) <= Wanting(t)
         /\ next + WritePiece(t) <= Bound + 1
<1>1. pc[t] \in {"first", "second"} /\ WritePiece(t) > 0 /\ t \in Thread
  BY Threads DEF WriteSome, Copying
<1>2. StreamTypeOK /\ InHand(t)
  BY <1>1 DEF IInv
<1>3. /\ ContiguousSpace \in Nat /\ Wanting(t) \in Int /\ next \in Nat /\ want[t] \in Nat
      /\ moved[t] \in Seq(Byte)
  BY <1>1, <1>2, Numbers
<1>4. PICK n \in Nat : n = WritePiece(t)
  BY <1>1, <1>3 DEF WritePiece, Lower
<1>5. n \in 1 .. ContiguousSpace /\ n <= Wanting(t)
  BY <1>1, <1>3, <1>4 DEF WritePiece, Lower
<1>6. next + Wanting(t) <= Bound + 1
  BY <1>1, <1>2 DEF InHand, Offers
<1>7. next + n <= Bound + 1 /\ next >= 1
  BY <1>2, <1>3, <1>5, <1>6, StreamAssumption DEF StreamTypeOK
<1>8. n <= MaxWant
  <2>1. Wanting(t) <= want[t]
    <3>1. Len(moved[t]) \in Nat
      BY <1>3
    <3> QED
      BY <1>3, <3>1 DEF Wanting
  <2>2. want[t] <= MaxWant
    BY <1>1, <1>2, StreamAssumption DEF StreamTypeOK
  <2> QED
    BY <1>3, <1>5, <2>1, <2>2, StreamAssumption
<1>9. next \in 1 .. Bound /\ n \in 0 .. MaxWant
  BY <1>3, <1>5, <1>7, <1>8, StreamAssumption
<1>10. Numbered(next, n) \in Inputs
  BY <1>7, <1>9, StreamAssumption
<1> QED
  BY <1>4, <1>5, <1>7, <1>10

LEMMA InvWriteSome ==
  ASSUME IInv, NEW t \in Writer, WriteSome(t)
  PROVE  IInv'
<1> DEFINE bs == Numbered(next, WritePiece(t))
<1>1. /\ pc[t] \in {"first", "second"} /\ Write(bs)
      /\ moved' = [moved EXCEPT ![t] = @ \o bs] /\ next' = next + Len(bs)
      /\ totalWritten' = totalWritten + WritePiece(t)
      /\ pc' = [pc EXCEPT ![t] = IF pc[t] = "first" THEN "second" ELSE "leave"]
      /\ UNCHANGED <<flags, totalRead, kept, lock, want, code>>
  BY DEF WriteSome, Copying, AfterPiece, Goto
<1>2. /\ StreamTypeOK /\ TypeOK /\ InOrder /\ TellsAgree /\ Counts /\ InHand(t)
      /\ t \in Thread /\ t \notin Reader
  BY Threads DEF IInv, StreamTypeOK
<1>3. lock = t /\ shared /\ \A u \in Thread \ {t} : pc[u] \notin Inside /\ lock # u
  BY <1>1, <1>2, InsideLocks DEF Inside
<1>4. /\ want' = want /\ code' = code /\ lock' = lock
      /\ shared' = shared /\ blocking' = blocking /\ eos' = eos /\ aborted' = aborted
      /\ totalRead' = totalRead /\ kept' = kept
  BY <1>1 DEF flags
<1>5. /\ Available \in Nat /\ Space \in Nat /\ ContiguousSpace \in Nat
      /\ next \in Nat /\ totalRead \in Nat /\ totalWritten \in Nat /\ kept \in Nat
      /\ want[t] \in Nat /\ moved[t] \in Seq(Byte) /\ Wanting(t) \in Int
  BY <1>2, Numbers
<1>6. /\ bs \in Inputs /\ WritePiece(t) \in 1 .. ContiguousSpace
      /\ WritePiece(t) <= Wanting(t) /\ next + WritePiece(t) <= Bound + 1
  BY OfferedInputs
<1>7. PICK n \in Nat, a \in Nat, s \in Nat, m \in Nat, f \in Int :
        /\ n = WritePiece(t) /\ a = Available /\ s = Space /\ m = Len(moved[t]) /\ f = next - a
  <2>1. WritePiece(t) \in Nat
    BY <1>5, <1>6
  <2>2. Len(moved[t]) \in Nat
    BY <1>5
  <2>3. next - Available \in Int
    BY <1>5
  <2> QED
    BY <1>5, <2>1, <2>2, <2>3
<1>8. bs \in Seq(Byte) /\ Len(bs) = n
  <2>1. next \in Int /\ n \in Nat
    BY <1>5
  <2>2. Len(Numbered(next, n)) = n
    BY <2>1, Run
  <2>3. bs = Numbered(next, n)
    BY <1>7
  <2> QED
    BY <1>6, <2>2, <2>3, RingAssumption
<1> HIDE DEF bs
<1>9. /\ n \in 1 .. ContiguousSpace /\ n <= want[t] - m
      /\ n = want[t] - m \/ n = ContiguousSpace
      /\ next + n <= Bound + 1 /\ next' = next + n /\ totalWritten' = totalWritten + n
  <2>1. n = Lower(Wanting(t), ContiguousSpace) /\ Wanting(t) = want[t] - m
    BY <1>7 DEF WritePiece, Wanting
  <2>2. n = Wanting(t) \/ n = ContiguousSpace
    BY <2>1 DEF Lower
  <2> QED
    BY <1>1, <1>6, <1>7, <1>8, <2>1, <2>2
<1>10. /\ Space' = s - n /\ Available' = a + n
       /\ n = ContiguousSpace => ContiguousSpace' = Space'
       /\ Contents' = Contents \o bs
  BY <1>1, <1>2, <1>7, <1>8, <1>9, PieceWritten
<1>11. TypeOK'
  BY <1>1, <1>2, <1>6, StepSafe DEF Next
<1>12. Contents' = Numbered(f, a + n) /\ next' - Available' = f
  <2>1. Contents = Numbered(f, a) /\ f + a = next
    BY <1>2, <1>5, <1>7 DEF InOrder
  <2>2. bs = Numbered(f + a, n)
    BY <1>7, <2>1 DEF bs
  <2>3. Contents' = Numbered(f, a + n)
    BY <1>10, <2>1, <2>2, RunJoin
  <2> QED
    BY <1>5, <1>7, <1>9, <1>10, <2>3
<1>13. /\ moved'[t] \in Seq(Byte) /\ Len(moved'[t]) = m + n /\ moved'[t] # << >>
  <2>1. moved'[t] = moved[t] \o bs
    BY <1>1, <1>2 DEF StreamTypeOK
  <2>2. moved'[t] \in Seq(Byte) /\ Len(moved'[t]) = m + n
    BY <1>5, <1>7, <1>8, <2>1
  <2>3. m + n > 0
    BY <1>9
  <2> QED
    BY <2>2, <2>3
<1>14. StreamTypeOK'
  <2>1. moved' \in [Thread -> Seq(Byte)]
    BY <1>1, <1>2, <1>13 DEF StreamTypeOK
  <2>2. next' \in 1 .. Bound + 1
    BY <1>2, <1>5, <1>9, StreamAssumption DEF StreamTypeOK
  <2>3. totalWritten' \in 0 .. Bound
    <3>1. totalWritten + kept < next
      BY <1>2 DEF Counts
    <3> QED
      BY <1>5, <1>9, <3>1, StreamAssumption
  <2> QED
    BY <1>1, <1>2, <1>4, <1>11, <2>1, <2>2, <2>3 DEF StreamTypeOK
<1>15. InOrder' /\ TellsAgree' /\ Counts' /\ Unmade'
  <2>1. InOrder'
    BY <1>10, <1>12 DEF InOrder
  <2>2. PICK x \in Nat, y \in Nat, k \in Nat, o \in Nat :
          x = totalRead /\ y = totalWritten /\ k = kept /\ o = next
    BY <1>5
  <2>3. TellsAgree'
    <3>1. y - x + k = a
      BY <1>2, <1>3, <1>7, <2>2 DEF TellsAgree
    <3>2. (y + n) - x + k = a + n
      BY <3>1
    <3> QED
      BY <1>4, <1>9, <1>10, <2>2, <3>2 DEF TellsAgree
  <2>4. Counts'
    <3>1. a < o /\ y + k < o
      BY <1>2, <1>7, <2>2 DEF Counts
    <3>2. a + n < o + n /\ y + n + k < o + n
      BY <3>1
    <3> QED
      BY <1>4, <1>9, <1>10, <2>2, <3>2 DEF Counts
  <2> QED
    BY <1>3, <1>4, <2>1, <2>3, <2>4 DEF Unmade
<1>16. pc'[t] = IF pc[t] = "first" THEN "second" ELSE "leave"
  BY <1>1, <1>2 DEF StreamTypeOK
<1>17. ~eos
  BY <1>1, <1>2 DEF InHand, Ended
<1>18. InHand(t)'
  <2>1. Locked(t)'
    BY <1>3, <1>4, <1>16 DEF Locked, Inside
  <2>2. Calling(t)'
    <3>1. want[t] > 0 /\ m + n <= want[t]
      BY <1>5, <1>9
    <3> QED
      BY <1>4, <1>13, <1>16, <3>1 DEF Calling
  <2>3. Joins(t)' /\ Ended(t)' /\ RoomStays(t)'
    BY <1>2, <1>4, <1>13, <1>16, <1>17 DEF Joins, Ended, RoomStays
  <2>4. Wanting(t)' = want[t] - (m + n)
    BY <1>4, <1>13 DEF Wanting
  <2>5. Suffices(t)'
    <3>0. want[t] - (m + n) = 0 \/ n = ContiguousSpace
      BY <1>5, <1>9
    <3>1. CASE pc[t] = "first"
      BY <1>2, <1>10, <1>16, <2>4, <3>0, <3>1 DEF Suffices
    <3>2. CASE pc[t] = "second"
      <4>1. Wanting(t) = 0 \/ ContiguousSpace = s
        BY <1>2, <1>7, <3>2 DEF InHand, Suffices
      <4>2. Wanting(t) # 0
        BY <1>5, <1>7, <1>9 DEF Wanting
      <4>3. want[t] - (m + n) = 0 \/ Space' = 0
        <5>1. CASE n = ContiguousSpace
          <6>1. n = s
            BY <4>1, <4>2, <5>1
          <6> QED
            BY <1>10, <6>1
        <5> QED
          BY <3>0, <5>1
      <4> QED
        BY <1>2, <1>16, <2>4, <3>2, <4>3 DEF Suffices
    <3> QED
      BY <1>1, <3>1, <3>2
  <2>6. Offers(t)'
    <3>1. next + (want[t] - m) <= Bound + 1
      BY <1>1, <1>2, <1>7 DEF InHand, Offers, Wanting
    <3>2. (next + n) + (want[t] - (m + n)) <= Bound + 1
      BY <1>5, <3>1, StreamAssumption
    <3> QED
      BY <1>9, <2>4, <3>2 DEF Offers
  <2> QED
    BY <2>1, <2>2, <2>3, <2>5, <2>6 DEF InHand
<1>19. ASSUME NEW u \in Thread, u # t
       PROVE  InHand(u)'
  <2>1. /\ InHand(u) /\ pc[u] \notin Inside /\ lock # u /\ u \notin Writer
        /\ pc'[u] = pc[u] /\ moved'[u] = moved[u]
    BY <1>1, <1>2, <1>3, <1>19, StreamAssumption DEF IInv, StreamTypeOK
  <2>2. Locked(u)' /\ Calling(u)' /\ Joins(u)' /\ Suffices(u)'
    BY <1>4, <2>1 DEF InHand, Locked, Calling, Joins, Suffices, Inside
  <2>3. Offers(u)' /\ Ended(u)' /\ RoomStays(u)'
    BY <1>4, <1>17, <2>1 DEF InHand, Offers, Ended, RoomStays
  <2> QED
    BY <2>2, <2>3 DEF InHand
<1> QED
  BY <1>14, <1>15, <1>18, <1>19 DEF IInv

LEMMA InvStep ==
  ASSUME IInv, [StreamNext]_vars
  PROVE  IInv'
<1>1. CASE Direct \/ Construct \/ StreamFlush \/ SetEOS \/ Abort
  BY <1>1, InvDirect, InvConstruct, InvFlush, InvFlags
<1>2. ASSUME NEW t \in Thread, Call(t) \/ Step(t)
      PROVE  IInv'
  <2>1. CASE Call(t) \/ Relock(t) \/ CopyEnds(t)
    BY <2>1, InvCall, InvRelock, InvCopyEnds
  <2>2. CASE CopyFails(t) \/ Leave(t)
    BY <2>2, InvReturns
  <2>3. CASE (t \in Reader /\ ReadTest(t)) \/ (t \in Writer /\ WriteTest(t))
    BY <2>3, InvTest
  <2>4. CASE t \in Reader /\ ReadSome(t)
    BY <2>4, InvReadSome
  <2>5. CASE t \in Writer /\ WriteSome(t)
    BY <2>5, InvWriteSome
  <2> QED
    BY <1>2, <2>1, <2>2, <2>3, <2>4, <2>5 DEF Step
<1>3. CASE UNCHANGED vars
  <2>1. TypeOK'
    BY <1>3, StutterSafe DEF vars, IInv, StreamTypeOK
  <2>2. Still /\ \A u \in Thread : /\ pc'[u] = pc[u] /\ want'[u] = want[u] /\ moved'[u] = moved[u]
                                   /\ code'[u] = code[u] /\ lock' = lock
    BY <1>3 DEF Still, vars, ringVars, streamVars, flags, callVars, totals
  <2>3. InOrder' /\ TellsAgree' /\ Counts'
    BY <2>2, StillCounts
  <2>4. eos' = eos
    BY <1>3 DEF vars, streamVars, flags
  <2>5. \A u \in Thread : InHand(u)'
    BY <2>2, <2>4, StillOwn
  <2>6. StreamTypeOK' /\ Unmade'
    BY <1>3, <2>1 DEF IInv, StreamTypeOK, Unmade, vars, streamVars, flags, callVars, totals
  <2> QED
    BY <2>3, <2>5, <2>6 DEF IInv
<1> QED
  BY <1>1, <1>2, <1>3 DEF StreamNext

(* The stream does to the ring buffer what RingBuffer lets its owner do.     *)
LEMMA UsesRing ==
  ASSUME IInv, [StreamNext]_vars
  PROVE  [Next]_ringVars
<1>1. CASE Direct \/ Construct \/ StreamFlush \/ SetEOS \/ Abort
  BY <1>1 DEF Direct, Construct, StreamFlush, SetEOS, Abort, Next
<1>2. ASSUME NEW t \in Reader, ReadSome(t)
      PROVE  Next
  <2>1. StreamTypeOK /\ TypeOK /\ ReadPiece(t) > 0 /\ Read(ReadPiece(t)) /\ t \in Thread
    BY <1>2, Threads DEF ReadSome, IInv, StreamTypeOK
  <2>2. ReadPiece(t) \in 0 .. Size
    <3>1. /\ Available \in Nat /\ Space \in Nat /\ Available + Space = Size - 1
          /\ ContiguousAvailable \in Nat /\ ContiguousAvailable <= Available /\ Wanting(t) \in Int
      BY <2>1, Numbers
    <3>2. ReadPiece(t) \in Nat /\ ReadPiece(t) <= ContiguousAvailable
      BY <2>1, <3>1 DEF ReadPiece, Lower
    <3> QED
      BY <3>1, <3>2, RingAssumption
  <2> QED
    BY <2>1, <2>2 DEF Next
<1>3. ASSUME NEW t \in Writer, WriteSome(t)
      PROVE  Next
  BY <1>3, OfferedInputs DEF Next, WriteSome
<1>4. ASSUME NEW t \in Thread, Call(t) \/ Step(t)
      PROVE  [Next]_ringVars
  <2>1. CASE Call(t) \/ Relock(t) \/ CopyEnds(t) \/ Leave(t) \/ CopyFails(t)
    BY <2>1 DEF Call, Relock, CopyEnds, Leave, CopyFails, Next
  <2>2. CASE (t \in Reader /\ ReadTest(t)) \/ (t \in Writer /\ WriteTest(t))
    BY <2>2 DEF ReadTest, WriteTest, Looks
  <2> QED
    BY <1>2, <1>3, <1>4, <2>1, <2>2 DEF Step
<1>5. CASE UNCHANGED vars
  BY <1>5 DEF vars
<1> QED
  BY <1>1, <1>4, <1>5 DEF StreamNext

(* PltRingBufferStream.cpp:98-230: the inductive invariant of the stream, for *)
(* any number of readers, any size of the ring and any sizes of the calls.    *)
THEOREM StreamInvariance == StreamSpec => []IInv
<1>1. StreamInit => IInv
  BY InvInit
<1>2. IInv /\ [StreamNext]_vars => IInv'
  BY InvStep
<1> QED
  BY <1>1, <1>2, PTL DEF StreamSpec

(* PltRingBufferStream.cpp:127-147, 193-211, 221-230: for any size of the    *)
(* ring, any number of readers and any sizes of their calls, no byte is      *)
(* lost, doubled or left behind by the copy in two pieces.                   *)
THEOREM NothingLeftBehind == StreamSpec => []BytesAccounted
<1>1. IInv => BytesAccounted
  BY Threads DEF IInv, InHand, Joins, Suffices, BytesAccounted, PiecesJoin, TwoTriesSuffice
<1> QED
  BY <1>1, StreamInvariance, PTL

(* PltRingBufferStream.cpp:113-118, 176-179: who was told the end of the     *)
(* stream has missed nothing.                                                *)
THEOREM EndIsLast == StreamSpec => []EosIsTheEnd
<1>1. IInv => EosIsTheEnd
  BY Threads DEF IInv, InHand, Ended, EosIsTheEnd
<1> QED
  BY <1>1, StreamInvariance, PTL

(* YetiRingBuffer.cpp:33-163 under PltRingBufferStream.cpp:98-230: also in   *)
(* the hands of the stream's threads, which take turns at m_Lock and ask for *)
(* no more than is there, the ring buffer is a queue.                        *)
THEOREM StreamImplements == StreamSpec => ImplementsByteQueue
<1>1. StreamInit => TypeOK /\ Promise!Init
  BY InitSafe DEF StreamInit
<1>2. IInv /\ [StreamNext]_vars => [Promise!Next]_Promise!vars
  <2> SUFFICES ASSUME IInv, [StreamNext]_vars
               PROVE  [Promise!Next]_Promise!vars
    OBVIOUS
  <2>1. TypeOK /\ [Next]_ringVars
    BY UsesRing DEF IInv, StreamTypeOK
  <2> QED
    BY <2>1, StepSafe, StutterSafe
<1> QED
  BY <1>1, <1>2, StreamInvariance, PTL DEF StreamSpec, ImplementsByteQueue, Promise!Spec

(* Nobody else takes the bytes that a single reader saw, but a Flush. *)
Flushed == totalRead = 0 /\ kept = 0
BytesStay == \A r \in Reader :
  /\ pc[r] \in {"lock", "first"} => Available > 0 \/ Flushed
  /\ pc[r] = "leave" => moved[r] # << >> \/ Flushed

LEMMA BytesStayStep ==
  ASSUME \A r, s \in Reader : r = s, IInv, IInv', BytesStay, [StreamNext]_vars
  PROVE  BytesStay'
<1> SUFFICES ASSUME NEW r \in Reader
             PROVE  /\ pc'[r] \in {"lock", "first"} => Available' > 0 \/ Flushed'
                    /\ pc'[r] = "leave" => moved'[r] # << >> \/ Flushed'
  BY DEF BytesStay
<1>1. /\ r \in Thread /\ r \notin Writer /\ StreamTypeOK /\ StreamTypeOK' /\ InHand(r) /\ InHand(r)' /\ Unmade
      /\ pc[r] \in {"lock", "first"} => Available > 0 \/ Flushed
      /\ pc[r] = "leave" => moved[r] # << >> \/ Flushed
  BY Threads DEF IInv, BytesStay
<1>2. CASE Direct \/ Construct
  <2>1. pc' = pc /\ pc[r] = "idle"
    BY <1>1, <1>2 DEF Direct, Construct, callVars, Unmade
  <2> QED
    BY <2>1
<1>3. CASE StreamFlush
  BY <1>3 DEF StreamFlush, Flushed
<1>4. CASE SetEOS \/ Abort \/ UNCHANGED vars
  <2>1. /\ pc' = pc /\ moved' = moved /\ totalRead' = totalRead /\ kept' = kept
        /\ UNCHANGED <<data, in, out>>
    BY <1>4 DEF SetEOS, Abort, vars, ringVars, streamVars, totals, callVars
  <2>2. Available' = Available
    BY <2>1, Quiet
  <2> QED
    BY <1>1, <2>1, <2>2 DEF Flushed
<1>5. ASSUME NEW t \in Thread, t # r, Call(t) \/ Step(t)
      PROVE  /\ pc'[r] \in {"lock", "first"} => Available' > 0 \/ Flushed'
             /\ pc'[r] = "leave" => moved'[r] # << >> \/ Flushed'
  <2>1. t \notin Reader
    BY <1>5
  <2>2. pc'[r] = pc[r] /\ moved'[r] = moved[r] /\ totalRead' = totalRead /\ kept' = kept
    BY <1>1, <1>5, <2>1
       DEF Call, Step, WriteTest, Looks, WriteSome, Relock, CopyFails, CopyEnds, Leave,
           AfterPiece, Returns, Goto, totals, StreamTypeOK
  <2>3. Available > 0 => Available' > 0
    <3>1. CASE UNCHANGED <<data, in, out>>
      BY <3>1, Quiet
    <3>2. CASE t \in Writer /\ WriteSome(t)
      <4>1. PICK n \in Nat : n = WritePiece(t) /\ n \in 1 .. ContiguousSpace
        BY <1>1, <3>2, OfferedInputs, Numbers
      <4>2. PICK bs \in Seq(Byte) : bs = Numbered(next, n) /\ Len(bs) = n
        <5>1. Len(Numbered(next, n)) = n
          BY <1>1, Numbers, Run
        <5>2. Numbered(next, n) \in Inputs
          BY <3>2, <4>1, OfferedInputs
        <5> QED
          BY <5>1, <5>2, RingAssumption
      <4>3. Available' = Available + n
        BY <1>1, <3>2, <4>1, <4>2, PieceWritten, Numbers DEF WriteSome
      <4>4. Available \in Nat
        BY <1>1, Numbers
      <4> QED
        BY <4>3, <4>4
    <3> QED
      BY <1>5, <2>1, <3>1, <3>2
         DEF Call, Step, WriteTest, Looks, Relock, CopyFails, CopyEnds, Leave, Refuse, ringVars
  <2> QED
    BY <1>1, <2>2, <2>3 DEF Flushed
<1>6. CASE Call(r)
  BY <1>1, <1>6 DEF Call, Goto, StreamTypeOK
<1>7. CASE ReadTest(r)
  <2>1. pc'[r] = "idle" \/ (pc'[r] = "lock" /\ Available > 0)
    BY <1>1, <1>7 DEF ReadTest, Looks, Returns, Goto, StreamTypeOK
  <2>2. Available' = Available
    BY <1>7, Quiet DEF ReadTest, Looks, ringVars
  <2> QED
    BY <2>1, <2>2
<1>8. CASE Relock(r)
  <2>1. pc'[r] = "first" /\ pc[r] = "lock" /\ totalRead' = totalRead /\ kept' = kept
    BY <1>1, <1>8 DEF Relock, Goto, StreamTypeOK, totals
  <2>2. Available' = Available
    BY <1>8, Quiet DEF Relock, ringVars
  <2> QED
    BY <1>1, <2>1, <2>2 DEF Flushed
<1>9. CASE ReadSome(r)
  <2>1. pc'[r] \in {"second", "leave"}
    BY <1>1, <1>9 DEF ReadSome, Copying, AfterPiece, Goto, StreamTypeOK
  <2>2. moved'[r] # << >>
    <3>1. moved'[r] = moved[r] \o answer'.bytes /\ moved[r] \in Seq(Byte)
      BY <1>1, <1>9 DEF ReadSome, StreamTypeOK
    <3>2. PICK n \in Nat : n = ReadPiece(r) /\ n \in 1 .. ContiguousAvailable
      BY <1>1, <1>9, Numbers DEF ReadSome, ReadPiece, Lower
    <3>3. answer'.bytes = SubSeq(Contents, 1, n) /\ n \in 0 .. Available
      BY <1>1, <1>9, <3>2, PieceRead, Numbers DEF ReadSome
    <3>4. Contents \in Seq(Byte) /\ Len(Contents) = Available /\ Available \in Nat
      BY <1>1, ContentsType, Numbers
    <3>5. answer'.bytes \in Seq(Byte) /\ Len(answer'.bytes) = n
      BY <3>3, <3>4, Halves
    <3>6. PICK a \in Seq(Byte), b \in Seq(Byte) : moved'[r] = a \o b /\ Len(b) = n
      BY <3>1, <3>5
    <3>7. Len(a \o b) = Len(a) + Len(b) /\ Len(a) \in Nat /\ Len(b) \in Nat
      BY ConcatProperties, LenProperties
    <3> QED
      BY <3>2, <3>6, <3>7
  <2> QED
    BY <2>1, <2>2
<1>10. CASE CopyFails(r) \/ Leave(r)
  BY <1>1, <1>10 DEF CopyFails, Leave, Returns, Goto, StreamTypeOK
<1>11. CASE CopyEnds(r)
  <2>1. /\ pc'[r] = "leave" /\ pc[r] \in {"first", "second"} /\ moved'[r] = moved[r]
        /\ totalRead' = totalRead /\ kept' = kept /\ Piece(r) = 0
    BY <1>1, <1>11 DEF CopyEnds, Copying, Goto, StreamTypeOK, totals
  <2>2. CASE pc[r] = "second"
    BY <1>1, <2>1, <2>2 DEF InHand, Calling
  <2>3. CASE pc[r] = "first"
    <3>1. moved[r] = << >> /\ want[r] > 0 /\ want[r] \in Nat
      BY <1>1, <2>3, Numbers DEF InHand, Calling
    <3>2. Wanting(r) = want[r]
      BY <3>1 DEF Wanting
    <3>3. /\ ContiguousAvailable \in Nat
          /\ ContiguousAvailable = 0 => Available = 0
      BY <1>1, Numbers
    <3>4. Available = 0
      BY <2>1, <3>1, <3>2, <3>3 DEF Piece, ReadPiece, Lower
    <3> QED
      BY <1>1, <2>1, <2>3, <3>4 DEF Flushed
  <2> QED
    BY <2>1, <2>2, <2>3
<1> QED
  BY <1>1, <1>2, <1>3, <1>4, <1>5, <1>6, <1>7, <1>8, <1>9, <1>10, <1>11 DEF StreamNext, Step

(* PltRingBufferStream.cpp:104-147, 168-211: between the look and the copy   *)
(* the lock is free, and still the writer finds the room it saw, and, when   *)
(* there is one reader, the reader the bytes, if no Flush took them.         *)
THEOREM WhatItSaw ==
  ASSUME \A r, s \in Reader : r = s
  PROVE  StreamSpec => []FindsWhatItSaw
<1>1. StreamInit => BytesStay
  BY Threads DEF StreamInit, BytesStay
<1>2. IInv /\ IInv' /\ BytesStay /\ [StreamNext]_vars => BytesStay'
  BY BytesStayStep
<1>3. IInv /\ BytesStay => FindsWhatItSaw
  BY Threads DEF IInv, InHand, RoomStays, BytesStay, Flushed, FindsWhatItSaw
<1> QED
  BY <1>1, <1>2, <1>3, StreamInvariance, PTL DEF StreamSpec

-----------------------------------------------------------------------------
(***************************************************************************)
(* The buffered stream.                                                    *)
(***************************************************************************)

(* The bytes in the buffer are the last ones the source has delivered. *)
Behind == Len(held) <= given /\ held = Places(Consumed + 1, Len(held))

(* A line holds the characters the call took, each once and in order. *)
LineSoFar ==
  /\ \A i, j \in DOMAIN copied : i < j => copied[i] < copied[j]
  /\ ToSet(copied) = {p \in begun + 1 .. Consumed : Plain(p)}

(* Up to the n-th byte the call met no end of a line that it had to stop at. *)
GoesOn(n) == \A p \in begun + 1 .. n : LineEnd(p) =>
  call.skip /\ \A q \in begun + 1 .. p : ~Plain(q)

(* What read_line has so far, and what it returned.                          *)
Lines ==
  /\ at \in {"line", "raw"} =>
       /\ call.op = "read_line" /\ skipNewline = call.skip
       /\ LineSoFar /\ GoesOn(Consumed)
       /\ at = "raw" => held = << >>
  /\ Answered("read_line") /\ Len(copied) <= call.room =>
       /\ LineSoFar
       /\ result = "SUCCESS" =>
            /\ GoesOn(Consumed - 1)
            /\ (begun < Consumed /\ LineEnd(Consumed)) \/ (atEnd /\ Consumed = Len(text))

(* The newline that read takes for the other half of the '\r' before it. *)
Newline == IF call.skip /\ begun < Consumed /\ text[begun + 1] = "lf" THEN 1 ELSE 0

(* read and peek hand out all that they take, but for that newline.          *)
Reads ==
  /\ at \in {"first", "read"} => call.op = "read"
  /\ call.op = "read" =>
       /\ at \in {"first", "read", "idle"}
       /\ copied = Places(begun + 1 + Newline, Consumed - begun - Newline)
       /\ at = "first" => call.skip /\ begun = Consumed
       /\ at = "read" => Consumed = IF call.skip THEN begun + 1 ELSE begun
       /\ at = "idle" /\ result = "SUCCESS" => copied # << >>
  /\ call.op = "peek" => at = "idle" /\ begun = Consumed /\ copied = Places(begun + 1, Len(copied))

(* The end of the stream is the end of the text.                             *)
Ends ==
  /\ atEnd => given = Len(text)
  /\ at = "idle" /\ result = "EOS" => Consumed = Len(text) /\ copied = << >>

(* What holds of the buffered stream until a copy overruns the buffer.       *)
Sound == Fits /\ Behind /\ begun <= Consumed /\ Lines /\ Reads /\ Ends

(* Until an owner sets a smaller size, a peek need not move what is held.    *)
Calm == at # "refill" /\ (~tight => Len(held) <= NewSize)

(* The inductive invariant of the buffered stream.                           *)
BInv == (overrun => tight) /\ (~overrun => Sound /\ Calm)

(* Runs of places.                                                           *)
LEMMA Stretch ==
  ASSUME NEW first \in Int, NEW n \in Nat
  PROVE  /\ Places(first, n) \in Seq(Int) /\ Len(Places(first, n)) = n
         /\ \A i \in 1 .. n : Places(first, n)[i] = first + i - 1
         /\ DOMAIN Places(first, n) = 1 .. n
         /\ \A g \in Int : first > 0 /\ first + n - 1 <= g => Places(first, n) \in Seq(1 .. g)
<1>1. ASSUME NEW g \in Int, first > 0, first + n - 1 <= g
      PROVE  Places(first, n) \in Seq(1 .. g)
  <2>1. \A i \in 1 .. n : first + i - 1 \in 1 .. g
    BY <1>1
  <2> QED
    BY <2>1 DEF Places
<1> QED
  BY <1>1 DEF Places

LEMMA StretchCut ==
  ASSUME NEW first \in Int, NEW m \in Nat, NEW n \in 0 .. m
  PROVE  /\ SubSeq(Places(first, m), 1, n) = Places(first, n)
         /\ SubSeq(Places(first, m), n + 1, m) = Places(first + n, m - n)
<1>1. /\ Places(first, m) \in Seq(Int) /\ Len(Places(first, m)) = m
      /\ \A i \in 1 .. m : Places(first, m)[i] = first + i - 1
  BY Stretch
<1>2. SubSeq(Places(first, m), 1, n) = [i \in 1 .. n |-> Places(first, m)[i]]
  BY <1>1
<1>3. SubSeq(Places(first, m), n + 1, m) = [i \in 1 .. m - n |-> Places(first, m)[n + i]]
  BY <1>1
<1>4. \A i \in 1 .. n : Places(first, m)[i] = first + i - 1
  BY <1>1
<1>5. \A i \in 1 .. m - n : Places(first, m)[n + i] = first + n + i - 1
  BY <1>1
<1> QED
  BY <1>2, <1>3, <1>4, <1>5 DEF Places

LEMMA StretchJoin ==
  ASSUME NEW first \in Int, NEW m \in Nat, NEW n \in Nat
  PROVE  Places(first, m) \o Places(first + m, n) = Places(first, m + n)
<1> DEFINE a == Places(first, m)
           b == Places(first + m, n)
<1>1. /\ a \in Seq(Int) /\ Len(a) = m /\ \A i \in 1 .. m : a[i] = first + i - 1
      /\ b \in Seq(Int) /\ Len(b) = n /\ \A i \in 1 .. n : b[i] = first + m + i - 1
      /\ m + n \in Nat
  BY Stretch
<1>2. /\ Places(first, m + n) \in Seq(Int) /\ Len(Places(first, m + n)) = m + n
      /\ \A i \in 1 .. m + n : Places(first, m + n)[i] = first + i - 1
  BY <1>1, Stretch
<1> HIDE DEF a, b
<1>3. /\ a \o b \in Seq(Int) /\ Len(a \o b) = m + n
      /\ \A i \in 1 .. m + n : (a \o b)[i] = IF i <= m THEN a[i] ELSE b[i - m]
  BY <1>1, ConcatProperties
<1>4. \A i \in 1 .. m + n : (a \o b)[i] = first + i - 1
  BY <1>1, <1>3
<1>5. a \o b = Places(first, m + n)
  <2>1. Len(a \o b) = Len(Places(first, m + n))
    BY <1>2, <1>3
  <2>2. \A i \in 1 .. Len(a \o b) : (a \o b)[i] = Places(first, m + n)[i]
    BY <1>2, <1>3, <1>4
  <2> QED
    BY <1>2, <1>3, <2>1, <2>2, SeqEqual
<1> QED
  BY <1>5 DEF a, b

LEMMA StretchTail ==
  ASSUME NEW first \in Int, NEW n \in Nat, n > 0
  PROVE  /\ Head(Places(first, n)) = first
         /\ Tail(Places(first, n)) = Places(first + 1, n - 1)
<1>1. /\ Places(first, n) \in Seq(Int) /\ Len(Places(first, n)) = n
      /\ \A i \in 1 .. n : Places(first, n)[i] = first + i - 1
  BY Stretch
<1>2. Head(Places(first, n)) = Places(first, n)[1]
  BY <1>1
<1>3. Tail(Places(first, n)) = SubSeq(Places(first, n), 2, n)
  BY <1>1
<1>4. SubSeq(Places(first, n), 1 + 1, n) = Places(first + 1, n - 1)
  <2>1. 1 \in 0 .. n
    OBVIOUS
  <2> QED
    BY <2>1, StretchCut
<1> QED
  BY <1>1, <1>2, <1>3, <1>4

LEMMA SeqGrows ==
  ASSUME NEW g \in Int, NEW h \in Int, g <= h, NEW s \in Seq(1 .. g)
  PROVE  s \in Seq(1 .. h)
  OBVIOUS

-----------------------------------------------------------------------------
(* What is a number, and what is a call.                                     *)
LEMMA Shapes ==
  ASSUME BufferedTypeOK
  PROVE  /\ text \in Seq({"char", "cr", "lf"}) /\ Len(text) \in Nat
         /\ given \in Nat /\ given <= Len(text)
         /\ held \in Seq(1 .. given) /\ Len(held) \in Nat
         /\ copied \in Seq(1 .. given) /\ Len(copied) \in Nat
         /\ size \in Nat /\ capacity \in Nat /\ begun \in Nat
         /\ Consumed \in Int /\ (held = << >> => Consumed = given)
         /\ call.op = "read_line" => call \in LineCalls /\ call.room \in Nat
         /\ call.op \in {"read", "peek"} => call \in ByteCalls /\ call.want \in Nat /\ call.want > 0
         /\ call \in LineCalls => call.op = "read_line" /\ call \notin ByteCalls
         /\ call \in ByteCalls => call.op \in {"read", "peek"} /\ call \notin LineCalls
<1>1. /\ text \in Texts /\ given \in 0 .. Len(text) /\ begun \in 0 .. Len(text)
      /\ held \in Seq(1 .. given) /\ copied \in Seq(1 .. given)
      /\ capacity \in Sizes \cup {0} /\ size \in Sizes
      /\ call \in LineCalls \cup ByteCalls \cup {NoCall}
  BY DEF BufferedTypeOK
<1>2. /\ \A t \in Texts : t \in Seq({"char", "cr", "lf"})
      /\ Sizes \subseteq Nat /\ Rooms \subseteq Nat \ {0} /\ Wants \subseteq Nat \ {0}
  BY BufferedAssumption
<1>3. text \in Seq({"char", "cr", "lf"})
  BY <1>1, <1>2
<1>4. Len(text) \in Nat
  BY <1>3
<1>5. given \in Nat /\ given <= Len(text) /\ begun \in Nat
  BY <1>1, <1>4
<1>6. Len(held) \in Nat /\ Len(copied) \in Nat
  BY <1>1
<1>7. size \in Nat /\ capacity \in Nat
  BY <1>1, <1>2
<1>8. Consumed \in Int
  BY <1>5, <1>6 DEF Consumed
<1>9. held = << >> => Consumed = given
  BY <1>5 DEF Consumed
<1>10. /\ call.op = "read_line" => call \in LineCalls /\ call.room \in Rooms
       /\ call.op \in {"read", "peek"} => call \in ByteCalls /\ call.want \in Wants
       /\ call \in LineCalls => call.op = "read_line" /\ call \notin ByteCalls
       /\ call \in ByteCalls => call.op \in {"read", "peek"} /\ call \notin LineCalls
  BY <1>1 DEF LineCalls, ByteCalls, NoCall
<1>11. /\ call.op = "read_line" => call.room \in Nat
       /\ call.op \in {"read", "peek"} => call.want \in Nat /\ call.want > 0
  <2>1. \A n \in Rooms : n \in Nat
    BY <1>2
  <2>2. \A n \in Wants : n \in Nat /\ n > 0
    BY <1>2
  <2> QED
    BY <1>10, <2>1, <2>2
<1> QED
  BY <1>1, <1>3, <1>4, <1>5, <1>6, <1>7, <1>8, <1>9, <1>10, <1>11

(* Taking the first byte of the buffer.                                      *)
LEMMA TakesHead ==
  ASSUME BufferedTypeOK, Behind, held # << >>, held' = Tail(held), given' = given
  PROVE  /\ Head(held) = Consumed + 1 /\ Consumed' = Consumed + 1 /\ Behind'
         /\ Consumed \in Nat /\ Consumed + 1 \in 1 .. given /\ held' \in Seq(1 .. given')
         /\ Len(held') \in Nat /\ Len(held') < Len(held)
<1>1. PICK n \in Nat, g \in Nat : n = Len(held) /\ g = given /\ n > 0
  BY Shapes
<1>2. Consumed = g - n /\ n <= g
  BY <1>1 DEF Consumed, Behind
<1>3. PICK e \in Int : e = g - n + 1 /\ e = Consumed + 1
  BY <1>2
<1>4. Head(held) = e /\ Tail(held) = Places(e + 1, n - 1)
  <2>1. held = Places(e, n)
    BY <1>1, <1>3 DEF Behind
  <2>2. Head(Places(e, n)) = e /\ Tail(Places(e, n)) = Places(e + 1, n - 1)
    BY <1>1, <1>3, StretchTail
  <2> QED
    BY <2>1, <2>2
<1>5. PICK f \in Int, m \in Nat : f = e + 1 /\ f = g - n + 1 + 1 /\ m = n - 1 /\ f > 0 /\ f + m - 1 <= g
  BY <1>1, <1>2, <1>3
<1>6. held' = Places(f, m) /\ Len(held') = m /\ held' \in Seq(1 .. g)
  <2>1. held' = Places(f, m)
    BY <1>4, <1>5
  <2>2. Len(Places(f, m)) = m /\ Places(f, m) \in Seq(1 .. g)
    <3>1. Len(Places(f, m)) = m
      BY <1>5, Stretch
    <3>2. Places(f, m) \in Seq(1 .. g)
      BY <1>5, Stretch
    <3> QED
      BY <3>1, <3>2
  <2> QED
    BY <2>1, <2>2
<1>7. Consumed' = g - n + 1
  BY <1>1, <1>5, <1>6 DEF Consumed
<1>8. f = Consumed' + 1 /\ m <= given'
  BY <1>1, <1>2, <1>5, <1>7
<1>9. Behind'
  BY <1>6, <1>8 DEF Behind
<1> QED
  BY <1>1, <1>2, <1>3, <1>4, <1>5, <1>6, <1>7, <1>9

(* A block that the source delivers into an empty buffer.                    *)
LEMMA TakesBlock ==
  ASSUME BufferedTypeOK, held = << >>, NEW k \in Nat, given' = given + k
  PROVE  /\ Block(k) \in Seq(1 .. given') /\ Len(Block(k)) = k
         /\ Block(k) = Places(Consumed + 1, k) /\ Consumed = given
<1>1. given \in Nat /\ Consumed = given
  BY Shapes
<1>2. Len(Places(given + 1, k)) = k
  BY <1>1, Stretch
<1>3. PICK g \in Int : g = given + k /\ given + 1 + k - 1 <= g
  BY <1>1
<1>4. Places(given + 1, k) \in Seq(1 .. g)
  BY <1>1, <1>3, Stretch
<1> QED
  BY <1>1, <1>2, <1>3, <1>4 DEF Block

-----------------------------------------------------------------------------
(* read_line takes a byte.                                                   *)
LEMMA LineStays ==
  ASSUME begun \in Nat, Consumed \in Nat, Consumed' = Consumed + 1,
         LineSoFar, UNCHANGED <<text, begun, copied>>, ~Plain(Consumed + 1)
  PROVE  LineSoFar'
<1>1. PICK b \in Nat, k \in Nat : b = begun /\ k = Consumed
  OBVIOUS
<1>2. {p \in b + 1 .. k : text[p] = "char"} = {p \in b + 1 .. k + 1 : text[p] = "char"}
  BY <1>1 DEF Plain
<1> QED
  BY <1>1, <1>2 DEF LineSoFar, Plain

LEMMA LineGrows ==
  ASSUME begun \in Nat, Consumed \in Nat, begun <= Consumed, Consumed' = Consumed + 1,
         copied \in Seq(Nat), LineSoFar, UNCHANGED <<text, begun>>,
         Plain(Consumed + 1), copied' = Append(copied, Consumed + 1)
  PROVE  LineSoFar'
<1>1. PICK b \in Nat, k \in Nat, n \in Nat, s \in Seq(Nat) :
        b = begun /\ k = Consumed /\ n = Len(copied) /\ s = copied
  BY LenProperties
<1>2. /\ Len(Append(s, k + 1)) = n + 1
      /\ DOMAIN Append(s, k + 1) = 1 .. n + 1
      /\ \A i \in 1 .. n : Append(s, k + 1)[i] = s[i]
      /\ Append(s, k + 1)[n + 1] = k + 1
      /\ DOMAIN s = 1 .. n
  BY <1>1, AppendProperties
<1>3. \A i \in 1 .. n : s[i] \in Nat
  BY <1>1, ElementOfSeq
<1>4. \A i, j \in 1 .. n : i < j => s[i] < s[j]
  BY <1>1, <1>2 DEF LineSoFar
<1>5. ToSet(s) = {p \in b + 1 .. k : text[p] = "char"}
  BY <1>1 DEF LineSoFar, Plain
<1>6. \A i \in 1 .. n : s[i] \in ToSet(s)
  BY <1>2 DEF ToSet
<1>7. \A i \in 1 .. n : s[i] < k + 1
  <2>1. \A p \in ToSet(s) : p \in b + 1 .. k
    BY <1>5
  <2> QED
    BY <1>3, <1>6, <2>1
<1> DEFINE t == Append(s, k + 1)
<1> HIDE DEF t
<1>8. \A i, j \in 1 .. n + 1 : i < j => t[i] < t[j]
  <2>1. \A i, j \in 1 .. n : i < j => t[i] < t[j]
    BY <1>2, <1>4 DEF t
  <2>2. \A i \in 1 .. n : t[i] < t[n + 1]
    BY <1>2, <1>7 DEF t
  <2>3. ASSUME NEW i \in 1 .. n + 1, NEW j \in 1 .. n + 1, i < j
        PROVE  i \in 1 .. n /\ (j \in 1 .. n \/ j = n + 1)
    BY <2>3
  <2> QED
    BY <2>1, <2>2, <2>3
<1>9. ToSet(t) = ToSet(s) \cup {k + 1}
  <2>1. \A x \in ToSet(t) : x \in ToSet(s) \cup {k + 1}
    <3>1. ASSUME NEW i \in 1 .. n + 1
          PROVE  t[i] \in ToSet(s) \cup {k + 1}
      <4>1. i \in 1 .. n \/ i = n + 1
        OBVIOUS
      <4> QED
        BY <1>2, <1>6, <4>1 DEF t
    <3> QED
      BY <1>2, <3>1 DEF ToSet, t
  <2>2. \A i \in 1 .. n + 1 : t[i] \in ToSet(t)
    BY <1>2 DEF ToSet, t
  <2>3. ASSUME NEW i \in 1 .. n
        PROVE  s[i] \in ToSet(t)
    <3>1. t[i] = s[i] /\ i \in 1 .. n + 1
      BY <1>2 DEF t
    <3> QED
      BY <2>2, <3>1
  <2>4. k + 1 \in ToSet(t)
    <3>1. t[n + 1] = k + 1 /\ n + 1 \in 1 .. n + 1
      BY <1>2 DEF t
    <3> QED
      BY <2>2, <3>1
  <2>5. \A x \in ToSet(s) : x \in ToSet(t)
    BY <1>2, <2>3 DEF ToSet
  <2> QED
    BY <2>1, <2>4, <2>5
<1>10. {p \in b + 1 .. k + 1 : text[p] = "char"} = {p \in b + 1 .. k : text[p] = "char"} \cup {k + 1}
  BY <1>1 DEF Plain
<1>11. text' = text /\ begun' = b /\ Consumed' = k + 1 /\ copied' = t /\ DOMAIN t = 1 .. n + 1
  BY <1>1, <1>2 DEF t
<1> QED
  BY <1>5, <1>8, <1>9, <1>10, <1>11 DEF LineSoFar, Plain

LEMMA GoesOnGrows ==
  ASSUME begun \in Nat, Consumed \in Nat, Consumed' = Consumed + 1,
         GoesOn(Consumed), UNCHANGED <<text, begun, call>>,
         LineEnd(Consumed + 1) => call.skip /\ \A q \in begun + 1 .. Consumed + 1 : ~Plain(q)
  PROVE  GoesOn(Consumed)'
<1>1. PICK b \in Nat, k \in Nat : b = begun /\ k = Consumed
  OBVIOUS
<1>2. \A p \in b + 1 .. k + 1 : p \in b + 1 .. k \/ p = k + 1
  OBVIOUS
<1> QED
  BY <1>1, <1>2 DEF GoesOn, LineEnd, Plain

(* A line without a character has met none.                                  *)
LEMMA NoneYet ==
  ASSUME begun \in Nat, Consumed \in Nat, LineSoFar, copied = << >>, ~Plain(Consumed + 1)
  PROVE  \A q \in begun + 1 .. Consumed + 1 : ~Plain(q)
<1>1. PICK b \in Nat, k \in Nat : b = begun /\ k = Consumed
  OBVIOUS
<1>2. ToSet(copied) = {}
  BY DEF ToSet
<1>3. \A q \in b + 1 .. k : ~Plain(q)
  BY <1>1, <1>2 DEF LineSoFar
<1> QED
  BY <1>1, <1>3

(* What read_line does with the p-th byte. *)
Handles(p) ==
  \/ text[p] = "cr" /\ ~call.breakOnCr /\ Ignored
  \/ text[p] = "cr" /\ call.breakOnCr /\ UNCHANGED copied /\ EndsLine("SUCCESS", TRUE)
  \/ text[p] = "lf" /\ Skips /\ Ignored
  \/ text[p] = "lf" /\ UNCHANGED copied /\ EndsLine("SUCCESS", FALSE)
  \/ /\ text[p] = "char" /\ Roomless /\ UNCHANGED copied
     /\ EndsLine("SUCCESS", FALSE) \/ EndsLine("NOT_ENOUGH_SPACE", FALSE)
  \/ /\ text[p] = "char" /\ ~Roomless
     /\ copied' = Append(copied, p)
     /\ UNCHANGED <<at, atEnd, result, skipNewline>>

(* The stream hands out its next byte, from the buffer or from the source. *)
TakesOne ==
  /\ UNCHANGED <<text, call, begun, size, capacity>>
  /\ given' \in given .. Len(text)
  /\ Consumed' = Consumed + 1 /\ Consumed + 1 \in 1 .. given'
  /\ held' \in Seq(1 .. given') /\ Behind'
  /\ capacity > 0 => Len(held') <= capacity
  /\ at = "raw" => held' = << >>

(* A byte that the source has delivered goes to the line, or ends it.        *)
LEMMA LineTakes ==
  ASSUME Sound, at \in {"line", "raw"},
         TakesOne, Handles(Consumed + 1)
  PROVE  Sound'
<1>1. BufferedTypeOK /\ Behind /\ Lines /\ Reads /\ Ends /\ begun <= Consumed
  BY DEF Sound, Fits
<1>2. /\ text \in Seq({"char", "cr", "lf"}) /\ Len(text) \in Nat
      /\ given \in Nat /\ given <= Len(text)
      /\ copied \in Seq(1 .. given) /\ Len(copied) \in Nat
      /\ size \in Nat /\ capacity \in Nat /\ begun \in Nat
      /\ call \in LineCalls => call.op = "read_line" /\ call \notin ByteCalls
      /\ call.op = "read_line" => call \in LineCalls /\ call.room \in Nat
  BY <1>1, Shapes
<1>20. /\ UNCHANGED <<text, call, begun, size, capacity>>
       /\ Consumed' = Consumed + 1 /\ Consumed + 1 \in 1 .. given' /\ given' \in given .. Len(text)
       /\ held' \in Seq(1 .. given') /\ Behind'
       /\ at = "raw" => held' = << >>
  BY DEF TakesOne
<1>21. capacity > 0 => Len(held') <= capacity
  BY DEF TakesOne
<1>22. atEnd \in BOOLEAN /\ skipNewline \in BOOLEAN
  BY <1>1 DEF BufferedTypeOK
<1>23. Consumed \in Nat
  BY <1>1, <1>2 DEF Behind, Consumed
<1>24. PICK p \in Nat : p = Consumed + 1 /\ Consumed' = p
  BY <1>20, <1>23
<1>13. /\ given' \in Nat /\ given <= given' /\ given' <= Len(text)
       /\ copied \in Seq(1 .. given') /\ p \in 1 .. given' /\ copied \in Seq(Nat)
  <2>1. PICK g \in Nat, n \in Nat : g = given /\ n = Len(text)
    BY <1>2
  <2>2. PICK h \in Nat : h = given' /\ h \in g .. n
    BY <1>20, <2>1
  <2>3. p \in 1 .. h
    BY <1>20, <1>24, <2>2
  <2>4. copied \in Seq(1 .. g)
    BY <1>2, <2>1
  <2>5. copied \in Seq(1 .. h) /\ copied \in Seq(Nat)
    BY <2>2, <2>4
  <2> QED
    BY <2>1, <2>2, <2>3, <2>5
<1>25. Handles(p)
  BY <1>24
<1>3. /\ call.op = "read_line" /\ skipNewline = call.skip
      /\ LineSoFar /\ GoesOn(Consumed) /\ (at = "raw" => held = << >>)
  BY <1>1 DEF Lines
<1>4. call \in LineCalls /\ call \notin ByteCalls /\ call.room \in Nat
  BY <1>2, <1>3
<1>14. Len(copied) <= call.room + 1
  BY <1>1, <1>4 DEF BufferedTypeOK
<1>5. Ends'
  <2>1. atEnd => given = Len(text)
    BY <1>1 DEF Ends
  <2>2. atEnd' = atEnd
    BY <1>22, <1>25 DEF Handles, Ignored, EndsLine, Return
  <2>3. result' # "EOS" \/ at' # "idle"
    BY <1>22, <1>25 DEF Handles, Ignored, EndsLine, Return
  <2>5. atEnd' => given' = Len(text)
    BY <1>2, <1>13, <1>20, <2>1, <2>2
  <2> QED
    BY <1>20, <2>3, <2>5 DEF Ends
<1>6. Reads'
  <2>1. call'.op = "read_line" /\ at' \in {"line", "raw", "idle"}
    BY <1>3, <1>20, <1>25 DEF Handles, Ignored, EndsLine, Return
  <2> QED
    BY <2>1 DEF Reads
<1>7. CASE UNCHANGED copied /\ ~Plain(p) /\ Ignored
           /\ (LineEnd(p) => call.skip /\ \A q \in begun + 1 .. p : ~Plain(q))
  <2>1. LineSoFar'
    BY <1>2, <1>3, <1>7, <1>20, <1>23, <1>24, LineStays
  <2>2. GoesOn(Consumed)'
    BY <1>2, <1>3, <1>7, <1>20, <1>23, <1>24, GoesOnGrows
  <2>3. at' = at /\ skipNewline' = skipNewline /\ atEnd' = atEnd /\ result' = result /\ at # "idle"
    BY <1>7 DEF Ignored
  <2>4. Lines'
    BY <1>3, <1>20, <2>1, <2>2, <2>3 DEF Lines, Answered
  <2>5. copied' \in Seq(1 .. given')
    BY <1>13, <1>7
  <2>6. BufferedTypeOK'
    BY <1>1, <1>2, <1>4, <1>7, <1>13, <1>14, <1>20, <2>3, <2>5 DEF BufferedTypeOK
  <2>7. Fits'
    BY <1>2, <1>20, <1>21, <2>6 DEF Sound, Fits
  <2> QED
    BY <1>1, <1>2, <1>5, <1>6, <1>20, <1>23, <2>4, <2>7 DEF Sound
<1>8. CASE UNCHANGED copied /\ LineEnd(p) /\ ~Plain(p) /\ \E s \in BOOLEAN : EndsLine("SUCCESS", s)
  <2>1. LineSoFar'
    BY <1>2, <1>3, <1>8, <1>20, <1>23, <1>24, LineStays
  <2>2. GoesOn(Consumed - 1)'
    <3>1. PICK k \in Nat : k = Consumed /\ Consumed' = k + 1 /\ k + 1 - 1 = k
      BY <1>20, <1>23
    <3>2. GoesOn(k)
      BY <1>3, <3>1
    <3> QED
      BY <1>20, <3>1, <3>2 DEF GoesOn, LineEnd, Plain
  <2>3. at' = "idle" /\ skipNewline' \in BOOLEAN /\ atEnd' = atEnd /\ result' = "SUCCESS"
    BY <1>8, <1>22 DEF EndsLine, Return
  <2>4. LineEnd(Consumed)' /\ begun' < Consumed'
    <3>1. LineEnd(p)'
      BY <1>8, <1>20 DEF LineEnd
    <3>2. LineEnd(Consumed)'
      BY <1>24, <3>1 DEF LineEnd
    <3>3. begun' < Consumed'
      BY <1>1, <1>2, <1>20, <1>23
    <3> QED
      BY <3>2, <3>3
  <2>5. Lines'
    BY <2>1, <2>2, <2>3, <2>4 DEF Lines, Answered
  <2>6. copied' \in Seq(1 .. given')
    BY <1>13, <1>8
  <2>7. BufferedTypeOK'
    BY <1>1, <1>2, <1>4, <1>8, <1>13, <1>14, <1>20, <2>3, <2>6 DEF BufferedTypeOK
  <2>8. Fits'
    BY <1>2, <1>20, <1>21, <2>7 DEF Sound, Fits
  <2> QED
    BY <1>1, <1>2, <1>5, <1>6, <1>20, <1>23, <2>5, <2>8 DEF Sound
<1>9. CASE /\ Roomless /\ UNCHANGED copied
           /\ EndsLine("SUCCESS", FALSE) \/ EndsLine("NOT_ENOUGH_SPACE", FALSE)
  <2>1. at' = "idle" /\ skipNewline' = FALSE /\ atEnd' = atEnd /\ result' \in {"SUCCESS", "NOT_ENOUGH_SPACE"}
    BY <1>9, <1>22 DEF EndsLine, Return
  <2>2. ~(Len(copied') <= call'.room)
    BY <1>2, <1>4, <1>9, <1>20 DEF Roomless
  <2>3. Lines'
    BY <1>20, <2>1, <2>2 DEF Lines, Answered
  <2>4. copied' \in Seq(1 .. given')
    BY <1>13, <1>9
  <2>5. Fits'
    <3>1. BufferedTypeOK'
      <4>1. /\ at' \in {"idle", "line", "raw", "first", "read"}
            /\ result' \in {"none", "SUCCESS", "EOS", "TIMEOUT", "NOT_ENOUGH_SPACE"}
        BY <2>1
      <4>2. skipNewline' \in BOOLEAN /\ atEnd' \in BOOLEAN
        BY <1>22, <2>1
      <4> QED
        BY <1>1, <1>4, <1>9, <1>13, <1>14, <1>20, <2>4, <4>1, <4>2 DEF BufferedTypeOK
    <3>2. (capacity > 0 => size <= capacity)
      BY DEF Sound, Fits
    <3> QED
      BY <1>2, <1>20, <1>21, <3>1, <3>2 DEF Fits
  <2> QED
    BY <1>1, <1>2, <1>5, <1>6, <1>20, <1>23, <2>3, <2>5 DEF Sound
<1>10. CASE /\ text[p] = "char" /\ ~Roomless /\ copied' = Append(copied, p)
            /\ UNCHANGED <<at, atEnd, result, skipNewline>>
  <2>1. LineSoFar'
    BY <1>1, <1>2, <1>3, <1>10, <1>13, <1>20, <1>23, <1>24, LineGrows DEF Plain
  <2>2. GoesOn(Consumed)'
    BY <1>2, <1>3, <1>10, <1>20, <1>23, <1>24, GoesOnGrows DEF LineEnd
  <2>3. Lines'
    BY <1>3, <1>10, <1>20, <2>1, <2>2 DEF Lines, Answered
  <2>4. copied' \in Seq(1 .. given')
    BY <1>10, <1>13, AppendProperties
  <2>5. Len(copied') <= call'.room + 1
    <3>1. Len(copied) # call.room + 1
      BY <1>10 DEF Roomless
    <3>2. Len(copied') = Len(copied) + 1
      BY <1>10, <1>13, AppendProperties
    <3> QED
      BY <1>2, <1>4, <1>14, <1>20, <3>1, <3>2
  <2>6. Fits'
    BY <1>1, <1>2, <1>4, <1>13, <1>20, <1>21, <1>10, <2>4, <2>5 DEF BufferedTypeOK, Sound, Fits
  <2> QED
    BY <1>1, <1>2, <1>5, <1>6, <1>20, <1>23, <2>3, <2>6 DEF Sound
<1>11. CASE text[p] = "lf" /\ Skips /\ Ignored
  <2>1. ~Plain(p) /\ call.skip /\ copied = << >>
    BY <1>3, <1>11 DEF Skips, Plain
  <2>2. \A q \in begun + 1 .. p : ~Plain(q)
    BY <1>2, <1>3, <1>23, <1>24, <2>1, NoneYet
  <2> QED
    BY <1>7, <1>11, <2>1, <2>2 DEF Ignored
<1>12. CASE text[p] = "cr" /\ ~call.breakOnCr /\ Ignored
  BY <1>7, <1>12 DEF Plain, LineEnd, Ignored
<1> QED
  BY <1>8, <1>9, <1>10, <1>11, <1>12, <1>25 DEF Handles, Plain, LineEnd

LEMMA LineCharKeeps ==
  ASSUME Sound, LineChar
  PROVE  Sound'
<1>1. BufferedTypeOK /\ Behind /\ Lines /\ (capacity > 0 => Len(held) <= capacity)
  BY DEF Sound, Fits
<1>2. /\ at = "line" /\ held # << >> /\ held' = Tail(held)
      /\ UNCHANGED <<text, given, capacity, size, call, begun>>
  BY DEF LineChar
<1>3. /\ Head(held) = Consumed + 1 /\ Consumed' = Consumed + 1 /\ Behind'
      /\ Consumed \in Nat /\ Consumed + 1 \in 1 .. given /\ held' \in Seq(1 .. given')
      /\ Len(held') \in Nat /\ Len(held') < Len(held)
  BY <1>1, <1>2, TakesHead
<1>4. /\ Len(text) \in Nat /\ given \in Nat /\ given <= Len(text) /\ capacity \in Nat
      /\ Len(held) \in Nat
  BY <1>1, Shapes
<1>5. capacity > 0 => Len(held') <= capacity
  BY <1>1, <1>3, <1>4
<1>6. given' \in given .. Len(text) /\ Consumed + 1 \in 1 .. given'
  BY <1>2, <1>3, <1>4
<1>7. TakesOne
  BY <1>2, <1>3, <1>5, <1>6 DEF TakesOne
<1>8. Handles(Consumed + 1)
  BY <1>3 DEF LineChar, Handles
<1> QED
  BY <1>2, <1>7, <1>8, LineTakes

LEMMA RawTakes ==
  ASSUME Sound, at = "raw", Delivers(1, 1), UNCHANGED <<text, buffer, call, begun>>,
         Handles(given')
  PROVE  Sound'
<1>1. BufferedTypeOK /\ Behind /\ Lines /\ (capacity > 0 => Len(held) <= capacity)
  BY DEF Sound, Fits
<1>2. UNCHANGED <<text, held, capacity, size, call, begun>> /\ held = << >>
  BY <1>1 DEF buffer, Lines
<1>3. /\ Len(text) \in Nat /\ given \in Nat /\ given <= Len(text) /\ Consumed = given
  BY <1>1, <1>2, Shapes
<1>4. given' = given + 1 /\ given' \in given .. Len(text)
  BY <1>3 DEF Delivers
<1>5. held' = << >> /\ Len(held') = 0
  BY <1>2
<1>6. Consumed' = Consumed + 1 /\ Consumed + 1 = given' /\ Consumed + 1 \in 1 .. given'
  BY <1>3, <1>4, <1>5 DEF Consumed
<1>7. held' \in Seq(1 .. given') /\ Behind'
  <2>1. Places(Consumed' + 1, 0) = << >>
    BY DEF Places
  <2>2. held' = Places(Consumed' + 1, Len(held'))
    BY <1>5, <2>1
  <2>3. Len(held') <= given'
    BY <1>3, <1>4, <1>5
  <2> QED
    BY <1>5, <2>2, <2>3 DEF Behind
<1>8. TakesOne
  BY <1>1, <1>2, <1>4, <1>5, <1>6, <1>7 DEF TakesOne
<1>9. Handles(Consumed + 1)
  BY <1>6
<1> QED
  BY <1>8, <1>9, LineTakes

(* A source that has nothing, or has ended, ends the line.                   *)
LEMMA LineFails ==
  ASSUME Sound, at \in {"line", "raw"}, held = << >>,
         UNCHANGED <<text, call, begun, size, held, copied, given>>,
         capacity' = capacity \/ capacity' = Allocated,
         NEW why \in Failures, why = "EOS" => given = Len(text), EndsLine(why, FALSE)
  PROVE  Sound'
<1>1. BufferedTypeOK /\ Behind /\ Lines /\ Reads /\ Ends /\ begun <= Consumed
  BY DEF Sound, Fits
<1>2. /\ text \in Seq({"char", "cr", "lf"}) /\ Len(text) \in Nat
      /\ given \in Nat /\ given <= Len(text) /\ Consumed = given
      /\ copied \in Seq(1 .. given) /\ Len(copied) \in Nat
      /\ size \in Nat /\ capacity \in Nat /\ begun \in Nat
      /\ call \in LineCalls => call.op = "read_line" /\ call \notin ByteCalls
      /\ call.op = "read_line" => call \in LineCalls /\ call.room \in Nat
  BY <1>1, Shapes
<1>3. /\ call.op = "read_line" /\ skipNewline = call.skip /\ LineSoFar /\ GoesOn(Consumed)
  BY <1>1 DEF Lines
<1>4. Consumed' = Consumed
  BY DEF Consumed
<1>5. /\ at' = "idle" /\ skipNewline' = FALSE /\ atEnd' = (atEnd \/ why = "EOS")
      /\ result' = IF why = "EOS" /\ copied' # << >> THEN "SUCCESS" ELSE why
  BY DEF EndsLine, Return
<1>6. atEnd \in BOOLEAN
  BY <1>1 DEF BufferedTypeOK
<1>7. why \in {"TIMEOUT", "EOS"}
  BY DEF Failures
<1>8. /\ atEnd' \in BOOLEAN
      /\ atEnd' => given = Len(text)
      /\ result' = "SUCCESS" => atEnd'
      /\ result' = "EOS" => why = "EOS" /\ copied = << >>
      /\ result' \in {"SUCCESS", "EOS", "TIMEOUT"}
  BY <1>1, <1>5, <1>6, <1>7 DEF Ends
<1>9. Ends'
  BY <1>2, <1>4, <1>8 DEF Ends, Answered
<1>10. Reads'
  BY <1>3, <1>5 DEF Reads
<1>11. LineSoFar' /\ GoesOn(Consumed - 1)'
  <2>1. LineSoFar'
    BY <1>3, <1>4 DEF LineSoFar, Plain
  <2>2. PICK k \in Nat, b \in Nat : k = Consumed /\ b = begun
    BY <1>2
  <2>3. \A p \in b + 1 .. k - 1 : p \in b + 1 .. k
    OBVIOUS
  <2>4. GoesOn(k - 1)
    BY <1>3, <2>2, <2>3 DEF GoesOn
  <2> QED
    BY <1>4, <2>1, <2>2, <2>4 DEF GoesOn, LineEnd, Plain
<1>12. Lines'
  BY <1>2, <1>4, <1>5, <1>8, <1>11 DEF Lines, Answered
<1>13. capacity' \in Sizes \cup {0} /\ (capacity' > 0 => Len(held) <= capacity' /\ size <= capacity')
  BY <1>1, <1>2 DEF Sound, Fits, BufferedTypeOK, Allocated
<1>14. Fits'
  <2>1. BufferedTypeOK'
    BY <1>1, <1>2, <1>3, <1>5, <1>8, <1>13 DEF BufferedTypeOK
  <2> QED
    BY <1>13, <2>1 DEF Fits
<1>15. Behind'
  BY <1>1, <1>4 DEF Behind
<1> QED
  BY <1>1, <1>4, <1>9, <1>10, <1>12, <1>14, <1>15 DEF Sound

LEMMA RawCharKeeps ==
  ASSUME Sound, RawChar
  PROVE  Sound'
<1>1. at = "raw" /\ UNCHANGED <<text, buffer, call, begun>>
  BY DEF RawChar
<1>2. CASE Delivers(1, 1) /\ Handles(given')
  BY <1>1, <1>2, RawTakes
<1>3. CASE \E why \in Failures : SourceFails(why) /\ UNCHANGED copied /\ EndsLine(why, FALSE)
  <2>1. PICK why \in Failures : SourceFails(why) /\ UNCHANGED copied /\ EndsLine(why, FALSE)
    BY <1>3
  <2>2. why = "EOS" => given = Len(text)
    BY <2>1 DEF SourceFails
  <2>3. held = << >> /\ UNCHANGED <<text, call, begun, size, held, copied, given, capacity>>
    BY <1>1, <2>1 DEF Sound, Lines, buffer, SourceFails
  <2> QED
    BY <1>1, <2>1, <2>2, <2>3, LineFails
<1> QED
  BY <1>2, <1>3 DEF RawChar, Handles

-----------------------------------------------------------------------------
(* fill_buffer.                                                              *)
LEMMA Refills ==
  ASSUME Sound, held = << >>, NEW k \in 1 .. size, Filled(k)
  PROVE  /\ given' = given + k /\ given' \in Nat /\ given' <= Len(text) /\ ~atEnd
         /\ Block(k) \in Seq(1 .. given') /\ Len(Block(k)) = k /\ k \in Nat /\ k > 0
         /\ Block(k) = Places(Consumed + 1, k) /\ Consumed = given
         /\ capacity' \in Sizes \cup {0} /\ k <= capacity' /\ size <= capacity'
<1>1. BufferedTypeOK /\ (capacity > 0 => size <= capacity)
  BY DEF Sound, Fits
<1>2. Len(text) \in Nat /\ given \in Nat /\ size \in Nat /\ capacity \in Nat
  BY <1>1, Shapes
<1>3. ~atEnd /\ given' = given + k /\ given + k <= Len(text) /\ capacity' = Allocated
  BY DEF Filled, Delivers
<1>4. k \in Nat /\ k > 0 /\ k <= size
  BY <1>2
<1>5. capacity' \in Sizes \cup {0} /\ size <= capacity'
  BY <1>1, <1>2, <1>3 DEF Allocated, BufferedTypeOK
<1>6. k <= capacity'
  BY <1>2, <1>3, <1>4, <1>5 DEF Allocated
<1>7. /\ Block(k) \in Seq(1 .. given') /\ Len(Block(k)) = k
      /\ Block(k) = Places(Consumed + 1, k) /\ Consumed = given
  BY <1>1, <1>3, <1>4, TakesBlock
<1>8. given' \in Nat /\ given' <= Len(text)
  BY <1>2, <1>3, <1>4
<1> QED
  BY <1>3, <1>4, <1>5, <1>6, <1>7, <1>8

LEMMA LineFillKeeps ==
  ASSUME Sound, LineFill
  PROVE  Sound'
<1>1. at = "line" /\ held = << >> /\ UNCHANGED <<text, size, call, begun>>
  BY DEF LineFill
<1>2. ASSUME NEW k \in 1 .. size, Filled(k), held' = Block(k), Ignored
      PROVE  Sound'
  <2>1. BufferedTypeOK /\ Behind /\ Lines /\ Reads /\ Ends /\ begun <= Consumed
    BY DEF Sound, Fits
  <2>2. /\ Len(text) \in Nat /\ given \in Nat /\ given <= Len(text) /\ Consumed = given
        /\ copied \in Seq(1 .. given) /\ Len(copied) \in Nat
        /\ size \in Nat /\ capacity \in Nat /\ begun \in Nat
        /\ call \in LineCalls => call \notin ByteCalls
        /\ call.op = "read_line" => call \in LineCalls
    BY <1>1, <2>1, Shapes
  <2>3. /\ given' = given + k /\ given' \in Nat /\ given' <= Len(text) /\ ~atEnd
        /\ Block(k) \in Seq(1 .. given') /\ Len(Block(k)) = k /\ k \in Nat
        /\ Block(k) = Places(Consumed + 1, k)
        /\ capacity' \in Sizes \cup {0} /\ k <= capacity' /\ size <= capacity'
    BY <1>1, <1>2, Refills
  <2>4. /\ call.op = "read_line" /\ skipNewline = call.skip /\ LineSoFar /\ GoesOn(Consumed)
    BY <1>1, <2>1 DEF Lines
  <2>5. held' = Places(Consumed + 1, k) /\ Len(held') = k
    BY <1>2, <2>3
  <2>6. Consumed' = Consumed
    <3>1. given' - k = given
      BY <2>2, <2>3
    <3>2. Consumed' = given' - k
      BY <2>5 DEF Consumed
    <3> QED
      BY <2>2, <3>1, <3>2
  <2>7. UNCHANGED <<at, copied, atEnd, result, skipNewline>>
    BY <1>2 DEF Ignored
  <2>8. copied' \in Seq(1 .. given')
    <3>1. given <= given'
      BY <2>2, <2>3
    <3> QED
      BY <2>2, <2>3, <2>7, <3>1, SeqGrows
  <2>9. BufferedTypeOK'
    BY <1>1, <1>2, <2>1, <2>2, <2>3, <2>4, <2>7, <2>8 DEF BufferedTypeOK
  <2>10. Fits'
    BY <1>1, <2>3, <2>5, <2>9 DEF Fits
  <2>11. Behind'
    BY <2>2, <2>3, <2>5, <2>6 DEF Behind
  <2>12. Lines'
    <3>1. LineSoFar' /\ GoesOn(Consumed)'
      BY <1>1, <2>4, <2>6, <2>7 DEF LineSoFar, GoesOn, Plain, LineEnd
    <3> QED
      BY <1>1, <2>4, <2>7, <3>1 DEF Lines, Answered
  <2>13. Reads' /\ Ends'
    BY <1>1, <2>3, <2>4, <2>7 DEF Reads, Ends
  <2> QED
    BY <1>1, <2>1, <2>6, <2>10, <2>11, <2>12, <2>13 DEF Sound
<1>3. ASSUME NEW why \in Failures, FillFails(why), UNCHANGED <<held, copied>>, EndsLine(why, FALSE)
      PROVE  Sound'
  <2>1. why = "EOS" => given = Len(text)
    BY <1>3 DEF FillFails, SourceFails, Sound, Ends
  <2>2. UNCHANGED given /\ (capacity' = capacity \/ capacity' = Allocated)
    BY <1>3 DEF FillFails, SourceFails
  <2> QED
    BY <1>1, <1>3, <2>1, <2>2, LineFails
<1> QED
  BY <1>2, <1>3 DEF LineFill

LEMMA LineReleaseKeeps ==
  ASSUME Sound, LineRelease
  PROVE  Sound'
<1>1. /\ at = "line" /\ held = << >> /\ size = 0 /\ at' = "raw" /\ capacity' = 0
      /\ UNCHANGED <<text, given, held, size, skipNewline, atEnd, call, begun, copied, result>>
  BY DEF LineRelease
<1>2. BufferedTypeOK /\ Behind /\ Lines /\ Reads /\ Ends /\ begun <= Consumed
  BY DEF Sound, Fits
<1>3. Consumed' = Consumed
  BY <1>1 DEF Consumed
<1>4. BufferedTypeOK'
  BY <1>1, <1>2 DEF BufferedTypeOK
<1>5. Fits' /\ Behind' /\ Ends'
  BY <1>1, <1>2, <1>3, <1>4 DEF Fits, Behind, Ends
<1>6. Lines'
  <2>1. call.op = "read_line" /\ skipNewline = call.skip /\ LineSoFar /\ GoesOn(Consumed)
    BY <1>1, <1>2 DEF Lines
  <2>2. LineSoFar' /\ GoesOn(Consumed)'
    BY <1>1, <1>3, <2>1 DEF LineSoFar, GoesOn, Plain, LineEnd
  <2> QED
    BY <1>1, <2>1, <2>2 DEF Lines, Answered
<1>7. Reads'
  BY <1>1, <1>2 DEF Reads, Lines
<1> QED
  BY <1>1, <1>2, <1>3, <1>5, <1>6, <1>7 DEF Sound

-----------------------------------------------------------------------------
(* A call begins, or needs nothing of the source.                            *)
LEMMA ReadLineKeeps ==
  ASSUME Sound, ReadLine
  PROVE  Sound'
<1>1. PICK room \in Rooms, brk \in BOOLEAN :
        Begin([op |-> "read_line", room |-> room, breakOnCr |-> brk, skip |-> skipNewline], "line")
  BY DEF ReadLine
<1>2. UNCHANGED <<text, given, held, capacity, size, skipNewline, atEnd>>
  BY DEF ReadLine, buffer
<1>3. BufferedTypeOK /\ Behind /\ Ends
  BY DEF Sound, Fits
<1>4. /\ given \in Nat /\ Len(text) \in Nat /\ Consumed \in Int /\ given <= Len(text) /\ Len(held) \in Nat
      /\ skipNewline \in BOOLEAN
  BY <1>3, Shapes DEF BufferedTypeOK
<1>5. Consumed \in 0 .. Len(text)
  BY <1>3, <1>4 DEF Behind, Consumed
<1>6. Consumed' = Consumed
  BY <1>2 DEF Consumed
<1>7. /\ at' = "line" /\ begun' = Consumed /\ copied' = << >> /\ result' = "none"
      /\ call' \in LineCalls /\ call' \notin ByteCalls
      /\ call'.op = "read_line" /\ call'.skip = skipNewline /\ Len(copied') <= call'.room + 1
  <2>1. \A n \in Rooms : n \in Nat
    BY BufferedAssumption
  <2> QED
    BY <1>1, <1>4, <2>1 DEF Begin, LineCalls, ByteCalls
<1>8. BufferedTypeOK'
  BY <1>2, <1>3, <1>5, <1>7 DEF BufferedTypeOK
<1>9. Fits' /\ Behind' /\ Ends'
  BY <1>2, <1>3, <1>6, <1>7, <1>8 DEF Fits, Sound, Behind, Ends
<1>10. LineSoFar' /\ GoesOn(Consumed)'
  <2>1. PICK k \in Nat : k = Consumed
    BY <1>5
  <2>2. ToSet(copied') = {}
    BY <1>7 DEF ToSet
  <2>3. begun' + 1 .. Consumed' = {}
    BY <1>6, <1>7, <2>1
  <2>4. DOMAIN copied' = {}
    BY <1>7
  <2> QED
    BY <2>2, <2>3, <2>4 DEF LineSoFar, GoesOn
<1>11. Lines' /\ Reads'
  BY <1>2, <1>7, <1>10 DEF Lines, Reads, Answered
<1> QED
  BY <1>5, <1>6, <1>7, <1>9, <1>11 DEF Sound

LEMMA Reallocates ==
  ASSUME Sound, NEW s \in Nat, Moves(s), ~overrun'
  PROVE  held' = held /\ capacity' = s /\ Len(held) <= s
<1>1. given \in Nat /\ held \in Seq(1 .. given) /\ Len(held) \in Nat
  BY Shapes DEF Sound, Fits
<1>2. capacity' = s /\ held' \in Squeezed(s) /\ Len(held) <= s
  <2>1. capacity' = s /\ held' \in Squeezed(s) /\ ~(Len(held) > s)
    BY Zenon DEF Moves
  <2> QED
    BY <1>1, <2>1
<1>3. [i \in DOMAIN held |-> IF i <= s THEN held[i] ELSE 1] = held
  <2>1. \A i \in DOMAIN held : i <= s
    BY <1>1, <1>2
  <2>2. \A i \in DOMAIN held : (IF i <= s THEN held[i] ELSE 1) = held[i]
    BY <2>1
  <2>3. held = [i \in DOMAIN held |-> held[i]]
    BY <1>1
  <2> QED
    BY <2>2, <2>3
<1> QED
  BY <1>2, <1>3 DEF Squeezed

LEMMA SetBufferSizeKeeps ==
  ASSUME Sound, SetBufferSize, ~overrun'
  PROVE  Sound'
<1>1. /\ at = "idle"
      /\ UNCHANGED <<text, given, skipNewline, atEnd, at, call, begun, copied, result>>
  BY DEF SetBufferSize
<1>2. PICK s \in Sizes, force \in BOOLEAN :
        /\ size' = s
        /\ IF Made /\ (size < s \/ force) THEN Moves(s) ELSE UNCHANGED <<held, capacity, overrun>>
  BY DEF SetBufferSize
<1>3. BufferedTypeOK /\ Behind /\ Lines /\ Reads /\ Ends /\ begun <= Consumed
      /\ (capacity > 0 => Len(held) <= capacity /\ size <= capacity)
  BY DEF Sound, Fits
<1>4. size \in Nat /\ capacity \in Nat /\ Len(held) \in Nat /\ s \in Nat
  BY <1>3, Shapes, BufferedAssumption
<1>11. /\ held' = held
       /\ (capacity' = s /\ Len(held) <= s) \/ (capacity' = capacity /\ (capacity > 0 => s <= size))
  <2>1. CASE Made /\ (size < s \/ force)
    BY <1>2, <1>4, <2>1, Reallocates
  <2>2. CASE ~(Made /\ (size < s \/ force))
    BY <1>2, <1>4, <2>2 DEF Made
  <2> QED
    BY <2>1, <2>2
<1>5. capacity' \in Sizes \cup {0} /\ size' \in Sizes
      /\ (capacity' > 0 => Len(held) <= capacity' /\ size' <= capacity')
  BY <1>2, <1>3, <1>4, <1>11 DEF BufferedTypeOK
<1>6. Consumed' = Consumed
  BY <1>1, <1>11 DEF Consumed
<1>7. BufferedTypeOK'
  BY <1>1, <1>3, <1>5, <1>11 DEF BufferedTypeOK
<1>8. Fits' /\ Behind' /\ Ends'
  BY <1>1, <1>3, <1>5, <1>6, <1>7, <1>11 DEF Fits, Behind, Ends
<1>9. Lines'
  BY <1>1, <1>3, <1>6 DEF Lines, Answered, LineSoFar, GoesOn, Plain, LineEnd
<1>10. Reads'
  BY <1>1, <1>3, <1>6 DEF Reads, Newline
<1> QED
  BY <1>1, <1>3, <1>6, <1>8, <1>9, <1>10 DEF Sound

-----------------------------------------------------------------------------
(* read.                                                                     *)
LEMMA ReadKeeps ==
  ASSUME Sound, ReadBytes
  PROVE  Sound'
<1>1. PICK n \in Wants :
        Begin([op |-> "read", want |-> n, skip |-> skipNewline],
              IF skipNewline THEN "first" ELSE "read")
  BY DEF ReadBytes
<1>2. UNCHANGED <<text, given, held, capacity, size, atEnd>> /\ skipNewline' = FALSE
  BY DEF ReadBytes, buffer
<1>3. BufferedTypeOK /\ Behind /\ Ends
  BY DEF Sound, Fits
<1>4. /\ given \in Nat /\ Len(text) \in Nat /\ Consumed \in Int /\ given <= Len(text) /\ Len(held) \in Nat
      /\ skipNewline \in BOOLEAN
  BY <1>3, Shapes DEF BufferedTypeOK
<1>5. Consumed \in 0 .. Len(text)
  BY <1>3, <1>4 DEF Behind, Consumed
<1>6. Consumed' = Consumed
  BY <1>2 DEF Consumed
<1>7. /\ at' \in {"first", "read"} /\ (at' = "first" <=> skipNewline)
      /\ begun' = Consumed /\ copied' = << >> /\ result' = "none"
      /\ call' \in ByteCalls /\ call' \notin LineCalls /\ call'.want \in Nat
      /\ call'.op = "read" /\ call'.skip = skipNewline
  <2>1. \A w \in Wants : w \in Nat
    BY BufferedAssumption
  <2> QED
    BY <1>1, <1>4, <2>1 DEF Begin, ByteCalls, LineCalls
<1>8. BufferedTypeOK'
  <2>1. Len(copied') <= call'.want /\ copied' \in Seq(1 .. given')
    BY <1>7
  <2>2. begun' \in 0 .. Len(text')
    BY <1>2, <1>5, <1>7
  <2>3. /\ at' \in {"idle", "line", "raw", "first", "read"}
        /\ result' \in {"none", "SUCCESS", "EOS", "TIMEOUT", "NOT_ENOUGH_SPACE"}
    BY <1>7
  <2> QED
    BY <1>2, <1>3, <1>7, <2>1, <2>2, <2>3 DEF BufferedTypeOK
<1>9. Fits' /\ Behind' /\ Ends'
  BY <1>2, <1>3, <1>6, <1>7, <1>8 DEF Fits, Sound, Behind, Ends
<1>10. Lines'
  BY <1>7 DEF Lines, Answered
<1>11. Reads'
  <2>1. PICK k \in Nat : k = Consumed
    BY <1>5
  <2>2. Newline' = 0
    BY <1>6, <1>7, <2>1 DEF Newline
  <2>3. \A f : Places(f, 0) = << >>
    BY DEF Places
  <2>4. Consumed' - begun' - Newline' = 0
    BY <1>6, <1>7, <2>1, <2>2
  <2>5. copied' = Places(begun' + 1 + Newline', Consumed' - begun' - Newline')
    BY <1>7, <2>3, <2>4
  <2> QED
    BY <1>6, <1>7, <2>5 DEF Reads
<1> QED
  BY <1>5, <1>6, <1>7, <1>9, <1>10, <1>11 DEF Sound

(* The end of a call: what was taken, and what of it was handed out.         *)
LEMMA ReadFirstKeeps_Byte ==
  ASSUME Sound, at = "first",
         UNCHANGED <<text, size, skipNewline, call, begun, atEnd, result>>,
         given' \in given .. Len(text), held' \in Seq(1 .. given'), Behind',
         capacity' \in Sizes \cup {0}, capacity' > 0 => Len(held') <= capacity' /\ size <= capacity',
         atEnd => given' = given, Consumed' = Consumed + 1, FirstIs(Consumed + 1)
  PROVE  Sound'
<1>1. BufferedTypeOK /\ Behind /\ Lines /\ Reads /\ Ends /\ begun <= Consumed
  BY DEF Sound, Fits
<1>2. /\ Len(text) \in Nat /\ given \in Nat /\ given <= Len(text) /\ begun \in Nat /\ Len(held) \in Nat
      /\ call.op \in {"read", "peek"} => call \in ByteCalls /\ call.want \in Nat /\ call.want > 0
      /\ call \in ByteCalls => call \notin LineCalls
  BY <1>1, Shapes
<1>3. /\ call.op = "read" /\ call.skip /\ begun = Consumed
  BY <1>1 DEF Reads
<1>4. PICK k \in Nat : k = Consumed /\ k = begun /\ Consumed' = k + 1
  BY <1>2, <1>3
<1>5. k + 1 \in 1 .. given'
  <2>1. PICK g \in Nat, n \in Nat : g = given' /\ n = Len(held') /\ n <= g
    BY <1>2 DEF Behind
  <2>2. k + 1 = g - n
    BY <1>4, <2>1 DEF Consumed
  <2> QED
    BY <2>1, <2>2
<1>6. /\ copied' = IF text[k + 1] = "lf" THEN << >> ELSE <<k + 1>>
      /\ at' = "read"
  BY <1>4 DEF FirstIs
<1>7. copied' \in Seq(1 .. given') /\ Len(copied') <= 1
  <2>1. << >> \in Seq(1 .. given') /\ Len(<< >>) <= 1
    OBVIOUS
  <2>2. <<k + 1>> \in Seq(1 .. given')
    BY <1>5
  <2>3. Len(<<k + 1>>) <= 1
    OBVIOUS
  <2> QED
    BY <1>6, <2>1, <2>2, <2>3
<1>8. BufferedTypeOK'
  <2>1. Len(copied') <= call'.want
    BY <1>2, <1>3, <1>7
  <2>2. given' \in 0 .. Len(text')
    BY <1>2
  <2> QED
    BY <1>1, <1>2, <1>3, <1>6, <1>7, <2>1, <2>2 DEF BufferedTypeOK
<1>9. Fits'
  BY <1>8 DEF Fits
<1>10. Ends'
  BY <1>1, <1>6 DEF Ends
<1>11. Lines'
  BY <1>6 DEF Lines, Answered
<1>12. Reads'
  <2>1. Newline' = IF text[k + 1] = "lf" THEN 1 ELSE 0
    BY <1>3, <1>4 DEF Newline
  <2>2. \A f : Places(f, 0) = << >>
    BY DEF Places
  <2>3. Places(k + 1, 1) = <<k + 1>>
    <3>1. Places(k + 1, 1) = [i \in 1 .. 1 |-> k + 1]
      BY DEF Places
    <3> QED
      BY <3>1
  <2>4. CASE text[k + 1] = "lf"
    <3>1. Newline' = 1 /\ copied' = << >>
      BY <1>6, <2>1, <2>4
    <3>2. Consumed' - begun' - Newline' = 0
      BY <1>4, <3>1
    <3>3. copied' = Places(begun' + 1 + Newline', Consumed' - begun' - Newline')
      BY <2>2, <3>1, <3>2
    <3> QED
      BY <1>3, <1>4, <1>6, <3>3 DEF Reads
  <2>5. CASE text[k + 1] # "lf"
    <3>1. Newline' = 0 /\ copied' = <<k + 1>>
      BY <1>6, <2>1, <2>5
    <3>2. Consumed' - begun' - Newline' = 1 /\ begun' + 1 + Newline' = k + 1
      BY <1>4, <3>1
    <3>3. copied' = Places(begun' + 1 + Newline', Consumed' - begun' - Newline')
      BY <2>3, <3>1, <3>2
    <3> QED
      BY <1>3, <1>4, <1>6, <3>3 DEF Reads
  <2> QED
    BY <2>4, <2>5
<1>13. begun' <= Consumed'
  BY <1>4
<1> QED
  BY <1>9, <1>10, <1>11, <1>12, <1>13 DEF Sound

(* read gives up: before its first byte, or after it.                        *)
LEMMA ReadFails ==
  ASSUME Sound, at \in {"first", "read"}, held = << >>,
         UNCHANGED <<text, call, begun, size, held, copied, given, skipNewline>>,
         capacity' = 0 \/ capacity' = capacity \/ capacity' = Allocated,
         NEW why \in Failures, why = "EOS" => given = Len(text), Return(why)
  PROVE  Sound'
<1>1. BufferedTypeOK /\ Behind /\ Lines /\ Reads /\ Ends /\ begun <= Consumed
  BY DEF Sound, Fits
<1>2. /\ Len(text) \in Nat /\ given \in Nat /\ Consumed = given
      /\ size \in Nat /\ capacity \in Nat /\ begun \in Nat
  BY <1>1, Shapes
<1>3. call.op = "read" /\ copied = Places(begun + 1 + Newline, Consumed - begun - Newline)
  BY <1>1 DEF Reads
<1>4. Consumed' = Consumed /\ Newline' = Newline
  BY DEF Consumed, Newline
<1>5. /\ at' = "idle" /\ atEnd' = (atEnd \/ why = "EOS")
      /\ result' = IF why = "EOS" /\ copied' # << >> THEN "SUCCESS" ELSE why
  BY DEF Return
<1>6. why \in {"TIMEOUT", "EOS"} /\ atEnd \in BOOLEAN
  BY <1>1 DEF Failures, BufferedTypeOK
<1>7. /\ atEnd' \in BOOLEAN
      /\ atEnd' => given = Len(text)
      /\ result' = "SUCCESS" => copied # << >>
      /\ result' = "EOS" => why = "EOS" /\ copied = << >>
      /\ result' \in {"SUCCESS", "EOS", "TIMEOUT"}
  BY <1>1, <1>5, <1>6 DEF Ends
<1>8. Ends'
  BY <1>2, <1>4, <1>7 DEF Ends, Answered
<1>9. Reads'
  BY <1>3, <1>4, <1>5, <1>7 DEF Reads
<1>10. Lines'
  BY <1>3, <1>5 DEF Lines, Answered
<1>11. capacity' \in Sizes \cup {0} /\ (capacity' > 0 => Len(held) <= capacity' /\ size <= capacity')
  BY <1>1, <1>2 DEF Sound, Fits, BufferedTypeOK, Allocated
<1>12. Fits'
  <2>1. BufferedTypeOK'
    BY <1>1, <1>2, <1>3, <1>5, <1>7, <1>11 DEF BufferedTypeOK
  <2> QED
    BY <1>11, <2>1 DEF Fits
<1>13. Behind'
  BY <1>1, <1>4 DEF Behind
<1> QED
  BY <1>1, <1>4, <1>8, <1>9, <1>10, <1>12, <1>13 DEF Sound

(* A source that cannot be asked, or that was and failed.                    *)
LEMMA Failed ==
  ASSUME Sound, NEW why
  PROVE  /\ FillFails(why) => UNCHANGED given /\ (capacity' = capacity \/ capacity' = Allocated)
                               /\ (why = "EOS" => given = Len(text))
         /\ SourceFails(why) => UNCHANGED given /\ (why = "EOS" => given = Len(text))
BY DEF FillFails, SourceFails, Sound, Ends

LEMMA ReadFirstKeeps ==
  ASSUME Sound, ReadFirst
  PROVE  Sound'
<1>1. at = "first" /\ UNCHANGED <<text, size, skipNewline, call, begun>>
  BY DEF ReadFirst
<1>2. BufferedTypeOK /\ Behind /\ Lines /\ Reads /\ Ends /\ begun <= Consumed
      /\ (capacity > 0 => Len(held) <= capacity /\ size <= capacity)
  BY DEF Sound, Fits
<1>3. /\ Len(text) \in Nat /\ given \in Nat /\ given <= Len(text) /\ begun \in Nat /\ Len(held) \in Nat
      /\ size \in Nat /\ capacity \in Nat
  BY <1>2, Shapes
<1>4. capacity \in Sizes \cup {0} /\ (atEnd => given = Len(text))
  BY <1>2 DEF BufferedTypeOK, Ends
<1>5. CASE /\ held # << >> /\ FirstIs(Head(held)) /\ held' = Tail(held)
           /\ UNCHANGED <<given, capacity, atEnd, result>>
  <2>1. /\ Head(held) = Consumed + 1 /\ Consumed' = Consumed + 1 /\ Behind'
        /\ held' \in Seq(1 .. given') /\ Len(held') \in Nat /\ Len(held') < Len(held)
    BY <1>2, <1>5, TakesHead
  <2>2. FirstIs(Consumed + 1) /\ given' = given
    BY <1>5, <2>1
  <2>3. capacity' > 0 => Len(held') <= capacity' /\ size <= capacity'
    BY <1>2, <1>3, <1>5, <2>1
  <2>4. given' \in given .. Len(text)
    BY <1>3, <2>2
  <2> QED
    BY <1>1, <1>4, <1>5, <2>1, <2>2, <2>3, <2>4, ReadFirstKeeps_Byte
<1>6. CASE /\ held = << >> /\ capacity' = 0 /\ UNCHANGED held
           /\ Delivers(1, 1) /\ FirstIs(given') /\ UNCHANGED <<atEnd, result>>
  <2>1. given' = given + 1 /\ given' \in given .. Len(text)
    BY <1>3, <1>6 DEF Delivers
  <2>2. Consumed = given /\ held' = << >> /\ Len(held') = 0
    BY <1>2, <1>6, Shapes
  <2>3. Consumed' = Consumed + 1 /\ FirstIs(Consumed + 1)
    BY <1>3, <1>6, <2>1, <2>2 DEF Consumed
  <2>4. held' \in Seq(1 .. given') /\ Behind'
    <3>1. \A f : Places(f, 0) = << >>
      BY DEF Places
    <3> QED
      BY <1>3, <2>1, <2>2, <3>1 DEF Behind
  <2>5. ~atEnd
    BY <1>3, <1>4, <2>1
  <2>6. capacity' \in Sizes \cup {0} /\ ~(capacity' > 0)
    BY <1>6
  <2> QED
    BY <1>1, <1>6, <2>1, <2>3, <2>4, <2>5, <2>6, ReadFirstKeeps_Byte
<1>7. ASSUME held = << >>, NEW k \in 1 .. size, Filled(k), FirstIs(given + 1),
             held' = Tail(Block(k)), UNCHANGED <<atEnd, result>>
      PROVE  Sound'
  <2>1. /\ given' = given + k /\ given' \in Nat /\ given' <= Len(text) /\ ~atEnd
        /\ Block(k) = Places(Consumed + 1, k) /\ Consumed = given /\ k \in Nat /\ k > 0
        /\ capacity' \in Sizes \cup {0} /\ k <= capacity' /\ size <= capacity'
    BY <1>7, Refills
  <2>2. PICK g \in Nat, f \in Int, m \in Nat :
          /\ g = given /\ f = g + 1 + 1 /\ m = k - 1 /\ f > 0 /\ f + m - 1 <= g + k
    BY <1>3, <2>1
  <2>3. held' = Places(f, m)
    <3>1. Block(k) = Places(g + 1, k)
      BY <2>1, <2>2
    <3> QED
      BY <1>7, <2>1, <2>2, <3>1, StretchTail
  <2>4. Len(held') = m
    BY <2>2, <2>3, Stretch
  <2>5. held' \in Seq(1 .. given')
    <3>1. Places(f, m) \in Seq(1 .. g + k)
      BY <2>1, <2>2, Stretch
    <3> QED
      BY <2>1, <2>2, <2>3, <3>1
  <2>6. Consumed' = Consumed + 1 /\ f = Consumed' + 1 /\ m <= given'
    <3>1. Consumed' = g + k - m
      BY <2>1, <2>2, <2>4 DEF Consumed
    <3> QED
      BY <2>1, <2>2, <3>1
  <2>7. Behind'
    BY <2>3, <2>4, <2>6 DEF Behind
  <2>8. capacity' > 0 => Len(held') <= capacity' /\ size <= capacity'
    <3>1. capacity' \in Nat
      BY <2>1, BufferedAssumption
    <3> QED
      BY <1>3, <2>1, <2>2, <2>4, <3>1
  <2>9. given' \in given .. Len(text) /\ FirstIs(Consumed + 1)
    BY <1>3, <1>7, <2>1
  <2> QED
    BY <1>1, <1>7, <2>1, <2>5, <2>6, <2>7, <2>8, <2>9, ReadFirstKeeps_Byte
<1>8. ASSUME held = << >>, capacity' = 0, UNCHANGED held,
             NEW why \in Failures, SourceFails(why), UNCHANGED copied, Return(why)
      PROVE  Sound'
  BY <1>1, <1>8, Failed, ReadFails
<1>9. ASSUME held = << >>, NEW why \in Failures, FillFails(why), UNCHANGED <<held, copied>>, Return(why)
      PROVE  Sound'
  BY <1>1, <1>9, Failed, ReadFails
<1> QED
  BY <1>5, <1>6, <1>7, <1>8, <1>9 DEF ReadFirst

LEMMA OutGrows ==
  ASSUME NEW b \in Nat, NEW l \in Nat, NEW j \in Nat, NEW g \in Nat, b > 0, b + l + j <= g + 1
  PROVE  /\ Len(Places(b, l)) = l
         /\ Places(b, l) \o Places(b + l, j) = Places(b, l + j)
         /\ Len(Places(b, l + j)) = l + j /\ Places(b, l + j) \in Seq(1 .. g)
<1>1. Len(Places(b, l)) = l
  <2>1. b \in Int
    OBVIOUS
  <2> QED
    BY <2>1, Stretch
<1>5. Places(b, l) \o Places(b + l, j) = Places(b, l + j)
  <2>1. b \in Int
    OBVIOUS
  <2> QED
    BY <2>1, StretchJoin
<1>2. PICK m \in Nat : m = l + j /\ b + m - 1 <= g
  OBVIOUS
<1>3. Len(Places(b, m)) = m
  BY <1>2, Stretch
<1>4. Places(b, m) \in Seq(1 .. g)
  BY <1>2, Stretch
<1> QED
  BY <1>1, <1>2, <1>3, <1>4, <1>5

(* What is left in the buffer when the source has delivered g bytes.         *)
LEMMA BufferShrinks ==
  ASSUME NEW g \in Nat, NEW k \in Nat, NEW j \in Nat, k + j <= g, given' = g,
         held' = Places(k + 1 + j, g - k - j)
  PROVE  held' \in Seq(1 .. given') /\ Len(held') = g - k - j /\ Consumed' = k + j /\ Behind'
<1>1. PICK f \in Int, m \in Nat : f = k + 1 + j /\ m = g - k - j /\ f > 0 /\ f + m - 1 <= g /\ m <= g
  OBVIOUS
<1>2. held' = Places(f, m)
  BY <1>1
<1>3. Len(Places(f, m)) = m
  BY <1>1, Stretch
<1>4. Places(f, m) \in Seq(1 .. g)
  BY <1>1, Stretch
<1>5. Consumed' = k + j /\ f = k + j + 1
  BY <1>1, <1>2, <1>3 DEF Consumed
<1>6. Behind'
  BY <1>1, <1>2, <1>3, <1>5 DEF Behind
<1> QED
  BY <1>1, <1>2, <1>3, <1>4, <1>5, <1>6

LEMMA ReadEnds ==
  ASSUME Sound, at = "read",
         UNCHANGED <<text, size, skipNewline, call, begun>>,
         given' \in given .. Len(text), held' \in Seq(1 .. given'), Behind',
         capacity' \in Sizes \cup {0}, capacity' > 0 => Len(held') <= capacity' /\ size <= capacity',
         atEnd => given' = given,
         NEW j \in Nat, Consumed' = Consumed + j, copied' = copied \o Places(Consumed + 1, j),
         j <= Left, j > 0 \/ Left = 0, Return("SUCCESS")
  PROVE  Sound'
<1>1. BufferedTypeOK /\ Behind /\ Lines /\ Reads /\ Ends /\ begun <= Consumed
  BY DEF Sound, Fits
<1>2. /\ Len(text) \in Nat /\ given \in Nat /\ given <= Len(text) /\ begun \in Nat /\ Len(held) \in Nat
      /\ Len(copied) \in Nat /\ Consumed \in Int
      /\ call.op \in {"read", "peek"} => call \in ByteCalls /\ call.want \in Nat /\ call.want > 0
      /\ call \in ByteCalls => call \notin LineCalls
  BY <1>1, Shapes
<1>3. /\ call.op = "read" /\ copied = Places(begun + 1 + Newline, Consumed - begun - Newline)
      /\ Consumed = IF call.skip THEN begun + 1 ELSE begun
  BY <1>1 DEF Reads
<1>4. Newline \in {0, 1} /\ (Newline = 1 => Consumed = begun + 1) /\ Newline' = Newline
  <2>1. CASE call.skip
    <3>1. begun < Consumed /\ begun < Consumed'
      BY <1>2, <1>3, <2>1
    <3> QED
      BY <1>3, <2>1, <3>1 DEF Newline
  <2>2. CASE ~call.skip
    BY <2>2 DEF Newline
  <2> QED
    BY <2>1, <2>2
<1>5. PICK b \in Nat, l \in Nat, n \in Nat, k \in Nat :
        /\ b = begun + 1 + Newline /\ l = Consumed - begun - Newline /\ b + l = k + 1 /\ k = Consumed
        /\ b > 0
  <2>1. PICK c \in Nat, w \in Nat : c = begun /\ w = Newline
    BY <1>2, <1>4
  <2>2. PICK k \in Nat : k = Consumed /\ (k = c \/ k = c + 1) /\ (w = 0 \/ (w = 1 /\ k = c + 1))
    BY <1>3, <1>4, <2>1
  <2>3. c + 1 + w \in Nat /\ c + 1 + w > 0 /\ k - c - w \in Nat /\ c + 1 + w + (k - c - w) = k + 1
    BY <2>2
  <2> QED
    BY <2>1, <2>2, <2>3
<1>18. b \in Nat /\ l \in Nat /\ k \in Nat /\ b > 0 /\ b + l = k + 1
  BY <1>5
<1>9. PICK g \in Nat : g = given' /\ k + j <= g
  <2>1. PICK h \in Nat : h = given'
    BY <1>2
  <2>2. PICK m \in Nat : m = Len(held')
    BY LenProperties
  <2>3. k + j = h - m
    BY <1>5, <2>1, <2>2 DEF Consumed
  <2>4. k + j <= h
    BY <1>18, <2>3
  <2> QED
    BY <2>1, <2>4
<1>6. copied = Places(b, l)
  BY <1>3, <1>5
<1>7. Places(k + 1, j) = Places(b + l, j)
  BY <1>18
<1>8. /\ Len(copied) = l /\ copied' = Places(b, l + j) /\ Len(copied') = l + j
      /\ copied' \in Seq(1 .. g)
  <2>4. g \in Nat /\ j \in Nat /\ k + j <= g
    BY <1>9
  <2>5. k + 1 + j <= g + 1
    BY <1>18, <2>4
  <2>6. b + l + j = k + 1 + j
    BY <1>18
  <2>1. b + l + j <= g + 1
    BY <2>5, <2>6
  <2>2. /\ Len(Places(b, l)) = l
        /\ Places(b, l) \o Places(b + l, j) = Places(b, l + j)
        /\ Len(Places(b, l + j)) = l + j /\ Places(b, l + j) \in Seq(1 .. g)
    BY <1>18, <2>1, <2>4, OutGrows
  <2>3. copied' = copied \o Places(k + 1, j)
    BY <1>5
  <2> QED
    BY <1>6, <1>7, <2>2, <2>3
<1>10. copied' \in Seq(1 .. given')
  BY <1>8, <1>9
<1>11. Len(copied') <= call.want /\ copied' # << >>
  <2>1. PICK w \in Nat : w = call.want /\ w > 0 /\ Left = w - l
    BY <1>2, <1>3, <1>8 DEF Left
  <2>2. l + j <= w
    BY <1>18, <2>1
  <2>3. l + j > 0
    BY <1>18, <2>1
  <2> QED
    BY <1>8, <2>1, <2>2, <2>3
<1>12. at' = "idle" /\ atEnd' = atEnd /\ result' = "SUCCESS"
  BY <1>1 DEF Return, BufferedTypeOK
<1>13. BufferedTypeOK'
  <2>1. given' \in 0 .. Len(text')
    BY <1>2
  <2> QED
    BY <1>1, <1>2, <1>3, <1>10, <1>11, <1>12, <2>1 DEF BufferedTypeOK
<1>14. Fits' /\ Ends'
  BY <1>1, <1>12, <1>13 DEF Fits, Ends
<1>15. Lines'
  BY <1>3, <1>12 DEF Lines, Answered
<1>16. Reads'
  <2>1. begun' + 1 + Newline' = b /\ Consumed' - begun' - Newline' = l + j
    <3>1. PICK c \in Nat, w \in Nat : c = begun /\ w = Newline
      BY <1>2, <1>4
    <3> QED
      BY <1>4, <1>5, <3>1
  <2>2. copied' = Places(begun' + 1 + Newline', Consumed' - begun' - Newline')
    BY <1>8, <2>1
  <2> QED
    BY <1>3, <1>11, <1>12, <2>2 DEF Reads
<1>17. begun' <= Consumed'
  BY <1>1, <1>2
<1> QED
  BY <1>14, <1>15, <1>16, <1>17 DEF Sound

(* How many bytes of a run of n are handed out.                              *)
LEMMA HandsOutRun ==
  ASSUME NEW k \in Nat, NEW n \in Nat, NEW s, s = Places(k + 1, n), Left \in Nat, HandsOut(s)
  PROVE  /\ Upto(Left, s) \in 0 .. n /\ Upto(Left, s) <= Left
         /\ (n > 0 \/ Left = 0) => (Upto(Left, s) > 0 \/ Left = 0)
         /\ copied' = copied \o Places(k + 1, Upto(Left, s))
         /\ held' = Places(k + 1 + Upto(Left, s), n - Upto(Left, s))
<1>1. Len(s) = n
  BY Stretch
<1>2. PICK j \in Nat : j = Upto(Left, s) /\ j \in 0 .. n /\ j <= Left /\ (n > 0 \/ Left = 0 => j > 0 \/ Left = 0)
  BY <1>1 DEF Upto
<1>3. copied' = copied \o SubSeq(s, 1, j) /\ held' = SubSeq(s, j + 1, n)
  BY <1>1, <1>2 DEF HandsOut
<1>4. SubSeq(s, 1, j) = Places(k + 1, j) /\ SubSeq(s, j + 1, n) = Places(k + 1 + j, n - j)
  <2>1. PICK f \in Int : f = k + 1
    OBVIOUS
  <2>2. /\ SubSeq(Places(f, n), 1, j) = Places(f, j)
        /\ SubSeq(Places(f, n), j + 1, n) = Places(f + j, n - j)
    BY <1>2, StretchCut
  <2> QED
    BY <2>1, <2>2
<1> QED
  BY <1>2, <1>3, <1>4

LEMMA ReadRestKeeps ==
  ASSUME Sound, ReadRest
  PROVE  Sound'
<1>1. at = "read" /\ UNCHANGED <<text, size, skipNewline, call, begun>>
  BY DEF ReadRest
<1>2. BufferedTypeOK /\ Behind /\ Lines /\ Reads /\ Ends /\ begun <= Consumed
      /\ (capacity > 0 => Len(held) <= capacity /\ size <= capacity)
  BY DEF Sound, Fits
<1>3. /\ Len(text) \in Nat /\ given \in Nat /\ given <= Len(text) /\ begun \in Nat /\ Len(held) \in Nat
      /\ size \in Nat /\ capacity \in Nat /\ Len(copied) \in Nat
      /\ call.op = "read" /\ call \in ByteCalls /\ call.want \in Nat
  BY <1>1, <1>2, Shapes DEF Reads
<1>4. capacity \in Sizes \cup {0} /\ (atEnd => given = Len(text)) /\ Left \in Nat
  BY <1>2, <1>3 DEF BufferedTypeOK, Ends, Left
<1>5. PICK g \in Nat, k \in Nat : g = given /\ k = Consumed /\ k <= g /\ Len(held) = g - k
  <2>1. PICK g \in Nat, n \in Nat : g = given /\ n = Len(held) /\ n <= g
    BY <1>2, <1>3 DEF Behind
  <2>2. g - n \in Nat /\ g - n <= g /\ n = g - (g - n)
    BY <2>1
  <2>3. Consumed = g - n
    BY <2>1 DEF Consumed
  <2> QED
    BY <2>1, <2>2, <2>3
<1>11. ASSUME NEW n \in Nat, NEW s, s = Places(k + 1, n), HandsOut(s), n > 0 \/ Left = 0
       PROVE  \E j \in Nat : /\ j \in 0 .. n /\ j <= Left /\ (j > 0 \/ Left = 0)
                              /\ copied' = copied \o Places(k + 1, j) /\ held' = Places(k + 1 + j, n - j)
  <2>4. k \in Nat /\ Left \in Nat
    BY <1>4, <1>5
  <2>2. /\ Upto(Left, s) \in 0 .. n /\ Upto(Left, s) <= Left
        /\ (n > 0 \/ Left = 0) => (Upto(Left, s) > 0 \/ Left = 0)
        /\ copied' = copied \o Places(k + 1, Upto(Left, s))
        /\ held' = Places(k + 1 + Upto(Left, s), n - Upto(Left, s))
    BY <1>11, <2>4, HandsOutRun
  <2>1. PICK j \in Nat : j = Upto(Left, s)
    BY <2>2
  <2>3. /\ j \in 0 .. n /\ j <= Left /\ (j > 0 \/ Left = 0)
        /\ copied' = copied \o Places(k + 1, j) /\ held' = Places(k + 1 + j, n - j)
    BY <1>11, <2>1, <2>2
  <2> QED
    BY <2>3
<1>6. ASSUME held # << >> \/ Left = 0, HandsOut(held), Return("SUCCESS"), UNCHANGED <<given, capacity>>
      PROVE  Sound'
  <2>1. PICK n \in Nat : n = Len(held) /\ n = g - k /\ (n > 0 \/ Left = 0)
    BY <1>3, <1>5, <1>6
  <2>2. held = Places(k + 1, n)
    BY <1>2, <1>5, <2>1 DEF Behind
  <2>3. PICK j \in Nat : /\ j \in 0 .. n /\ j <= Left /\ (j > 0 \/ Left = 0)
                         /\ copied' = copied \o Places(k + 1, j) /\ held' = Places(k + 1 + j, n - j)
    BY <1>4, <1>6, <1>11, <2>1, <2>2
  <2>4. k + j <= g /\ n - j = g - k - j /\ g - k - j <= n
    BY <2>1, <2>3
  <2>5. held' \in Seq(1 .. given') /\ Len(held') = g - k - j /\ Consumed' = k + j /\ Behind'
    BY <1>5, <1>6, <2>3, <2>4, BufferShrinks
  <2>6. capacity' > 0 => Len(held') <= capacity' /\ size <= capacity'
    BY <1>2, <1>3, <1>6, <2>1, <2>4, <2>5
  <2>7. given' \in given .. Len(text) /\ given' = given /\ capacity' = capacity
    BY <1>3, <1>6
  <2> QED
    BY <1>1, <1>4, <1>5, <1>6, <2>3, <2>5, <2>6, <2>7, ReadEnds
<1>7. ASSUME held = << >>, Left > 0, capacity' = 0, UNCHANGED held,
             NEW j \in 1 .. Left, Delivers(Left, j), copied' = copied \o Block(j), Return("SUCCESS")
      PROVE  Sound'
  <2>1. given' = g + j /\ given' \in given .. Len(text) /\ j \in Nat /\ j > 0 /\ j <= Left
    BY <1>3, <1>4, <1>5, <1>7 DEF Delivers
  <2>2. k = g /\ held' = << >> /\ Len(held') = 0
    BY <1>2, <1>5, <1>7, Shapes
  <2>3. Consumed' = k + j /\ given' = k + j
    BY <1>5, <2>1, <2>2 DEF Consumed
  <2>4. held' \in Seq(1 .. given') /\ Behind'
    <3>1. \A f : Places(f, 0) = << >>
      BY DEF Places
    <3> QED
      BY <1>5, <2>1, <2>2, <3>1 DEF Behind
  <2>5. ~atEnd
    BY <1>3, <1>4, <1>5, <2>1
  <2>6. capacity' \in Sizes \cup {0} /\ ~(capacity' > 0)
    BY <1>7
  <2>7. copied' = copied \o Places(k + 1, j)
    BY <1>5, <1>7, <2>2 DEF Block
  <2> QED
    BY <1>1, <1>5, <1>7, <2>1, <2>3, <2>4, <2>5, <2>6, <2>7, ReadEnds
<1>8. ASSUME held = << >>, Left > 0, NEW n \in 1 .. size, Filled(n), HandsOut(Block(n)), Return("SUCCESS")
      PROVE  Sound'
  <2>1. /\ given' = given + n /\ given' \in Nat /\ given' <= Len(text) /\ ~atEnd
        /\ Block(n) = Places(Consumed + 1, n) /\ Consumed = given /\ n \in Nat /\ n > 0
        /\ capacity' \in Sizes \cup {0} /\ n <= capacity' /\ size <= capacity'
    BY <1>8, Refills
  <2>2. Block(n) = Places(k + 1, n) /\ k = g /\ given' = g + n
    BY <1>5, <2>1
  <2>3. PICK j \in Nat : /\ j \in 0 .. n /\ j <= Left /\ (j > 0 \/ Left = 0)
                         /\ copied' = copied \o Places(k + 1, j) /\ held' = Places(k + 1 + j, n - j)
    BY <1>4, <1>8, <1>11, <2>1, <2>2
  <2>4. PICK h \in Nat : h = given' /\ h = k + n
    BY <2>1, <2>2
  <2>5. k + j <= h /\ n - j = h - k - j /\ h - k - j <= n
    BY <2>1, <2>3, <2>4
  <2>6. held' \in Seq(1 .. given') /\ Len(held') = h - k - j /\ Consumed' = k + j /\ Behind'
    BY <2>3, <2>4, <2>5, BufferShrinks
  <2>7. capacity' > 0 => Len(held') <= capacity' /\ size <= capacity'
    <3>1. capacity' \in Nat
      BY <2>1, BufferedAssumption
    <3> QED
      BY <2>1, <2>5, <2>6, <3>1
  <2>8. given' \in given .. Len(text)
    BY <1>3, <2>1
  <2> QED
    BY <1>1, <1>5, <1>8, <2>1, <2>3, <2>6, <2>7, <2>8, ReadEnds
<1>9. ASSUME held = << >>, capacity' = 0, UNCHANGED held,
             NEW why \in Failures, SourceFails(why), UNCHANGED copied, Return(why)
      PROVE  Sound'
  BY <1>1, <1>9, Failed, ReadFails
<1>10. ASSUME held = << >>, NEW why \in Failures, FillFails(why), UNCHANGED <<held, copied>>, Return(why)
      PROVE  Sound'
  BY <1>1, <1>10, Failed, ReadFails
<1> QED
  BY <1>6, <1>7, <1>8, <1>9, <1>10 DEF ReadRest

(* A peek that moves what is held overruns the buffer.                       *)
LEMMA SqueezeOverruns ==
  ASSUME Peek
  PROVE  \/ overrun' /\ at' = "refill" /\ Len(held) > NewSize
         \/ /\ UNCHANGED <<buffer, at, overrun>>
            /\ \E n \in Wants : /\ call' = [op |-> "peek", want |-> n, skip |-> skipNewline]
                                /\ copied' = SubSeq(held, 1, Upto(n, held))
                                /\ result' = "SUCCESS"
BY DEF Peek, Squeezes, Moves

LEMMA PeekKeeps ==
  ASSUME Sound, Peek, ~overrun'
  PROVE  Sound'
<1>1. PICK n \in Wants :
        /\ call' = [op |-> "peek", want |-> n, skip |-> skipNewline]
        /\ copied' = SubSeq(held, 1, Upto(n, held))
        /\ result' = "SUCCESS" /\ UNCHANGED <<buffer, at>>
  BY SqueezeOverruns
<1>2. /\ at = "idle" /\ begun' = Consumed /\ result' = "SUCCESS"
      /\ UNCHANGED <<text, given, held, capacity, size, skipNewline, atEnd, at>>
  BY <1>1 DEF Peek, buffer
<1>3. BufferedTypeOK /\ Behind /\ Ends
  BY DEF Sound, Fits
<1>4. given \in Nat /\ Len(text) \in Nat /\ given <= Len(text) /\ Len(held) \in Nat /\ n \in Nat
      /\ skipNewline \in BOOLEAN
  BY <1>3, Shapes, BufferedAssumption DEF BufferedTypeOK
<1>5. PICK g \in Nat, k \in Nat, m \in Nat :
        g = given /\ k = Consumed /\ m = Len(held) /\ k + m = g
  <2>1. PICK g \in Nat, m \in Nat : g = given /\ m = Len(held) /\ m <= g
    BY <1>3, <1>4 DEF Behind
  <2>2. g - m \in Nat /\ g - m + m = g
    BY <2>1
  <2>3. Consumed = g - m
    BY <2>1 DEF Consumed
  <2> QED
    BY <2>1, <2>2, <2>3
<1>6. PICK j \in 0 .. m : j = Upto(n, held) /\ j <= n
  BY <1>4, <1>5 DEF Upto
<1>7. copied' = Places(k + 1, j)
  <2>1. held = Places(k + 1, m)
    BY <1>3, <1>5 DEF Behind
  <2>2. k + 1 \in Int
    BY <1>5
  <2>3. SubSeq(Places(k + 1, m), 1, j) = Places(k + 1, j)
    BY <1>5, <1>6, <2>2, StretchCut
  <2> QED
    BY <1>1, <1>6, <2>1, <2>3
<1>8. Len(copied') = j /\ copied' \in Seq(1 .. g)
  <2>1. PICK f \in Int : f = k + 1 /\ f > 0 /\ f + j - 1 <= g
    BY <1>5, <1>6
  <2>2. j \in Nat
    BY <1>5, <1>6
  <2>3. Len(Places(f, j)) = j
    BY <2>1, <2>2, Stretch
  <2>4. Places(f, j) \in Seq(1 .. g)
    BY <1>5, <2>1, <2>2, Stretch
  <2> QED
    BY <1>7, <2>1, <2>3, <2>4
<1>9. /\ call' \in ByteCalls /\ call' \notin LineCalls /\ call'.op = "peek" /\ call'.want = n
  BY <1>1, <1>4 DEF ByteCalls, LineCalls
<1>10. BufferedTypeOK'
  <2>1. Len(copied') <= call'.want /\ copied' \in Seq(1 .. given')
    BY <1>2, <1>5, <1>6, <1>8, <1>9
  <2>2. begun' \in 0 .. Len(text')
    BY <1>2, <1>4, <1>5
  <2> QED
    BY <1>2, <1>3, <1>9, <2>1, <2>2 DEF BufferedTypeOK
<1>11. Consumed' = Consumed
  BY <1>2 DEF Consumed
<1>12. Fits' /\ Behind' /\ Ends' /\ Lines'
  BY <1>2, <1>3, <1>9, <1>10, <1>11 DEF Fits, Sound, Behind, Ends, Lines, Answered
<1>13. Reads'
  <2>1. copied' = Places(begun' + 1, Len(copied'))
    BY <1>2, <1>5, <1>7, <1>8
  <2> QED
    BY <1>2, <1>9, <1>11, <2>1 DEF Reads
<1> QED
  BY <1>2, <1>5, <1>11, <1>12, <1>13 DEF Sound

-----------------------------------------------------------------------------
LEMMA BInvInit ==
  ASSUME BufferedInit
  PROVE  BInv
<1>1. /\ text \in Texts /\ given = 0 /\ held = << >> /\ capacity = 0 /\ size \in Sizes
      /\ skipNewline = FALSE /\ atEnd = FALSE /\ at = "idle" /\ call = NoCall
      /\ begun = 0 /\ copied = << >> /\ result = "none"
  BY DEF BufferedInit
<1>7. call.op = "none"
  BY <1>1 DEF NoCall
<1>2. Len(text) \in Nat
  BY <1>1, BufferedAssumption
<1>3. call \notin ByteCalls /\ call \notin LineCalls
  BY <1>7 DEF ByteCalls, LineCalls
<1>4. BufferedTypeOK
  <2>1. given \in 0 .. Len(text) /\ begun \in 0 .. Len(text)
    BY <1>1, <1>2
  <2>2. held \in Seq(1 .. given) /\ copied \in Seq(1 .. given)
    BY <1>1
  <2> QED
    BY <1>1, <1>3, <2>1, <2>2 DEF BufferedTypeOK
<1>5. Consumed = 0 /\ Len(held) = 0
  <2>1. Len(held) = 0
    BY <1>1
  <2>2. given = 0
    BY <1>1
  <2> QED
    BY <2>1, <2>2 DEF Consumed
<1>6. Behind
  <2>1. Places(Consumed + 1, 0) = << >>
    BY DEF Places
  <2> QED
    BY <1>1, <1>5, <2>1 DEF Behind
<1>8. Sound
  BY <1>1, <1>4, <1>5, <1>6, <1>7 DEF Sound, Fits, Lines, Reads, Ends, Answered
<1>9. Calm
  <2>1. NewSize \in Nat
    BY <1>1, BufferedAssumption DEF NewSize
  <2> QED
    BY <1>1, <1>5, <2>1 DEF Calm
<1> QED
  BY <1>1, <1>8, <1>9 DEF BInv, BufferedInit

(* The steps of a call that the owner has made, and those of peek aside.     *)
CallSteps == ReadLine \/ LineChar \/ LineFill \/ LineRelease \/ RawChar \/ ReadBytes \/ ReadFirst \/ ReadRest

LEMMA CallsKeep ==
  ASSUME Sound, CallSteps \/ UNCHANGED bufferedVars
  PROVE  Sound'
<1>1. CASE UNCHANGED bufferedVars
  <2>1. /\ UNCHANGED <<text, given, held, capacity, size, skipNewline, atEnd>>
        /\ UNCHANGED <<at, call, begun, copied, result>>
    BY <1>1 DEF bufferedVars, buffer
  <2>2. Consumed' = Consumed
    BY <2>1 DEF Consumed
  <2>3. Fits' /\ Behind' /\ Ends'
    BY <2>1, <2>2 DEF Sound, Fits, BufferedTypeOK, Behind, Ends
  <2>4. Lines'
    BY <2>1, <2>2 DEF Sound, Lines, Answered, LineSoFar, GoesOn, Plain, LineEnd
  <2>5. Reads'
    BY <2>1, <2>2 DEF Sound, Reads, Newline
  <2> QED
    BY <2>1, <2>2, <2>3, <2>4, <2>5 DEF Sound
<1> QED
  BY <1>1, ReadLineKeeps, LineCharKeeps, LineFillKeeps, LineReleaseKeeps, RawCharKeeps, ReadKeeps,
     ReadFirstKeeps, ReadRestKeeps DEF CallSteps

(* They take from the buffer or fill it with a block, of size bytes at most. *)
LEMMA CallsCalm ==
  ASSUME Sound, CallSteps \/ UNCHANGED bufferedVars
  PROVE  /\ UNCHANGED <<size, history>>
         /\ at # "refill" => at' # "refill"
         /\ Len(held') <= Len(held) \/ (size > 0 /\ Len(held') <= size)
<1>1. BufferedTypeOK
  BY DEF Sound, Fits
<1>2. held \in Seq(1 .. given) /\ Len(held) \in Nat /\ size \in Nat /\ given \in Nat
  BY <1>1, Shapes
<1>3. CASE held' = held /\ UNCHANGED <<size, history>> /\ (at # "refill" => at' # "refill")
  BY <1>2, <1>3
<1>4. CASE ReadLine \/ ReadBytes \/ LineRelease \/ RawChar \/ UNCHANGED bufferedVars
  <2>1. held' = held /\ UNCHANGED <<size, history>> /\ (at # "refill" => at' # "refill")
    BY <1>4 DEF ReadLine, ReadBytes, LineRelease, RawChar, bufferedVars, buffer, Begin, Ignored, EndsLine, Return
  <2> QED
    BY <1>3, <2>1
<1>5. ASSUME NEW k \in 1 .. size
      PROVE  /\ Len(Block(k)) <= size /\ size > 0
             /\ Len(Tail(Block(k))) <= size
             /\ \A j \in 0 .. Len(Block(k)) : Len(SubSeq(Block(k), j + 1, Len(Block(k)))) <= size
  <2>1. k \in Nat /\ k > 0 /\ k <= size /\ given + 1 \in Int
    BY <1>2
  <2>2. Block(k) \in Seq(Int) /\ Len(Block(k)) = k
    BY <2>1, Stretch DEF Block
  <2>3. Len(Tail(Block(k))) = k - 1
    BY <2>1, <2>2
  <2>4. \A j \in 0 .. k : Len(SubSeq(Block(k), j + 1, k)) = k - j
    BY <2>1, <2>2
  <2> QED
    BY <1>2, <2>1, <2>2, <2>3, <2>4
<1>6. CASE LineChar
  <2>1. held' = Tail(held) /\ held # << >> /\ UNCHANGED <<size, history>> /\ at' # "refill"
    BY <1>6 DEF LineChar, Ignored, EndsLine, Return
  <2> QED
    BY <1>2, <2>1
<1>7. CASE LineFill
  <2>1. /\ held' = held \/ \E k \in 1 .. size : held' = Block(k)
        /\ UNCHANGED <<size, history>> /\ at' # "refill"
    BY <1>7 DEF LineFill, Ignored, EndsLine, Return
  <2> QED
    BY <1>2, <1>5, <2>1
<1>8. CASE ReadFirst
  <2>1. /\ \/ held' = held \/ (held # << >> /\ held' = Tail(held))
           \/ \E k \in 1 .. size : held' = Tail(Block(k))
        /\ UNCHANGED <<size, history>> /\ at' # "refill"
    BY <1>8 DEF ReadFirst, FirstIs, Return
  <2>2. held # << >> => Len(Tail(held)) <= Len(held)
    BY <1>2
  <2>3. ASSUME NEW k \in 1 .. size, held' = Tail(Block(k))
        PROVE  size > 0 /\ Len(held') <= size
    BY <1>5, <2>3
  <2> QED
    BY <1>2, <2>1, <2>2, <2>3
<1>9. CASE ReadRest
  <2>1. /\ held' = held \/ HandsOut(held) \/ \E k \in 1 .. size : HandsOut(Block(k))
        /\ UNCHANGED <<size, history>> /\ at' # "refill"
    BY <1>9 DEF ReadRest, Return
  <2>2. Left \in Nat
    <3>1. call.op = "read" /\ at = "read"
      BY <1>9 DEF Sound, Reads, ReadRest
    <3> QED
      BY <1>1, <3>1, Shapes DEF BufferedTypeOK, Left
  <2>3. ASSUME NEW s, Len(s) \in Nat, HandsOut(s)
        PROVE  \E j \in 0 .. Len(s) : held' = SubSeq(s, j + 1, Len(s))
    <3>1. Upto(Left, s) \in 0 .. Len(s)
      BY <2>2, <2>3 DEF Upto
    <3> QED
      BY <2>3, <3>1 DEF HandsOut
  <2>4. ASSUME HandsOut(held)
        PROVE  Len(held') <= Len(held)
    <3>1. PICK j \in 0 .. Len(held) : held' = SubSeq(held, j + 1, Len(held))
      BY <1>2, <2>3, <2>4
    <3> QED
      BY <1>2, <3>1
  <2>5. ASSUME NEW k \in 1 .. size, HandsOut(Block(k))
        PROVE  size > 0 /\ Len(held') <= size
    <3>1. Len(Block(k)) \in Nat
      BY <1>2, Stretch DEF Block
    <3>2. PICK j \in 0 .. Len(Block(k)) : held' = SubSeq(Block(k), j + 1, Len(Block(k)))
      BY <2>3, <2>5, <3>1
    <3> QED
      BY <1>5, <3>2
  <2> QED
    BY <1>2, <2>1, <2>4, <2>5
<1> QED
  BY <1>4, <1>6, <1>7, <1>8, <1>9 DEF CallSteps

LEMMA BInvStep ==
  ASSUME BInv, [BufferedNext]_bufferedVars
  PROVE  BInv'
<1>1. ASSUME Sound, Calm, CallSteps \/ UNCHANGED bufferedVars
      PROVE  Calm'
  <2>1. /\ UNCHANGED <<size, history>> /\ at' # "refill"
        /\ Len(held') <= Len(held) \/ (size > 0 /\ Len(held') <= size)
    BY <1>1, CallsCalm DEF Calm
  <2>2. size \in Nat /\ Len(held) \in Nat /\ DefaultSize \in Nat
    BY <1>1, Shapes, BufferedAssumption DEF Sound, Fits
  <2>3. NewSize' = NewSize /\ NewSize \in Nat /\ (size > 0 => NewSize = size) /\ tight' = tight
    BY <2>1, <2>2 DEF NewSize, history
  <2>4. Len(held') \in Nat
    BY <1>1, CallsKeep, Shapes DEF Sound, Fits
  <2> QED
    BY <1>1, <2>1, <2>2, <2>3, <2>4 DEF Calm
<1>2. CASE CallSteps \/ UNCHANGED bufferedVars
  <2>1. UNCHANGED <<overrun, tight>>
    BY <1>2 DEF CallSteps, ReadLine, LineChar, LineFill, LineRelease, RawChar, ReadBytes, ReadFirst,
         ReadRest, bufferedVars, history
  <2> QED
    BY <1>1, <1>2, <2>1, CallsKeep DEF BInv
<1>3. CASE Peek
  <2>1. tight' = tight /\ (overrun => overrun')
    <3>1. tight' = tight /\ (overrun' = overrun \/ Moves(NewSize))
      BY <1>3 DEF Peek
    <3>2. Moves(NewSize) /\ overrun => overrun'
      BY Zenon DEF Moves
    <3> QED
      BY <3>1, <3>2
  <2>2. overrun' => tight'
    <3>1. CASE overrun
      BY <2>1, <3>1 DEF BInv
    <3>2. CASE ~overrun /\ overrun'
      <4>1. Sound /\ Calm /\ Len(held) > NewSize
        BY <1>3, <3>2, SqueezeOverruns DEF BInv
      <4>2. Len(held) \in Nat /\ NewSize \in Nat
        BY <4>1, Shapes, BufferedAssumption DEF Sound, Fits, NewSize
      <4> QED
        BY <2>1, <4>1, <4>2 DEF Calm
    <3> QED
      BY <3>1, <3>2
  <2>3. ASSUME ~overrun'
        PROVE  Sound' /\ Calm'
    <3>1. Sound /\ Calm
      BY <2>1, <2>3 DEF BInv
    <3>2. UNCHANGED <<held, size, at>>
      BY <1>3, <2>3, SqueezeOverruns DEF buffer
    <3> QED
      BY <1>3, <2>1, <2>3, <3>1, <3>2, PeekKeeps DEF Calm, NewSize
  <2> QED
    BY <2>2, <2>3 DEF BInv
<1>4. CASE PeekRefill
  <2>1. at = "refill" /\ UNCHANGED <<overrun, tight>>
    BY <1>4 DEF PeekRefill, history
  <2> QED
    BY <2>1 DEF BInv, Calm
<1>5. CASE SetBufferSize
  <2>1. PICK s \in Sizes, force \in BOOLEAN :
          /\ size' = s
          /\ IF Made /\ (size < s \/ force) THEN Moves(s) ELSE UNCHANGED <<held, capacity, overrun>>
          /\ tight' = (tight \/ Len(held) > IF s > 0 \/ force THEN s ELSE DefaultSize)
    BY <1>5 DEF SetBufferSize
  <2>2. (overrun => overrun') /\ (tight => tight') /\ at' = "idle"
    BY <1>5, <2>1 DEF SetBufferSize, Moves
  <2>3. CASE overrun
    BY <2>2, <2>3 DEF BInv
  <2>4. CASE ~overrun
    <3>1. Sound /\ Calm
      BY <2>4 DEF BInv
    <3>2. size \in Nat /\ s \in Nat /\ Len(held) \in Nat /\ DefaultSize \in Nat
      BY <3>1, Shapes, BufferedAssumption DEF Sound, Fits
    <3>3. overrun' => tight'
      <4>1. ASSUME overrun'
            PROVE  Len(held) > s /\ (size < s \/ force)
        BY <2>1, <2>4, <4>1 DEF Moves
      <4>2. size < s => s > 0
        BY <3>2
      <4> QED
        BY <2>1, <4>1, <4>2
    <3>4. ASSUME ~overrun'
          PROVE  Sound' /\ Calm'
      <4>1. Sound'
        BY <1>5, <3>1, <3>4, SetBufferSizeKeeps
      <4>2. held' = held
        BY <2>1, <3>1, <3>2, <3>4, Reallocates
      <4>3. ~tight' => ~(Len(held) > IF s > 0 \/ force THEN s ELSE DefaultSize)
        BY <2>1, Zenon
      <4>4. NewSize' = IF s > 0 THEN s ELSE DefaultSize
        BY <2>1 DEF NewSize
      <4>5. ~tight' => Len(held) <= NewSize'
        BY <3>2, <4>3, <4>4
      <4> QED
        BY <2>2, <4>1, <4>2, <4>5 DEF Calm
    <3> QED
      BY <3>3, <3>4 DEF BInv
  <2> QED
    BY <2>3, <2>4
<1> QED
  BY <1>2, <1>3, <1>4, <1>5 DEF BufferedNext, CallSteps

-----------------------------------------------------------------------------
LEMMA OwnRun ==
  ASSUME Sound
  PROVE  /\ Len(Own) = Consumed - begun /\ DOMAIN Own = 1 .. Consumed - begun
         /\ begun \in Nat /\ Consumed \in Nat /\ begun <= Consumed
         /\ \A i \in 1 .. Consumed - begun : Own[i] = begun + i
         /\ ToSet(Own) = begun + 1 .. Consumed
         /\ Own = Places(begun + 1, Consumed - begun)
<1>1. BufferedTypeOK /\ begun <= Consumed
  BY DEF Sound, Fits
<1>2. begun \in Nat /\ Consumed \in Int
  BY <1>1, Shapes
<1>3. PICK b \in Nat, n \in Nat : b = begun /\ n = Consumed - begun /\ Consumed = b + n
  BY <1>1, <1>2
<1>4. PICK f \in Int : f = b + 1
  BY <1>3
<1>5. Own = Places(f, n)
  BY <1>3, <1>4 DEF Own
<1>6. /\ Len(Places(f, n)) = n /\ DOMAIN Places(f, n) = 1 .. n
      /\ \A i \in 1 .. n : Places(f, n)[i] = f + i - 1
  BY <1>3, <1>4, Stretch
<1>7. \A i \in 1 .. n : Own[i] = b + i
  BY <1>3, <1>4, <1>5, <1>6
<1>8. ToSet(Own) = b + 1 .. b + n
  <2>1. ToSet(Own) = {Own[i] : i \in 1 .. n}
    BY <1>5, <1>6 DEF ToSet
  <2>2. \A p \in b + 1 .. b + n : p - b \in 1 .. n /\ b + (p - b) = p
    BY <1>3
  <2>3. \A p \in b + 1 .. b + n : p \in ToSet(Own)
    BY <1>7, <2>1, <2>2
  <2>4. \A i \in 1 .. n : b + i \in b + 1 .. b + n
    BY <1>3
  <2> QED
    BY <1>7, <2>1, <2>3, <2>4
<1> QED
  BY <1>1, <1>2, <1>3, <1>4, <1>5, <1>6, <1>7, <1>8

LEMMA NothingIsLost ==
  ASSUME Sound
  PROVE  NothingLost
<1>1. Lines /\ Reads
  BY DEF Sound
<1>2. /\ begun \in Nat /\ Consumed \in Nat /\ begun <= Consumed
      /\ ToSet(Own) = begun + 1 .. Consumed /\ Own = Places(begun + 1, Consumed - begun)
  BY OwnRun
<1>3. ASSUME Answered("read_line"), Len(copied) <= call.room
      PROVE  /\ \A i, j \in DOMAIN copied : i < j => copied[i] < copied[j]
             /\ ToSet(copied) = {p \in ToSet(Own) : Plain(p)}
  BY <1>1, <1>2, <1>3 DEF Lines, LineSoFar
<1>4. ASSUME Answered("read")
      PROVE  copied = IF call.skip /\ Own # << >> /\ text[Head(Own)] = "lf" THEN Tail(Own) ELSE Own
  <2>1. copied = Places(begun + 1 + Newline, Consumed - begun - Newline)
    BY <1>1, <1>4 DEF Reads, Answered
  <2>2. CASE begun < Consumed
    <3>1. PICK f \in Int, n \in Nat : f = begun + 1 /\ n = Consumed - begun /\ n > 0
      BY <1>2, <2>2
    <3>2. Own = Places(f, n) /\ Len(Own) = n
      BY <1>2, <3>1, OwnRun
    <3>3. Own # << >> /\ Head(Own) = f /\ Tail(Own) = Places(f + 1, n - 1)
      <4>1. Head(Places(f, n)) = f /\ Tail(Places(f, n)) = Places(f + 1, n - 1)
        BY <3>1, StretchTail
      <4>2. Own # << >>
        BY <3>1, <3>2
      <4> QED
        BY <3>2, <4>1, <4>2
    <3>4. Newline = IF call.skip /\ text[f] = "lf" THEN 1 ELSE 0
      BY <2>2, <3>1 DEF Newline
    <3>5. CASE call.skip /\ text[f] = "lf"
      <4>1. copied = Places(f + 1, n - 1)
        BY <2>1, <3>1, <3>4, <3>5
      <4> QED
        BY <3>3, <3>5, <4>1
    <3>6. CASE ~(call.skip /\ text[f] = "lf")
      <4>1. Newline = 0
        BY <3>4, <3>6
      <4>2. begun + 1 + Newline = f /\ Consumed - begun - Newline = n
        BY <1>2, <3>1, <4>1
      <4>3. copied = Places(f, n)
        BY <2>1, <4>2
      <4> QED
        BY <3>2, <3>3, <3>6, <4>3
    <3> QED
      BY <3>5, <3>6
  <2>3. CASE ~(begun < Consumed)
    <3>1. Newline = 0
      BY <2>3 DEF Newline
    <3>2. Consumed - begun - Newline = 0 /\ Consumed - begun = 0
      BY <1>2, <2>3, <3>1
    <3>3. \A f : Places(f, 0) = << >>
      BY DEF Places
    <3> QED
      BY <1>2, <2>1, <3>2, <3>3
  <2> QED
    BY <2>2, <2>3
<1>5. ASSUME Answered("peek")
      PROVE  Own = << >> /\ copied = Places(begun + 1, Len(copied))
  <2>1. begun = Consumed /\ copied = Places(begun + 1, Len(copied))
    BY <1>1, <1>5 DEF Reads, Answered
  <2>2. Consumed - begun = 0
    BY <1>2, <2>1
  <2>3. \A f : Places(f, 0) = << >>
    BY DEF Places
  <2> QED
    BY <1>2, <2>1, <2>2, <2>3
<1> QED
  BY <1>3, <1>4, <1>5 DEF NothingLost

LEMMA WholeLines ==
  ASSUME Sound
  PROVE  LinesAreWhole
<1> SUFFICES ASSUME Answered("read_line"), result = "SUCCESS", Len(copied) <= call.room
             PROVE  /\ \A i \in 1 .. Len(Own) - 1 : LineEnd(Own[i]) => Passed(i)
                    /\ \/ Own # << >> /\ LineEnd(Last(Own))
                       \/ atEnd /\ Consumed = Len(text)
  BY DEF LinesAreWhole
<1>1. /\ GoesOn(Consumed - 1)
      /\ (begun < Consumed /\ LineEnd(Consumed)) \/ (atEnd /\ Consumed = Len(text))
  BY DEF Sound, Lines
<1>2. PICK b \in Nat, k \in Nat, n \in Nat :
        /\ b = begun /\ k = Consumed /\ b <= k /\ n = k - b /\ Len(Own) = n
        /\ \A i \in 1 .. n : Own[i] = b + i
  BY OwnRun
<1>3. ASSUME NEW i \in 1 .. n - 1, LineEnd(Own[i])
      PROVE  Passed(i)
  <2>1. Own[i] = b + i /\ b + i \in b + 1 .. k - 1
    BY <1>2, <1>3
  <2>2. call.skip /\ \A q \in b + 1 .. b + i : ~Plain(q)
    BY <1>1, <1>2, <1>3, <2>1 DEF GoesOn
  <2>3. \A j \in 1 .. i : Own[j] = b + j /\ b + j \in b + 1 .. b + i
    BY <1>2, <1>3
  <2> QED
    BY <2>2, <2>3 DEF Passed
<1>4. ASSUME begun < Consumed, LineEnd(Consumed)
      PROVE  Own # << >> /\ LineEnd(Last(Own))
  <2>1. n > 0 /\ Own[n] = k
    BY <1>2, <1>4
  <2> QED
    BY <1>2, <1>4, <2>1 DEF Last
<1> QED
  BY <1>1, <1>2, <1>3, <1>4

-----------------------------------------------------------------------------
(* YetiBufferedStream.cpp: the inductive invariant of the buffered stream,   *)
(* whatever the source delivers and however reads, lines, peeks and new      *)
(* sizes follow each other.  An owner that never sets a size smaller than    *)
(* what is held (as peek takes a size of 0 for the default) never makes a    *)
(* copy overrun, and until one does the stream is sound.                     *)
THEOREM BufferedInvariance ==
  BufferedSpec => []BInv
<1>1. BufferedInit => BInv
  BY BInvInit
<1>2. BInv /\ [BufferedNext]_bufferedVars => BInv'
  BY BInvStep
<1> QED
  BY <1>1, <1>2, PTL DEF BufferedSpec

(* YetiBufferedStream.cpp:52, 119-157, 187-188: only an owner that has set a *)
(* size smaller than what was held can make a copy overrun the buffer; until *)
(* then what was allocated holds the bytes and every block that is asked     *)
(* for, read and peek give no more than they were asked for, and read_line   *)
(* one character more than buffer_size at most.                              *)
THEOREM BufferHolds ==
  BufferedSpec => []BufferFits
<1>1. BInv => BufferFits
  BY DEF BInv, Sound, BufferFits
<1> QED
  BY <1>1, BufferedInvariance, PTL

(* YetiBufferedStream.cpp:51-117, 172-252: what read_line, read and peek     *)
(* take out of the stream reaches their callers, once and in order, until a  *)
(* copy has overrun the buffer.                                              *)
THEOREM BytesKept ==
  BufferedSpec => []NothingLost
<1>1. BInv => NothingLost
  BY NothingIsLost DEF BInv, NothingLost
<1> QED
  BY <1>1, BufferedInvariance, PTL

(* YetiBufferedStream.cpp:51-117: until then a line ends where the text      *)
(* says, never where a block of the source does.                             *)
THEOREM LinesWhole ==
  BufferedSpec => []LinesAreWhole
<1>1. BInv => LinesAreWhole
  BY WholeLines DEF BInv, LinesAreWhole
<1> QED
  BY <1>1, BufferedInvariance, PTL

(* YetiBufferedStream.cpp:105-117, 143-156, 254-263: until then an end of    *)
(* the source that is met in the middle of a call is reported after what     *)
(* came first, and a read that succeeds brings a byte.                       *)
THEOREM EndComesLast ==
  BufferedSpec => []EosComesLast
<1>1. BInv => EosComesLast
  BY DEF BInv, Sound, EosComesLast, Ends, Reads, Answered
<1> QED
  BY <1>1, BufferedInvariance, PTL

=============================================================================
