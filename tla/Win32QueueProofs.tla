--------------------------- MODULE Win32QueueProofs ---------------------------
(***************************************************************************)
(* Win32Queue is correct for every set of threads, every limit and every   *)
(* pattern of calls: it keeps its lock, its capacity and its events, and   *)
(* it implements BoundedQueue.                                             *)
(***************************************************************************)
EXTENDS Win32Queue, SequenceTheorems, TLAPS

-----------------------------------------------------------------------------
(* The call and result records are told apart from their absence. *)
LEMMA RecordFacts ==
  /\ \A c \in Call : c # NoCall /\ (c.op = "push" => c.item \in Item)
  /\ NoCall.op = "none"
  BY DEF Call, NoCall, Timeout

(* The initial state has its types. *)
LEMMA TypeInit == Init => TypeOK
<1> SUFFICES ASSUME Init PROVE TypeOK
  OBVIOUS
<1>1. items \in Seq(Item)
  BY DEF Init
<1>2. pc \in [Thread -> PC]
  BY DEF Init, PC
<1>3. call \in [Thread -> Call \cup {NoCall}] /\ ret \in [Thread -> Result \cup {NoResult}]
  BY Zenon DEF Init
<1>4. QED
  BY <1>1, <1>2, <1>3 DEF Init, TypeOK

(* A step of the queue keeps every type. *)
LEMMA TypeStep == TypeOK /\ [Next]_vars => TypeOK'
<1> SUFFICES ASSUME TypeOK, [Next]_vars PROVE TypeOK'
  OBVIOUS
<1> USE DEF TypeOK, PC, Goto
<1>1. ASSUME NEW t \in Thread, NEW c \in Calls[t], Start(t, c) PROVE TypeOK'
  <2>1. c \in Call
    BY QueueAssumption DEF QueueAssumption
  <2>2. QED
    BY <1>1, <2>1 DEF Start
<1>2. ASSUME NEW t \in Thread, Step(t) PROVE TypeOK'
  <2>1. CASE Enter(t)
    BY <2>1 DEF Enter
  <2>2. CASE PushAdd(t)
    <3>1. call[t].item \in Item
      BY <2>2 DEF PushAdd, Call, NoCall
    <3>2. QED
      BY <2>2, <3>1 DEF PushAdd, Answer, Result, Code
  <2>3. CASE PushBlock(t)
    BY <2>3 DEF PushBlock
  <2>4. CASE PopTake(t)
    BY <2>4 DEF PopTake, Answer, Result, Code
  <2>5. CASE PeekHead(t)
    BY <2>5 DEF PeekHead, Answer, Result, Code
  <2>6. CASE PollEmpty(t)
    BY <2>6 DEF PollEmpty, Answer, Result, Code
  <2>7. CASE ReadBlock(t)
    BY <2>7 DEF ReadBlock
  <2>8. CASE Signal(t)
    BY <2>8 DEF Signal
  <2>9. CASE Release(t)
    BY <2>9 DEF Release
  <2>10. CASE Wake(t)
    BY <2>10 DEF Wake
  <2>11. CASE GiveUp(t)
    BY <2>11 DEF GiveUp, Answer, Result, Code
  <2>12. CASE Leave(t)
    BY <2>12 DEF Leave
  <2>13. CASE Return(t)
    BY <2>13 DEF Return
  <2>14. QED
    BY <1>2, <2>1, <2>2, <2>3, <2>4, <2>5, <2>6, <2>7, <2>8, <2>9, <2>10,
       <2>11, <2>12, <2>13 DEF Step
<1>3. CASE UNCHANGED vars
  BY <1>3 DEF vars
<1>4. QED
  BY <1>1, <1>2, <1>3 DEF Next

(* An answer is an answer, and nobody else's. *)
LEMMA AnswerFacts ==
  ASSUME TypeOK, NEW t \in Thread, NEW code \in Code,
         NEW item \in Item \cup {NoItem}, Answer(t, code, item)
  PROVE  /\ ret'[t] # NoResult
         /\ ret'[t].code = code /\ ret'[t].item = item
         /\ \A u \in Thread \ {t} : ret'[u] = ret[u]
  BY DEF TypeOK, Answer, NoResult, Code

(* A step of the queue keeps the whole invariant. *)
LEMMA InductiveStep == IInv /\ [Next]_vars => IInv'
<1> SUFFICES ASSUME IInv, [Next]_vars PROVE IInv'
  OBVIOUS
<1>0. TypeOK'
  BY TypeStep DEF IInv
<1> USE <1>0 DEF TypeOK
<1>1. ASSUME NEW t \in Thread, NEW c \in Calls[t], Start(t, c) PROVE IInv'
  <2>1. c \in Call
    BY QueueAssumption DEF QueueAssumption
  <2> USE <1>1, <2>1, RecordFacts, QueueAssumption DEF Start, Goto, QueueAssumption, IInv
  <2>2. LockDiscipline'
    BY DEF LockDiscipline, Inside
  <2>3. PhaseOK'
    <3>1. c # NoCall
      BY <2>1, RecordFacts
    <3>2. QED
      BY <3>1 DEF PhaseOK
  <2>4. EventsTruthful' /\ CapacityRespected'
    BY DEF EventsTruthful, CapacityRespected, Announcing, Full, PhaseOK
  <2>5. QED
    BY <2>2, <2>3, <2>4
<1>2. ASSUME NEW t \in Thread, Enter(t) PROVE IInv'
  <2> USE <1>2, RecordFacts, QueueAssumption DEF Enter, Goto, Answer, QueueAssumption, IInv
  <2>1. LockDiscipline'
    BY DEF LockDiscipline, Inside
  <2>2. PhaseOK'
    BY DEF PhaseOK, LockDiscipline, Inside
  <2>3. EventsTruthful'
    BY DEF EventsTruthful, CapacityRespected, Announcing, Full, PhaseOK, LockDiscipline, Inside
  <2>4. CapacityRespected'
    BY DEF EventsTruthful, CapacityRespected, Announcing, Full, PhaseOK, LockDiscipline, Inside
  <2>5. QED
    BY <2>1, <2>2, <2>3, <2>4
<1>3. ASSUME NEW t \in Thread, PushAdd(t) PROVE IInv'
  <2> USE <1>3, RecordFacts, QueueAssumption DEF PushAdd, Goto, Answer, QueueAssumption, IInv
  <2>1. LockDiscipline'
    BY DEF LockDiscipline, Inside
  <2>2. PhaseOK'
    <3>1. NoItem \in Item \cup {NoItem} /\ "SUCCESS" \in Code
      BY DEF Code
    <3>2. /\ ret'[t] # NoResult
          /\ ret'[t].code = "SUCCESS" /\ ret'[t].item = NoItem
          /\ \A u \in Thread \ {t} : ret'[u] = ret[u]
      BY <3>1, AnswerFacts, <1>3 DEF PushAdd
    <3>3. QED
      BY <3>1, <3>2 DEF PhaseOK, LockDiscipline, Inside
  <2>3. EventsTruthful'
    BY DEF EventsTruthful, CapacityRespected, Announcing, Full, PhaseOK, LockDiscipline, Inside
  <2>4. CapacityRespected'
    BY DEF EventsTruthful, CapacityRespected, Announcing, Full, PhaseOK, LockDiscipline, Inside
  <2>5. QED
    BY <2>1, <2>2, <2>3, <2>4
<1>4. ASSUME NEW t \in Thread, PushBlock(t) PROVE IInv'
  <2> USE <1>4, RecordFacts, QueueAssumption DEF PushBlock, Goto, Answer, QueueAssumption, IInv
  <2>1. LockDiscipline'
    BY DEF LockDiscipline, Inside
  <2>2. PhaseOK'
    BY DEF PhaseOK, LockDiscipline, Inside
  <2>3. EventsTruthful'
    BY DEF EventsTruthful, CapacityRespected, Announcing, Full, PhaseOK, LockDiscipline, Inside
  <2>4. CapacityRespected'
    BY DEF EventsTruthful, CapacityRespected, Announcing, Full, PhaseOK, LockDiscipline, Inside
  <2>5. QED
    BY <2>1, <2>2, <2>3, <2>4
<1>5. ASSUME NEW t \in Thread, PopTake(t) PROVE IInv'
  <2> USE <1>5, RecordFacts, QueueAssumption DEF PopTake, Goto, Answer, QueueAssumption, IInv
  <2>1. LockDiscipline'
    BY DEF LockDiscipline, Inside
  <2>2. PhaseOK'
    <3>1. Head(items) \in Item \cup {NoItem} /\ "SUCCESS" \in Code
      BY DEF Code
    <3>2. /\ ret'[t] # NoResult
          /\ ret'[t].code = "SUCCESS" /\ ret'[t].item = Head(items)
          /\ \A u \in Thread \ {t} : ret'[u] = ret[u]
      BY <3>1, AnswerFacts, <1>5 DEF PopTake
    <3>3. QED
      BY <3>1, <3>2 DEF PhaseOK, LockDiscipline, Inside
  <2>3. EventsTruthful'
    BY DEF EventsTruthful, CapacityRespected, Announcing, Full, PhaseOK, LockDiscipline, Inside
  <2>4. CapacityRespected'
    BY DEF EventsTruthful, CapacityRespected, Announcing, Full, PhaseOK, LockDiscipline, Inside
  <2>5. QED
    BY <2>1, <2>2, <2>3, <2>4
<1>6. ASSUME NEW t \in Thread, PeekHead(t) PROVE IInv'
  <2> USE <1>6, RecordFacts, QueueAssumption DEF PeekHead, Goto, Answer, QueueAssumption, IInv
  <2>1. LockDiscipline'
    BY DEF LockDiscipline, Inside
  <2>2. PhaseOK'
    <3>1. Head(items) \in Item \cup {NoItem} /\ "SUCCESS" \in Code
      BY DEF Code
    <3>2. /\ ret'[t] # NoResult
          /\ ret'[t].code = "SUCCESS" /\ ret'[t].item = Head(items)
          /\ \A u \in Thread \ {t} : ret'[u] = ret[u]
      BY <3>1, AnswerFacts, <1>6 DEF PeekHead
    <3>3. QED
      BY <3>1, <3>2 DEF PhaseOK, LockDiscipline, Inside
  <2>3. EventsTruthful'
    BY DEF EventsTruthful, CapacityRespected, Announcing, Full, PhaseOK, LockDiscipline, Inside
  <2>4. CapacityRespected'
    BY DEF EventsTruthful, CapacityRespected, Announcing, Full, PhaseOK, LockDiscipline, Inside
  <2>5. QED
    BY <2>1, <2>2, <2>3, <2>4
<1>7. ASSUME NEW t \in Thread, PollEmpty(t) PROVE IInv'
  <2> USE <1>7, RecordFacts, QueueAssumption DEF PollEmpty, Goto, Answer, QueueAssumption, IInv
  <2>1. LockDiscipline'
    BY DEF LockDiscipline, Inside
  <2>2. PhaseOK'
    <3>1. NoItem \in Item \cup {NoItem} /\ "LIST_EMPTY" \in Code
      BY DEF Code
    <3>2. /\ ret'[t] # NoResult
          /\ ret'[t].code = "LIST_EMPTY" /\ ret'[t].item = NoItem
          /\ \A u \in Thread \ {t} : ret'[u] = ret[u]
      BY <3>1, AnswerFacts, <1>7 DEF PollEmpty
    <3>3. QED
      BY <3>1, <3>2 DEF PhaseOK, LockDiscipline, Inside
  <2>3. EventsTruthful'
    BY DEF EventsTruthful, CapacityRespected, Announcing, Full, PhaseOK, LockDiscipline, Inside
  <2>4. CapacityRespected'
    BY DEF EventsTruthful, CapacityRespected, Announcing, Full, PhaseOK, LockDiscipline, Inside
  <2>5. QED
    BY <2>1, <2>2, <2>3, <2>4
<1>8. ASSUME NEW t \in Thread, ReadBlock(t) PROVE IInv'
  <2> USE <1>8, RecordFacts, QueueAssumption DEF ReadBlock, Goto, Answer, QueueAssumption, IInv
  <2>1. LockDiscipline'
    BY DEF LockDiscipline, Inside
  <2>2. PhaseOK'
    BY DEF PhaseOK, LockDiscipline, Inside
  <2>3. EventsTruthful'
    BY DEF EventsTruthful, CapacityRespected, Announcing, Full, PhaseOK, LockDiscipline, Inside
  <2>4. CapacityRespected'
    BY DEF EventsTruthful, CapacityRespected, Announcing, Full, PhaseOK, LockDiscipline, Inside
  <2>5. QED
    BY <2>1, <2>2, <2>3, <2>4
<1>9. ASSUME NEW t \in Thread, Signal(t) PROVE IInv'
  <2> USE <1>9, RecordFacts, QueueAssumption DEF Signal, Goto, Answer, QueueAssumption, IInv
  <2>1. LockDiscipline'
    BY DEF LockDiscipline, Inside
  <2>2. PhaseOK'
    BY DEF PhaseOK, LockDiscipline, Inside
  <2>3. EventsTruthful'
    BY DEF EventsTruthful, CapacityRespected, Announcing, Full, PhaseOK, LockDiscipline, Inside
  <2>4. CapacityRespected'
    BY DEF EventsTruthful, CapacityRespected, Announcing, Full, PhaseOK, LockDiscipline, Inside
  <2>5. QED
    BY <2>1, <2>2, <2>3, <2>4
<1>10. ASSUME NEW t \in Thread, Release(t) PROVE IInv'
  <2> USE <1>10, RecordFacts, QueueAssumption DEF Release, Goto, Answer, QueueAssumption, IInv
  <2>1. LockDiscipline'
    BY DEF LockDiscipline, Inside
  <2>2. PhaseOK'
    BY DEF PhaseOK, LockDiscipline, Inside
  <2>3. EventsTruthful'
    BY DEF EventsTruthful, CapacityRespected, Announcing, Full, PhaseOK, LockDiscipline, Inside
  <2>4. CapacityRespected'
    BY DEF EventsTruthful, CapacityRespected, Announcing, Full, PhaseOK, LockDiscipline, Inside
  <2>5. QED
    BY <2>1, <2>2, <2>3, <2>4
<1>11. ASSUME NEW t \in Thread, Wake(t) PROVE IInv'
  <2> USE <1>11, RecordFacts, QueueAssumption DEF Wake, Goto, Answer, QueueAssumption, IInv
  <2>1. LockDiscipline'
    BY DEF LockDiscipline, Inside
  <2>2. PhaseOK'
    BY DEF PhaseOK, LockDiscipline, Inside
  <2>3. EventsTruthful'
    BY DEF EventsTruthful, CapacityRespected, Announcing, Full, PhaseOK, LockDiscipline, Inside
  <2>4. CapacityRespected'
    BY DEF EventsTruthful, CapacityRespected, Announcing, Full, PhaseOK, LockDiscipline, Inside
  <2>5. QED
    BY <2>1, <2>2, <2>3, <2>4
<1>12. ASSUME NEW t \in Thread, GiveUp(t) PROVE IInv'
  <2> USE <1>12, RecordFacts, QueueAssumption DEF GiveUp, Goto, Answer, QueueAssumption, IInv
  <2>1. LockDiscipline'
    BY DEF LockDiscipline, Inside
  <2>2. PhaseOK'
    <3>1. NoItem \in Item \cup {NoItem} /\ "TIMEOUT" \in Code
      BY DEF Code
    <3>2. /\ ret'[t] # NoResult
          /\ ret'[t].code = "TIMEOUT" /\ ret'[t].item = NoItem
          /\ \A u \in Thread \ {t} : ret'[u] = ret[u]
      BY <3>1, AnswerFacts, <1>12 DEF GiveUp
    <3>3. QED
      BY <3>1, <3>2 DEF PhaseOK, LockDiscipline, Inside
  <2>3. EventsTruthful'
    BY DEF EventsTruthful, CapacityRespected, Announcing, Full, PhaseOK, LockDiscipline, Inside
  <2>4. CapacityRespected'
    BY DEF EventsTruthful, CapacityRespected, Announcing, Full, PhaseOK, LockDiscipline, Inside
  <2>5. QED
    BY <2>1, <2>2, <2>3, <2>4
<1>13. ASSUME NEW t \in Thread, Leave(t) PROVE IInv'
  <2> USE <1>13, RecordFacts, QueueAssumption DEF Leave, Goto, Answer, QueueAssumption, IInv
  <2>1. LockDiscipline'
    BY DEF LockDiscipline, Inside
  <2>2. PhaseOK'
    BY DEF PhaseOK, LockDiscipline, Inside
  <2>3. EventsTruthful'
    BY DEF EventsTruthful, CapacityRespected, Announcing, Full, PhaseOK, LockDiscipline, Inside
  <2>4. CapacityRespected'
    BY DEF EventsTruthful, CapacityRespected, Announcing, Full, PhaseOK, LockDiscipline, Inside
  <2>5. QED
    BY <2>1, <2>2, <2>3, <2>4
<1>14. ASSUME NEW t \in Thread, Return(t) PROVE IInv'
  <2> USE <1>14, RecordFacts, QueueAssumption DEF Return, Goto, Answer, QueueAssumption, IInv
  <2>1. LockDiscipline'
    BY DEF LockDiscipline, Inside
  <2>2. PhaseOK'
    BY DEF PhaseOK, LockDiscipline, Inside
  <2>3. EventsTruthful'
    BY DEF EventsTruthful, CapacityRespected, Announcing, Full, PhaseOK, LockDiscipline, Inside
  <2>4. CapacityRespected'
    BY DEF EventsTruthful, CapacityRespected, Announcing, Full, PhaseOK, LockDiscipline, Inside
  <2>5. QED
    BY <2>1, <2>2, <2>3, <2>4
<1>15. CASE UNCHANGED vars
  BY <1>15 DEF vars, IInv, LockDiscipline, PhaseOK, EventsTruthful, CapacityRespected,
     Announcing, Full, Inside
<1>16. QED
  BY <1>1, <1>2, <1>3, <1>4, <1>5, <1>6, <1>7, <1>8, <1>9, <1>10, <1>11, <1>12, <1>13, <1>14, <1>15 DEF Next, Step

-----------------------------------------------------------------------------
(* Taking the item a push has just added off the list again. *)
LEMMA UndoAppend ==
  ASSUME NEW s \in Seq(Item), NEW i \in Item
  PROVE  SubSeq(Append(s, i), 1, Len(Append(s, i)) - 1) = s
<1>1. Len(Append(s, i)) - 1 = Len(s)
  BY AppendProperties
<1> DEFINE front == SubSeq(Append(s, i), 1, Len(s))
<1>2. \A k \in 1 .. Len(s) : Append(s, i)[k] \in Item
  BY AppendProperties, ElementOfSeq
<1>3. /\ front \in Seq(Item) /\ Len(front) = Len(s)
      /\ \A k \in 1 .. Len(s) : front[k] = s[k]
  <2>1. Len(s) \in Nat
    BY LenProperties
  <2>2. /\ front \in Seq(Item)
        /\ Len(front) = IF 1 <= Len(s) THEN Len(s) - 1 + 1 ELSE 0
        /\ \A k \in 1 .. Len(s) - 1 + 1 : front[k] = Append(s, i)[1 + k - 1]
    BY <1>2, <2>1, SubSeqProperties
  <2>3. \A k \in 1 .. Len(s) : Append(s, i)[k] = s[k]
    BY AppendProperties
  <2>4. QED
    BY <2>1, <2>2, <2>3
<1>4. front = s
  BY <1>3, SeqEqual
<1>5. QED
  BY <1>1, <1>4

(* Adding the last item to the rest of the list again. *)
LEMMA RedoAppend ==
  ASSUME NEW s \in Seq(Item), s # << >>
  PROVE  s = Append(SubSeq(s, 1, Len(s) - 1), s[Len(s)])
<1>1. PICK r \in Seq(Item), i \in Item : s = Append(r, i)
  BY SequenceEmptyOrAppend
<1>2. SubSeq(s, 1, Len(s) - 1) = r
  BY <1>1, UndoAppend
<1>3. s[Len(s)] = i
  BY <1>1, AppendProperties
<1>4. QED
  BY <1>1, <1>2, <1>3

(* How much is left when the last item is taken off. *)
LEMMA SubSeqLength ==
  ASSUME NEW s \in Seq(Item), s # << >>
  PROVE  Len(SubSeq(s, 1, Len(s) - 1)) = Len(s) - 1
<1>1. PICK r \in Seq(Item), i \in Item : s = Append(r, i)
  BY SequenceEmptyOrAppend
<1>2. QED
  BY <1>1, UndoAppend, AppendProperties

(* The head put back in front of the tail. *)
LEMMA HeadOnTail ==
  ASSUME NEW s \in Seq(Item), s # << >>
  PROVE  <<Head(s)>> \o Tail(s) = s
<1>1. Len(s) \in Nat \ {0} /\ Head(s) = s[1]
  BY EmptySeq
<1>2. Tail(s) = SubSeq(s, 2, Len(s))
  BY TailIsSubSeq
<1>3. SubSeq(s, 1, Len(s)) = <<s[1]>> \o SubSeq(s, 2, Len(s))
  BY <1>1, SubSeqRecursiveFirst
<1>4. QED
  BY <1>1, <1>2, <1>3, SubSeqFull

(* Taking that head off again. *)
LEMMA TailOfCons ==
  ASSUME NEW s \in Seq(Item), NEW i \in Item
  PROVE  /\ <<i>> \o s # << >>
         /\ Head(<<i>> \o s) = i
         /\ Tail(<<i>> \o s) = s
         /\ Len(<<i>> \o s) = Len(s) + 1
<1> DEFINE c == <<i>> \o s
<1>1. <<i>> \in Seq(Item) /\ Len(<<i>>) = 1 /\ <<i>>[1] = i
  OBVIOUS
<1>2. /\ c \in Seq(Item) /\ Len(c) = 1 + Len(s)
      /\ \A k \in 1 .. 1 + Len(s) : c[k] = IF k <= 1 THEN <<i>>[k] ELSE s[k - 1]
  BY <1>1, ConcatProperties
<1>3. Len(s) \in Nat
  BY LenProperties
<1>4. c # << >> /\ Head(c) = i
  BY <1>1, <1>2, <1>3
<1>5. /\ Tail(c) \in Seq(Item) /\ Len(Tail(c)) = Len(s)
      /\ \A k \in 1 .. Len(s) : Tail(c)[k] = s[k]
  BY <1>2, <1>3, <1>4, HeadTailProperties
<1>6. Tail(c) = s
  BY <1>5, SeqEqual
<1>7. QED
  BY <1>2, <1>3, <1>4, <1>6

-----------------------------------------------------------------------------
(* The initial state has the whole invariant. *)
LEMMA InductiveInit == Init => IInv
<1> SUFFICES ASSUME Init PROVE IInv
  OBVIOUS
<1>1. TypeOK
  BY TypeInit
<1>2. LockDiscipline /\ PhaseOK
  BY QueueAssumption DEF Init, LockDiscipline, Inside, PhaseOK, QueueAssumption
<1>3. EventsTruthful /\ CapacityRespected
  BY QueueAssumption DEF Init, EventsTruthful, CapacityRespected, Announcing, QueueAssumption
<1>4. QED
  BY <1>1, <1>2, <1>3 DEF IInv

(* Win32Queue: the inductive invariant holds for every set of threads.       *)
THEOREM Invariance == Spec => []IInv
  BY InductiveInit, InductiveStep, PTL DEF Spec

(* Win32Queue: every variable keeps its type.                                *)
THEOREM TypeCorrect == Spec => []TypeOK
  BY TypeInit, TypeStep, PTL DEF Spec

(* YetiWin32Queue.cpp: no two threads are ever between lock and unlock, and  *)
(* the lock is never left behind by a wait or a return.                      *)
THEOREM LockSafe == Spec => []LockDiscipline
<1>1. IInv => LockDiscipline
  BY DEF IInv
<1>2. QED
  BY <1>1, Invariance, PTL

(* YetiWin32Queue.cpp: the list never outgrows m_max_items_.                 *)
THEOREM CapacitySafe == Spec => []CapacityRespected
<1>1. IInv => CapacityRespected
  BY DEF IInv
<1>2. QED
  BY <1>1, Invariance, PTL

(* YetiWin32Queue.cpp: no thread sleeps on an event that should be set.      *)
THEOREM NoLostWakeUp == Spec => []EventsTruthful
<1>1. IInv => EventsTruthful
  BY DEF IInv
<1>2. QED
  BY <1>1, Invariance, PTL

-----------------------------------------------------------------------------
(* Outside the window between a change and its signal, the queue is the list. *)
LEMMA SettledIsItems ==
  ASSUME \A u \in Thread : mutex = u => pc[u] # "signal"
  PROVE  SettledQueue = items
  BY DEF SettledQueue, Announcing

(* The queue as promised while the thread inside the lock is about to signal. *)
LEMMA SettledInSignal ==
  ASSUME IInv, NEW t \in Thread, pc[t] = "signal"
  PROVE  /\ mutex = t
         /\ call[t].op = "push" =>
              SettledQueue = SubSeq(items, 1, Len(items) - 1)
         /\ call[t].op = "pop" => SettledQueue = <<ret[t].item>> \o items
  BY DEF IInv, LockDiscipline, Inside, SettledQueue, Announcing

(* The initial state is an initial state of the promise. *)
LEMMA MapInit == Init => Promise!Init
<1> SUFFICES ASSUME Init PROVE Promise!Init
  OBVIOUS
<1>1. SettledQueue = << >>
  BY QueueAssumption DEF Init, SettledQueue, Announcing, QueueAssumption
<1>2. SettledRet = [t \in Thread |-> NoResult]
  BY DEF Init, SettledRet
<1>3. QED
  BY <1>1, <1>2 DEF Init, Promise!Init

(* Every step of the code is a step of the promise, or invisible to it. *)
LEMMA MapStep == IInv /\ IInv' /\ [Next]_vars => [Promise!Next]_(Promise!vars)
<1> SUFFICES ASSUME IInv, IInv', [Next]_vars PROVE [Promise!Next]_(Promise!vars)
  OBVIOUS
<1> DEFINE Silent == UNCHANGED <<SettledQueue, call, SettledRet>>
<1>a. Silent => UNCHANGED Promise!vars
  BY DEF Promise!vars
<1> USE QueueAssumption DEF Goto, TypeOK
<1>h. TypeOK /\ TypeOK' /\ LockDiscipline /\ LockDiscipline' /\ PhaseOK
  BY DEF IInv
<1>1. ASSUME NEW t \in Thread, NEW c \in Calls[t], Start(t, c)
      PROVE  Promise!Start(t)
  <2>1. call[t] = NoCall /\ call' = [call EXCEPT ![t] = c]
    BY <1>1, <1>h DEF Start, PhaseOK
  <2>2. UNCHANGED SettledQueue
    BY <1>1, <1>h DEF Start, SettledQueue, Announcing, LockDiscipline, Inside
  <2>3. UNCHANGED SettledRet
    BY <1>1, <1>h DEF Start, SettledRet
  <2>4. QED
    BY <2>1, <2>2, <2>3 DEF Promise!Start
<1>2. ASSUME NEW t \in Thread, Enter(t) PROVE Silent
  <2>1. UNCHANGED SettledQueue
    BY <1>2, <1>h, QueueAssumption DEF Enter, SettledQueue, Announcing, LockDiscipline, Inside, QueueAssumption
  <2>2. UNCHANGED SettledRet
    BY <1>2, <1>h DEF Enter, SettledRet
  <2>3. QED
    BY <1>2, <2>1, <2>2 DEF Enter
<1>3. ASSUME NEW t \in Thread, PushBlock(t) PROVE Silent
  <2>1. UNCHANGED SettledQueue
    BY <1>3, <1>h, QueueAssumption DEF PushBlock, SettledQueue, Announcing, LockDiscipline, Inside, QueueAssumption
  <2>2. UNCHANGED SettledRet
    BY <1>3, <1>h DEF PushBlock, SettledRet
  <2>3. QED
    BY <1>3, <2>1, <2>2 DEF PushBlock
<1>4. ASSUME NEW t \in Thread, ReadBlock(t) PROVE Silent
  <2>1. UNCHANGED SettledQueue
    BY <1>4, <1>h, QueueAssumption DEF ReadBlock, SettledQueue, Announcing, LockDiscipline, Inside, QueueAssumption
  <2>2. UNCHANGED SettledRet
    BY <1>4, <1>h DEF ReadBlock, SettledRet
  <2>3. QED
    BY <1>4, <2>1, <2>2 DEF ReadBlock
<1>5. ASSUME NEW t \in Thread, Release(t) PROVE Silent
  <2>1. UNCHANGED SettledQueue
    BY <1>5, <1>h, QueueAssumption DEF Release, SettledQueue, Announcing, LockDiscipline, Inside, QueueAssumption
  <2>2. UNCHANGED SettledRet
    BY <1>5, <1>h DEF Release, SettledRet
  <2>3. QED
    BY <1>5, <2>1, <2>2 DEF Release
<1>6. ASSUME NEW t \in Thread, Wake(t) PROVE Silent
  <2>1. UNCHANGED SettledQueue
    BY <1>6, <1>h, QueueAssumption DEF Wake, SettledQueue, Announcing, LockDiscipline, Inside, QueueAssumption
  <2>2. UNCHANGED SettledRet
    BY <1>6, <1>h DEF Wake, SettledRet
  <2>3. QED
    BY <1>6, <2>1, <2>2 DEF Wake
<1>7. ASSUME NEW t \in Thread, Leave(t) PROVE Silent
  <2>1. UNCHANGED SettledQueue
    BY <1>7, <1>h, QueueAssumption DEF Leave, SettledQueue, Announcing, LockDiscipline, Inside, QueueAssumption
  <2>2. UNCHANGED SettledRet
    BY <1>7, <1>h DEF Leave, SettledRet
  <2>3. QED
    BY <1>7, <2>1, <2>2 DEF Leave
<1>8. ASSUME NEW t \in Thread, PushAdd(t) PROVE Silent
  <2>1. mutex = t /\ mutex' = t /\ pc'[t] = "signal" /\ call'[t].op = "push"
        /\ ret[t] = NoResult
    BY <1>8, <1>h DEF PushAdd, LockDiscipline, Inside, PhaseOK
  <2>2. call[t].item \in Item
    BY <1>8, <1>h, RecordFacts DEF PushAdd
  <2>3. SettledQueue' = items
    BY <1>8, <1>h, <2>1, <2>2, UndoAppend DEF PushAdd, SettledQueue, Announcing
  <2>4. SettledQueue = items
    BY <1>8, <2>1, SettledIsItems DEF PushAdd
  <2>5. UNCHANGED SettledRet
    BY <1>8, <1>h, <2>1 DEF PushAdd, Answer, SettledRet
  <2>6. QED
    BY <1>8, <2>3, <2>4, <2>5 DEF PushAdd
<1>9. ASSUME NEW t \in Thread, PopTake(t) PROVE Silent \/ Promise!Pop(t)
  <2>1. mutex = t /\ mutex' = t /\ call[t].op = "pop" /\ call' = call /\ ret[t] = NoResult
        /\ items # << >> /\ items' = Tail(items) /\ pc[t] = "test"
    BY <1>9, <1>h DEF PopTake, LockDiscipline, Inside, PhaseOK
  <2>2. SettledQueue = items
    BY <2>1, SettledIsItems
  <2>3. Head(items) \in Item
    BY <1>h, <2>1, HeadTailProperties
  <2>4. ret'[t] = [code |-> "SUCCESS", item |-> Head(items)]
        /\ ret' = [ret EXCEPT ![t] = ret'[t]]
    BY <1>9, <1>h DEF PopTake, Answer
  <2>5. CASE Max > 0
    <3>1. pc' = [pc EXCEPT ![t] = "signal"]
      BY <1>9, <2>5 DEF PopTake
    <3>2. SettledQueue' = <<Head(items)>> \o Tail(items)
      BY <1>h, <2>1, <2>4, <3>1 DEF SettledQueue, Announcing
    <3>3. SettledQueue' = SettledQueue
      BY <1>h, <2>1, <2>2, <3>2, HeadOnTail
    <3>4. UNCHANGED SettledRet
      BY <1>h, <2>1, <2>4, <3>1 DEF SettledRet
    <3>5. QED
      BY <2>1, <3>3, <3>4
  <2>6. CASE ~(Max > 0)
    <3>1. pc' = [pc EXCEPT ![t] = "leave"]
      BY <1>9, <2>6 DEF PopTake
    <3>2. SettledQueue' = Tail(items)
      BY <1>h, <2>1, <3>1 DEF SettledQueue, Announcing
    <3>3. SettledRet' = [SettledRet EXCEPT ![t] = [code |-> "SUCCESS", item |-> Head(items)]]
      BY <1>h, <2>1, <2>4, <3>1 DEF SettledRet
    <3>4. SettledRet[t] = NoResult
      BY <1>h, <2>1 DEF SettledRet
    <3>5. QED
      BY <2>1, <2>2, <3>2, <3>3, <3>4 DEF Promise!Pop, Promise!Pending, Promise!Decide
  <2>7. QED
    BY <2>5, <2>6
<1>10. ASSUME NEW t \in Thread, PeekHead(t) PROVE Promise!Peek(t)
  <2>1. mutex = t /\ call' = call /\ ret[t] = NoResult /\ pc[t] = "test"
    BY <1>10, <1>h DEF PeekHead, LockDiscipline, Inside, PhaseOK
  <2>2. SettledQueue = items /\ SettledQueue' = items
    BY <1>10, <1>h, <2>1 DEF PeekHead, SettledQueue, Announcing
  <2>3. SettledRet' = [SettledRet EXCEPT ![t] = [code |-> "SUCCESS", item |-> Head(items)]]
    BY <1>10, <1>h, <2>1 DEF PeekHead, Answer, SettledRet
  <2>4. SettledRet[t] = NoResult
    BY <1>h, <2>1 DEF SettledRet
  <2>5. QED
    BY <1>10, <2>2, <2>3, <2>4
       DEF PeekHead, Promise!Peek, Promise!Pending, Promise!Decide
<1>11. ASSUME NEW t \in Thread, PollEmpty(t) PROVE Promise!FindEmpty(t)
  <2>1. mutex = t /\ call' = call /\ ret[t] = NoResult /\ pc[t] = "test"
    BY <1>11, <1>h DEF PollEmpty, LockDiscipline, Inside, PhaseOK
  <2>2. SettledQueue = items /\ SettledQueue' = items
    BY <1>11, <1>h, <2>1 DEF PollEmpty, SettledQueue, Announcing
  <2>3. SettledRet' = [SettledRet EXCEPT ![t] = [code |-> "LIST_EMPTY", item |-> NoItem]]
    BY <1>11, <1>h, <2>1 DEF PollEmpty, Answer, SettledRet
  <2>4. SettledRet[t] = NoResult
    BY <1>h, <2>1 DEF SettledRet
  <2>5. QED
    BY <1>11, <2>2, <2>3, <2>4
       DEF PollEmpty, Promise!FindEmpty, Promise!Pending, Promise!Decide
<1>12. ASSUME NEW t \in Thread, Signal(t) PROVE Promise!Push(t) \/ Promise!Pop(t)
  <2>1. /\ pc[t] = "signal" /\ mutex = t /\ call' = call /\ ret' = ret /\ items' = items
        /\ pc' = [pc EXCEPT ![t] = "leave"]
    BY <1>12, <1>h DEF Signal, LockDiscipline, Inside
  <2>2. SettledQueue' = items
    BY <1>12, <1>h, <2>1 DEF Signal, SettledQueue, Announcing
  <2>3. SettledRet' = [SettledRet EXCEPT ![t] = ret[t]] /\ SettledRet[t] = NoResult
    BY <1>h, <2>1 DEF SettledRet
  <2>4. ret[t] = [code |-> "SUCCESS", item |-> ret[t].item]
    BY <1>h, <2>1 DEF PhaseOK, Result, NoResult
  <2>5. CASE call[t].op = "push"
    <3>1. items # << >> /\ items[Len(items)] = call[t].item
      BY <1>h, <2>1, <2>5 DEF PhaseOK
    <3>2. SettledQueue = SubSeq(items, 1, Len(items) - 1)
      BY <2>1, <2>5, SettledInSignal
    <3>3. items = Append(SettledQueue, call[t].item)
      BY <1>h, <3>1, <3>2, RedoAppend
    <3>4. ~Promise!Full
      <4>1. Len(SettledQueue) = Len(items) - 1
        BY <1>h, <3>1, <3>2, SubSeqLength
      <4>2. Max > 0 => Len(items) <= Max
        BY DEF IInv, CapacityRespected
      <4>3. QED
        BY <1>h, <4>1, <4>2, LenProperties DEF Promise!Full, QueueAssumption
    <3>5. ret[t].item = NoItem
      BY <1>h, <2>1, <2>5 DEF PhaseOK
    <3>6. QED
      BY <2>1, <2>2, <2>3, <2>4, <2>5, <3>3, <3>4, <3>5
         DEF Promise!Push, Promise!Pending, Promise!Decide
  <2>6. CASE call[t].op = "pop"
    <3>1. ret[t].item \in Item
      BY <1>h, <2>1, <2>6 DEF PhaseOK
    <3>2. SettledQueue = <<ret[t].item>> \o items
      BY <2>1, <2>6, SettledInSignal
    <3>3. SettledQueue # << >> /\ Head(SettledQueue) = ret[t].item /\ Tail(SettledQueue) = items
      BY <1>h, <3>1, <3>2, TailOfCons
    <3>4. QED
      BY <2>1, <2>2, <2>3, <2>4, <2>6, <3>3
         DEF Promise!Pop, Promise!Pending, Promise!Decide
  <2>7. QED
    BY <1>h, <2>1, <2>5, <2>6 DEF PhaseOK
<1>13. ASSUME NEW t \in Thread, GiveUp(t) PROVE Promise!TimeOut(t)
  <2>1. /\ pc[t] = "wait" /\ call' = call /\ ret[t] = NoResult /\ mutex' = mutex
        /\ mutex # t /\ items' = items /\ pc' = [pc EXCEPT ![t] = "done"]
        /\ call[t] # NoCall
    BY <1>13, <1>h DEF GiveUp, LockDiscipline, Inside, PhaseOK
  <2>2. SettledRet' = [SettledRet EXCEPT ![t] = [code |-> "TIMEOUT", item |-> NoItem]]
        /\ SettledRet[t] = NoResult
    BY <1>13, <1>h, <2>1 DEF GiveUp, Answer, SettledRet
  <2>3. UNCHANGED SettledQueue
    BY <1>13, <1>h, <2>1 DEF GiveUp, Answer, SettledQueue, Announcing
  <2>4. EventsTruthful /\ CapacityRespected /\ Len(items) \in Nat
    BY <1>h, LenProperties DEF IInv
  <2>5. CASE call[t].op = "push"
    <3>1. Max > 0 /\ ~Announcing("push")
          /\ (Len(items) = Max \/ (Len(items) = Max - 1 /\ Announcing("pop")))
      BY <1>13, <2>4, <2>5 DEF GiveUp, EventOf, EventsTruthful
    <3>2. Len(SettledQueue) >= Max
      <4>1. CASE Announcing("pop")
        <5>1. SettledQueue = <<ret[mutex].item>> \o items
          BY <3>1, <4>1 DEF SettledQueue
        <5>2. ret[mutex].item \in Item
          BY <1>h, <4>1 DEF Announcing, PhaseOK
        <5>3. Len(SettledQueue) = Len(items) + 1
          BY <1>h, <5>1, <5>2, TailOfCons
        <5>4. QED
          BY <2>4, <3>1, <5>3 DEF QueueAssumption
      <4>2. CASE ~Announcing("pop")
        BY <2>4, <3>1, <4>2 DEF SettledQueue, QueueAssumption
      <4>3. QED
        BY <4>1, <4>2
    <3>3. QED
      BY <1>13, <2>1, <2>2, <2>3, <2>5, <3>1, <3>2
         DEF GiveUp, Promise!TimeOut, Promise!Pending, Promise!Full, Promise!Decide
  <2>6. CASE call[t].op \in {"pop", "peek"}
    <3>1. SettledQueue = << >>
      <4>1. \/ items = << >> /\ ~Announcing("pop")
            \/ Len(items) = 1 /\ Announcing("push")
        BY <1>13, <2>4, <2>6 DEF GiveUp, EventOf, EventsTruthful
      <4>2. CASE Announcing("push")
        <5>1. items # << >>
          BY <1>h, <4>2 DEF Announcing, PhaseOK
        <5>2. SettledQueue = SubSeq(items, 1, Len(items) - 1) /\ Len(items) = 1
          BY <4>1, <4>2, <5>1 DEF SettledQueue
        <5>3. Len(SettledQueue) = 0 /\ SettledQueue \in Seq(Item)
          <6>1. SettledQueue = SubSeq(items, 1, 0)
            BY <5>2
          <6>2. QED
            BY <6>1, SubSeqProperties
        <5>4. QED
          BY <5>3, EmptySeq
      <4>3. CASE ~Announcing("push")
        BY <4>1, <4>3 DEF SettledQueue
      <4>4. QED
        BY <4>2, <4>3
    <3>2. call[t].timeout = "finite"
      <4>1. call[t] \in Call /\ call[t].timeout # "zero" /\ call[t].timeout # "infinite"
        BY <1>13, <1>h, <2>1, <2>6 DEF GiveUp, PhaseOK
      <4>2. QED
        BY <4>1 DEF Call, Timeout
    <3>3. QED
      BY <2>1, <2>2, <2>3, <2>6, <3>1, <3>2
         DEF Promise!TimeOut, Promise!Pending, Promise!Decide
  <2>7. QED
    BY <1>h, <2>1, <2>5, <2>6 DEF PhaseOK
<1>14. ASSUME NEW t \in Thread, Return(t) PROVE Promise!Finish(t)
  <2>1. pc[t] = "done" /\ ret[t] # NoResult
    BY <1>14, <1>h DEF Return, PhaseOK
  <2>2. UNCHANGED SettledQueue
    BY <1>14, <1>h DEF Return, SettledQueue, Announcing, LockDiscipline, Inside
  <2>3. SettledRet' = [SettledRet EXCEPT ![t] = NoResult] /\ SettledRet[t] # NoResult
    BY <1>14, <1>h, <2>1 DEF Return, SettledRet
  <2>4. QED
    BY <1>14, <2>2, <2>3 DEF Return, Promise!Finish
<1>15. CASE UNCHANGED vars
  <2>1. Silent
    BY <1>15 DEF vars, SettledQueue, SettledRet, Announcing
  <2>2. QED
    BY <1>a, <2>1
<1>16. QED
  BY <1>a, <1>1, <1>2, <1>3, <1>4, <1>5, <1>6, <1>7, <1>8, <1>9, <1>10, <1>11,
     <1>12, <1>13, <1>14, <1>15 DEF Next, Step, Promise!Next

(* YetiWin32Queue.cpp implements what YetiQueue.h promises, whatever the     *)
(* threads, the limit and the calls: see ImplementsBoundedQueue.             *)
THEOREM Implements == Spec => ImplementsBoundedQueue
<1>1. Init => Promise!Init
  BY MapInit
<1>2. IInv /\ IInv' /\ [Next]_vars => [Promise!Next]_(Promise!vars)
  BY MapStep
<1>3. QED
  BY <1>1, <1>2, Invariance, PTL DEF Spec, ImplementsBoundedQueue, Promise!Spec
=============================================================================
