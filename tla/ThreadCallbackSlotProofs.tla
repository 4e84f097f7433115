---------------------- MODULE ThreadCallbackSlotProofs ----------------------
(***************************************************************************)
(* For any number of senders, receivers and closers, and any timeouts: a   *)
(* callback runs at most once, on arguments that are alive, and never      *)
(* after the shutdown, and nobody sleeps past a signal.                    *)
(*                                                                         *)
(* The argument.  The two locks let one sender and one receiver (or        *)
(* closer) at a time take part (Locks).  Until a shutdown raises its flag  *)
(* the two variables say how far these two have come (Handshake); after    *)
(* it nothing is delivered, and what the variables hold, which may then    *)
(* be anything, no longer matters.                                         *)
(***************************************************************************)
EXTENDS ThreadCallbackSlot, TLAPS

InSend(s) == pc[s] \in {"check", "post", "testAck", "sleepAck", "clear", "answer"}
InReceive(r) == pc[r] \in {"look", "testPending", "sleepPending", "checkDown", "callback", "unpend", "acknowledge", "leave"}
InClose(c) == pc[c] \in {"raise", "unpend", "acknowledge", "leave"}

Locks ==
  /\ \A s \in Sender : InSend(s) <=> writeLock = s
  /\ \A r \in Receiver : InReceive(r) <=> readLock = r
  /\ \A c \in Closer : InClose(c) <=> readLock = c

(* What a call of send_callback has seen so far. *)
Calls ==
  \A s \in Sender :
    /\ pc[s] # "idle" => ret[s] = "none"
    /\ pc[s] \in {"writeLock", "check", "post"} => ran[s] = 0
    /\ pc[s] \in {"clear", "answer"} /\ ~shutdown => ran[s] = 1

(* The sender whose arguments the slot holds is waiting. *)
Published == args \in Sender /\ AwaitsAck(args)

Handshake ==
  ~shutdown =>
    /\ \A c \in Closer : pc[c] \in {"idle", "readLock", "raise"}
    /\ \A s \in Sender : AwaitsAck(s) =>
         /\ args = s
         /\ ran[s] = IF pending = 1 /\ \A r \in Receiver : pc[r] # "unpend" THEN 0 ELSE 1
    /\ pending = 1 => ack = 0 /\ Published
    /\ ack = 1 => \E s \in Sender : AwaitsAck(s) \/ pc[s] = "clear"
    /\ \A s \in Sender : pc[s] = "clear" => ack = 1
    /\ \A r \in Receiver :
         /\ pc[r] \in {"checkDown", "callback", "unpend"} => pending = 1
         /\ pc[r] = "acknowledge" => pending = 0 /\ ack = 0 /\ Published

IInv == TypeOK /\ Locks /\ Calls /\ Handshake /\ DeliveredOnce /\ SilentAfterShutdown /\ NoSleepingPast

-----------------------------------------------------------------------------
LEMMA InductiveInit == Init => IInv
<1> SUFFICES ASSUME Init PROVE IInv
  OBVIOUS
<1> USE SlotAssumption DEF SlotAssumption, Thread, Nobody, NULL, Init
<1>1. pendingEvent \in BOOLEAN /\ ackEvent \in BOOLEAN /\ shutdown \in BOOLEAN
  OBVIOUS
<1>2. TypeOK
  BY <1>1 DEF TypeOK, SenderPC, ReceiverPC, CloserPC
<1>3. Locks
  BY DEF Locks, InSend, InReceive, InClose
<1>4. Calls /\ Handshake
  BY DEF Calls, Handshake, AwaitsAck
<1>5. DeliveredOnce /\ SilentAfterShutdown /\ NoSleepingPast
  BY DEF DeliveredOnce, SilentAfterShutdown, NoSleepingPast
<1> QED
  BY <1>2, <1>3, <1>4, <1>5 DEF IInv

(* A step of send_callback. *)
LEMMA SendStep ==
  ASSUME IInv, NEW s \in Sender,
         SendCall(s) \/ SendLock(s) \/ SendRefuse(s) \/ SendAccept(s) \/ SendPost(s) \/ SendTestAck(s) \/ SendWake(s) \/ SendClear(s) \/ SendReturn(s)
  PROVE  IInv'
<1> USE SlotAssumption DEF SlotAssumption, Thread, Nobody, NULL, IInv, Goto, At, pendingVars, ackVars, locks
<1>1. CASE SendCall(s)
  <2> USE <1>1 DEF SendCall
  <2>1. TypeOK' /\ Locks'
    BY DEF TypeOK, SenderPC, ReceiverPC, CloserPC, Locks, InSend, InReceive, InClose, DeliveredOnce
  <2>2. Calls' /\ DeliveredOnce'
    BY DEF TypeOK, Locks, InSend, InReceive, Calls, Handshake, Published, AwaitsAck, DeliveredOnce, SilentAfterShutdown
  <2>3. Handshake'
    BY DEF TypeOK, Locks, InSend, InReceive, InClose, Calls, Handshake, Published, AwaitsAck, SilentAfterShutdown
  <2>4. SilentAfterShutdown' /\ NoSleepingPast'
    BY DEF TypeOK, Locks, InSend, InReceive, InClose, SilentAfterShutdown, NoSleepingPast
  <2> QED
    BY <2>1, <2>2, <2>3, <2>4
<1>2. CASE SendLock(s)
  <2> USE <1>2 DEF SendLock
  <2>1. TypeOK' /\ Locks'
    BY DEF TypeOK, SenderPC, ReceiverPC, CloserPC, Locks, InSend, InReceive, InClose, DeliveredOnce
  <2>2. Calls' /\ DeliveredOnce'
    BY DEF TypeOK, Locks, InSend, InReceive, Calls, Handshake, Published, AwaitsAck, DeliveredOnce, SilentAfterShutdown
  <2>3. Handshake'
    BY DEF TypeOK, Locks, InSend, InReceive, InClose, Calls, Handshake, Published, AwaitsAck, SilentAfterShutdown
  <2>4. SilentAfterShutdown' /\ NoSleepingPast'
    BY DEF TypeOK, Locks, InSend, InReceive, InClose, SilentAfterShutdown, NoSleepingPast
  <2> QED
    BY <2>1, <2>2, <2>3, <2>4
<1>3. CASE SendRefuse(s)
  <2> USE <1>3 DEF SendRefuse
  <2>1. TypeOK' /\ Locks'
    BY DEF TypeOK, SenderPC, ReceiverPC, CloserPC, Locks, InSend, InReceive, InClose, DeliveredOnce
  <2>2. Calls' /\ DeliveredOnce'
    BY DEF TypeOK, Locks, InSend, InReceive, Calls, Handshake, Published, AwaitsAck, DeliveredOnce, SilentAfterShutdown
  <2>3. Handshake'
    BY DEF TypeOK, Locks, InSend, InReceive, InClose, Calls, Handshake, Published, AwaitsAck, SilentAfterShutdown
  <2>4. SilentAfterShutdown' /\ NoSleepingPast'
    BY DEF TypeOK, Locks, InSend, InReceive, InClose, SilentAfterShutdown, NoSleepingPast
  <2> QED
    BY <2>1, <2>2, <2>3, <2>4
<1>4. CASE SendAccept(s)
  <2> USE <1>4 DEF SendAccept
  <2>1. TypeOK' /\ Locks'
    BY DEF TypeOK, SenderPC, ReceiverPC, CloserPC, Locks, InSend, InReceive, InClose, DeliveredOnce
  <2>2. Calls' /\ DeliveredOnce'
    BY DEF TypeOK, Locks, InSend, InReceive, Calls, Handshake, Published, AwaitsAck, DeliveredOnce, SilentAfterShutdown
  <2>3. Handshake'
    BY DEF TypeOK, Locks, InSend, InReceive, InClose, Calls, Handshake, Published, AwaitsAck, SilentAfterShutdown
  <2>4. SilentAfterShutdown' /\ NoSleepingPast'
    BY DEF TypeOK, Locks, InSend, InReceive, InClose, SilentAfterShutdown, NoSleepingPast
  <2> QED
    BY <2>1, <2>2, <2>3, <2>4
<1>5. CASE SendPost(s)
  <2> USE <1>5 DEF SendPost, Pending!SetValue
  <2>1. TypeOK' /\ Locks'
    BY DEF TypeOK, SenderPC, ReceiverPC, CloserPC, Locks, InSend, InReceive, InClose, DeliveredOnce
  <2>2. Calls' /\ DeliveredOnce'
    BY DEF TypeOK, Locks, InSend, InReceive, Calls, Handshake, Published, AwaitsAck, DeliveredOnce, SilentAfterShutdown
  <2>3. Handshake'
    BY DEF TypeOK, Locks, InSend, InReceive, InClose, Calls, Handshake, Published, AwaitsAck, SilentAfterShutdown
  <2>4. SilentAfterShutdown' /\ NoSleepingPast'
    BY DEF TypeOK, Locks, InSend, InReceive, InClose, SilentAfterShutdown, NoSleepingPast
  <2> QED
    BY <2>1, <2>2, <2>3, <2>4
<1>6. CASE SendTestAck(s)
  <2> USE <1>6 DEF SendTestAck
  <2>1. TypeOK' /\ Locks'
    BY DEF TypeOK, SenderPC, ReceiverPC, CloserPC, Locks, InSend, InReceive, InClose, DeliveredOnce
  <2>2. Calls' /\ DeliveredOnce'
    BY DEF TypeOK, Locks, InSend, InReceive, Calls, Handshake, Published, AwaitsAck, DeliveredOnce, SilentAfterShutdown
  <2>3. Handshake'
    BY DEF TypeOK, Locks, InSend, InReceive, InClose, Calls, Handshake, Published, AwaitsAck, SilentAfterShutdown
  <2>4. SilentAfterShutdown' /\ NoSleepingPast'
    BY DEF TypeOK, Locks, InSend, InReceive, InClose, SilentAfterShutdown, NoSleepingPast
  <2> QED
    BY <2>1, <2>2, <2>3, <2>4
<1>7. CASE SendWake(s)
  <2> USE <1>7 DEF SendWake, Ack!Consume
  <2>1. TypeOK' /\ Locks'
    BY DEF TypeOK, SenderPC, ReceiverPC, CloserPC, Locks, InSend, InReceive, InClose, DeliveredOnce
  <2>2. Calls' /\ DeliveredOnce'
    BY DEF TypeOK, Locks, InSend, InReceive, Calls, Handshake, Published, AwaitsAck, DeliveredOnce, SilentAfterShutdown
  <2>3. Handshake'
    BY DEF TypeOK, Locks, InSend, InReceive, InClose, Calls, Handshake, Published, AwaitsAck, SilentAfterShutdown
  <2>4. SilentAfterShutdown' /\ NoSleepingPast'
    BY DEF TypeOK, Locks, InSend, InReceive, InClose, SilentAfterShutdown, NoSleepingPast
  <2> QED
    BY <2>1, <2>2, <2>3, <2>4
<1>8. CASE SendClear(s)
  <2> USE <1>8 DEF SendClear, Ack!SetValue
  <2>1. TypeOK' /\ Locks'
    BY DEF TypeOK, SenderPC, ReceiverPC, CloserPC, Locks, InSend, InReceive, InClose, DeliveredOnce
  <2>2. Calls' /\ DeliveredOnce'
    BY DEF TypeOK, Locks, InSend, InReceive, Calls, Handshake, Published, AwaitsAck, DeliveredOnce, SilentAfterShutdown
  <2>3. Handshake'
    BY DEF TypeOK, Locks, InSend, InReceive, InClose, Calls, Handshake, Published, AwaitsAck, SilentAfterShutdown
  <2>4. SilentAfterShutdown' /\ NoSleepingPast'
    BY DEF TypeOK, Locks, InSend, InReceive, InClose, SilentAfterShutdown, NoSleepingPast
  <2> QED
    BY <2>1, <2>2, <2>3, <2>4
<1>9. CASE SendReturn(s)
  <2> USE <1>9 DEF SendReturn
  <2>1. TypeOK' /\ Locks'
    BY DEF TypeOK, SenderPC, ReceiverPC, CloserPC, Locks, InSend, InReceive, InClose, DeliveredOnce
  <2>2. Calls' /\ DeliveredOnce'
    BY DEF TypeOK, Locks, InSend, InReceive, Calls, Handshake, Published, AwaitsAck, DeliveredOnce, SilentAfterShutdown
  <2>3. Handshake'
    BY DEF TypeOK, Locks, InSend, InReceive, InClose, Calls, Handshake, Published, AwaitsAck, SilentAfterShutdown
  <2>4. SilentAfterShutdown' /\ NoSleepingPast'
    BY DEF TypeOK, Locks, InSend, InReceive, InClose, SilentAfterShutdown, NoSleepingPast
  <2> QED
    BY <2>1, <2>2, <2>3, <2>4
<1> QED
  BY <1>1, <1>2, <1>3, <1>4, <1>5, <1>6, <1>7, <1>8, <1>9

(* A step of receive_callback. *)
LEMMA ReceiveStep ==
  ASSUME IInv, NEW r \in Receiver,
         ReceiveCall(r) \/ ReceiveLock(r) \/ ReceiveLook(r) \/ ReceiveTestPending(r) \/ ReceiveWake(r) \/ ReceiveTimeOut(r) \/ ReceiveCheckDown(r) \/ ReceiveCallback(r) \/ Unpend(r) \/ Acknowledge(r) \/ ReceiveLeave(r)
  PROVE  IInv'
<1> USE SlotAssumption DEF SlotAssumption, Thread, Nobody, NULL, IInv, Goto, At, pendingVars, ackVars, locks
<1>1. CASE ReceiveCall(r)
  <2> USE <1>1 DEF ReceiveCall
  <2>1. TypeOK' /\ Locks'
    BY DEF TypeOK, SenderPC, ReceiverPC, CloserPC, Locks, InSend, InReceive, InClose, DeliveredOnce
  <2>2. Calls' /\ DeliveredOnce'
    BY DEF TypeOK, Locks, InSend, InReceive, Calls, Handshake, Published, AwaitsAck, DeliveredOnce, SilentAfterShutdown
  <2>3. Handshake'
    BY DEF TypeOK, Locks, InSend, InReceive, InClose, Calls, Handshake, Published, AwaitsAck, SilentAfterShutdown
  <2>4. SilentAfterShutdown' /\ NoSleepingPast'
    BY DEF TypeOK, Locks, InSend, InReceive, InClose, SilentAfterShutdown, NoSleepingPast
  <2> QED
    BY <2>1, <2>2, <2>3, <2>4
<1>2. CASE ReceiveLock(r)
  <2> USE <1>2 DEF ReceiveLock
  <2>1. TypeOK' /\ Locks'
    BY DEF TypeOK, SenderPC, ReceiverPC, CloserPC, Locks, InSend, InReceive, InClose, DeliveredOnce
  <2>2. Calls' /\ DeliveredOnce'
    BY DEF TypeOK, Locks, InSend, InReceive, Calls, Handshake, Published, AwaitsAck, DeliveredOnce, SilentAfterShutdown
  <2>3. Handshake'
    BY DEF TypeOK, Locks, InSend, InReceive, InClose, Calls, Handshake, Published, AwaitsAck, SilentAfterShutdown
  <2>4. SilentAfterShutdown' /\ NoSleepingPast'
    BY DEF TypeOK, Locks, InSend, InReceive, InClose, SilentAfterShutdown, NoSleepingPast
  <2> QED
    BY <2>1, <2>2, <2>3, <2>4
<1>3. CASE ReceiveLook(r)
  <2> USE <1>3 DEF ReceiveLook
  <2>1. TypeOK' /\ Locks'
    BY DEF TypeOK, SenderPC, ReceiverPC, CloserPC, Locks, InSend, InReceive, InClose, DeliveredOnce
  <2>2. Calls' /\ DeliveredOnce'
    BY DEF TypeOK, Locks, InSend, InReceive, Calls, Handshake, Published, AwaitsAck, DeliveredOnce, SilentAfterShutdown
  <2>3. Handshake'
    BY DEF TypeOK, Locks, InSend, InReceive, InClose, Calls, Handshake, Published, AwaitsAck, SilentAfterShutdown
  <2>4. SilentAfterShutdown' /\ NoSleepingPast'
    BY DEF TypeOK, Locks, InSend, InReceive, InClose, SilentAfterShutdown, NoSleepingPast
  <2> QED
    BY <2>1, <2>2, <2>3, <2>4
<1>4. CASE ReceiveTestPending(r)
  <2> USE <1>4 DEF ReceiveTestPending
  <2>1. TypeOK' /\ Locks'
    BY DEF TypeOK, SenderPC, ReceiverPC, CloserPC, Locks, InSend, InReceive, InClose, DeliveredOnce
  <2>2. Calls' /\ DeliveredOnce'
    BY DEF TypeOK, Locks, InSend, InReceive, Calls, Handshake, Published, AwaitsAck, DeliveredOnce, SilentAfterShutdown
  <2>3. Handshake'
    BY DEF TypeOK, Locks, InSend, InReceive, InClose, Calls, Handshake, Published, AwaitsAck, SilentAfterShutdown
  <2>4. SilentAfterShutdown' /\ NoSleepingPast'
    BY DEF TypeOK, Locks, InSend, InReceive, InClose, SilentAfterShutdown, NoSleepingPast
  <2> QED
    BY <2>1, <2>2, <2>3, <2>4
<1>5. CASE ReceiveWake(r)
  <2> USE <1>5 DEF ReceiveWake, Pending!Consume
  <2>1. TypeOK' /\ Locks'
    BY DEF TypeOK, SenderPC, ReceiverPC, CloserPC, Locks, InSend, InReceive, InClose, DeliveredOnce
  <2>2. Calls' /\ DeliveredOnce'
    BY DEF TypeOK, Locks, InSend, InReceive, Calls, Handshake, Published, AwaitsAck, DeliveredOnce, SilentAfterShutdown
  <2>3. Handshake'
    BY DEF TypeOK, Locks, InSend, InReceive, InClose, Calls, Handshake, Published, AwaitsAck, SilentAfterShutdown
  <2>4. SilentAfterShutdown' /\ NoSleepingPast'
    BY DEF TypeOK, Locks, InSend, InReceive, InClose, SilentAfterShutdown, NoSleepingPast
  <2> QED
    BY <2>1, <2>2, <2>3, <2>4
<1>6. CASE ReceiveTimeOut(r)
  <2> USE <1>6 DEF ReceiveTimeOut, Pending!MayTimeOut
  <2>1. TypeOK' /\ Locks'
    BY DEF TypeOK, SenderPC, ReceiverPC, CloserPC, Locks, InSend, InReceive, InClose, DeliveredOnce
  <2>2. Calls' /\ DeliveredOnce'
    BY DEF TypeOK, Locks, InSend, InReceive, Calls, Handshake, Published, AwaitsAck, DeliveredOnce, SilentAfterShutdown
  <2>3. Handshake'
    BY DEF TypeOK, Locks, InSend, InReceive, InClose, Calls, Handshake, Published, AwaitsAck, SilentAfterShutdown
  <2>4. SilentAfterShutdown' /\ NoSleepingPast'
    BY DEF TypeOK, Locks, InSend, InReceive, InClose, SilentAfterShutdown, NoSleepingPast
  <2> QED
    BY <2>1, <2>2, <2>3, <2>4
<1>7. CASE ReceiveCheckDown(r)
  <2> USE <1>7 DEF ReceiveCheckDown
  <2>1. TypeOK' /\ Locks'
    BY DEF TypeOK, SenderPC, ReceiverPC, CloserPC, Locks, InSend, InReceive, InClose, DeliveredOnce
  <2>2. Calls' /\ DeliveredOnce'
    BY DEF TypeOK, Locks, InSend, InReceive, Calls, Handshake, Published, AwaitsAck, DeliveredOnce, SilentAfterShutdown
  <2>3. Handshake'
    BY DEF TypeOK, Locks, InSend, InReceive, InClose, Calls, Handshake, Published, AwaitsAck, SilentAfterShutdown
  <2>4. SilentAfterShutdown' /\ NoSleepingPast'
    BY DEF TypeOK, Locks, InSend, InReceive, InClose, SilentAfterShutdown, NoSleepingPast
  <2> QED
    BY <2>1, <2>2, <2>3, <2>4
<1>8. CASE ReceiveCallback(r)
  <2> USE <1>8 DEF ReceiveCallback
  <2>1. TypeOK' /\ Locks'
    BY DEF TypeOK, SenderPC, ReceiverPC, CloserPC, Locks, InSend, InReceive, InClose, DeliveredOnce
  <2>2. Calls' /\ DeliveredOnce'
    BY DEF TypeOK, Locks, InSend, InReceive, Calls, Handshake, Published, AwaitsAck, DeliveredOnce, SilentAfterShutdown
  <2>3. Handshake'
    BY DEF TypeOK, Locks, InSend, InReceive, InClose, Calls, Handshake, Published, AwaitsAck, SilentAfterShutdown
  <2>4. SilentAfterShutdown' /\ NoSleepingPast'
    BY DEF TypeOK, Locks, InSend, InReceive, InClose, SilentAfterShutdown, NoSleepingPast
  <2> QED
    BY <2>1, <2>2, <2>3, <2>4
<1>9. CASE Unpend(r)
  <2> USE <1>9 DEF Unpend, Pending!SetValue
  <2>1. TypeOK' /\ Locks'
    BY DEF TypeOK, SenderPC, ReceiverPC, CloserPC, Locks, InSend, InReceive, InClose, DeliveredOnce
  <2>2. Calls' /\ DeliveredOnce'
    BY DEF TypeOK, Locks, InSend, InReceive, Calls, Handshake, Published, AwaitsAck, DeliveredOnce, SilentAfterShutdown
  <2>3. Handshake'
    BY DEF TypeOK, Locks, InSend, InReceive, InClose, Calls, Handshake, Published, AwaitsAck, SilentAfterShutdown
  <2>4. SilentAfterShutdown' /\ NoSleepingPast'
    BY DEF TypeOK, Locks, InSend, InReceive, InClose, SilentAfterShutdown, NoSleepingPast
  <2> QED
    BY <2>1, <2>2, <2>3, <2>4
<1>10. CASE Acknowledge(r)
  <2> USE <1>10 DEF Acknowledge, Ack!SetValue
  <2>1. TypeOK' /\ Locks'
    BY DEF TypeOK, SenderPC, ReceiverPC, CloserPC, Locks, InSend, InReceive, InClose, DeliveredOnce
  <2>2. Calls' /\ DeliveredOnce'
    BY DEF TypeOK, Locks, InSend, InReceive, Calls, Handshake, Published, AwaitsAck, DeliveredOnce, SilentAfterShutdown
  <2>3. Handshake'
    BY DEF TypeOK, Locks, InSend, InReceive, InClose, Calls, Handshake, Published, AwaitsAck, SilentAfterShutdown
  <2>4. SilentAfterShutdown' /\ NoSleepingPast'
    BY DEF TypeOK, Locks, InSend, InReceive, InClose, SilentAfterShutdown, NoSleepingPast
  <2> QED
    BY <2>1, <2>2, <2>3, <2>4
<1>11. CASE ReceiveLeave(r)
  <2> USE <1>11 DEF ReceiveLeave
  <2>1. TypeOK' /\ Locks'
    BY DEF TypeOK, SenderPC, ReceiverPC, CloserPC, Locks, InSend, InReceive, InClose, DeliveredOnce
  <2>2. Calls' /\ DeliveredOnce'
    BY DEF TypeOK, Locks, InSend, InReceive, Calls, Handshake, Published, AwaitsAck, DeliveredOnce, SilentAfterShutdown
  <2>3. Handshake'
    BY DEF TypeOK, Locks, InSend, InReceive, InClose, Calls, Handshake, Published, AwaitsAck, SilentAfterShutdown
  <2>4. SilentAfterShutdown' /\ NoSleepingPast'
    BY DEF TypeOK, Locks, InSend, InReceive, InClose, SilentAfterShutdown, NoSleepingPast
  <2> QED
    BY <2>1, <2>2, <2>3, <2>4
<1> QED
  BY <1>1, <1>2, <1>3, <1>4, <1>5, <1>6, <1>7, <1>8, <1>9, <1>10, <1>11

(* A step of shutdown. *)
LEMMA CloseStep ==
  ASSUME IInv, NEW c \in Closer,
         CloseCall(c) \/ CloseLock(c) \/ CloseRaise(c) \/ Unpend(c) \/ Acknowledge(c) \/ CloseLeave(c)
  PROVE  IInv'
<1> USE SlotAssumption DEF SlotAssumption, Thread, Nobody, NULL, IInv, Goto, At, pendingVars, ackVars, locks
<1>1. CASE CloseCall(c)
  <2> USE <1>1 DEF CloseCall
  <2>1. TypeOK' /\ Locks'
    BY DEF TypeOK, SenderPC, ReceiverPC, CloserPC, Locks, InSend, InReceive, InClose, DeliveredOnce
  <2>2. Calls' /\ DeliveredOnce'
    BY DEF TypeOK, Locks, InSend, InReceive, Calls, Handshake, Published, AwaitsAck, DeliveredOnce, SilentAfterShutdown
  <2>3. Handshake'
    BY DEF TypeOK, Locks, InSend, InReceive, InClose, Calls, Handshake, Published, AwaitsAck, SilentAfterShutdown
  <2>4. SilentAfterShutdown' /\ NoSleepingPast'
    BY DEF TypeOK, Locks, InSend, InReceive, InClose, SilentAfterShutdown, NoSleepingPast
  <2> QED
    BY <2>1, <2>2, <2>3, <2>4
<1>2. CASE CloseLock(c)
  <2> USE <1>2 DEF CloseLock
  <2>1. TypeOK' /\ Locks'
    BY DEF TypeOK, SenderPC, ReceiverPC, CloserPC, Locks, InSend, InReceive, InClose, DeliveredOnce
  <2>2. Calls' /\ DeliveredOnce'
    BY DEF TypeOK, Locks, InSend, InReceive, Calls, Handshake, Published, AwaitsAck, DeliveredOnce, SilentAfterShutdown
  <2>3. Handshake'
    BY DEF TypeOK, Locks, InSend, InReceive, InClose, Calls, Handshake, Published, AwaitsAck, SilentAfterShutdown
  <2>4. SilentAfterShutdown' /\ NoSleepingPast'
    BY DEF TypeOK, Locks, InSend, InReceive, InClose, SilentAfterShutdown, NoSleepingPast
  <2> QED
    BY <2>1, <2>2, <2>3, <2>4
<1>3. CASE CloseRaise(c)
  <2> USE <1>3 DEF CloseRaise
  <2>1. TypeOK' /\ Locks'
    BY DEF TypeOK, SenderPC, ReceiverPC, CloserPC, Locks, InSend, InReceive, InClose, DeliveredOnce
  <2>2. Calls' /\ DeliveredOnce'
    BY DEF TypeOK, Locks, InSend, InReceive, Calls, Handshake, Published, AwaitsAck, DeliveredOnce, SilentAfterShutdown
  <2>3. Handshake'
    BY DEF TypeOK, Locks, InSend, InReceive, InClose, Calls, Handshake, Published, AwaitsAck, SilentAfterShutdown
  <2>4. SilentAfterShutdown' /\ NoSleepingPast'
    BY DEF TypeOK, Locks, InSend, InReceive, InClose, SilentAfterShutdown, NoSleepingPast
  <2> QED
    BY <2>1, <2>2, <2>3, <2>4
<1>4. CASE Unpend(c)
  <2> USE <1>4 DEF Unpend, Pending!SetValue
  <2>1. TypeOK' /\ Locks'
    BY DEF TypeOK, SenderPC, ReceiverPC, CloserPC, Locks, InSend, InReceive, InClose, DeliveredOnce
  <2>2. Calls' /\ DeliveredOnce'
    BY DEF TypeOK, Locks, InSend, InReceive, Calls, Handshake, Published, AwaitsAck, DeliveredOnce, SilentAfterShutdown
  <2>3. Handshake'
    BY DEF TypeOK, Locks, InSend, InReceive, InClose, Calls, Handshake, Published, AwaitsAck, SilentAfterShutdown
  <2>4. SilentAfterShutdown' /\ NoSleepingPast'
    BY DEF TypeOK, Locks, InSend, InReceive, InClose, SilentAfterShutdown, NoSleepingPast
  <2> QED
    BY <2>1, <2>2, <2>3, <2>4
<1>5. CASE Acknowledge(c)
  <2> USE <1>5 DEF Acknowledge, Ack!SetValue
  <2>1. TypeOK' /\ Locks'
    BY DEF TypeOK, SenderPC, ReceiverPC, CloserPC, Locks, InSend, InReceive, InClose, DeliveredOnce
  <2>2. Calls' /\ DeliveredOnce'
    BY DEF TypeOK, Locks, InSend, InReceive, Calls, Handshake, Published, AwaitsAck, DeliveredOnce, SilentAfterShutdown
  <2>3. Handshake'
    BY DEF TypeOK, Locks, InSend, InReceive, InClose, Calls, Handshake, Published, AwaitsAck, SilentAfterShutdown
  <2>4. SilentAfterShutdown' /\ NoSleepingPast'
    BY DEF TypeOK, Locks, InSend, InReceive, InClose, SilentAfterShutdown, NoSleepingPast
  <2> QED
    BY <2>1, <2>2, <2>3, <2>4
<1>6. CASE CloseLeave(c)
  <2> USE <1>6 DEF CloseLeave
  <2>1. TypeOK' /\ Locks'
    BY DEF TypeOK, SenderPC, ReceiverPC, CloserPC, Locks, InSend, InReceive, InClose, DeliveredOnce
  <2>2. Calls' /\ DeliveredOnce'
    BY DEF TypeOK, Locks, InSend, InReceive, Calls, Handshake, Published, AwaitsAck, DeliveredOnce, SilentAfterShutdown
  <2>3. Handshake'
    BY DEF TypeOK, Locks, InSend, InReceive, InClose, Calls, Handshake, Published, AwaitsAck, SilentAfterShutdown
  <2>4. SilentAfterShutdown' /\ NoSleepingPast'
    BY DEF TypeOK, Locks, InSend, InReceive, InClose, SilentAfterShutdown, NoSleepingPast
  <2> QED
    BY <2>1, <2>2, <2>3, <2>4
<1> QED
  BY <1>1, <1>2, <1>3, <1>4, <1>5, <1>6

LEMMA InductiveStep == IInv /\ [Next]_vars => IInv'
<1> SUFFICES ASSUME IInv, [Next]_vars PROVE IInv'
  OBVIOUS
<1>1. ASSUME NEW s \in Sender, SendCall(s) \/ Send(s) PROVE IInv'
  BY <1>1, SendStep DEF Send
<1>2. ASSUME NEW r \in Receiver, ReceiveCall(r) \/ Receive(r) \/ ReceiveTimeOut(r) PROVE IInv'
  BY <1>2, ReceiveStep DEF Receive
<1>3. ASSUME NEW c \in Closer, CloseCall(c) \/ Close(c) PROVE IInv'
  BY <1>3, CloseStep DEF Close
<1>4. CASE UNCHANGED vars
  <2>1. TypeOK' /\ Locks' /\ Calls'
    BY <1>4 DEF vars, IInv, TypeOK, Locks, InSend, InReceive, InClose, Calls
  <2>2. Handshake'
    BY <1>4 DEF vars, IInv, Handshake, Published, AwaitsAck
  <2>3. DeliveredOnce' /\ SilentAfterShutdown' /\ NoSleepingPast'
    BY <1>4 DEF vars, IInv, DeliveredOnce, SilentAfterShutdown, NoSleepingPast
  <2> QED
    BY <2>1, <2>2, <2>3 DEF IInv
<1> QED
  BY <1>1, <1>2, <1>3, <1>4 DEF Next

(* The inductive invariant of the slot. *)
THEOREM Invariance == Spec => []IInv
<1> QED
  BY InductiveInit, InductiveStep, PTL DEF Spec

(* YetiThreads.cpp:32-77: a callback runs at most once, and SUCCESS of        *)
(* send_callback means that it ran.                                           *)
THEOREM CallbackOnce == Spec => []DeliveredOnce
<1>1. IInv => DeliveredOnce
  BY DEF IInv
<1> QED
  BY <1>1, Invariance, PTL

(* YetiThreads.cpp:41-50, 60-66: the arguments of a callback are those of a   *)
(* sender that waits, so what its stack holds is alive.                       *)
THEOREM ArgumentsLive == Spec => []ArgumentsAlive
<1>1. IInv => ArgumentsAlive
  <2> SUFFICES ASSUME IInv, NEW r \in Receiver, pc[r] \in {"callback", "unpend", "acknowledge"}
               PROVE  args \in Sender /\ AwaitsAck(args)
    BY DEF ArgumentsAlive
  <2>1. ~shutdown
    BY DEF IInv, SilentAfterShutdown
  <2>2. Published
    BY <2>1 DEF IInv, Handshake
  <2> QED
    BY <2>2 DEF Published
<1> QED
  BY <1>1, Invariance, PTL

(* YetiThreads.cpp:14-24, 43: nothing is delivered after the shutdown.        *)
THEOREM ShutdownSilent == Spec => []SilentAfterShutdown
<1>1. IInv => SilentAfterShutdown
  BY DEF IInv
<1> QED
  BY <1>1, Invariance, PTL

(* YetiWin32Thread.cpp:127-160 as YetiThreads.cpp uses it: the two auto-reset *)
(* events release everyone they should.                                       *)
THEOREM SignalsArrive == Spec => []NoSleepingPast
<1>1. IInv => NoSleepingPast
  BY DEF IInv
<1> QED
  BY <1>1, Invariance, PTL
=============================================================================
