-------------------------- MODULE ThreadCallbackSlot --------------------------
(***************************************************************************)
(* yeti/Source/Core/YetiThreads.cpp: a slot through which one thread has   *)
(* another run a callback, and waits until it has run.                     *)
(*                                                                         *)
(*   send_callback     under m_write_lock_: publish the arguments, set     *)
(*                     m_pending_, wait for m_ack_                         *)
(*   receive_callback  under m_read_lock_: wait for (or look at)           *)
(*                     m_pending_, run the callback, set m_ack_            *)
(*   shutdown          under m_read_lock_: stop delivering, let the sender *)
(*                     that waits go                                       *)
(*                                                                         *)
(* m_pending_ and m_ack_ are Win32SharedVariables.  The arguments are a    *)
(* pointer into the sender's stack, so a sender stands for its arguments.  *)
(* notify() of the notification helper is the caller's code and touches    *)
(* nothing of the slot.                                                    *)
(***************************************************************************)
EXTENDS Integers

CONSTANTS
  Sender,     \* the threads that call send_callback
  Receiver,   \* the threads that call receive_callback
  Closer,     \* the threads that call shutdown
  Timeouts    \* the timeouts receivers use: "zero", "finite", "infinite"

Nobody == "nobody"
NULL == "NULL"
Thread == Sender \cup Receiver \cup Closer

ASSUME SlotAssumption ==
  /\ Timeouts \subseteq {"zero", "finite", "infinite"}
  /\ Sender \cap Receiver = {} /\ Sender \cap Closer = {} /\ Receiver \cap Closer = {}
  /\ Nobody \notin Thread /\ NULL \notin Thread

VARIABLES
  pending, pendingEvent,   \* m_pending_
  ack, ackEvent,           \* m_ack_
  args,                    \* m_callback_args_
  shutdown,                \* m_shutdown_
  readLock, writeLock,     \* the thread inside m_read_lock_, m_write_lock_
  pc,                      \* where each thread is
  timeout,                 \* the timeout of each receiver's call
  ret,                     \* what each sender's last call returned
  ran                      \* for each sender, how often its callback ran in this call

vars == <<pending, pendingEvent, ack, ackEvent, args, shutdown, readLock,
          writeLock, pc, timeout, ret, ran>>

Pending == INSTANCE Win32SharedVariable WITH value <- pending, signalled <- pendingEvent
Ack == INSTANCE Win32SharedVariable WITH value <- ack, signalled <- ackEvent

SenderPC == {"idle", "writeLock", "check", "post", "testAck", "sleepAck", "clear", "answer"}
ReceiverPC == {"idle", "readLock", "look", "testPending", "sleepPending", "checkDown",
               "callback", "unpend", "acknowledge", "leave"}
CloserPC == {"idle", "readLock", "raise", "unpend", "acknowledge", "leave", "closed"}

TypeOK ==
  /\ pending \in {0, 1} /\ pendingEvent \in BOOLEAN
  /\ ack \in {0, 1} /\ ackEvent \in BOOLEAN
  /\ args \in Sender \cup {NULL}
  /\ shutdown \in BOOLEAN
  /\ readLock \in Receiver \cup Closer \cup {Nobody}
  /\ writeLock \in Sender \cup {Nobody}
  /\ pc \in [Thread -> SenderPC \cup ReceiverPC \cup CloserPC]
  /\ \A s \in Sender : pc[s] \in SenderPC
  /\ \A r \in Receiver : pc[r] \in ReceiverPC
  /\ \A c \in Closer : pc[c] \in CloserPC
  /\ timeout \in [Receiver -> Timeouts \cup {"zero"}]
  /\ ret \in [Sender -> {"none", "SUCCESS", "SHUTDOWN"}]
  /\ ran \in [Sender -> 0 .. 2]

Init ==
  /\ pending = 0 /\ pendingEvent = FALSE
  /\ ack = 0 /\ ackEvent = FALSE
  /\ args = NULL
  /\ shutdown = FALSE
  /\ readLock = Nobody /\ writeLock = Nobody
  /\ pc = [t \in Thread |-> "idle"]
  /\ timeout = [r \in Receiver |-> "zero"]
  /\ ret = [s \in Sender |-> "none"]
  /\ ran = [s \in Sender |-> 0]

Goto(t, l) == pc' = [pc EXCEPT ![t] = l]
At(t, l) == pc[t] = l

pendingVars == <<pending, pendingEvent>>
ackVars == <<ack, ackEvent>>
locks == <<readLock, writeLock>>

-----------------------------------------------------------------------------
(* send_callback *)

SendCall(s) ==
  /\ At(s, "idle")
  /\ Goto(s, "writeLock")
  /\ ret' = [ret EXCEPT ![s] = "none"]
  /\ ran' = [ran EXCEPT ![s] = 0]
  /\ UNCHANGED <<pendingVars, ackVars, args, shutdown, locks, timeout>>

SendLock(s) ==
  /\ At(s, "writeLock")
  /\ writeLock = Nobody
  /\ writeLock' = s
  /\ Goto(s, "check")
  /\ UNCHANGED <<pendingVars, ackVars, args, shutdown, readLock, timeout, ret, ran>>

(* The slot is already shut down: refuse. *)
SendRefuse(s) ==
  /\ At(s, "check") /\ shutdown
  /\ writeLock' = Nobody
  /\ ret' = [ret EXCEPT ![s] = "SHUTDOWN"]
  /\ Goto(s, "idle")
  /\ UNCHANGED <<pendingVars, ackVars, args, shutdown, readLock, timeout, ran>>

SendAccept(s) ==
  /\ At(s, "check") /\ ~shutdown
  /\ Goto(s, "post")
  /\ UNCHANGED <<pendingVars, ackVars, args, shutdown, locks, timeout, ret, ran>>

(* Nobody reads the arguments before m_pending_ is set. *)
SendPost(s) ==
  /\ At(s, "post")
  /\ args' = s
  /\ Pending!SetValue(1)
  /\ Goto(s, "testAck")
  /\ UNCHANGED <<ackVars, shutdown, locks, timeout, ret, ran>>

SendTestAck(s) ==
  /\ At(s, "testAck")
  /\ Goto(s, IF ack = 1 THEN "clear" ELSE "sleepAck")
  /\ UNCHANGED <<pendingVars, ackVars, args, shutdown, locks, timeout, ret, ran>>

SendWake(s) ==
  /\ At(s, "sleepAck")
  /\ Ack!Consume
  /\ Goto(s, "testAck")
  /\ UNCHANGED <<pendingVars, args, shutdown, locks, timeout, ret, ran>>

SendClear_KeepAck(s) ==
  /\ At(s, "clear")
  /\ args' = NULL
  /\ Goto(s, "answer")
  /\ UNCHANGED <<pendingVars, ackVars, shutdown, locks, timeout, ret, ran>>

(* The arguments are dropped after the acknowledgement is taken back. *)
SendClear(s) ==
  /\ At(s, "clear")
  /\ Ack!SetValue(0)
  /\ args' = NULL
  /\ Goto(s, "answer")
  /\ UNCHANGED <<pendingVars, shutdown, locks, timeout, ret, ran>>

SendReturn_AlwaysSuccess(s) ==
  /\ At(s, "answer")
  /\ ret' = [ret EXCEPT ![s] = "SUCCESS"]
  /\ writeLock' = Nobody
  /\ Goto(s, "idle")
  /\ UNCHANGED <<pendingVars, ackVars, args, shutdown, readLock, timeout, ran>>

SendReturn(s) ==
  /\ At(s, "answer")
  /\ ret' = [ret EXCEPT ![s] = IF shutdown THEN "SHUTDOWN" ELSE "SUCCESS"]
  /\ writeLock' = Nobody
  /\ Goto(s, "idle")
  /\ UNCHANGED <<pendingVars, ackVars, args, shutdown, readLock, timeout, ran>>

Send(s) ==
  \/ SendLock(s) \/ SendRefuse(s) \/ SendAccept(s) \/ SendPost(s)
  \/ SendTestAck(s) \/ SendWake(s) \/ SendClear(s) \/ SendReturn(s)

-----------------------------------------------------------------------------
(* receive_callback *)

ReceiveCall(r) ==
  /\ At(r, "idle")
  /\ \E d \in Timeouts : timeout' = [timeout EXCEPT ![r] = d]
  /\ Goto(r, "readLock")
  /\ UNCHANGED <<pendingVars, ackVars, args, shutdown, locks, ret, ran>>

ReceiveLock(r) ==
  /\ At(r, "readLock")
  /\ readLock = Nobody
  /\ readLock' = r
  /\ Goto(r, IF timeout[r] = "zero" THEN "look" ELSE "testPending")
  /\ UNCHANGED <<pendingVars, ackVars, args, shutdown, writeLock, timeout, ret, ran>>

(* A timeout of zero: NOTHING_PENDING unless something is. *)
ReceiveLook(r) ==
  /\ At(r, "look")
  /\ Goto(r, IF pending = 0 THEN "leave" ELSE "checkDown")
  /\ UNCHANGED <<pendingVars, ackVars, args, shutdown, locks, timeout, ret, ran>>

ReceiveTestPending(r) ==
  /\ At(r, "testPending")
  /\ Goto(r, IF pending = 1 THEN "checkDown" ELSE "sleepPending")
  /\ UNCHANGED <<pendingVars, ackVars, args, shutdown, locks, timeout, ret, ran>>

ReceiveWake(r) ==
  /\ At(r, "sleepPending")
  /\ Pending!Consume
  /\ Goto(r, "testPending")
  /\ UNCHANGED <<ackVars, args, shutdown, locks, timeout, ret, ran>>

ReceiveTimeOut(r) ==
  /\ At(r, "sleepPending") /\ timeout[r] = "finite"
  /\ Pending!MayTimeOut
  /\ Goto(r, "leave")
  /\ UNCHANGED <<pendingVars, ackVars, args, shutdown, locks, timeout, ret, ran>>

(* A slot that is shut down delivers nothing and acknowledges nothing. *)
ReceiveCheckDown(r) ==
  /\ At(r, "checkDown")
  /\ Goto(r, IF shutdown THEN "leave" ELSE "callback")
  /\ UNCHANGED <<pendingVars, ackVars, args, shutdown, locks, timeout, ret, ran>>

(* on_callback has run with the sender's arguments. *)
ReceiveCallback(r) ==
  /\ At(r, "callback")
  /\ ran' = [s \in Sender |-> IF s = args THEN ran[s] + 1 ELSE ran[s]]
  /\ Goto(r, "unpend")
  /\ UNCHANGED <<pendingVars, ackVars, args, shutdown, locks, timeout, ret>>

(* Both receive_callback and shutdown take the pending flag back, ... *)
Unpend(t) ==
  /\ At(t, "unpend")
  /\ Pending!SetValue(0)
  /\ Goto(t, "acknowledge")
  /\ UNCHANGED <<ackVars, args, shutdown, locks, timeout, ret, ran>>

Acknowledge_No(t) ==
  /\ At(t, "acknowledge")
  /\ Goto(t, "leave")
  /\ UNCHANGED <<pendingVars, ackVars, args, shutdown, locks, timeout, ret, ran>>

(* ... and then let the sender go. *)
Acknowledge(t) ==
  /\ At(t, "acknowledge")
  /\ Ack!SetValue(1)
  /\ Goto(t, "leave")
  /\ UNCHANGED <<pendingVars, args, shutdown, locks, timeout, ret, ran>>

ReceiveLeave_KeepLock(r) ==
  /\ At(r, "leave")
  /\ Goto(r, "idle")
  /\ UNCHANGED <<pendingVars, ackVars, args, shutdown, locks, timeout, ret, ran>>

ReceiveLeave(r) ==
  /\ At(r, "leave")
  /\ readLock' = Nobody
  /\ Goto(r, "idle")
  /\ UNCHANGED <<pendingVars, ackVars, args, shutdown, writeLock, timeout, ret, ran>>

Receive(r) ==
  \/ ReceiveLock(r) \/ ReceiveLook(r) \/ ReceiveTestPending(r) \/ ReceiveWake(r)
  \/ ReceiveCheckDown(r) \/ ReceiveCallback(r)
  \/ Unpend(r) \/ Acknowledge(r) \/ ReceiveLeave(r)

-----------------------------------------------------------------------------
(* shutdown *)

CloseCall(c) ==
  /\ At(c, "idle")
  /\ Goto(c, "readLock")
  /\ UNCHANGED <<pendingVars, ackVars, args, shutdown, locks, timeout, ret, ran>>

CloseLock_No(c) ==
  /\ At(c, "readLock")
  /\ Goto(c, "raise")
  /\ UNCHANGED <<pendingVars, ackVars, args, shutdown, locks, timeout, ret, ran>>

CloseLock(c) ==
  /\ At(c, "readLock")
  /\ readLock = Nobody
  /\ readLock' = c
  /\ Goto(c, "raise")
  /\ UNCHANGED <<pendingVars, ackVars, args, shutdown, writeLock, timeout, ret, ran>>

CloseRaise(c) ==
  /\ At(c, "raise")
  /\ shutdown' = TRUE
  /\ Goto(c, "unpend")
  /\ UNCHANGED <<pendingVars, ackVars, args, locks, timeout, ret, ran>>

CloseLeave(c) ==
  /\ At(c, "leave")
  /\ readLock' = Nobody
  /\ Goto(c, "closed")
  /\ UNCHANGED <<pendingVars, ackVars, args, shutdown, writeLock, timeout, ret, ran>>

Close(c) == CloseLock(c) \/ CloseRaise(c) \/ Unpend(c) \/ Acknowledge(c) \/ CloseLeave(c)

-----------------------------------------------------------------------------
Next ==
  \/ \E s \in Sender : SendCall(s) \/ Send(s)
  \/ \E r \in Receiver : ReceiveCall(r) \/ Receive(r) \/ ReceiveTimeOut(r)
  \/ \E c \in Closer : CloseCall(c) \/ Close(c)

Spec == Init /\ [][Next]_vars

(***************************************************************************)
(* Fairness: every thread that can run runs, no lock passes one thread     *)
(* over for ever, a finite timeout expires, and receivers keep calling     *)
(* receive_callback.  A sender or a closer need not call.                  *)
(***************************************************************************)
Fairness ==
  /\ \A s \in Sender : WF_vars(Send(s)) /\ SF_vars(SendLock(s))
  /\ \A r \in Receiver : /\ WF_vars(ReceiveCall(r)) /\ WF_vars(Receive(r))
                         /\ WF_vars(ReceiveTimeOut(r)) /\ SF_vars(ReceiveLock(r))
  /\ \A c \in Closer : WF_vars(Close(c)) /\ SF_vars(CloseLock(c))

FairSpec == Spec /\ Fairness

-----------------------------------------------------------------------------
(* The sender has published its arguments and waits for the acknowledgement. *)
AwaitsAck(s) == pc[s] \in {"testAck", "sleepAck"}

(* YetiThreads.cpp:45-51, 68-72: a callback runs at most once per call of    *)
(* send_callback, and send_callback only says SUCCESS when it has run.       *)
DeliveredOnce ==
  \A s \in Sender : ran[s] <= 1 /\ (ret[s] = "SUCCESS" => ran[s] = 1)

(* YetiThreads.cpp:46, 62-70: the arguments live on the sender's stack. From *)
(* the moment a receiver has decided to run a callback until it has          *)
(* acknowledged it, they are the arguments of a sender that is still waiting.*)
ArgumentsAlive ==
  \A r \in Receiver :
    pc[r] \in {"callback", "unpend", "acknowledge"} => args \in Sender /\ AwaitsAck(args)

(* YetiThreads.cpp:18, 45: once shutdown has raised its flag no callback is  *)
(* running and none will run.                                                *)
SilentAfterShutdown ==
  shutdown => \A r \in Receiver : pc[r] \notin {"callback", "unpend", "acknowledge"}

(* YetiThreads.cpp:33, 37, 56, 68: an auto-reset event releases one thread   *)
(* per signal, so it is the two locks, which let one thread at a time wait   *)
(* for each variable, that keep signals from being lost: a thread asleep     *)
(* although its condition holds is about to be released.                     *)
NoSleepingPast ==
  /\ \A s \in Sender : pc[s] = "sleepAck" /\ ack = 1 => ackEvent
  /\ \A r \in Receiver : pc[r] = "sleepPending" /\ pending = 1 => pendingEvent

(* YetiThreads.cpp:57-59: the assertion of send_callback.                    *)
NothingPending == \A s \in Sender : pc[s] = "check" => pending = 0

(* YetiThreads.cpp:54-73: while receivers keep calling, every send_callback  *)
(* returns, whether the slot is shut down before, during or after it.        *)
SendersReturn == \A s \in Sender : pc[s] # "idle" ~> pc[s] = "idle"

(* YetiThreads.cpp:14-24: shutdown gets through receivers that do not wait   *)
(* for ever.                                                                 *)
ShutdownCompletes == \A c \in Closer : pc[c] # "idle" ~> pc[c] = "closed"
=============================================================================
