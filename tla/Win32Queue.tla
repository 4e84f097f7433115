------------------------------ MODULE Win32Queue ------------------------------
(***************************************************************************)
(* The bounded blocking queue of yeti/Source/System/Win32/YetiWin32Queue:  *)
(* a list under a critical section, and two manual-reset events that tell  *)
(* blocked callers that the list may have room (canPush) or an item        *)
(* (canPop).  Any number of threads call push, pop and peek, each with a   *)
(* timeout that is zero, finite or infinite.                               *)
(*                                                                         *)
(* A step is what one thread does between two points where another thread  *)
(* can see a difference: taking the lock, testing the list, signalling an  *)
(* event, releasing the lock, returning from an event wait.                *)
(***************************************************************************)
EXTENDS Naturals, Sequences, FiniteSets

CONSTANTS
  Thread,   \* the threads that share the queue
  Item,     \* the items they push
  Max,      \* m_max_items_; 0 means no limit
  Calls,    \* Calls[t]: the calls thread t makes, one after the other, in any order
  Bound     \* bound: no push is called that could make the list longer than this

NoThread == "nobody"
NoItem == "NULL"
Timeout == {"zero", "finite", "infinite"}
Call == [op : {"push"}, timeout : Timeout, item : Item]
          \cup [op : {"pop", "peek"}, timeout : Timeout, item : {NoItem}]
NoCall == [op |-> "none", timeout |-> "zero", item |-> NoItem]
Code == {"SUCCESS", "TIMEOUT", "LIST_EMPTY"}
Result == [code : Code, item : Item \cup {NoItem}]
NoResult == [code |-> "none", item |-> NoItem]

ASSUME QueueAssumption ==
  /\ Max \in Nat
  /\ Bound \in Nat
  /\ Calls \in [Thread -> SUBSET Call]
  /\ NoThread \notin Thread
  /\ NoItem \notin Item

VARIABLES
  items,     \* m_items_
  mutex,     \* the thread inside m_mutex_, or NoThread
  canPush,   \* m_can_push_condition_ is signalled
  canPop,    \* m_can_pop_condition_ is signalled
  pc,        \* where each thread is
  call,      \* the call each thread is in
  ret        \* what that call will return

vars == <<items, mutex, canPush, canPop, pc, call, ret>>

PC == {"idle", "enter", "test", "release", "wait", "signal", "leave", "done"}

TypeOK ==
  /\ items \in Seq(Item)
  /\ mutex \in Thread \cup {NoThread}
  /\ canPush \in BOOLEAN
  /\ canPop \in BOOLEAN
  /\ pc \in [Thread -> PC]
  /\ call \in [Thread -> Call \cup {NoCall}]
  /\ ret \in [Thread -> Result \cup {NoResult}]

Init ==
  /\ items = << >>
  /\ mutex = NoThread
  /\ canPush = TRUE
  /\ canPop = FALSE
  /\ pc = [t \in Thread |-> "idle"]
  /\ call = [t \in Thread |-> NoCall]
  /\ ret = [t \in Thread |-> NoResult]

-----------------------------------------------------------------------------
Goto(t, l) == pc' = [pc EXCEPT ![t] = l]
Answer(t, code, item) == ret' = [ret EXCEPT ![t] = [code |-> code, item |-> item]]

(* The list has no room.  (A limit of 0 is no limit.) *)
Full == Max > 0 /\ Len(items) >= Max

(* The event a blocked call waits on. *)
EventOf(t) == IF call[t].op = "push" THEN canPush ELSE canPop

(* A thread calls push, pop or peek. *)
Start(t, c) ==
  /\ pc[t] = "idle"
  /\ c.op = "push" =>
       Len(items) + Cardinality({u \in Thread : call[u].op = "push"}) < Bound
  /\ call' = [call EXCEPT ![t] = c]
  /\ Goto(t, "enter")
  /\ UNCHANGED <<items, mutex, canPush, canPop, ret>>

Enter(t) ==
  /\ pc[t] = "enter"
  /\ mutex = NoThread
  /\ mutex' = t
  /\ Goto(t, "test")
  /\ UNCHANGED <<items, canPush, canPop, call, ret>>

(* push finds room and adds at the tail; the event is signalled afterwards. *)
PushAdd(t) ==
  /\ pc[t] = "test" /\ call[t].op = "push"
  /\ ~Full
  /\ items' = Append(items, call[t].item)
  /\ Answer(t, "SUCCESS", NoItem)
  /\ Goto(t, "signal")
  /\ UNCHANGED <<mutex, canPush, canPop, call>>

(* push finds the list full and resets the event it is about to wait on. *)
PushBlock(t) ==
  /\ pc[t] = "test" /\ call[t].op = "push"
  /\ Full
  /\ canPush' = FALSE
  /\ Goto(t, "release")
  /\ UNCHANGED <<items, mutex, canPop, call, ret>>

(* pop takes the head; only a bounded queue signals that there is room. *)
PopTake(t) ==
  /\ pc[t] = "test" /\ call[t].op = "pop"
  /\ items # << >>
  /\ items' = Tail(items)
  /\ Answer(t, "SUCCESS", Head(items))
  /\ Goto(t, IF Max > 0 THEN "signal" ELSE "leave")
  /\ UNCHANGED <<mutex, canPush, canPop, call>>

PeekHead(t) ==
  /\ pc[t] = "test" /\ call[t].op = "peek"
  /\ items # << >>
  /\ Answer(t, "SUCCESS", Head(items))
  /\ Goto(t, "leave")
  /\ UNCHANGED <<items, mutex, canPush, canPop, call>>

(* pop and peek with a timeout of zero do not wait. *)
PollEmpty(t) ==
  /\ pc[t] = "test" /\ call[t].op \in {"pop", "peek"}
  /\ items = << >>
  /\ call[t].timeout = "zero"
  /\ Answer(t, "LIST_EMPTY", NoItem)
  /\ Goto(t, "leave")
  /\ UNCHANGED <<items, mutex, canPush, canPop, call>>

(* pop and peek find the list empty and reset the event they will wait on. *)
ReadBlock(t) ==
  /\ pc[t] = "test" /\ call[t].op \in {"pop", "peek"}
  /\ items = << >>
  /\ call[t].timeout # "zero"
  /\ canPop' = FALSE
  /\ Goto(t, "release")
  /\ UNCHANGED <<items, mutex, canPush, call, ret>>

Signal_PopSilent(t) ==
  /\ pc[t] = "signal"
  /\ IF call[t].op = "push" THEN canPop' = TRUE ELSE canPop' = canPop
  /\ Goto(t, "leave")
  /\ UNCHANGED <<items, mutex, canPush, call, ret>>

Signal_PushSilent(t) ==
  /\ pc[t] = "signal"
  /\ IF call[t].op = "push" THEN canPush' = canPush ELSE canPush' = TRUE
  /\ Goto(t, "leave")
  /\ UNCHANGED <<items, mutex, canPop, call, ret>>

(* The successful push or pop tells the other side. *)
Signal(t) ==
  /\ pc[t] = "signal"
  /\ IF call[t].op = "push"
     THEN canPop' = TRUE /\ UNCHANGED canPush
     ELSE canPush' = TRUE /\ UNCHANGED canPop
  /\ Goto(t, "leave")
  /\ UNCHANGED <<items, mutex, call, ret>>

(* A blocked call leaves the lock before it waits. *)
Release(t) ==
  /\ pc[t] = "release"
  /\ mutex' = NoThread
  /\ Goto(t, "wait")
  /\ UNCHANGED <<items, canPush, canPop, call, ret>>

(* The event was found signalled: take the lock and test the list again. *)
Wake(t) ==
  /\ pc[t] = "wait"
  /\ EventOf(t)
  /\ Goto(t, "enter")
  /\ UNCHANGED <<items, mutex, canPush, canPop, call, ret>>

GiveUp_NoAnswer(t) ==
  /\ pc[t] = "wait"
  /\ ~EventOf(t)
  /\ call[t].timeout # "infinite"
  /\ Goto(t, "done")
  /\ UNCHANGED <<items, mutex, canPush, canPop, call, ret>>

GiveUp_Anytime(t) ==
  /\ pc[t] = "wait"
  /\ call[t].timeout # "infinite"
  /\ Answer(t, "TIMEOUT", NoItem)
  /\ Goto(t, "done")
  /\ UNCHANGED <<items, mutex, canPush, canPop, call>>

(* The wait timed out: the call fails without touching the lock or the list. *)
GiveUp(t) ==
  /\ pc[t] = "wait"
  /\ ~EventOf(t)
  /\ call[t].timeout # "infinite"
  /\ Answer(t, "TIMEOUT", NoItem)
  /\ Goto(t, "done")
  /\ UNCHANGED <<items, mutex, canPush, canPop, call>>

Leave(t) ==
  /\ pc[t] = "leave"
  /\ mutex' = NoThread
  /\ Goto(t, "done")
  /\ UNCHANGED <<items, canPush, canPop, call, ret>>

(* The caller has its answer. *)
Return(t) ==
  /\ pc[t] = "done"
  /\ Goto(t, "idle")
  /\ call' = [call EXCEPT ![t] = NoCall]
  /\ ret' = [ret EXCEPT ![t] = NoResult]
  /\ UNCHANGED <<items, mutex, canPush, canPop>>

Step(t) ==
  \/ Enter(t)
  \/ PushAdd(t) \/ PushBlock(t)
  \/ PopTake(t) \/ PeekHead(t) \/ PollEmpty(t) \/ ReadBlock(t)
  \/ Signal(t) \/ Release(t)
  \/ Wake(t) \/ GiveUp(t)
  \/ Leave(t) \/ Return(t)

Next == \E t \in Thread : Step(t) \/ \E c \in Calls[t] : Start(t, c)

Spec == Init /\ [][Next]_vars

(***************************************************************************)
(* Fairness: the operating system runs every thread that can run, and the  *)
(* critical section does not pass over one waiting thread for ever.  No    *)
(* fairness on Start: a caller need not call.  None on GiveUp: a finite    *)
(* timeout may be arbitrarily long.                                        *)
(***************************************************************************)
Fairness ==
  \A t \in Thread :
    /\ SF_vars(Enter(t))
    /\ WF_vars(PushAdd(t) \/ PushBlock(t) \/ PopTake(t) \/ PeekHead(t)
                 \/ PollEmpty(t) \/ ReadBlock(t))
    /\ WF_vars(Signal(t) \/ Release(t) \/ Wake(t) \/ Leave(t) \/ Return(t))

FairSpec == Spec /\ Fairness

-----------------------------------------------------------------------------
(* The places between lock() and unlock(). *)
Inside == {"test", "signal", "release", "leave"}

(* YetiWin32Queue.cpp:52-67, 73-91, 97-114: every path that takes m_mutex_  *)
(* gives it back exactly once before it waits or returns, so no two threads *)
(* are ever between lock and unlock, and the lock is never left behind.     *)
LockDiscipline == \A t \in Thread : pc[t] \in Inside <=> mutex = t

(* The thread inside the lock has changed the list but not yet signalled. *)
Announcing(op) == mutex \in Thread /\ pc[mutex] = "signal" /\ call[mutex].op = op

(* YetiWin32Queue.cpp:54-62: however pushers race for the room one pop made, *)
(* the list never holds more than m_max_items_, and a pop that is about to   *)
(* signal has room to offer.                                                 *)
CapacityRespected ==
  Max > 0 => /\ Len(items) <= Max
             /\ Announcing("pop") => Len(items) < Max

(* YetiWin32Queue.cpp:56, 65, 77, 88, 102: an unsignalled event tells the    *)
(* truth. A waiter can only be asleep on canPop while there is nothing to    *)
(* pop, and on canPush while there is no room, unless the thread inside the  *)
(* lock has just changed that and is about to signal: no wake-up is lost.    *)
EventsTruthful ==
  /\ ~canPop => \/ items = << >> /\ ~Announcing("pop")
                \/ Len(items) = 1 /\ Announcing("push")
  /\ ~canPush => /\ Max > 0 /\ ~Announcing("push")
                 /\ \/ Len(items) = Max
                    \/ Len(items) = Max - 1 /\ Announcing("pop")

(* What a thread's program counter says of its call and its answer. *)
PhaseOK ==
  \A t \in Thread :
    /\ pc[t] = "idle" <=> call[t] = NoCall
    /\ pc[t] \in {"signal", "leave", "done"} <=> ret[t] # NoResult
    /\ pc[t] = "signal" =>
         /\ ret[t].code = "SUCCESS"
         /\ \/ /\ call[t].op = "push"
               /\ items # << >> /\ items[Len(items)] = call[t].item
               /\ ret[t].item = NoItem
            \/ call[t].op = "pop" /\ Max > 0 /\ ret[t].item \in Item
    /\ pc[t] \in {"release", "wait"} =>
         call[t].op \in {"push", "pop", "peek"}
         /\ (call[t].op # "push" => call[t].timeout # "zero")

(* The invariant that carries its own proof: the properties above, and what  *)
(* relates a thread's place in the code to its call (push, pop and peek of   *)
(* YetiWin32Queue.cpp:50-115) and to the answer it has.                      *)
IInv == TypeOK /\ LockDiscipline /\ PhaseOK /\ EventsTruthful /\ CapacityRespected

(* Waiting in pop, for as long as it takes, for an item that is there. *)
PopperStarved == \E t \in Thread : pc[t] = "wait" /\ call[t].op = "pop"
PopAnswered == \E t \in Thread :
  pc[t] = "done" /\ call[t].op = "pop" /\ ret[t].code \in {"SUCCESS", "TIMEOUT"}

(* YetiWin32Queue.cpp:64-65, 76-82: while a pop is blocked and the list has  *)
(* an item, some pop eventually returns one, or a finite timeout has run out.*)
ItemsReachPoppers == (PopperStarved /\ items # << >>) ~> PopAnswered

PusherStarved == \E t \in Thread : pc[t] = "wait" /\ call[t].op = "push"
PushAnswered == \E t \in Thread :
  pc[t] = "done" /\ call[t].op = "push" /\ ret[t].code \in {"SUCCESS", "TIMEOUT"}

(* YetiWin32Queue.cpp:55-61, 87-89: while a push is blocked and the list has *)
(* room, some push eventually succeeds, or a finite timeout has run out.     *)
RoomReachesPushers == (PusherStarved /\ ~Full) ~> PushAnswered

(***************************************************************************)
(* The refinement.  A push, and a pop of a bounded queue, takes effect when *)
(* it signals: between the change of the list and the signal, a waiter on   *)
(* the other event can still time out, and its answer must be true of the   *)
(* queue as promised.                                                      *)
(***************************************************************************)
SettledQueue ==
  IF Announcing("push") THEN SubSeq(items, 1, Len(items) - 1)
  ELSE IF Announcing("pop") THEN <<ret[mutex].item>> \o items
  ELSE items

SettledRet == [t \in Thread |-> IF pc[t] = "signal" THEN NoResult ELSE ret[t]]

Promise == INSTANCE BoundedQueue WITH queue <- SettledQueue, ret <- SettledRet

(* YetiWin32Queue.cpp:50-115 against YetiQueue.h:17-22: every interleaving   *)
(* of pushes, pops and peeks with any timeouts is one of an atomic bounded   *)
(* FIFO, in which a time-out is only reported at a moment when the list      *)
(* really was empty (full).                                                  *)
ImplementsBoundedQueue == Promise!Spec
=============================================================================
