----------------------------- MODULE BoundedQueue -----------------------------
(***************************************************************************)
(* What a GenericQueue promises (yeti/Source/Core/YetiQueue.h): push, pop  *)
(* and peek on a bounded FIFO, each of which takes effect at one instant   *)
(* between its call and its return.  A call may only fail for the reason   *)
(* its code gives: at the instant it gave up the list was empty (pop,      *)
(* peek) or full (push), and a call with an infinite timeout never fails.  *)
(***************************************************************************)
EXTENDS Naturals, Sequences

CONSTANTS Thread, Max, Calls, NoCall, NoResult, NoItem

VARIABLES
  queue,   \* the items, oldest first
  call,    \* the call each thread is in, or NoCall
  ret      \* its answer, once it has taken effect, or NoResult

vars == <<queue, call, ret>>

Init ==
  /\ queue = << >>
  /\ call = [t \in Thread |-> NoCall]
  /\ ret = [t \in Thread |-> NoResult]

Full == Max > 0 /\ Len(queue) >= Max

(* Thread t is in a call of op that has not taken effect. *)
Pending(t, op) == call[t].op = op /\ ret[t] = NoResult

Decide(t, code, item) == ret' = [ret EXCEPT ![t] = [code |-> code, item |-> item]]

Start(t) ==
  /\ call[t] = NoCall
  /\ \E c \in Calls[t] : call' = [call EXCEPT ![t] = c]
  /\ UNCHANGED <<queue, ret>>

Push(t) ==
  /\ Pending(t, "push")
  /\ ~Full
  /\ queue' = Append(queue, call[t].item)
  /\ Decide(t, "SUCCESS", NoItem)
  /\ UNCHANGED call

Pop(t) ==
  /\ Pending(t, "pop")
  /\ queue # << >>
  /\ queue' = Tail(queue)
  /\ Decide(t, "SUCCESS", Head(queue))
  /\ UNCHANGED call

Peek(t) ==
  /\ Pending(t, "peek")
  /\ queue # << >>
  /\ Decide(t, "SUCCESS", Head(queue))
  /\ UNCHANGED <<queue, call>>

(* Only a poll, and only on an empty list. *)
FindEmpty(t) ==
  /\ Pending(t, "pop") \/ Pending(t, "peek")
  /\ call[t].timeout = "zero"
  /\ queue = << >>
  /\ Decide(t, "LIST_EMPTY", NoItem)
  /\ UNCHANGED <<queue, call>>

TimeOut(t) ==
  /\ \/ Pending(t, "push") /\ call[t].timeout # "infinite" /\ Full
     \/ /\ Pending(t, "pop") \/ Pending(t, "peek")
        /\ call[t].timeout = "finite"
        /\ queue = << >>
  /\ Decide(t, "TIMEOUT", NoItem)
  /\ UNCHANGED <<queue, call>>

Finish(t) ==
  /\ ret[t] # NoResult
  /\ call' = [call EXCEPT ![t] = NoCall]
  /\ ret' = [ret EXCEPT ![t] = NoResult]
  /\ UNCHANGED queue

Next == \E t \in Thread :
  Start(t) \/ Push(t) \/ Pop(t) \/ Peek(t) \/ FindEmpty(t) \/ TimeOut(t) \/ Finish(t)

Spec == Init /\ [][Next]_vars
=============================================================================
