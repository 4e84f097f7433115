------------------------ MODULE SharedVariableWaiters ------------------------
(***************************************************************************)
(* Threads that wait on one Win32SharedVariable while another sets it.     *)
(* Waiter w waits until the variable equals want[w].value, or, with        *)
(* want[w].op = "while", until it no longer does.                          *)
(***************************************************************************)
EXTENDS Win32SharedVariable, Sequences

CONSTANTS
  Waiter,   \* the threads that wait
  Wants,    \* the possible choices of what each waiter waits for
  Scripts   \* the possible sequences of values given to set_value

WaitKind == [op : {"until", "while"}, value : Int, timeout : {"finite", "infinite"}]

VARIABLES
  want,    \* what each waiter waits for
  script,  \* the values still to be set
  pc       \* "test": about to lock and look; "asleep": in m_event_.wait();
           \* "success", "timeout": returned

vars == <<value, signalled, want, script, pc>>

Init ==
  /\ value = 0
  /\ signalled = FALSE
  /\ want \in Wants
  /\ script \in Scripts
  /\ pc = [w \in Waiter |-> "test"]

Satisfied(w) == (want[w].op = "until") <=> (value = want[w].value)

Set ==
  /\ script # << >>
  /\ SetValue(Head(script))
  /\ script' = Tail(script)
  /\ UNCHANGED <<want, pc>>

(* The test of wait_until_equals and wait_while_equals, under the lock. *)
Test(w) ==
  /\ pc[w] = "test"
  /\ pc' = [pc EXCEPT ![w] = IF Satisfied(w) THEN "success" ELSE "asleep"]
  /\ UNCHANGED <<value, signalled, want, script>>

(* Released by the event: look again. *)
Wake(w) ==
  /\ pc[w] = "asleep"
  /\ Consume
  /\ pc' = [pc EXCEPT ![w] = "test"]
  /\ UNCHANGED <<want, script>>

(* wait_until_equals and wait_while_equals pass the time-out on. *)
TimeOut(w) ==
  /\ pc[w] = "asleep" /\ want[w].timeout = "finite"
  /\ MayTimeOut
  /\ pc' = [pc EXCEPT ![w] = "timeout"]
  /\ UNCHANGED <<value, signalled, want, script>>

Next == Set \/ \E w \in Waiter : Test(w) \/ Wake(w) \/ TimeOut(w)

Spec == Init /\ [][Next]_vars

(* Every runnable thread runs; a timeout may be arbitrarily long. *)
Fairness == WF_vars(Set) /\ \A w \in Waiter : WF_vars(Test(w)) /\ WF_vars(Wake(w))
FairSpec == Spec /\ Fairness

-----------------------------------------------------------------------------
(* ThreadsTest1.cpp:479-506 (TestSharedVariables): every waiter whose value  *)
(* is the last one set gets its answer.                                      *)
LastValueReachesAll ==
  \A w \in Waiter : (script = << >> /\ Satisfied(w)) ~> pc[w] \in {"success", "timeout"}
=============================================================================
