---------------------------- MODULE MCTaskManager ----------------------------
(* An instance of TaskManager for TLC.  A thread outside starts a listener,  *)
(* which runs until it is stopped and starts two workers, and a task that it *)
(* kills itself.  Two tasks may run at a time.                               *)
EXTENDS TaskManager

CONSTANTS main, listener, worker1, worker2, owned

Tasks == {listener, worker1, worker2, owned}
StartsOf == [a \in {main} \cup Tasks |->
  CASE a = main -> {listener, owned}
    [] a = listener -> {worker1, worker2}
    [] OTHER -> {}]
=============================================================================
