-------------------------- MODULE TaskManagerProofs --------------------------
(***************************************************************************)
(* For any tasks, any actors that start and kill them and any limit: list, *)
(* tokens and threads agree, a stop leaves nothing running, and no task is *)
(* used after it is deleted.                                               *)
(*                                                                         *)
(* The argument.  m_TasksLock makes one AddTask at a time count (Locked,   *)
(* Subjects).  A listed task is one whose thread lives, the one that is    *)
(* just being started excepted (Listing).  Tokens are the listed tasks,    *)
(* the one being started and the lost ones, except after StopAllTasks has  *)
(* thrown them away; then none is added before all are gone (Tokens).      *)
(***************************************************************************)
EXTENDS TaskManager, FiniteSetTheorems, TLAPS

Running == {t \in Task : thread[t] \in Alive}
Awaited == {subject[a] : a \in {b \in Actor : adding[b] = "await"}}
Started == IF \E a \in Actor : adding[a] \in {"start", "await"} THEN 1 ELSE 0

Locked == \A a \in Actor : adding[a] \in {"full", "start", "await"} <=> lock = a

(* A task has one starter, who starts it once. *)
Subjects ==
  /\ \A a \in Actor : subject[a] \in Starts[a] \cup {None}
  /\ \A a \in Actor : adding[a] # "no" => subject[a] # None
  /\ \A a \in Actor : adding[a] \in {"enter", "full", "start", "await"} =>
       added[subject[a]] = "no" /\ subject[a] \notin deleted
  /\ \A a \in Actor : adding[a] \in {"enter", "full", "start"} => thread[subject[a]] = "none"
  /\ \A a \in Actor : adding[a] = "await" => thread[subject[a]] \in Alive
  /\ \A t \in Task : thread[t] # "none" =>
       added[t] = "SUCCESS" \/ \E a \in Actor : adding[a] = "await" /\ subject[a] = t

Listing == tasks = Running \ Awaited

Tokens ==
  /\ ~queued => tokens = 0 /\ lost = 0
  /\ stopping => ~queued /\ lock = Nobody
  /\ queued => MaxTasks > 0 /\ tokens = Cardinality(tasks) + lost + Started
  /\ ~queued /\ ~stopping /\ MaxTasks > 0 => tasks = {} /\ lock = Nobody

Stopped ==
  /\ \A s \in Stopper : stop[s] \in {"abort", "reset"} => stopping
  /\ \A s \in Stopper : stop[s] = "reset" => tasks = {}

IInv ==
  TypeOK /\ Locked /\ Subjects /\ Listing /\ Tokens /\ LimitKept /\ Stopped /\ NoneUsedDeleted

LEMMA TasksFinite ==
  ASSUME NEW S \in SUBSET Task
  PROVE  IsFiniteSet(S) /\ Cardinality(S) \in Nat
  BY FS_Subset, FS_CardinalityType, ManagerAssumption DEF ManagerAssumption

(* The tasks are told from None and the actors from Nobody; a task has one starter. *)
LEMMA Names ==
  /\ MaxTasks \in Nat /\ None \notin Task /\ Nobody \notin Actor
  /\ Task \subseteq Actor
  /\ \A a \in Actor : Starts[a] \subseteq Task
  /\ \A a, b \in Actor : a # b => Starts[a] \cap Starts[b] = {}
  /\ \A s, u \in Stopper : s = u
  BY ManagerAssumption DEF ManagerAssumption, Actor

LEMMA InductiveInit == Init => IInv
<1> SUFFICES ASSUME Init PROVE IInv
  OBVIOUS
<1> USE Names DEF Init
<1>1. stopping \in BOOLEAN /\ queued \in BOOLEAN
  OBVIOUS
<1>2. TypeOK
  BY <1>1 DEF TypeOK, ThreadPC
<1>3. Locked /\ Subjects /\ Stopped /\ NoneUsedDeleted /\ Tokens
  BY DEF Locked, Subjects, Stopped, NoneUsedDeleted, Tokens
<1>4. Running = {}
  BY DEF Running, Alive
<1>5. Listing
  BY <1>4 DEF Listing
<1>6. LimitKept
  BY <1>4, FS_EmptySet DEF LimitKept, Running
<1> QED
  BY <1>2, <1>3, <1>5, <1>6 DEF IInv

-----------------------------------------------------------------------------
(* Steps that change neither the list, the tokens, nor who runs. *)
LEMMA BooksKept ==
  ASSUME IInv, TypeOK', Locked', Subjects', Stopped', NoneUsedDeleted',
         UNCHANGED <<queued, tokens, lost, tasks>>,
         Running' = Running, Awaited' = Awaited, Started' = Started,
         stopping' => stopping /\ lock' = Nobody,
         ~queued /\ ~stopping' /\ MaxTasks > 0 => tasks = {} /\ lock' = Nobody
  PROVE  IInv'
<1>1. Listing'
  BY DEF IInv, Listing
<1>2. Tokens'
  BY DEF IInv, Tokens
<1>3. LimitKept'
  BY DEF IInv, LimitKept, Running
<1> QED
  BY <1>1, <1>2, <1>3 DEF IInv

(* AddTask without a place, and the end of Kill. *)
LEMMA AddStep ==
  ASSUME IInv, NEW a \in Actor, Interrupted(a) \/ FindsFull(a) \/ PushTimesOut(a) \/ KillEnds(a)
  PROVE  IInv'
<1> USE Names DEF IInv
<1>1. CASE Interrupted(a)
  <2> USE <1>1 DEF Interrupted, vars, queueVars, taskVars, addVars, Adds, Answers, Free, Runs, Stops
  <2>1. TypeOK'
    BY DEF TypeOK, ThreadPC, Locked, Subjects
  <2>2. Locked'
    BY DEF TypeOK, Locked
  <2>3. Subjects'
    BY DEF TypeOK, Locked, Subjects, Alive, ThreadPC
  <2>4. NoneUsedDeleted'
    BY DEF TypeOK, Locked, Subjects, NoneUsedDeleted, Listing, Running, Alive, ThreadPC
  <2>5. Stopped'
    BY DEF TypeOK, Tokens, Stopped
  <2>6. Running' = Running /\ Awaited' = Awaited /\ Started' = Started
    BY DEF TypeOK, Locked, Subjects, Running, Awaited, Started, Alive
  <2>7. /\ stopping' => stopping /\ lock' = Nobody
        /\ ~queued /\ ~stopping' /\ MaxTasks > 0 => tasks = {} /\ lock' = Nobody
    BY DEF TypeOK, Locked, Tokens, Stopped, HasRoom
  <2> QED
    BY <2>1, <2>2, <2>3, <2>4, <2>5, <2>6, <2>7, BooksKept
<1>2. CASE FindsFull(a)
  <2> USE <1>2 DEF FindsFull, vars, queueVars, taskVars, addVars, Adds, Answers, Free, Runs, Stops
  <2>1. TypeOK'
    BY DEF TypeOK, ThreadPC, Locked, Subjects
  <2>2. Locked'
    BY DEF TypeOK, Locked
  <2>3. Subjects'
    BY DEF TypeOK, Locked, Subjects, Alive, ThreadPC
  <2>4. NoneUsedDeleted'
    BY DEF TypeOK, Locked, Subjects, NoneUsedDeleted, Listing, Running, Alive, ThreadPC
  <2>5. Stopped'
    BY DEF TypeOK, Tokens, Stopped
  <2>6. Running' = Running /\ Awaited' = Awaited /\ Started' = Started
    BY DEF TypeOK, Locked, Subjects, Running, Awaited, Started, Alive
  <2>7. /\ stopping' => stopping /\ lock' = Nobody
        /\ ~queued /\ ~stopping' /\ MaxTasks > 0 => tasks = {} /\ lock' = Nobody
    BY DEF TypeOK, Locked, Tokens, Stopped, HasRoom
  <2> QED
    BY <2>1, <2>2, <2>3, <2>4, <2>5, <2>6, <2>7, BooksKept
<1>3. CASE PushTimesOut(a)
  <2> USE <1>3 DEF PushTimesOut, vars, queueVars, taskVars, addVars, Adds, Answers, Free, Runs, Stops
  <2>1. TypeOK'
    BY DEF TypeOK, ThreadPC, Locked, Subjects
  <2>2. Locked'
    BY DEF TypeOK, Locked
  <2>3. Subjects'
    BY DEF TypeOK, Locked, Subjects, Alive, ThreadPC
  <2>4. NoneUsedDeleted'
    BY DEF TypeOK, Locked, Subjects, NoneUsedDeleted, Listing, Running, Alive, ThreadPC
  <2>5. Stopped'
    BY DEF TypeOK, Tokens, Stopped
  <2>6. Running' = Running /\ Awaited' = Awaited /\ Started' = Started
    BY DEF TypeOK, Locked, Subjects, Running, Awaited, Started, Alive
  <2>7. /\ stopping' => stopping /\ lock' = Nobody
        /\ ~queued /\ ~stopping' /\ MaxTasks > 0 => tasks = {} /\ lock' = Nobody
    BY DEF TypeOK, Locked, Tokens, Stopped, HasRoom
  <2> QED
    BY <2>1, <2>2, <2>3, <2>4, <2>5, <2>6, <2>7, BooksKept
<1>4. CASE KillEnds(a)
  <2> USE <1>4 DEF KillEnds, vars, queueVars, taskVars, addVars, Adds, Answers, Free, Runs, Stops
  <2>1. TypeOK'
    BY DEF TypeOK, ThreadPC, Locked, Subjects
  <2>2. Locked'
    BY DEF TypeOK, Locked
  <2>3. Subjects'
    BY DEF TypeOK, Locked, Subjects, Alive, ThreadPC
  <2>4. NoneUsedDeleted'
    BY DEF TypeOK, Locked, Subjects, NoneUsedDeleted, Listing, Running, Alive, ThreadPC
  <2>5. Stopped'
    BY DEF TypeOK, Tokens, Stopped
  <2>6. Running' = Running /\ Awaited' = Awaited /\ Started' = Started
    BY DEF TypeOK, Locked, Subjects, Running, Awaited, Started, Alive
  <2>7. /\ stopping' => stopping /\ lock' = Nobody
        /\ ~queued /\ ~stopping' /\ MaxTasks > 0 => tasks = {} /\ lock' = Nobody
    BY DEF TypeOK, Locked, Tokens, Stopped, HasRoom
  <2> QED
    BY <2>1, <2>2, <2>3, <2>4, <2>5, <2>6, <2>7, BooksKept
<1> QED
  BY <1>1, <1>2, <1>3, <1>4

(* A task's thread outside RemoveTask. *)
LEMMA ThreadStep ==
  ASSUME IInv, NEW t \in Task, Begin(t) \/ Check(t) \/ Finish(t) \/ Destroy(t)
  PROVE  IInv'
<1> USE Names DEF IInv
<1>1. CASE Begin(t)
  <2> USE <1>1 DEF Begin, vars, queueVars, taskVars, addVars, Adds, Answers, Free, Runs, Stops
  <2>1. TypeOK'
    BY DEF TypeOK, ThreadPC, Locked, Subjects
  <2>2. Locked'
    BY DEF TypeOK, Locked
  <2>3. Subjects'
    BY DEF TypeOK, Locked, Subjects, Alive, ThreadPC
  <2>4. NoneUsedDeleted'
    BY DEF TypeOK, Locked, Subjects, NoneUsedDeleted, Listing, Running, Alive, ThreadPC
  <2>5. Stopped'
    BY DEF TypeOK, Tokens, Stopped
  <2>6. Running' = Running /\ Awaited' = Awaited /\ Started' = Started
    BY DEF TypeOK, Locked, Subjects, Running, Awaited, Started, Alive
  <2>7. /\ stopping' => stopping /\ lock' = Nobody
        /\ ~queued /\ ~stopping' /\ MaxTasks > 0 => tasks = {} /\ lock' = Nobody
    BY DEF TypeOK, Locked, Tokens, Stopped, HasRoom
  <2> QED
    BY <2>1, <2>2, <2>3, <2>4, <2>5, <2>6, <2>7, BooksKept
<1>2. CASE Check(t)
  <2> USE <1>2 DEF Check, vars, queueVars, taskVars, addVars, Adds, Answers, Free, Runs, Stops
  <2>1. TypeOK'
    BY DEF TypeOK, ThreadPC, Locked, Subjects
  <2>2. Locked'
    BY DEF TypeOK, Locked
  <2>3. Subjects'
    BY DEF TypeOK, Locked, Subjects, Alive, ThreadPC
  <2>4. NoneUsedDeleted'
    BY DEF TypeOK, Locked, Subjects, NoneUsedDeleted, Listing, Running, Alive, ThreadPC
  <2>5. Stopped'
    BY DEF TypeOK, Tokens, Stopped
  <2>6. Running' = Running /\ Awaited' = Awaited /\ Started' = Started
    BY DEF TypeOK, Locked, Subjects, Running, Awaited, Started, Alive
  <2>7. /\ stopping' => stopping /\ lock' = Nobody
        /\ ~queued /\ ~stopping' /\ MaxTasks > 0 => tasks = {} /\ lock' = Nobody
    BY DEF TypeOK, Locked, Tokens, Stopped, HasRoom
  <2> QED
    BY <2>1, <2>2, <2>3, <2>4, <2>5, <2>6, <2>7, BooksKept
<1>3. CASE Finish(t)
  <2> USE <1>3 DEF Finish, vars, queueVars, taskVars, addVars, Adds, Answers, Free, Runs, Stops
  <2>1. TypeOK'
    BY DEF TypeOK, ThreadPC, Locked, Subjects
  <2>2. Locked'
    BY DEF TypeOK, Locked
  <2>3. Subjects'
    BY DEF TypeOK, Locked, Subjects, Alive, ThreadPC
  <2>4. NoneUsedDeleted'
    BY DEF TypeOK, Locked, Subjects, NoneUsedDeleted, Listing, Running, Alive, ThreadPC
  <2>5. Stopped'
    BY DEF TypeOK, Tokens, Stopped
  <2>6. Running' = Running /\ Awaited' = Awaited /\ Started' = Started
    BY DEF TypeOK, Locked, Subjects, Running, Awaited, Started, Alive
  <2>7. /\ stopping' => stopping /\ lock' = Nobody
        /\ ~queued /\ ~stopping' /\ MaxTasks > 0 => tasks = {} /\ lock' = Nobody
    BY DEF TypeOK, Locked, Tokens, Stopped, HasRoom
  <2> QED
    BY <2>1, <2>2, <2>3, <2>4, <2>5, <2>6, <2>7, BooksKept
<1>4. CASE Destroy(t)
  <2> USE <1>4 DEF Destroy, vars, queueVars, taskVars, addVars, Adds, Answers, Free, Runs, Stops
  <2>1. TypeOK'
    BY DEF TypeOK, ThreadPC, Locked, Subjects
  <2>2. Locked'
    BY DEF TypeOK, Locked
  <2>3. Subjects'
    BY DEF TypeOK, Locked, Subjects, Alive, ThreadPC
  <2>4. NoneUsedDeleted'
    BY DEF TypeOK, Locked, Subjects, NoneUsedDeleted, Listing, Running, Alive, ThreadPC
  <2>5. Stopped'
    BY DEF TypeOK, Tokens, Stopped
  <2>6. Running' = Running /\ Awaited' = Awaited /\ Started' = Started
    BY DEF TypeOK, Locked, Subjects, Running, Awaited, Started, Alive
  <2>7. /\ stopping' => stopping /\ lock' = Nobody
        /\ ~queued /\ ~stopping' /\ MaxTasks > 0 => tasks = {} /\ lock' = Nobody
    BY DEF TypeOK, Locked, Tokens, Stopped, HasRoom
  <2> QED
    BY <2>1, <2>2, <2>3, <2>4, <2>5, <2>6, <2>7, BooksKept
<1> QED
  BY <1>1, <1>2, <1>3, <1>4

(* StopAllTasks, but for the token queue. *)
LEMMA StopStepKeeps ==
  ASSUME IInv, NEW s \in Stopper, StopAllTasks(s) \/ AbortAll(s) \/ Reset(s)
  PROVE  IInv'
<1> USE Names DEF IInv
<1>1. CASE StopAllTasks(s)
  <2> USE <1>1 DEF StopAllTasks, vars, queueVars, taskVars, addVars, Adds, Answers, Free, Runs, Stops
  <2>1. TypeOK'
    BY DEF TypeOK, ThreadPC, Locked, Subjects
  <2>2. Locked'
    BY DEF TypeOK, Locked
  <2>3. Subjects'
    BY DEF TypeOK, Locked, Subjects, Alive, ThreadPC
  <2>4. NoneUsedDeleted'
    BY DEF TypeOK, Locked, Subjects, NoneUsedDeleted, Listing, Running, Alive, ThreadPC
  <2>5. Stopped'
    BY DEF TypeOK, Tokens, Stopped
  <2>6. Running' = Running /\ Awaited' = Awaited /\ Started' = Started
    BY DEF TypeOK, Locked, Subjects, Running, Awaited, Started, Alive
  <2>7. /\ stopping' => stopping /\ lock' = Nobody
        /\ ~queued /\ ~stopping' /\ MaxTasks > 0 => tasks = {} /\ lock' = Nobody
    BY DEF TypeOK, Locked, Tokens, Stopped, HasRoom
  <2> QED
    BY <2>1, <2>2, <2>3, <2>4, <2>5, <2>6, <2>7, BooksKept
<1>2. CASE AbortAll(s)
  <2> USE <1>2 DEF AbortAll, vars, queueVars, taskVars, addVars, Adds, Answers, Free, Runs, Stops
  <2>1. TypeOK'
    BY DEF TypeOK, ThreadPC, Locked, Subjects
  <2>2. Locked'
    BY DEF TypeOK, Locked
  <2>3. Subjects'
    BY DEF TypeOK, Locked, Subjects, Alive, ThreadPC
  <2>4. NoneUsedDeleted'
    BY DEF TypeOK, Locked, Subjects, NoneUsedDeleted, Listing, Running, Alive, ThreadPC
  <2>5. Stopped'
    BY DEF TypeOK, Tokens, Stopped
  <2>6. Running' = Running /\ Awaited' = Awaited /\ Started' = Started
    BY DEF TypeOK, Locked, Subjects, Running, Awaited, Started, Alive
  <2>7. /\ stopping' => stopping /\ lock' = Nobody
        /\ ~queued /\ ~stopping' /\ MaxTasks > 0 => tasks = {} /\ lock' = Nobody
    BY DEF TypeOK, Locked, Tokens, Stopped, HasRoom
  <2> QED
    BY <2>1, <2>2, <2>3, <2>4, <2>5, <2>6, <2>7, BooksKept
<1>3. CASE Reset(s)
  <2> USE <1>3 DEF Reset, vars, queueVars, taskVars, addVars, Adds, Answers, Free, Runs, Stops
  <2>1. TypeOK'
    BY DEF TypeOK, ThreadPC, Locked, Subjects
  <2>2. Locked'
    BY DEF TypeOK, Locked
  <2>3. Subjects'
    BY DEF TypeOK, Locked, Subjects, Alive, ThreadPC
  <2>4. NoneUsedDeleted'
    BY DEF TypeOK, Locked, Subjects, NoneUsedDeleted, Listing, Running, Alive, ThreadPC
  <2>5. Stopped'
    BY DEF TypeOK, Tokens, Stopped
  <2>6. Running' = Running /\ Awaited' = Awaited /\ Started' = Started
    BY DEF TypeOK, Locked, Subjects, Running, Awaited, Started, Alive
  <2>7. /\ stopping' => stopping /\ lock' = Nobody
        /\ ~queued /\ ~stopping' /\ MaxTasks > 0 => tasks = {} /\ lock' = Nobody
    BY DEF TypeOK, Locked, Tokens, Stopped, HasRoom
  <2> QED
    BY <2>1, <2>2, <2>3, <2>4, <2>5, <2>6, <2>7, BooksKept
<1> QED
  BY <1>1, <1>2, <1>3

(* The calls. *)
LEMMA CallStep ==
  ASSUME IInv, NEW a \in Actor, NEW t \in Task, StartTask(a, t) \/ Kill(a, t)
  PROVE  IInv'
<1> USE Names DEF IInv
<1>1. CASE StartTask(a, t)
  <2> USE <1>1 DEF StartTask, vars, queueVars, taskVars, addVars, Adds, Answers, Free, Runs, Stops
  <2>1. TypeOK'
    BY DEF TypeOK, ThreadPC, Locked, Subjects
  <2>2. Locked'
    BY DEF TypeOK, Locked
  <2>3. Subjects'
    BY DEF TypeOK, Locked, Subjects, Alive, ThreadPC
  <2>4. NoneUsedDeleted'
    BY DEF TypeOK, Locked, Subjects, NoneUsedDeleted, Listing, Running, Alive, ThreadPC
  <2>5. Stopped'
    BY DEF TypeOK, Tokens, Stopped
  <2>6. Running' = Running /\ Awaited' = Awaited /\ Started' = Started
    BY DEF TypeOK, Locked, Subjects, Running, Awaited, Started, Alive
  <2>7. /\ stopping' => stopping /\ lock' = Nobody
        /\ ~queued /\ ~stopping' /\ MaxTasks > 0 => tasks = {} /\ lock' = Nobody
    BY DEF TypeOK, Locked, Tokens, Stopped, HasRoom
  <2> QED
    BY <2>1, <2>2, <2>3, <2>4, <2>5, <2>6, <2>7, BooksKept
<1>2. CASE Kill(a, t)
  <2> USE <1>2 DEF Kill, vars, queueVars, taskVars, addVars, Adds, Answers, Free, Runs, Stops
  <2>1. TypeOK'
    BY DEF TypeOK, ThreadPC, Locked, Subjects
  <2>2. Locked'
    BY DEF TypeOK, Locked
  <2>3. Subjects'
    BY DEF TypeOK, Locked, Subjects, Alive, ThreadPC
  <2>4. NoneUsedDeleted'
    BY DEF TypeOK, Locked, Subjects, NoneUsedDeleted, Listing, Running, Alive, ThreadPC
  <2>5. Stopped'
    BY DEF TypeOK, Tokens, Stopped
  <2>6. Running' = Running /\ Awaited' = Awaited /\ Started' = Started
    BY DEF TypeOK, Locked, Subjects, Running, Awaited, Started, Alive
  <2>7. /\ stopping' => stopping /\ lock' = Nobody
        /\ ~queued /\ ~stopping' /\ MaxTasks > 0 => tasks = {} /\ lock' = Nobody
    BY DEF TypeOK, Locked, Tokens, Stopped, HasRoom
  <2> QED
    BY <2>1, <2>2, <2>3, <2>4, <2>5, <2>6, <2>7, BooksKept
<1> QED
  BY <1>1, <1>2

-----------------------------------------------------------------------------
(* Nobody else is in the middle of AddTask. *)
LEMMA Alone ==
  ASSUME IInv
  PROVE  /\ lock = Nobody => Awaited = {} /\ Started = 0 /\ tasks = Running
         /\ \A a \in Actor : adding[a] = "start" => Awaited = {} /\ Started = 1 /\ tasks = Running
         /\ \A a \in Actor : adding[a] = "await" =>
              Awaited = {subject[a]} /\ Started = 1 /\ tasks = Running \ {subject[a]}
<1> USE Names DEF IInv
<1>1. ASSUME lock = Nobody PROVE Awaited = {} /\ Started = 0 /\ tasks = Running
  <2>1. \A a \in Actor : adding[a] \notin {"start", "await"}
    BY <1>1 DEF Locked
  <2> QED
    BY <2>1 DEF Awaited, Started, Listing
<1>2. ASSUME NEW a \in Actor, adding[a] = "start"
      PROVE  Awaited = {} /\ Started = 1 /\ tasks = Running
  <2>1. \A b \in Actor : adding[b] # "await"
    BY <1>2 DEF Locked
  <2> QED
    BY <1>2, <2>1 DEF Awaited, Started, Listing
<1>3. ASSUME NEW a \in Actor, adding[a] = "await"
      PROVE  Awaited = {subject[a]} /\ Started = 1 /\ tasks = Running \ {subject[a]}
  <2>1. \A b \in Actor : adding[b] = "await" => b = a
    BY <1>3 DEF Locked
  <2> QED
    BY <1>3, <2>1 DEF Awaited, Started, Listing
<1> QED
  BY <1>1, <1>2, <1>3

LEMMA AdmitKeeps ==
  ASSUME IInv, NEW a \in Actor, Admit(a)
  PROVE  IInv'
<1> USE Names DEF IInv, Admit, Adds, taskVars
<1>1. /\ Awaited = {} /\ Started = 0 /\ lock = Nobody /\ ~stopping
      /\ IsFiniteSet(tasks) /\ Cardinality(tasks) \in Nat
  BY Alone, TasksFinite DEF TypeOK
<1>2. \A b \in Actor : adding'[b] \in {"full", "start", "await"} <=> b = a
  BY <1>1 DEF TypeOK, Locked
<1>3. Running' = Running /\ Awaited' = Awaited /\ Started' = 1
  BY <1>1, <1>2 DEF TypeOK, Running, Awaited, Started
<1>4. MaxTasks > 0 => tokens = Cardinality(tasks) + lost
  <2>1. CASE queued
    BY <1>1, <2>1 DEF Tokens, TypeOK
  <2>2. CASE ~queued /\ MaxTasks > 0
    BY <1>1, <2>2, FS_EmptySet DEF Tokens
  <2> QED
    BY <2>1, <2>2
<1>5. TypeOK'
  BY DEF TypeOK, HasRoom, Tokens
<1>6. Locked' /\ Subjects'
  BY <1>1, <1>2 DEF TypeOK, Locked, Subjects
<1>7. NoneUsedDeleted' /\ Stopped'
  BY <1>2 DEF TypeOK, Subjects, NoneUsedDeleted, Stopped
<1>8. Listing' /\ LimitKept'
  BY <1>3 DEF Listing, LimitKept, Running
<1>9. Tokens'
  <2>1. tokens \in Nat /\ lost \in Nat
    BY DEF TypeOK
  <2> QED
    BY <1>1, <1>3, <1>4, <2>1 DEF Tokens
<1> QED
  BY <1>5, <1>6, <1>7, <1>8, <1>9

LEMMA LaunchFailsKeeps ==
  ASSUME IInv, NEW a \in Actor, LaunchFails(a)
  PROVE  IInv'
<1> USE Names DEF IInv, LaunchFails, Adds, Answers, taskVars
<1>1. /\ Awaited = {} /\ Started = 1 /\ lock = a /\ tasks = Running
      /\ IsFiniteSet(tasks) /\ Cardinality(tasks) \in Nat /\ tokens \in Nat /\ lost \in Nat
  BY Alone, TasksFinite DEF TypeOK, Locked
<1>2. \A b \in Actor : adding'[b] \notin {"full", "start", "await"}
  BY <1>1 DEF TypeOK, Locked
<1>3. Running' = Running /\ Awaited' = Awaited /\ Started' = 0
  BY <1>1, <1>2 DEF Running, Awaited, Started
<1>4. ~stopping /\ (queued => tokens = Cardinality(tasks) + lost + 1)
  BY <1>1 DEF Tokens
<1>5. TypeOK'
  <2>1. lost' \in 0 .. tokens'
    BY <1>1, <1>4 DEF TypeOK
  <2> QED
    BY <2>1 DEF TypeOK, Subjects
<1>6. Locked' /\ Subjects'
  BY <1>1, <1>2 DEF TypeOK, Locked, Subjects
<1>7. NoneUsedDeleted' /\ Stopped'
  BY <1>2 DEF TypeOK, NoneUsedDeleted, Stopped
<1>8. Listing' /\ LimitKept'
  BY <1>3 DEF Listing, LimitKept, Running
<1>9. Tokens'
  BY <1>1, <1>3, <1>4 DEF Tokens
<1> QED
  BY <1>5, <1>6, <1>7, <1>8, <1>9

LEMMA LaunchKeeps ==
  ASSUME IInv, NEW a \in Actor, Launch(a)
  PROVE  IInv'
<1> USE Names DEF IInv, Launch, Adds, addVars, queueVars
<1> DEFINE t == subject[a]
<1>1. /\ Awaited = {} /\ Started = 1 /\ lock = a /\ tasks = Running
      /\ t \in Task /\ t \in Starts[a] /\ thread[t] = "none" /\ added[t] = "no" /\ t \notin deleted
      /\ IsFiniteSet(tasks) /\ Cardinality(tasks) \in Nat /\ tokens \in Nat /\ lost \in Nat
  BY Alone, TasksFinite DEF TypeOK, Locked, Subjects
<1>2. /\ \A b \in Actor : adding'[b] \in {"full", "start", "await"} <=> b = a
      /\ adding'[a] = "await" /\ \A b \in Actor \ {a} : adding'[b] = adding[b]
      /\ thread'[t] = "begun" /\ \A u \in Task \ {t} : thread'[u] = thread[u]
  BY <1>1 DEF TypeOK, Locked
<1>3. /\ Running' = Running \cup {t} /\ t \notin Running
      /\ Awaited' = {t} /\ Started' = 1
  <2>1. Running' = Running \cup {t} /\ t \notin Running
    BY <1>1, <1>2 DEF Running, Alive
  <2>2. Awaited' = {t} /\ Started' = 1
    BY <1>2 DEF Awaited, Started
  <2> QED
    BY <2>1, <2>2
<1>4. ~stopping /\ (MaxTasks > 0 => queued /\ tokens = Cardinality(tasks) + lost + 1)
  BY <1>1 DEF Tokens
<1>5. TypeOK' /\ Locked'
  BY <1>1, <1>2 DEF TypeOK, Locked, ThreadPC
<1>6. Subjects'
  <2>1. \A b \in Actor \ {a} : adding[b] # "no" => subject[b] # t
    BY <1>1 DEF Subjects
  <2> QED
    BY <1>1, <1>2, <2>1 DEF TypeOK, Subjects, Alive
<1>7. NoneUsedDeleted' /\ Stopped'
  BY <1>1, <1>2 DEF TypeOK, NoneUsedDeleted, Stopped
<1>8. Listing'
  BY <1>1, <1>3 DEF Listing
<1>9. LimitKept'
  <2>1. Cardinality(Running \cup {t}) = Cardinality(tasks) + 1
    BY <1>1, <1>3, FS_AddElement
  <2>2. MaxTasks > 0 => Cardinality(Running') <= MaxTasks
    BY <1>1, <1>3, <1>4, <2>1 DEF TypeOK
  <2> QED
    BY <2>2 DEF LimitKept, Running
<1>10. Tokens'
  BY <1>1, <1>3, <1>4 DEF Tokens
<1> QED
  BY <1>5, <1>6, <1>7, <1>8, <1>9, <1>10

LEMMA ListedKeeps ==
  ASSUME IInv, NEW a \in Actor, Listed(a)
  PROVE  IInv'
<1> USE Names DEF IInv, Listed, Adds, Answers, taskVars, queueVars
<1> DEFINE t == subject[a]
<1>1. /\ Awaited = {t} /\ Started = 1 /\ lock = a /\ tasks = Running \ {t}
      /\ t \in Task /\ t \in Starts[a] /\ t \in Running /\ t \notin deleted
      /\ IsFiniteSet(tasks) /\ Cardinality(tasks) \in Nat /\ tokens \in Nat /\ lost \in Nat
  BY Alone, TasksFinite DEF TypeOK, Locked, Subjects, Running
<1>2. /\ \A b \in Actor : adding'[b] \notin {"full", "start", "await"}
      /\ \A b \in Actor \ {a} : adding'[b] = adding[b]
  BY <1>1 DEF TypeOK, Locked
<1>3. Running' = Running /\ Awaited' = {} /\ Started' = 0 /\ tasks' = Running
  BY <1>1, <1>2 DEF Running, Awaited, Started
<1>4. ~stopping /\ (MaxTasks > 0 => queued /\ tokens = Cardinality(tasks) + lost + 1)
  BY <1>1 DEF Tokens
<1>5. TypeOK' /\ Locked'
  BY <1>1, <1>2 DEF TypeOK, Locked
<1>6. Subjects'
  <2>1. \A b \in Actor \ {a} : adding[b] # "no" => subject[b] # t
    BY <1>1 DEF Subjects
  <2>2. added'[t] = "SUCCESS" /\ \A u \in Task \ {t} : added'[u] = added[u]
    BY <1>1 DEF TypeOK
  <2> QED
    BY <1>1, <1>2, <2>1, <2>2 DEF TypeOK, Subjects
<1>7. NoneUsedDeleted' /\ Stopped'
  BY <1>1, <1>2, <1>4 DEF TypeOK, NoneUsedDeleted, Stopped
<1>8. Listing' /\ LimitKept'
  BY <1>3 DEF Listing, LimitKept, Running
<1>9. Tokens'
  <2>1. Cardinality(tasks') = Cardinality(tasks) + 1
    BY <1>1, FS_AddElement
  <2> QED
    BY <1>1, <1>3, <1>4, <2>1 DEF Tokens
<1> QED
  BY <1>5, <1>6, <1>7, <1>8, <1>9

LEMMA RemoveKeeps ==
  ASSUME IInv, NEW t \in Task, Remove(t)
  PROVE  IInv'
<1> USE Names DEF IInv, Remove, Runs, addVars
<1>1. /\ Awaited = {} /\ Started = 0 /\ lock = Nobody /\ tasks = Running /\ t \in tasks
      /\ IsFiniteSet(tasks) /\ Cardinality(tasks) \in Nat /\ tokens \in Nat /\ lost \in Nat
  BY Alone, TasksFinite DEF TypeOK, Running, Alive
<1>2. /\ Cardinality(tasks') = Cardinality(tasks) - 1 /\ Cardinality(tasks') \in Nat
      /\ Cardinality(tasks') <= Cardinality(tasks)
  <2>1. tasks' = tasks \ {t} /\ tasks' \in SUBSET Task
    BY DEF TypeOK
  <2> QED
    BY <1>1, <2>1, FS_RemoveElement, TasksFinite
<1>3. Running' = Running \ {t} /\ Awaited' = {} /\ Started' = 0
  BY <1>1 DEF Running, Awaited, Started, TypeOK, Alive
<1>4. TypeOK'
  <2>1. queued => tokens' = tokens - 1 /\ tokens' = Cardinality(tasks') + lost
    BY <1>1, <1>2 DEF Tokens
  <2>2. tokens' \in 0 .. MaxTasks /\ lost' \in 0 .. tokens'
    BY <1>1, <1>2, <2>1 DEF TypeOK, Tokens
  <2> QED
    BY <2>2 DEF TypeOK, ThreadPC
<1>5. Locked' /\ Subjects'
  BY <1>1 DEF TypeOK, Locked, Subjects, Alive
<1>6. NoneUsedDeleted' /\ Stopped'
  BY <1>1 DEF TypeOK, NoneUsedDeleted, Stopped
<1>7. Listing'
  BY <1>1, <1>3 DEF Listing
<1>8. LimitKept'
  <2>1. MaxTasks > 0 => Cardinality(Running') <= MaxTasks
    BY <1>1, <1>2, <1>3 DEF LimitKept, Running
  <2> QED
    BY <2>1 DEF LimitKept, Running
<1>9. Tokens'
  BY <1>1, <1>2, <1>3 DEF Tokens
<1> QED
  BY <1>4, <1>5, <1>6, <1>7, <1>8, <1>9

LEMMA RaiseKeeps ==
  ASSUME IInv, NEW s \in Stopper, Raise(s)
  PROVE  IInv'
<1> USE Names DEF IInv, Raise, Stops, taskVars, addVars
<1>1. Running' = Running /\ Awaited' = Awaited /\ Started' = Started
  BY DEF Running, Awaited, Started
<1>2. TypeOK'
  <2>1. tokens' \in 0 .. MaxTasks /\ lost' \in 0 .. tokens'
    BY DEF TypeOK
  <2>2. stop' \in [Stopper -> {"idle", "raise", "abort", "reset"}]
    BY DEF TypeOK
  <2> QED
    BY <2>1, <2>2 DEF TypeOK
<1>3. Locked' /\ Subjects' /\ NoneUsedDeleted'
  BY DEF Locked, Subjects, NoneUsedDeleted
<1>4. Listing' /\ LimitKept'
  BY <1>1 DEF Listing, LimitKept, Running
<1>5. Tokens' /\ Stopped'
  BY DEF Tokens, Stopped, TypeOK
<1> QED
  BY <1>2, <1>3, <1>4, <1>5

LEMMA InductiveStep == IInv /\ [Next]_vars => IInv'
<1> SUFFICES ASSUME IInv, [Next]_vars PROVE IInv'
  OBVIOUS
<1>1. ASSUME NEW a \in Actor, Add(a) PROVE IInv'
  BY <1>1, AddStep, AdmitKeeps, LaunchFailsKeeps, LaunchKeeps, ListedKeeps DEF Add
<1>2. ASSUME NEW a \in Actor, NEW t \in Task, StartTask(a, t) \/ Kill(a, t) PROVE IInv'
  BY <1>2, CallStep
<1>3. ASSUME NEW t \in Task, Run(t) PROVE IInv'
  BY <1>3, ThreadStep, RemoveKeeps DEF Run
<1>4. ASSUME NEW s \in Stopper, StopAllTasks(s) \/ StopStep(s) PROVE IInv'
  BY <1>4, StopStepKeeps, RaiseKeeps DEF StopStep
<1>5. CASE UNCHANGED vars
  <2>1. TypeOK' /\ Locked' /\ Subjects'
    BY <1>5 DEF vars, IInv, TypeOK, Locked, Subjects
  <2>2. Running' = Running /\ Awaited' = Awaited /\ Started' = Started
    BY <1>5 DEF vars, Running, Awaited, Started
  <2>3. Stopped' /\ NoneUsedDeleted'
    BY <1>5 DEF vars, IInv, Stopped, NoneUsedDeleted
  <2>4. UNCHANGED <<queued, tokens, lost, tasks, stopping, lock>>
    BY <1>5 DEF vars
  <2>5. /\ stopping' => stopping /\ lock' = Nobody
        /\ ~queued /\ ~stopping' /\ MaxTasks > 0 => tasks = {} /\ lock' = Nobody
    BY <2>4 DEF IInv, Tokens
  <2> QED
    BY <2>1, <2>2, <2>3, <2>4, <2>5, BooksKept
<1> QED
  BY <1>1, <1>2, <1>3, <1>4, <1>5 DEF Next

-----------------------------------------------------------------------------
(* The inductive invariant of the task manager. *)
THEOREM Invariance == Spec => []IInv
<1> QED
  BY InductiveInit, InductiveStep, PTL DEF Spec

(* PltTaskManager.cpp:126-209: list, tokens and threads agree and keep the limit. *)
THEOREM BooksTrue == Spec => []BooksBalance
<1>1. IInv => BooksBalance
  <2> SUFFICES ASSUME IInv PROVE TokensAccounted /\ ListExact
    BY DEF BooksBalance, IInv
  <2>1. ListExact
    BY Alone DEF ListExact, Running
  <2>2. TokensAccounted
    <3> SUFFICES ASSUME lock = Nobody, queued PROVE tokens = Cardinality(tasks) + lost
      BY DEF TokensAccounted
    <3>1. Started = 0 /\ Cardinality(tasks) \in Nat /\ lost \in Nat
      BY Alone, TasksFinite DEF IInv, TypeOK
    <3> QED
      BY <3>1 DEF IInv, Tokens
  <2> QED
    BY <2>1, <2>2
<1> QED
  BY <1>1, Invariance, PTL

(* PltTaskManager.cpp:78-120: when StopAllTasks is about to return, nothing runs *)
(* or is being started.                                                       *)
THEOREM StopIsFinal == Spec => []QuietAfterStop
<1>1. IInv => QuietAfterStop
  <2> SUFFICES ASSUME IInv, NEW s \in Stopper, stop[s] = "reset"
               PROVE  /\ \A t \in Task : thread[t] \notin Alive
                      /\ \A a \in Actor : adding[a] \notin {"full", "start", "await"}
    BY DEF QuietAfterStop
  <2>1. lock = Nobody /\ tasks = {}
    BY DEF IInv, Stopped, Tokens
  <2>2. Running = {}
    BY <2>1, Alone
  <2> QED
    BY <2>1, <2>2, Names DEF IInv, Locked, Running
<1> QED
  BY <1>1, Invariance, PTL

(* PltTaskManager.cpp:204-209, PltThreadTask.cpp:110-134, 161-164: no task is *)
(* deleted that somebody still uses.                                          *)
THEOREM DeletedUnused == Spec => []NoneUsedDeleted
<1>1. IInv => NoneUsedDeleted
  BY DEF IInv
<1> QED
  BY <1>1, Invariance, PTL

(* PltTaskManager.cpp:77-120: from the moment m_Stopping is raised no thread *)
(* starts, so the threads StopAllTasks waits for only become fewer, although *)
(* it leaves the lock between two looks at the list.                         *)
THEOREM NoneStartsWhileStopping == Spec => [][stopping => Running' \subseteq Running]_vars
<1>1. ASSUME IInv, [Next]_vars, stopping, NEW t \in Running'
      PROVE  t \in Running
  <2>1. t \in Task /\ thread'[t] \in Alive /\ thread \in [Task -> ThreadPC]
    BY <1>1 DEF Running, IInv, TypeOK
  <2>2. SUFFICES thread[t] \in Alive
    BY <2>1 DEF Running
  <2>3. \A a \in Actor : adding[a] # "start"
    BY <1>1, Names DEF IInv, Locked, Tokens
  <2>4. CASE UNCHANGED vars
    BY <2>1, <2>4 DEF vars
  <2>5. ASSUME NEW a \in Actor, Add(a)
        PROVE  thread' = thread
    BY <2>3, <2>5 DEF Add, Interrupted, Admit, FindsFull, PushTimesOut, LaunchFails, Launch,
                      Listed, KillEnds, taskVars
  <2>6. ASSUME NEW a \in Actor, NEW u \in Task, StartTask(a, u) \/ Kill(a, u)
        PROVE  thread' = thread
    BY <2>6 DEF StartTask, Kill, taskVars
  <2>7. ASSUME NEW u \in Task, Run(u)
        PROVE  thread[t] \in Alive
    BY <2>1, <2>7 DEF Run, Begin, Check, Finish, Remove, Destroy, Runs, Alive, ThreadPC
  <2>8. ASSUME NEW s \in Stopper, StopAllTasks(s) \/ StopStep(s)
        PROVE  thread' = thread
    BY <2>8 DEF StopAllTasks, StopStep, Raise, AbortAll, Reset, taskVars
  <2> QED
    BY <1>1, <2>1, <2>4, <2>5, <2>6, <2>7, <2>8 DEF Next
<1>2. IInv /\ [Next]_vars => [stopping => Running' \subseteq Running]_vars
  BY <1>1
<1> QED
  BY <1>2, Invariance, PTL DEF Spec

(* PltTaskManager.cpp:141-174: an AddTask that finds the queue full waits    *)
(* for a listed task whose thread still has to give its token back, unless   *)
(* the tokens are those of threads that did not start.  (The task may be in  *)
(* AddTask itself: that it comes out is what its owner has to see to.)       *)
THEOREM RoomWillCome ==
  Spec => [](lock = Nobody /\ ~HasRoom => lost > 0 \/ \E t \in tasks : thread[t] \in Alive)
<1>1. ASSUME IInv, lock = Nobody, ~HasRoom, lost = 0
      PROVE  \E t \in tasks : thread[t] \in Alive
  <2>1. MaxTasks > 0 /\ queued /\ tokens >= MaxTasks
    BY <1>1, Names DEF HasRoom, IInv, TypeOK
  <2>2. Started = 0 /\ tasks = Running
    BY <1>1, Alone
  <2>3. Cardinality(tasks) > 0
    BY <1>1, <2>1, <2>2, TasksFinite, Names DEF IInv, TypeOK, Tokens
  <2>4. tasks # {}
    BY <2>3, FS_EmptySet
  <2> QED
    BY <2>2, <2>4 DEF Running
<1>2. IInv => lost \in Nat
  BY Names DEF IInv, TypeOK
<1>3. IInv => (lock = Nobody /\ ~HasRoom => lost > 0 \/ \E t \in tasks : thread[t] \in Alive)
  BY <1>1, <1>2
<1> QED
  BY <1>3, Invariance, PTL
=============================================================================
