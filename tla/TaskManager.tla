----------------------------- MODULE TaskManager -----------------------------
(***************************************************************************)
(* Platinum/Source/Core/PltTaskManager.cpp and PltThreadTask.cpp: tasks    *)
(* that run in threads of their own, at most m_MaxTasks at a time, and can *)
(* all be stopped.                                                         *)
(*                                                                         *)
(* AddTask pushes a token into m_Queue, with a timeout, while it holds     *)
(* m_TasksLock; RemoveTask, called by a task's own thread at its end, pops *)
(* one under the same lock.  StopAllTasks refuses new tasks, deletes the   *)
(* queue, tells the listed tasks to abort, and looks again until none is   *)
(* listed.  A task that runs may start other tasks.                        *)
(***************************************************************************)
EXTENDS Naturals, FiniteSets

CONSTANTS
  Task,         \* the tasks, each of which is started at most once
  Caller,       \* the threads outside that start and kill tasks
  Stopper,      \* the thread that calls StopAllTasks
  Starts,       \* Starts[a]: the tasks that actor a starts
  AutoDestroy,  \* the tasks that are deleted when they end
  Endless,      \* the tasks that only end when they are told to abort
  MayFail,      \* the tasks whose thread may fail to start
  MaxTasks      \* m_MaxTasks, 0 for no limit

Actor == Caller \cup Task
Nobody == "nobody"
None == "none"

ASSUME ManagerAssumption ==
  /\ MaxTasks \in Nat /\ IsFiniteSet(Task)
  /\ \A s, u \in Stopper : s = u
  /\ Starts \in [Actor -> SUBSET Task]
  /\ \A a, b \in Actor : a # b => Starts[a] \cap Starts[b] = {}
  /\ AutoDestroy \subseteq Task /\ Endless \subseteq Task /\ MayFail \subseteq Task
  /\ Nobody \notin Actor /\ None \notin Task

VARIABLES
  lock,       \* the actor inside m_TasksLock between two of its steps
  stopping,   \* m_Stopping
  queued,     \* m_Queue is not NULL
  tokens,     \* the length of m_Queue
  lost,       \* how many of its tokens belong to threads that did not start
  tasks,      \* m_Tasks
  abort,      \* the tasks whose m_Abort is 1
  thread,     \* where the thread of each task is
  deleted,    \* the tasks that no longer exist
  adding,     \* where each actor is in AddTask
  subject,    \* the task it is adding or killing
  added,      \* the tasks whose AddTask succeeded, and those where it was interrupted
  stop        \* where the stopper is

vars == <<lock, stopping, queued, tokens, lost, tasks, abort, thread, deleted,
          adding, subject, added, stop>>

(* A task's thread: not created; before m_Started is set; before the test of *)
(* m_Abort; in DoRun; before RemoveTask; after it; finished.                 *)
ThreadPC == {"none", "begun", "check", "run", "remove", "leave", "ended"}
Alive == {"begun", "check", "run", "remove"}

TypeOK ==
  /\ lock \in Actor \cup {Nobody}
  /\ stopping \in BOOLEAN /\ queued \in BOOLEAN
  /\ tokens \in 0 .. MaxTasks /\ lost \in 0 .. tokens
  /\ tasks \subseteq Task /\ abort \subseteq Task /\ deleted \subseteq Task
  /\ thread \in [Task -> ThreadPC]
  /\ adding \in [Actor -> {"no", "enter", "full", "start", "await", "kill"}]
  /\ subject \in [Actor -> Task \cup {None}]
  /\ added \in [Task -> {"no", "SUCCESS", "INTERRUPTED", "FAILED"}]
  /\ stop \in [Stopper -> {"idle", "raise", "abort", "reset"}]

Init ==
  /\ lock = Nobody
  /\ stopping = FALSE /\ queued = FALSE /\ tokens = 0 /\ lost = 0
  /\ tasks = {} /\ abort = {} /\ deleted = {}
  /\ thread = [t \in Task |-> "none"]
  /\ adding = [a \in Actor |-> "no"]
  /\ subject = [a \in Actor |-> None]
  /\ added = [t \in Task |-> "no"]
  /\ stop = [s \in Stopper |-> "idle"]

queueVars == <<queued, tokens, lost>>
taskVars == <<abort, thread, deleted>>
addVars == <<adding, subject, added>>

-----------------------------------------------------------------------------
(* PLT_ThreadTask::Start and PLT_TaskManager::AddTask *)

Adds(a, l) == adding' = [adding EXCEPT ![a] = l]
Answers(a, r) == Adds(a, "no") /\ added' = [added EXCEPT ![subject[a]] = r]

(* An actor that may call: a thread outside, or a task inside DoRun. *)
Free(a) == adding[a] = "no" /\ (a \in Task => thread[a] = "run")

StartTask(a, t) ==
  /\ Free(a)
  /\ t \in Starts[a] /\ \A b \in Actor : subject[b] # t
  /\ added[t] = "no" /\ t \notin deleted
  /\ Adds(a, "enter")
  /\ subject' = [subject EXCEPT ![a] = t]
  /\ UNCHANGED <<lock, stopping, queueVars, tasks, taskVars, added, stop>>

(* No task is taken on while the others are being stopped. *)
Interrupted(a) ==
  /\ adding[a] = "enter" /\ lock = Nobody
  /\ stopping
  /\ Answers(a, "INTERRUPTED")
  /\ UNCHANGED <<lock, stopping, queueVars, tasks, taskVars, subject, stop>>

HasRoom == MaxTasks = 0 \/ ~queued \/ tokens < MaxTasks

Admit(a) ==
  /\ adding[a] = "enter" /\ lock = Nobody
  /\ ~stopping /\ HasRoom
  /\ lock' = a
  /\ queued' = (MaxTasks > 0)
  /\ tokens' = IF MaxTasks > 0 THEN tokens + 1 ELSE tokens
  /\ Adds(a, "start")
  /\ UNCHANGED <<stopping, lost, tasks, taskVars, subject, added, stop>>

(* Everybody else who uses the queue needs the lock, so the push will fail, ... *)
FindsFull(a) ==
  /\ adding[a] = "enter" /\ lock = Nobody
  /\ ~stopping /\ ~HasRoom
  /\ lock' = a
  /\ Adds(a, "full")
  /\ UNCHANGED <<stopping, queueVars, tasks, taskVars, subject, added, stop>>

PushTimesOut_Never(a) ==
  /\ adding[a] = "full" /\ HasRoom
  /\ lock' = Nobody
  /\ Adds(a, "enter")
  /\ UNCHANGED <<stopping, queueVars, tasks, taskVars, subject, added, stop>>

(* ... and AddTask leaves the lock for others before it tries again.         *)
PushTimesOut(a) ==
  /\ adding[a] = "full"
  /\ lock' = Nobody
  /\ Adds(a, "enter")
  /\ UNCHANGED <<stopping, queueVars, tasks, taskVars, subject, added, stop>>

(* The thread cannot be started: the token stays in the queue. *)
LaunchFails(a) ==
  /\ adding[a] = "start" /\ subject[a] \in MayFail
  /\ lost' = IF queued THEN lost + 1 ELSE lost
  /\ lock' = Nobody
  /\ Answers(a, "FAILED")
  /\ UNCHANGED <<stopping, queued, tokens, tasks, taskVars, subject, stop>>

Launch(a) ==
  /\ adding[a] = "start"
  /\ thread' = [thread EXCEPT ![subject[a]] = "begun"]
  /\ Adds(a, "await")
  /\ UNCHANGED <<lock, stopping, queueVars, tasks, abort, deleted, subject, added, stop>>

(* m_Started was set: the task is listed before its thread can unlist it.    *)
Listed(a) ==
  /\ adding[a] = "await" /\ thread[subject[a]] # "begun"
  /\ tasks' = tasks \cup {subject[a]}
  /\ lock' = Nobody
  /\ Answers(a, "SUCCESS")
  /\ UNCHANGED <<stopping, queueVars, taskVars, subject, stop>>

-----------------------------------------------------------------------------
(* PLT_ThreadTask::Run and PLT_TaskManager::RemoveTask *)

Runs(t, l) == thread' = [thread EXCEPT ![t] = l]

Begin(t) ==
  /\ thread[t] = "begun"
  /\ Runs(t, "check")
  /\ UNCHANGED <<lock, stopping, queueVars, tasks, abort, deleted, addVars, stop>>

(* After the delay: a task that is told to abort before does not run at all. *)
Check(t) ==
  /\ thread[t] = "check"
  /\ Runs(t, IF t \in abort THEN "remove" ELSE "run")
  /\ UNCHANGED <<lock, stopping, queueVars, tasks, abort, deleted, addVars, stop>>

(* DoRun returns: by itself, or because IsAborting. *)
Finish(t) ==
  /\ thread[t] = "run" /\ adding[t] = "no"
  /\ t \in abort \/ t \notin Endless
  /\ Runs(t, "remove")
  /\ UNCHANGED <<lock, stopping, queueVars, tasks, abort, deleted, addVars, stop>>

(* An empty queue only costs RemoveTask its timeout. *)
Remove_KeepToken(t) ==
  /\ thread[t] = "remove" /\ lock = Nobody
  /\ tasks' = tasks \ {t}
  /\ Runs(t, "leave")
  /\ UNCHANGED <<lock, stopping, queueVars, abort, deleted, addVars, stop>>

Remove_KeepListed(t) ==
  /\ thread[t] = "remove" /\ lock = Nobody
  /\ tokens' = IF queued /\ tokens > 0 THEN tokens - 1 ELSE tokens
  /\ Runs(t, "leave")
  /\ UNCHANGED <<lock, stopping, queued, lost, tasks, abort, deleted, addVars, stop>>

Remove(t) ==
  /\ thread[t] = "remove" /\ lock = Nobody
  /\ tokens' = IF queued /\ tokens > 0 THEN tokens - 1 ELSE tokens
  /\ tasks' = tasks \ {t}
  /\ Runs(t, "leave")
  /\ UNCHANGED <<lock, stopping, queued, lost, abort, deleted, addVars, stop>>

(* Outside the lock: delete task, if it is to be destroyed. *)
Destroy(t) ==
  /\ thread[t] = "leave"
  /\ deleted' = IF t \in AutoDestroy THEN deleted \cup {t} ELSE deleted
  /\ Runs(t, "ended")
  /\ UNCHANGED <<lock, stopping, queueVars, tasks, abort, addVars, stop>>

-----------------------------------------------------------------------------
(* PLT_ThreadTask::Kill, by the owner of a task that is not auto-destroyed   *)
(* and that AddTask has accepted or turned away; owners that kill a task of  *)
(* which StartThread failed, whose thread never was, are not modelled.       *)

Kill(a, t) ==
  /\ Free(a) /\ t \in Starts[a] \ AutoDestroy
  /\ added[t] \in {"SUCCESS", "INTERRUPTED"} /\ t \notin deleted
  /\ abort' = abort \cup {t}
  /\ Adds(a, "kill")
  /\ subject' = [subject EXCEPT ![a] = t]
  /\ UNCHANGED <<lock, stopping, queueVars, tasks, thread, deleted, added, stop>>

KillEnds_NoWait(a) ==
  /\ adding[a] = "kill"
  /\ deleted' = deleted \cup {subject[a]}
  /\ Adds(a, "no")
  /\ UNCHANGED <<lock, stopping, queueVars, tasks, abort, thread, subject, added, stop>>

(* Stop waits for the thread, if there is one; then the task is deleted.     *)
KillEnds(a) ==
  /\ adding[a] = "kill" /\ thread[subject[a]] \in {"none", "ended"}
  /\ deleted' = deleted \cup {subject[a]}
  /\ Adds(a, "no")
  /\ UNCHANGED <<lock, stopping, queueVars, tasks, abort, thread, subject, added, stop>>

-----------------------------------------------------------------------------
(* PLT_TaskManager::StopAllTasks *)

Stops(s, l) == stop' = [stop EXCEPT ![s] = l]

StopAllTasks(s) ==
  /\ stop[s] = "idle"
  /\ Stops(s, "raise")
  /\ UNCHANGED <<lock, stopping, queueVars, tasks, taskVars, addVars>>

Raise_NotStopping(s) ==
  /\ stop[s] = "raise" /\ lock = Nobody
  /\ stopping' = stopping
  /\ queued' = FALSE /\ tokens' = 0 /\ lost' = 0
  /\ Stops(s, "abort")
  /\ UNCHANGED <<lock, tasks, taskVars, addVars>>

Raise(s) ==
  /\ stop[s] = "raise" /\ lock = Nobody
  /\ stopping' = TRUE
  /\ queued' = FALSE /\ tokens' = 0 /\ lost' = 0
  /\ Stops(s, "abort")
  /\ UNCHANGED <<lock, tasks, taskVars, addVars>>

(* As long as a task is listed, sleep and start again. *)
AbortAll(s) ==
  /\ stop[s] = "abort" /\ lock = Nobody
  /\ abort' = abort \cup tasks
  /\ Stops(s, IF tasks = {} THEN "reset" ELSE "raise")
  /\ UNCHANGED <<lock, stopping, queueVars, tasks, thread, deleted, addVars>>

(* Without the lock. *)
Reset(s) ==
  /\ stop[s] = "reset"
  /\ stopping' = FALSE
  /\ Stops(s, "idle")
  /\ UNCHANGED <<lock, queueVars, tasks, taskVars, addVars>>

-----------------------------------------------------------------------------
Add(a) ==
  \/ Interrupted(a) \/ Admit(a) \/ FindsFull(a) \/ PushTimesOut(a)
  \/ LaunchFails(a) \/ Launch(a) \/ Listed(a) \/ KillEnds(a)
Run(t) == Begin(t) \/ Check(t) \/ Finish(t) \/ Remove(t) \/ Destroy(t)
StopStep(s) == Raise(s) \/ AbortAll(s) \/ Reset(s)

Next ==
  \/ \E a \in Actor : Add(a) \/ \E t \in Task : StartTask(a, t) \/ Kill(a, t)
  \/ \E t \in Task : Run(t)
  \/ \E s \in Stopper : StopAllTasks(s) \/ StopStep(s)

Spec == Init /\ [][Next]_vars

(***************************************************************************)
(* Fairness: every thread that can run runs; m_TasksLock, left by AddTask  *)
(* between two attempts, does not pass over a thread for ever, and room    *)
(* that comes again and again is found at last.  Nobody has to call        *)
(* StartTask, Kill or StopAllTasks.                                        *)
(***************************************************************************)
Fairness ==
  /\ \A a \in {b \in Actor : Starts[b] # {}} :
       /\ WF_vars(PushTimesOut(a) \/ LaunchFails(a) \/ Launch(a) \/ Listed(a) \/ KillEnds(a))
       /\ SF_vars(Interrupted(a) \/ Admit(a))
  /\ \A t \in Task : SF_vars(Run(t))
  /\ \A s \in Stopper : SF_vars(StopStep(s))

FairSpec == Spec /\ Fairness

-----------------------------------------------------------------------------
(* No more tasks than the limit run at a time.                               *)
LimitKept ==
  MaxTasks > 0 => Cardinality({t \in Task : thread[t] \in Alive}) <= MaxTasks

(* A token for every listed task and for every thread that did not start.    *)
TokensAccounted ==
  lock = Nobody /\ queued => tokens = Cardinality(tasks) + lost

(* The listed tasks are those whose threads run.                             *)
ListExact ==
  lock = Nobody => tasks = {t \in Task : thread[t] \in Alive}

(* PltTaskManager.cpp:141-174, 185-202, PltTaskManager.h:59-61: list, tokens *)
(* and threads agree and keep the limit, although a task may end before its  *)
(* starter lists it, a thread that did not start keeps its token, and        *)
(* StopAllTasks throws the tokens of running tasks away.                     *)
BooksBalance == TypeOK /\ LimitKept /\ TokensAccounted /\ ListExact

(* PltTaskManager.cpp:77-120: when StopAllTasks is about to return, no task  *)
(* runs or is about to, whatever other threads and the tasks themselves were *)
(* starting, and nobody will use the manager through a task any more.        *)
QuietAfterStop ==
  \A s \in Stopper : stop[s] = "reset" =>
    /\ \A t \in Task : thread[t] \notin Alive
    /\ \A a \in Actor : adding[a] \notin {"full", "start", "await"}

(* PltThreadTask.cpp:85-94, 128-134, PltTaskManager.cpp:99-107, 205-208: no  *)
(* task is deleted while it is listed, its thread still uses it, or the      *)
(* caller of StartThread waits for its m_Started.                            *)
NoneUsedDeleted ==
  \A t \in deleted :
    /\ t \notin tasks
    /\ thread[t] \in {"none", "ended"}
    /\ \A a \in Actor : adding[a] \in {"start", "await"} => subject[a] # t

(* PltTaskManager.h:59-61: as long as every thread starts, AddTask comes     *)
(* back: other tasks finish, or StopAllTasks interrupts it.  It is a         *)
(* property of instances in which tasks that wait in AddTask themselves do   *)
(* not fill all places: those would wait for each other until a stop.        *)
AddReturns ==
  [](lost = 0) => \A a \in Actor : adding[a] = "enter" ~> adding[a] = "no"

(* PltTaskManager.cpp:77-120: StopAllTasks returns, also when a task is just *)
(* blocked in AddTask.                                                       *)
StopReturns == \A s \in Stopper : stop[s] = "raise" ~> stop[s] = "idle"
=============================================================================
