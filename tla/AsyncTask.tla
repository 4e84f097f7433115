------------------------------ MODULE AsyncTask ------------------------------
(***************************************************************************)
(* MiniFrame/BRFrame: an interface whose calls run in the threads of a     *)
(* boost::asio::io_service (InterfaceImpl.cpp, AsyncTask.cpp, AsyncTask.h).*)
(*                                                                         *)
(* Post puts a handler in a queue and an ExecHandler in the io_service;    *)
(* each ExecHandler pops at most one handler.  Every Start makes a new     *)
(* io_service with threads of its own, and Stop joins the threads outside  *)
(* the lock, so that threads of two io_services can meet at the queue.     *)
(*                                                                         *)
(* A section under a mutex is one step: nothing inside one waits.          *)
(***************************************************************************)
EXTENDS Naturals, Sequences, FiniteSets, SequencesExt

CONSTANTS
  Caller,      \* the threads that use the interface
  PoolSize,    \* m_threadpool_size
  Starts,      \* bound: how many io_services are made
  Posts        \* bound: how many handlers are posted

ASSUME AsyncAssumption == PoolSize \in Nat \ {0} /\ Starts \in Nat /\ Posts \in Nat

Worker == (1 .. Starts) \X (1 .. PoolSize)
NoJob == [number |-> 0, made |-> 0]

VARIABLES
  isStopped,   \* InterfaceImpl's m_isStopped
  stopped,     \* CAsyncTask's m_is_stopped
  service,     \* which io_service m_ioService is, 0 for none
  posted,      \* how many ExecHandlers wait in it
  queue,       \* m_queue: the handlers, with the io_service they came with
  pool,        \* m_work_threadpool
  worker,      \* where each thread of a pool is
  job,         \* the handler it runs
  caller,      \* where each caller is
  again,       \* whether it is to start after it stopped (Reset)
  joining,     \* the threads it has to join
  count,       \* how many handlers were posted
  stops,       \* the io_service each caller stopped
  joined,      \* the io_services whose Stop has returned
  overtaken    \* a Start went by a Stop that was still joining

task == <<stopped, service, posted, queue, pool>>
threads == <<worker, job>>
callers == <<caller, again, joining>>
ghosts == <<stops, joined, overtaken>>
vars == <<isStopped, task, threads, callers, count, ghosts>>

TypeOK ==
  /\ isStopped \in BOOLEAN /\ stopped \in BOOLEAN
  /\ service \in 0 .. Starts /\ posted \in 0 .. Posts
  /\ queue \in Seq([number : 1 .. Posts, made : 1 .. Starts])
  /\ pool = IF stopped THEN {} ELSE {service} \X (1 .. PoolSize)
  /\ worker \in [Worker -> {"unborn", "run", "exec", "handler", "ended"}]
  /\ job \in [Worker -> [number : 0 .. Posts, made : 0 .. Starts]]
  /\ caller \in [Caller -> {"idle", "start", "started", "stop", "join", "post"}]
  /\ again \in [Caller -> BOOLEAN]
  /\ joining \in [Caller -> SUBSET Worker]
  /\ count \in 0 .. Posts
  /\ stops \in [Caller -> 0 .. Starts] /\ joined \subseteq 1 .. Starts /\ overtaken \in BOOLEAN

Init ==
  /\ isStopped = TRUE /\ stopped = TRUE /\ service = 0 /\ posted = 0
  /\ queue = << >> /\ pool = {}
  /\ worker = [w \in Worker |-> "unborn"]
  /\ job = [w \in Worker |-> NoJob]
  /\ caller = [c \in Caller |-> "idle"]
  /\ again = [c \in Caller |-> FALSE]
  /\ joining = [c \in Caller |-> {}]
  /\ count = 0 /\ stops = [c \in Caller |-> 0] /\ joined = {} /\ overtaken = FALSE

Goto(c, place) == caller' = [caller EXCEPT ![c] = place]

-----------------------------------------------------------------------------
(* CInterfaceImpl::Start and what it calls *)

BeginStart(c) ==
  /\ caller[c] = "idle" /\ isStopped
  /\ Goto(c, "start")
  /\ UNCHANGED <<isStopped, task, threads, again, joining, count, ghosts>>

(* CAsyncTask::Start: a task that runs already stays as it is. *)
StartTask(c) ==
  /\ caller[c] = "start"
  /\ Goto(c, "started")
  /\ \/ ~stopped /\ UNCHANGED <<task, worker, overtaken>>
     \/ /\ stopped /\ service < Starts
        /\ service' = service + 1
        /\ pool' = {service'} \X (1 .. PoolSize)
        /\ worker' = [w \in Worker |-> IF w \in pool' THEN "run" ELSE worker[w]]
        /\ posted' = 0
        /\ stopped' = FALSE
        /\ overtaken' = (overtaken \/ \E d \in Caller : caller[d] = "join")
        /\ UNCHANGED queue
  /\ UNCHANGED <<isStopped, job, again, joining, count, stops, joined>>

EndStart(c) ==
  /\ caller[c] = "started"
  /\ isStopped' = FALSE
  /\ Goto(c, "idle")
  /\ UNCHANGED <<task, threads, again, joining, count, ghosts>>

(* CInterfaceImpl::Stop and Reset *)

BeginStop(c) ==
  /\ caller[c] = "idle"
  /\ isStopped' = TRUE
  /\ again' \in {[again EXCEPT ![c] = reset] : reset \in BOOLEAN}
  /\ Goto(c, "stop")
  /\ UNCHANGED <<task, threads, joining, count, ghosts>>

(* Stop returns; Reset goes on with the test of Start. *)
Stopped(c) ==
  /\ Goto(c, IF again[c] /\ isStopped THEN "start" ELSE "idle")
  /\ again' = [again EXCEPT ![c] = FALSE]

(* CAsyncTask::Stop up to the end of its lock *)
StopTask_KeepQueue(c) ==
  /\ caller[c] = "stop"
  /\ \/ stopped /\ Stopped(c) /\ UNCHANGED <<task, joining, stops>>
     \/ /\ ~stopped
        /\ stopped' = TRUE
        /\ stops' = [stops EXCEPT ![c] = service]
        /\ joining' = [joining EXCEPT ![c] = pool]
        /\ pool' = {}
        /\ Goto(c, "join")
        /\ UNCHANGED <<service, posted, queue, again>>
  /\ UNCHANGED <<isStopped, threads, count, joined, overtaken>>

StopTask(c) ==
  /\ caller[c] = "stop"
  /\ \/ stopped /\ Stopped(c) /\ UNCHANGED <<task, joining, stops>>
     \/ /\ ~stopped
        /\ stopped' = TRUE
        /\ stops' = [stops EXCEPT ![c] = service]
        /\ queue' = << >>
        /\ joining' = [joining EXCEPT ![c] = pool]
        /\ pool' = {}
        /\ Goto(c, "join")
        /\ UNCHANGED <<service, posted, again>>
  /\ UNCHANGED <<isStopped, threads, count, joined, overtaken>>

Join(c) ==
  /\ caller[c] = "join"
  /\ \E w \in joining[c] :
       /\ worker[w] = "ended"
       /\ joining' = [joining EXCEPT ![c] = @ \ {w}]
  /\ UNCHANGED <<isStopped, task, threads, caller, again, count, ghosts>>

EndStop(c) ==
  /\ caller[c] = "join" /\ joining[c] = {}
  /\ Stopped(c)
  /\ joined' = joined \cup {stops[c]}
  /\ UNCHANGED <<isStopped, task, threads, joining, count, stops, overtaken>>

(* async_call...: the test of the interface, then CAsyncTask::Post *)

BeginCall(c) ==
  /\ caller[c] = "idle" /\ ~isStopped
  /\ count < Posts
  /\ Goto(c, "post")
  /\ UNCHANGED <<isStopped, task, threads, again, joining, count, ghosts>>

Post_NoExec(c) ==
  /\ caller[c] = "post"
  /\ \/ stopped /\ UNCHANGED <<queue, posted, count>>
     \/ /\ ~stopped /\ count < Posts
        /\ count' = count + 1
        /\ queue' = Append(queue, [number |-> count', made |-> service])
        /\ posted' = IF queue = << >> THEN posted + 1 ELSE posted
  /\ Goto(c, "idle")
  /\ UNCHANGED <<isStopped, stopped, service, pool, threads, again, joining, ghosts>>

Post(c) ==
  /\ caller[c] = "post"
  /\ \/ stopped /\ UNCHANGED <<queue, posted, count>>
     \/ /\ ~stopped /\ count < Posts
        /\ count' = count + 1
        /\ queue' = Append(queue, [number |-> count', made |-> service])
        /\ posted' = posted + 1
  /\ Goto(c, "idle")
  /\ UNCHANGED <<isStopped, stopped, service, pool, threads, again, joining, ghosts>>

-----------------------------------------------------------------------------
(* A thread in io_service::run: it takes what was posted while its           *)
(* io_service is not stopped.                                                *)
Running(w) == w[1] = service /\ ~stopped

TakeExec(w) ==
  /\ worker[w] = "run" /\ Running(w) /\ posted > 0
  /\ posted' = posted - 1
  /\ worker' = [worker EXCEPT ![w] = "exec"]
  /\ UNCHANGED <<isStopped, stopped, service, queue, pool, job, callers, count, ghosts>>

LeaveRun(w) ==
  /\ worker[w] = "run" /\ ~Running(w)
  /\ worker' = [worker EXCEPT ![w] = "ended"]
  /\ UNCHANGED <<isStopped, task, job, callers, count, ghosts>>

ExecHandler_NoPop(w) ==
  /\ worker[w] = "exec"
  /\ \/ /\ stopped \/ queue = << >>
        /\ worker' = [worker EXCEPT ![w] = "run"]
        /\ UNCHANGED <<queue, job>>
     \/ /\ ~stopped /\ queue # << >>
        /\ job' = [job EXCEPT ![w] = Head(queue)]
        /\ worker' = [worker EXCEPT ![w] = "handler"]
        /\ UNCHANGED queue
  /\ UNCHANGED <<isStopped, stopped, service, posted, pool, callers, count, ghosts>>

ExecHandler_Waits(w) ==
  /\ worker[w] = "exec"
  /\ ~stopped /\ queue # << >>
  /\ job' = [job EXCEPT ![w] = Head(queue)]
  /\ queue' = Tail(queue)
  /\ worker' = [worker EXCEPT ![w] = "handler"]
  /\ UNCHANGED <<isStopped, stopped, service, posted, pool, callers, count, ghosts>>

(* ExecHandler pops whatever is first in the queue now. *)
ExecHandler(w) ==
  /\ worker[w] = "exec"
  /\ \/ /\ stopped \/ queue = << >>
        /\ worker' = [worker EXCEPT ![w] = "run"]
        /\ UNCHANGED <<queue, job>>
     \/ /\ ~stopped /\ queue # << >>
        /\ job' = [job EXCEPT ![w] = Head(queue)]
        /\ queue' = Tail(queue)
        /\ worker' = [worker EXCEPT ![w] = "handler"]
  /\ UNCHANGED <<isStopped, stopped, service, posted, pool, callers, count, ghosts>>

(* The handler returns (it may have been interrupted). *)
EndHandler(w) ==
  /\ worker[w] = "handler"
  /\ worker' = [worker EXCEPT ![w] = "run"]
  /\ job' = [job EXCEPT ![w] = NoJob]
  /\ UNCHANGED <<isStopped, task, callers, count, ghosts>>

Begins(c) == BeginStart(c) \/ BeginStop(c) \/ BeginCall(c)
Goes(c) == StartTask(c) \/ EndStart(c) \/ StopTask(c) \/ Join(c) \/ EndStop(c) \/ Post(c)
Works(w) == TakeExec(w) \/ LeaveRun(w) \/ ExecHandler(w) \/ EndHandler(w)

Next == (\E c \in Caller : Begins(c) \/ Goes(c)) \/ (\E w \in Worker : Works(w))

Spec == Init /\ [][Next]_vars

FairSpec ==
  /\ Spec
  /\ \A c \in Caller : WF_vars(Goes(c))
  /\ \A w \in Worker : WF_vars(Works(w))

-----------------------------------------------------------------------------
Busy == {w \in Worker : worker[w] = "handler"}

(* No handler runs twice, and none that was taken is still in the queue.     *)
RunsOnce ==
  \A w \in Busy :
    /\ \A v \in Busy \ {w} : job[v] # job[w]
    /\ ~Contains(queue, job[w])

(* As long as the task runs, every handler in the queue has an ExecHandler   *)
(* that will come for it, although the two are counted apart, and a thread   *)
(* of a former io_service may come for it instead.                           *)
NoneStranded ==
  ~stopped => Len(queue) <= posted + Cardinality({w \in Worker : worker[w] = "exec"})

(* A Stop that returned has seen the end of every handler posted before it,  *)
(* and at most m_threadpool_size handlers run at a time - unless a Start of  *)
(* another thread went by a Stop that was still joining: then a thread of    *)
(* the old io_service takes handlers of the new one, and the second Stop     *)
(* knows nothing of it.                                                      *)
QuietAfterStop ==
  ~overtaken =>
    /\ \A w \in Busy : job[w].made \notin joined
    /\ Cardinality(Busy) <= PoolSize

(* A thread is in the pool, or a Stop is going to join it, until it ends.    *)
NoThreadForgotten ==
  \A w \in Worker : worker[w] \notin {"unborn", "ended"} =>
    w \in pool \/ \E c \in Caller : w \in joining[c]

(* Stop (and Reset) come back when the handlers do. *)
StopReturns == \A c \in Caller : (caller[c] \in {"stop", "join"}) ~> (caller[c] \notin {"stop", "join"})

(* Every handler gets out of the queue: into a thread, or by a Stop. *)
HandlersLeaveQueue == (queue # << >>) ~> (queue = << >>)
=============================================================================
