--------------------------- MODULE AsyncTaskProofs ---------------------------
(***************************************************************************)
(* For any number of callers, threads, starts and handlers: handlers run   *)
(* once, none is left without an ExecHandler, no thread is forgotten, and  *)
(* a Stop that no Start goes by is the end of all that was posted.         *)
(***************************************************************************)
EXTENDS AsyncTask, SequenceTheorems, FiniteSetTheorems, TLAPS

Alive(w) == worker[w] \in {"run", "exec", "handler"}
Handler == [number : 1 .. Posts, made : 1 .. Starts]
Execs == {w \in Worker : worker[w] = "exec"}

(* A handler is in one place only: its number tells it from the others. *)
Numbers ==
  /\ \A i \in 1 .. Len(queue) : queue[i].number <= count
  /\ \A i, j \in 1 .. Len(queue) : i # j => queue[i].number # queue[j].number
  /\ \A w \in Worker : worker[w] = "handler" =>
       /\ job[w].number <= count
       /\ \A i \in 1 .. Len(queue) : queue[i].number # job[w].number
       /\ \A v \in Worker : worker[v] = "handler" /\ v # w => job[v].number # job[w].number
  /\ posted <= count

(* A thread belongs to the task, or to the one Stop that joins it. *)
Owned ==
  /\ \A w \in Worker : Alive(w) => w \in pool \/ \E c \in Caller : w \in joining[c]
  /\ \A c \in Caller : \A w \in joining[c] : caller[c] = "join" /\ w[1] = stops[c]

(* Every io_service is stopped once, by one Stop, and never joined before. *)
Stopping ==
  /\ \A c \in Caller : caller[c] = "join" =>
       /\ stops[c] \in 1 .. service /\ stops[c] \notin joined
       /\ ~stopped => stops[c] < service
  /\ \A c, d \in Caller : caller[c] = "join" /\ caller[d] = "join" /\ c # d => stops[c] # stops[d]
  /\ \A s \in joined : s <= service /\ (~stopped => s < service)
  /\ ~stopped => service > 0

(* Without a Start that goes by a Stop, only threads of one io_service live, *)
(* and the handlers are its own.                                             *)
OneService ==
  /\ stopped => queue = << >>
  /\ ~overtaken =>
       /\ \A w \in Worker : Alive(w) => w[1] = service
       /\ \A i \in 1 .. Len(queue) : queue[i].made = service
       /\ \A w \in Worker : worker[w] = "handler" => job[w].made = service

IInv == TypeOK /\ Numbers /\ Owned /\ Stopping /\ OneService /\ NoneStranded

-----------------------------------------------------------------------------
LEMMA InductiveInit == Init => IInv
<1> SUFFICES ASSUME Init PROVE IInv
  OBVIOUS
<1> USE AsyncAssumption DEF AsyncAssumption, Init, NoJob
<1>1. TypeOK
  <2>1. queue \in Seq([number : 1 .. Posts, made : 1 .. Starts])
    BY EmptySeq
  <2>2. job \in [Worker -> [number : 0 .. Posts, made : 0 .. Starts]]
    OBVIOUS
  <2>3. pool = IF stopped THEN {} ELSE {service} \X (1 .. PoolSize)
    OBVIOUS
  <2>4. /\ worker \in [Worker -> {"unborn", "run", "exec", "handler", "ended"}]
        /\ caller \in [Caller -> {"idle", "start", "started", "stop", "join", "post"}]
        /\ again \in [Caller -> BOOLEAN] /\ joining \in [Caller -> SUBSET Worker]
        /\ stops \in [Caller -> 0 .. Starts]
    OBVIOUS
  <2>5. isStopped \in BOOLEAN /\ stopped \in BOOLEAN /\ overtaken \in BOOLEAN
    OBVIOUS
  <2>6. /\ service \in 0 .. Starts /\ posted \in 0 .. Posts /\ count \in 0 .. Posts
        /\ joined \subseteq 1 .. Starts
    OBVIOUS
  <2> QED
    BY <2>1, <2>2, <2>3, <2>4, <2>5, <2>6 DEF TypeOK
<1>2. Numbers /\ Owned /\ Stopping /\ OneService
  BY EmptySeq DEF Numbers, Owned, Stopping, OneService, Alive
<1>3. NoneStranded
  BY DEF NoneStranded
<1> QED
  BY <1>1, <1>2, <1>3 DEF IInv

(* What the counting of ExecHandlers needs of the threads. *)
LEMMA WorkersFinite == IsFiniteSet(Worker)
<1>1. IsFiniteSet(1 .. Starts) /\ IsFiniteSet(1 .. PoolSize)
  BY FS_Interval, AsyncAssumption DEF AsyncAssumption
<1> QED
  BY <1>1, FS_Product DEF Worker

LEMMA ExecsFinite == IsFiniteSet(Execs) /\ Cardinality(Execs) \in Nat
<1>1. Execs \in SUBSET Worker
  BY DEF Execs
<1> QED
  BY <1>1, WorkersFinite, FS_Subset, FS_CardinalityType

(* Callers that only move on, or set the flag of the interface. *)
LEMMA CallerMoves ==
  ASSUME IInv, NEW c \in Caller, BeginStart(c) \/ EndStart(c) \/ BeginStop(c) \/ BeginCall(c)
  PROVE  IInv'
<1> USE DEF IInv
<1>1. /\ UNCHANGED <<task, threads, joining, count, ghosts>>
      /\ isStopped' \in BOOLEAN /\ again' \in [Caller -> BOOLEAN]
      /\ caller[c] # "join"
      /\ \E place \in {"start", "idle", "stop", "post"} : caller' = [caller EXCEPT ![c] = place]
  BY DEF BeginStart, EndStart, BeginStop, BeginCall, Goto, TypeOK
<1>2. /\ caller' \in [Caller -> {"idle", "start", "started", "stop", "join", "post"}]
      /\ \A d \in Caller : caller'[d] = "join" <=> caller[d] = "join"
  BY <1>1 DEF TypeOK
<1>3. TypeOK'
  BY <1>1, <1>2 DEF TypeOK, task, threads, ghosts
<1>4. Numbers'
  BY <1>1 DEF Numbers, task, threads
<1>5. Owned' /\ Stopping'
  BY <1>1, <1>2 DEF Owned, Stopping, Alive, task, threads, ghosts
<1>6. OneService'
  BY <1>1 DEF OneService, Alive, task, threads, ghosts
<1>7. NoneStranded'
  BY <1>1 DEF NoneStranded, task, threads
<1> QED
  BY <1>3, <1>4, <1>5, <1>6, <1>7

LEMMA StartKeeps ==
  ASSUME IInv, NEW c \in Caller, StartTask(c)
  PROVE  IInv'
<1> USE AsyncAssumption DEF AsyncAssumption, IInv
<1>1. CASE ~stopped
  <2>1. UNCHANGED <<stopped, service, posted, queue, pool, worker, job, joining, count, stops, joined, overtaken, isStopped, again>>
    BY <1>1 DEF StartTask, task
  <2>2. /\ caller' \in [Caller -> {"idle", "start", "started", "stop", "join", "post"}]
        /\ \A d \in Caller : caller'[d] = "join" <=> caller[d] = "join"
    BY DEF StartTask, Goto, TypeOK
  <2>3. TypeOK' /\ Numbers' /\ Owned'
    BY <2>1, <2>2 DEF TypeOK, Numbers, Owned, Alive
  <2>4. Stopping' /\ OneService' /\ NoneStranded'
    BY <2>1, <2>2 DEF Stopping, OneService, NoneStranded, Alive
  <2> QED
    BY <2>3, <2>4
<1>2. CASE stopped
  <2>1. /\ service < Starts /\ service' = service + 1 /\ stopped' = FALSE
        /\ pool' = {service'} \X (1 .. PoolSize)
        /\ worker' = [w \in Worker |-> IF w \in pool' THEN "run" ELSE worker[w]]
        /\ posted' = 0 /\ queue = << >>
        /\ overtaken' = (overtaken \/ \E d \in Caller : caller[d] = "join")
        /\ UNCHANGED <<queue, isStopped, job, again, joining, count, stops, joined>>
    BY <1>2 DEF StartTask, OneService
  <2>2. /\ caller' \in [Caller -> {"idle", "start", "started", "stop", "join", "post"}]
        /\ \A d \in Caller : caller'[d] = "join" <=> caller[d] = "join"
    BY DEF StartTask, Goto, TypeOK
  <2>3. /\ \A w \in Worker : w \in pool' => worker'[w] = "run" /\ w[1] = service'
        /\ \A w \in Worker : worker'[w] = "handler" => worker[w] = "handler"
    BY <2>1 DEF Worker
  <2>4. TypeOK'
    <3>1. worker' \in [Worker -> {"unborn", "run", "exec", "handler", "ended"}]
      BY <2>1 DEF TypeOK
    <3>2. service' \in 0 .. Starts /\ posted' \in 0 .. Posts /\ overtaken' \in BOOLEAN
      BY <2>1 DEF TypeOK
    <3>3. pool' = IF stopped' THEN {} ELSE {service'} \X (1 .. PoolSize)
      BY <2>1
    <3> QED
      BY <2>1, <2>2, <3>1, <3>2, <3>3 DEF TypeOK
  <2>5. Numbers'
    <3>1. /\ posted' <= count' /\ Len(queue') = 0
      BY <2>1, EmptySeq DEF TypeOK
    <3> QED
      BY <2>1, <2>3, <3>1 DEF Numbers
  <2>6. Owned'
    <3>1. \A w \in Worker : Alive(w)' => w \in pool' \/ Alive(w)
      BY <2>1 DEF Alive
    <3>2. pool = {}
      BY <1>2 DEF TypeOK
    <3> QED
      BY <2>1, <2>2, <3>1, <3>2 DEF Owned
  <2>7. Stopping'
    <3>1. ASSUME NEW d \in Caller, caller'[d] = "join"
          PROVE  stops'[d] \in 1 .. service' /\ stops'[d] \notin joined' /\ stops'[d] < service'
      <4>1. stops[d] \in 1 .. service /\ stops[d] \notin joined /\ service \in Nat
        BY <3>1, <2>2 DEF Stopping, TypeOK
      <4> QED
        BY <4>1, <2>1
    <3>2. \A s \in joined' : s < service'
      <4>1. \A s \in joined : s \in Nat /\ s <= service /\ service \in Nat
        BY DEF Stopping, TypeOK
      <4> QED
        BY <4>1, <2>1
    <3>3. \A s \in joined' : s \in Nat /\ service' \in Nat /\ service' > 0
      BY <2>1 DEF TypeOK
    <3>4. \A d, e \in Caller : caller'[d] = "join" /\ caller'[e] = "join" /\ d # e => stops'[d] # stops'[e]
      BY <2>1, <2>2 DEF Stopping
    <3>5. \A s \in joined' : s <= service' /\ (~stopped' => s < service')
      BY <3>2, <3>3
    <3>6. ~stopped' => service' > 0
      BY <2>1 DEF TypeOK
    <3> QED
      BY <3>1, <3>4, <3>5, <3>6 DEF Stopping
  <2>8. OneService'
    <3>1. ASSUME ~overtaken', NEW w \in Worker, Alive(w)' PROVE w[1] = service' /\ worker'[w] # "handler"
      <4>1. \A d \in Caller : caller[d] # "join"
        BY <3>1, <2>1
      <4>2. pool = {}
        BY <1>2 DEF TypeOK
      <4>3. ~Alive(w)
        BY <4>1, <4>2 DEF Owned
      <4> QED
        BY <4>3, <3>1, <2>1, <2>3 DEF Alive
    <3>2. queue' = << >> /\ Len(queue') = 0
      BY <2>1, EmptySeq
    <3> QED
      BY <3>1, <3>2, <2>1 DEF OneService, Alive
  <2>9. NoneStranded'
    <3>1. Len(queue') = 0
      BY <2>1, EmptySeq
    <3>2. Cardinality(Execs)' \in Nat
      <4>1. Execs' = {w \in Worker : worker'[w] = "exec"}
        BY DEF Execs
      <4>2. Execs' \in SUBSET Worker
        BY <4>1
      <4> QED
        BY <4>2, WorkersFinite, FS_Subset, FS_CardinalityType
    <3> QED
      BY <3>1, <3>2, <2>1 DEF NoneStranded, Execs
  <2> QED
    BY <2>4, <2>5, <2>6, <2>7, <2>8, <2>9
<1> QED
  BY <1>1, <1>2 DEF TypeOK

LEMMA StopKeeps ==
  ASSUME IInv, NEW c \in Caller, StopTask(c)
  PROVE  IInv'
<1> USE AsyncAssumption DEF AsyncAssumption, IInv, StopTask
<1>1. CASE stopped
  <2>1. /\ UNCHANGED <<stopped, service, posted, queue, pool, worker, job, joining, count, stops, joined, overtaken, isStopped>>
        /\ again' \in [Caller -> BOOLEAN]
        /\ \E place \in {"start", "idle"} : caller' = [caller EXCEPT ![c] = place]
        /\ caller[c] = "stop"
    BY <1>1 DEF task, threads, Stopped, Goto, TypeOK
  <2>2. /\ caller' \in [Caller -> {"idle", "start", "started", "stop", "join", "post"}]
        /\ \A d \in Caller : caller'[d] = "join" <=> caller[d] = "join"
    BY <2>1 DEF TypeOK
  <2>3. TypeOK' /\ Numbers' /\ Owned'
    BY <2>1, <2>2 DEF TypeOK, Numbers, Owned, Alive
  <2>4. Stopping' /\ OneService' /\ NoneStranded'
    BY <2>1, <2>2 DEF Stopping, OneService, NoneStranded, Alive
  <2> QED
    BY <2>3, <2>4
<1>2. CASE ~stopped
  <2>1. /\ caller[c] = "stop"
        /\ stopped' = TRUE /\ queue' = << >> /\ pool' = {}
        /\ stops' = [stops EXCEPT ![c] = service]
        /\ joining' = [joining EXCEPT ![c] = pool]
        /\ caller' = [caller EXCEPT ![c] = "join"]
        /\ UNCHANGED <<isStopped, service, posted, again, worker, job, count, joined, overtaken>>
    BY <1>2 DEF threads, Goto
  <2>2. /\ queue' \in Seq(Handler) /\ Len(queue') = 0
        /\ \A w \in pool : w \in Worker /\ w[1] = service
        /\ service \in 1 .. Starts
    <3>1. service \in 1 .. Starts
      BY <1>2 DEF TypeOK, Stopping
    <3>2. pool = {service} \X (1 .. PoolSize)
      BY <1>2 DEF TypeOK
    <3> QED
      BY <2>1, <3>1, <3>2, EmptySeq DEF Worker
  <2>3. TypeOK'
    <3>1. /\ caller' \in [Caller -> {"idle", "start", "started", "stop", "join", "post"}]
          /\ stops' \in [Caller -> 0 .. Starts] /\ joining' \in [Caller -> SUBSET Worker]
      BY <2>1, <2>2 DEF TypeOK
    <3> QED
      BY <2>1, <2>2, <3>1 DEF TypeOK, Handler
  <2>4. Numbers'
    BY <2>1, <2>2 DEF Numbers
  <2>5. Owned'
    BY <2>1, <2>2 DEF Owned, Alive, TypeOK
  <2>6. Stopping'
    <3>1. /\ \A d \in Caller \ {c} : stops'[d] = stops[d] /\ (caller'[d] = "join" <=> caller[d] = "join")
          /\ stops'[c] = service
      BY <2>1 DEF TypeOK
    <3>2. service \notin joined /\ \A d \in Caller : caller[d] = "join" => stops[d] # service
      BY <1>2, <2>2 DEF Stopping, TypeOK
    <3> QED
      BY <2>1, <2>2, <3>1, <3>2 DEF Stopping
  <2>7. OneService' /\ NoneStranded'
    BY <2>1, <2>2 DEF OneService, NoneStranded, Alive
  <2> QED
    BY <2>3, <2>4, <2>5, <2>6, <2>7
<1> QED
  BY <1>1, <1>2 DEF TypeOK

LEMMA JoinKeeps ==
  ASSUME IInv, NEW c \in Caller, Join(c) \/ EndStop(c)
  PROVE  IInv'
<1> USE AsyncAssumption DEF AsyncAssumption, IInv
<1>1. CASE Join(c)
  <2>1. PICK w \in joining[c] : worker[w] = "ended" /\ joining' = [joining EXCEPT ![c] = @ \ {w}]
    BY <1>1 DEF Join
  <2>2. UNCHANGED <<isStopped, stopped, service, posted, queue, pool, worker, job, caller, again, count, stops, joined, overtaken>>
    BY <1>1 DEF Join, task, threads, ghosts
  <2>3. TypeOK' /\ Numbers'
    BY <2>1, <2>2 DEF TypeOK, Numbers
  <2>4. Owned'
    BY <2>1, <2>2 DEF Owned, Alive, TypeOK
  <2>5. Stopping' /\ OneService' /\ NoneStranded'
    BY <2>2 DEF Stopping, OneService, NoneStranded, Alive
  <2> QED
    BY <2>3, <2>4, <2>5
<1>2. CASE EndStop(c)
  <2>1. /\ caller[c] = "join" /\ joining[c] = {}
        /\ \E place \in {"start", "idle"} : caller' = [caller EXCEPT ![c] = place]
        /\ again' \in [Caller -> BOOLEAN]
        /\ joined' = joined \cup {stops[c]}
        /\ UNCHANGED <<isStopped, stopped, service, posted, queue, pool, worker, job, joining, count, stops, overtaken>>
    BY <1>2 DEF EndStop, Stopped, Goto, task, threads, TypeOK
  <2>2. /\ caller' \in [Caller -> {"idle", "start", "started", "stop", "join", "post"}]
        /\ caller'[c] # "join" /\ \A d \in Caller \ {c} : caller'[d] = caller[d]
    BY <2>1 DEF TypeOK
  <2>3. stops[c] \in 1 .. service /\ (~stopped => stops[c] < service) /\ stops[c] \in 1 .. Starts
    BY <2>1 DEF Stopping, TypeOK
  <2>4. TypeOK' /\ Numbers'
    BY <2>1, <2>2, <2>3 DEF TypeOK, Numbers
  <2>5. Owned'
    BY <2>1, <2>2 DEF Owned, Alive, TypeOK
  <2>6. Stopping'
    BY <2>1, <2>2, <2>3 DEF Stopping, TypeOK
  <2>7. OneService' /\ NoneStranded'
    BY <2>1 DEF OneService, NoneStranded, Alive
  <2> QED
    BY <2>4, <2>5, <2>6, <2>7
<1> QED
  BY <1>1, <1>2

LEMMA PostKeeps ==
  ASSUME IInv, NEW c \in Caller, Post(c)
  PROVE  IInv'
<1> USE AsyncAssumption DEF AsyncAssumption, IInv
<1>1. /\ UNCHANGED <<isStopped, stopped, service, pool, worker, job, again, joining, stops, joined, overtaken>>
      /\ caller[c] = "post" /\ caller' = [caller EXCEPT ![c] = "idle"]
  BY DEF Post, Goto, threads, ghosts
<1>2. /\ caller' \in [Caller -> {"idle", "start", "started", "stop", "join", "post"}]
      /\ \A d \in Caller : caller'[d] = "join" <=> caller[d] = "join"
  BY <1>1 DEF TypeOK
<1>3. Owned' /\ Stopping'
  BY <1>1, <1>2 DEF Owned, Stopping, Alive
<1>4. CASE stopped
  <2>1. UNCHANGED <<queue, posted, count>>
    BY <1>4 DEF Post
  <2>2. TypeOK' /\ Numbers'
    BY <1>1, <1>2, <2>1 DEF TypeOK, Numbers
  <2>3. OneService' /\ NoneStranded'
    BY <1>1, <2>1 DEF OneService, NoneStranded, Alive
  <2> QED
    BY <1>3, <2>2, <2>3
<1>5. CASE ~stopped
  <2> DEFINE new == [number |-> count + 1, made |-> service]
  <2>1. /\ count < Posts /\ count' = count + 1 /\ posted' = posted + 1
        /\ queue' = Append(queue, new)
    BY <1>5 DEF Post
  <2>2. /\ count \in Nat /\ posted \in Nat /\ posted <= count
        /\ new \in Handler /\ queue \in Seq(Handler)
    BY <1>5, <2>1 DEF TypeOK, Numbers, Stopping, Handler
  <2>3. /\ queue' \in Seq(Handler) /\ Len(queue') = Len(queue) + 1 /\ Len(queue) \in Nat
        /\ \A i \in 1 .. Len(queue) : queue'[i] = queue[i]
        /\ queue'[Len(queue) + 1] = new
    <3> HIDE DEF new
    <3> QED
      BY <2>1, <2>2, AppendProperties, LenProperties
  <2>4. TypeOK'
    <3>1. count' \in 0 .. Posts /\ posted' \in 0 .. Posts
      BY <2>1, <2>2
    <3> QED
      BY <1>1, <1>2, <2>3, <3>1 DEF TypeOK, Handler
  <2>5. Numbers'
    <3>0. \A i \in 1 .. Len(queue) : queue[i] \in Handler /\ queue[i].number \in Nat
      <4>1. \A i \in 1 .. Len(queue) : queue[i] \in Handler
        BY <2>2, ElementOfSeq
      <4> QED
        BY <4>1 DEF Handler
    <3>1. \A i \in 1 .. Len(queue) : queue[i].number \in Nat /\ queue[i].number < count'
      BY <2>1, <2>2, <3>0 DEF Numbers
    <3>2. \A i \in 1 .. Len(queue') : i \in 1 .. Len(queue) \/ i = Len(queue) + 1
      BY <2>3
    <3>3. queue'[Len(queue) + 1].number = count'
      BY <2>1, <2>3
    <3>4. \A i \in 1 .. Len(queue') : queue'[i].number <= count'
      <4>1. ASSUME NEW i \in 1 .. Len(queue') PROVE queue'[i].number <= count'
        <5>1. CASE i \in 1 .. Len(queue)
          <6>1. queue'[i] = queue[i] /\ count' \in Nat
            BY <2>1, <2>2, <2>3, <5>1
          <6> QED
            BY <3>1, <5>1, <6>1
        <5>2. CASE i = Len(queue) + 1
          BY <2>1, <2>2, <3>3, <5>2
        <5> QED
          BY <3>2, <5>1, <5>2
      <4> QED
        BY <4>1
    <3>5. \A i, j \in 1 .. Len(queue') : i # j => queue'[i].number # queue'[j].number
      BY <2>1, <2>2, <2>3, <3>1, <3>2, <3>3 DEF Numbers, Handler
    <3>6. \A w \in Worker : worker'[w] = "handler" =>
            /\ job'[w].number <= count'
            /\ \A i \in 1 .. Len(queue') : queue'[i].number # job'[w].number
      <4>1. \A w \in Worker : job[w].number \in Nat
        BY DEF TypeOK
      <4> QED
        BY <1>1, <2>1, <2>2, <2>3, <3>2, <3>3, <4>1 DEF Numbers
    <3>7. posted' <= count'
      BY <2>1, <2>2
    <3> QED
      BY <1>1, <3>4, <3>5, <3>6, <3>7 DEF Numbers
  <2>6. OneService'
    <3>1. \A i \in 1 .. Len(queue') : queue'[i].made = IF i <= Len(queue) THEN queue[i].made ELSE service
      BY <2>3
    <3> QED
      BY <1>1, <1>5, <2>3, <3>1 DEF OneService, Alive
  <2>7. NoneStranded'
    <3>1. Execs' = Execs
      BY <1>1 DEF Execs
    <3>2. Len(queue) <= posted + Cardinality(Execs)
      BY <1>5 DEF NoneStranded, Execs
    <3>3. Len(queue') <= posted' + Cardinality(Execs')
      BY <2>1, <2>2, <2>3, <3>1, <3>2, ExecsFinite
    <3> QED
      BY <3>3 DEF NoneStranded, Execs
  <2> QED
    BY <1>3, <2>4, <2>5, <2>6, <2>7
<1> QED
  BY <1>4, <1>5 DEF TypeOK

-----------------------------------------------------------------------------
(* A thread that only moves, to where it runs no handler. *)
LEMMA WorkerMoves ==
  ASSUME IInv, NEW w \in Worker, Alive(w),
         UNCHANGED <<isStopped, stopped, service, queue, pool, caller, again, joining, count, stops, joined, overtaken>>,
         NEW place \in {"run", "exec", "ended"}, worker' = [worker EXCEPT ![w] = place],
         job' \in [Worker -> [number : 0 .. Posts, made : 0 .. Starts]],
         \A v \in Worker \ {w} : job'[v] = job[v],
         posted' \in 0 .. Posts, posted' <= count
  PROVE  TypeOK' /\ Numbers' /\ Owned' /\ Stopping' /\ OneService'
<1> USE DEF IInv
<1>1. /\ worker' \in [Worker -> {"unborn", "run", "exec", "handler", "ended"}]
      /\ \A v \in Worker : worker'[v] = "handler" => worker[v] = "handler" /\ v # w
      /\ \A v \in Worker : Alive(v)' => Alive(v)
  BY DEF TypeOK, Alive
<1>2. TypeOK'
  BY <1>1 DEF TypeOK
<1>3. Numbers'
  BY <1>1 DEF Numbers
<1>4. Owned' /\ Stopping'
  BY <1>1 DEF Owned, Stopping
<1>5. OneService'
  BY <1>1 DEF OneService
<1> QED
  BY <1>2, <1>3, <1>4, <1>5

(* One thread more, or less, with an ExecHandler. *)
LEMMA ExecsMove ==
  ASSUME TypeOK, NEW w \in Worker, NEW place \in {"run", "exec", "handler", "ended"}, worker' = [worker EXCEPT ![w] = place]
  PROVE  /\ IsFiniteSet(Execs') /\ Cardinality(Execs') \in Nat
         /\ worker[w] # "exec" /\ place = "exec" => Cardinality(Execs') = Cardinality(Execs) + 1
         /\ worker[w] = "exec" /\ place # "exec" => Cardinality(Execs') = Cardinality(Execs) - 1
         /\ worker[w] # "exec" /\ place # "exec" => Cardinality(Execs') = Cardinality(Execs)
<1>1. Execs' = IF place = "exec" THEN Execs \cup {w} ELSE Execs \ {w}
  BY DEF Execs, TypeOK
<1>2. w \in Execs <=> worker[w] = "exec"
  BY DEF Execs
<1>3. CASE place = "exec"
  <2>1. Execs' = Execs \cup {w}
    BY <1>1, <1>3
  <2>2. /\ IsFiniteSet(Execs \cup {w})
        /\ Cardinality(Execs \cup {w}) = IF w \in Execs THEN Cardinality(Execs) ELSE Cardinality(Execs) + 1
    BY ExecsFinite, FS_AddElement
  <2> QED
    BY <1>2, <1>3, <2>1, <2>2, ExecsFinite
<1>4. CASE place # "exec"
  <2>1. Execs' = Execs \ {w}
    BY <1>1, <1>4
  <2>2. /\ IsFiniteSet(Execs \ {w})
        /\ Cardinality(Execs \ {w}) = IF w \in Execs THEN Cardinality(Execs) - 1 ELSE Cardinality(Execs)
    BY ExecsFinite, FS_RemoveElement
  <2>3. Cardinality(Execs') \in Nat
    BY <2>1, <2>2, FS_CardinalityType
  <2> QED
    BY <1>2, <1>4, <2>1, <2>2, <2>3, ExecsFinite
<1> QED
  BY <1>3, <1>4

LEMMA WorkerKeeps ==
  ASSUME IInv, NEW w \in Worker, TakeExec(w) \/ LeaveRun(w) \/ EndHandler(w)
  PROVE  IInv'
<1> USE AsyncAssumption DEF AsyncAssumption, IInv
<1>1. CASE TakeExec(w)
  <2>1. /\ UNCHANGED <<isStopped, stopped, service, queue, pool, caller, again, joining, count, stops, joined, overtaken, job>>
        /\ worker[w] = "run" /\ worker' = [worker EXCEPT ![w] = "exec"]
        /\ posted > 0 /\ posted' = posted - 1
    BY <1>1 DEF TakeExec, callers, ghosts
  <2>2. posted' \in 0 .. Posts /\ posted' <= count
    BY <2>1 DEF TypeOK, Numbers
  <2>3. TypeOK' /\ Numbers' /\ Owned' /\ Stopping' /\ OneService'
    BY <2>1, <2>2, WorkerMoves DEF Alive, TypeOK
  <2>4. NoneStranded'
    <3>1. Cardinality(Execs') = Cardinality(Execs) + 1
      BY <2>1, ExecsMove
    <3>2. posted' + Cardinality(Execs') = posted + Cardinality(Execs)
      BY <2>1, <3>1, ExecsFinite DEF TypeOK
    <3> QED
      BY <2>1, <3>2 DEF NoneStranded, Execs
  <2> QED
    BY <2>3, <2>4
<1>2. CASE LeaveRun(w)
  <2>1. /\ UNCHANGED <<isStopped, stopped, service, queue, posted, pool, caller, again, joining, count, stops, joined, overtaken, job>>
        /\ worker[w] = "run" /\ worker' = [worker EXCEPT ![w] = "ended"]
    BY <1>2 DEF LeaveRun, task, callers, ghosts
  <2>2. TypeOK' /\ Numbers' /\ Owned' /\ Stopping' /\ OneService'
    BY <2>1, WorkerMoves DEF Alive, TypeOK, Numbers
  <2>3. Cardinality(Execs') = Cardinality(Execs)
    BY <2>1, ExecsMove
  <2> QED
    BY <2>1, <2>2, <2>3 DEF NoneStranded, Execs
<1>3. CASE EndHandler(w)
  <2>1. /\ UNCHANGED <<isStopped, stopped, service, queue, posted, pool, caller, again, joining, count, stops, joined, overtaken>>
        /\ worker[w] = "handler" /\ worker' = [worker EXCEPT ![w] = "run"]
        /\ job' = [job EXCEPT ![w] = NoJob]
    BY <1>3 DEF EndHandler, task, callers, ghosts
  <2>2. job' \in [Worker -> [number : 0 .. Posts, made : 0 .. Starts]] /\ \A v \in Worker \ {w} : job'[v] = job[v]
    BY <2>1 DEF TypeOK, NoJob
  <2>3. TypeOK' /\ Numbers' /\ Owned' /\ Stopping' /\ OneService'
    BY <2>1, <2>2, WorkerMoves DEF Alive, TypeOK, Numbers
  <2>4. Cardinality(Execs') = Cardinality(Execs)
    BY <2>1, ExecsMove
  <2> QED
    BY <2>1, <2>3, <2>4 DEF NoneStranded, Execs
<1> QED
  BY <1>1, <1>2, <1>3

LEMMA ExecHandlerKeeps ==
  ASSUME IInv, NEW w \in Worker, ExecHandler(w)
  PROVE  IInv'
<1> USE AsyncAssumption DEF AsyncAssumption, IInv
<1>1. /\ UNCHANGED <<isStopped, stopped, service, posted, pool, caller, again, joining, count, stops, joined, overtaken>>
      /\ worker[w] = "exec"
  BY DEF ExecHandler, callers, ghosts
<1>2. CASE stopped \/ queue = << >>
  <2>1. worker' = [worker EXCEPT ![w] = "run"] /\ UNCHANGED <<queue, job>>
    BY <1>2 DEF ExecHandler
  <2>2. TypeOK' /\ Numbers' /\ Owned' /\ Stopping' /\ OneService'
    BY <1>1, <2>1, WorkerMoves DEF Alive, TypeOK, Numbers
  <2>3. NoneStranded'
    <3>1. Cardinality(Execs') \in Nat
      BY <2>1, ExecsMove
    <3>2. ~stopped => Len(queue) = 0
      BY <1>2, EmptySeq
    <3>3. posted \in Nat
      BY DEF TypeOK
    <3> QED
      BY <1>1, <2>1, <3>1, <3>2, <3>3 DEF NoneStranded, Execs
  <2> QED
    BY <2>2, <2>3
<1>3. CASE ~stopped /\ queue # << >>
  <2>1. /\ job' = [job EXCEPT ![w] = Head(queue)]
        /\ queue' = Tail(queue)
        /\ worker' = [worker EXCEPT ![w] = "handler"]
    BY <1>3 DEF ExecHandler
  <2>2. /\ queue \in Seq(Handler) /\ Len(queue) \in Nat /\ Len(queue) > 0
        /\ queue' \in Seq(Handler) /\ Len(queue') = Len(queue) - 1
        /\ \A i \in 1 .. Len(queue') : queue'[i] = queue[i + 1] /\ i + 1 \in 1 .. Len(queue) /\ i + 1 # 1
        /\ Head(queue) \in Handler /\ Head(queue) = queue[1] /\ 1 \in 1 .. Len(queue)
    <3>1. queue \in Seq(Handler)
      BY DEF TypeOK, Handler
    <3>2. Len(queue) \in Nat /\ Len(queue) > 0
      BY <1>3, <3>1, EmptySeq
    <3> QED
      BY <1>3, <2>1, <3>1, <3>2, HeadTailProperties
  <2>3. /\ worker' \in [Worker -> {"unborn", "run", "exec", "handler", "ended"}]
        /\ job' \in [Worker -> [number : 0 .. Posts, made : 0 .. Starts]]
        /\ \A v \in Worker \ {w} : worker'[v] = worker[v] /\ job'[v] = job[v]
        /\ worker'[w] = "handler" /\ job'[w] = queue[1]
        /\ \A v \in Worker : Alive(v)' <=> Alive(v)
    <3>1. Head(queue) \in [number : 0 .. Posts, made : 0 .. Starts]
      BY <2>2 DEF Handler
    <3>2. job' \in [Worker -> [number : 0 .. Posts, made : 0 .. Starts]]
      BY <2>1, <3>1 DEF TypeOK
    <3>3. /\ worker' \in [Worker -> {"unborn", "run", "exec", "handler", "ended"}]
          /\ \A v \in Worker \ {w} : worker'[v] = worker[v] /\ job'[v] = job[v]
          /\ worker'[w] = "handler" /\ job'[w] = queue[1]
      BY <2>1, <2>2 DEF TypeOK
    <3> QED
      BY <1>1, <3>2, <3>3 DEF Alive
  <2>4. TypeOK'
    BY <1>1, <2>2, <2>3 DEF TypeOK, Handler
  <2>5. Numbers'
    <3>1. \A v \in Worker : worker'[v] = "handler" =>
            /\ job'[v].number <= count
            /\ \A i \in 1 .. Len(queue') : queue'[i].number # job'[v].number
      <4>1. /\ queue[1].number <= count
            /\ \A i \in 1 .. Len(queue') : queue'[i].number # queue[1].number
        <5>1. queue[1].number <= count
          BY <2>2 DEF Numbers
        <5>2. \A j \in 1 .. Len(queue) : j # 1 => queue[j].number # queue[1].number
          BY <2>2 DEF Numbers
        <5>3. ASSUME NEW i \in 1 .. Len(queue') PROVE queue'[i].number # queue[1].number
          <6>1. queue'[i] = queue[i + 1] /\ i + 1 \in 1 .. Len(queue) /\ i + 1 # 1
            BY <2>2
          <6>2. queue[i + 1].number # queue[1].number
            BY <5>2, <6>1
          <6> QED
            BY <6>1, <6>2
        <5> QED
          BY <5>1, <5>3
      <4>2. \A v \in Worker \ {w} : worker'[v] = "handler" =>
              /\ job'[v].number <= count
              /\ \A i \in 1 .. Len(queue') : queue'[i].number # job'[v].number
        <5>1. SUFFICES ASSUME NEW v \in Worker \ {w}, worker'[v] = "handler", NEW i \in 1 .. Len(queue')
              PROVE job'[v].number <= count /\ queue'[i].number # job'[v].number
          BY <2>3 DEF Numbers
        <5>2. queue'[i] = queue[i + 1] /\ i + 1 \in 1 .. Len(queue)
          BY <2>2
        <5>3. worker[v] = "handler" /\ job'[v] = job[v]
          BY <2>3, <5>1
        <5> QED
          BY <5>2, <5>3 DEF Numbers
      <4> QED
        BY <2>3, <4>1, <4>2
    <3>2. \A u, v \in Worker : worker'[u] = "handler" /\ worker'[v] = "handler" /\ u # v => job'[u].number # job'[v].number
      <4>1. \A u, v \in Worker \ {w} : worker'[u] = "handler" /\ worker'[v] = "handler" /\ u # v => job'[u].number # job'[v].number
        BY <2>3 DEF Numbers
      <4>2. \A u \in Worker \ {w} : worker'[u] = "handler" => job'[u].number # job'[w].number
        BY <2>2, <2>3 DEF Numbers
      <4> QED
        BY <4>1, <4>2
    <3>3. \A i, j \in 1 .. Len(queue') : i # j => queue'[i].number # queue'[j].number
      <4>1. \A i, j \in 1 .. Len(queue') : i # j => i + 1 # j + 1
        BY <2>2
      <4> QED
        BY <2>2, <4>1 DEF Numbers
    <3>4. \A i \in 1 .. Len(queue') : queue'[i].number <= count
      BY <2>2 DEF Numbers
    <3> QED
      BY <1>1, <3>1, <3>2, <3>3, <3>4 DEF Numbers
  <2>6. Owned' /\ Stopping'
    BY <1>1, <2>3 DEF Owned, Stopping
  <2>7. OneService'
    <3>1. ~overtaken => queue[1].made = service /\ \A i \in 1 .. Len(queue') : queue'[i].made = service
      BY <2>2 DEF OneService
    <3>2. ~overtaken => \A v \in Worker : worker'[v] = "handler" => job'[v].made = service
      BY <2>3, <3>1 DEF OneService
    <3>3. ~overtaken => \A v \in Worker : Alive(v)' => v[1] = service
      BY <2>3 DEF OneService
    <3> QED
      BY <1>1, <1>3, <3>1, <3>2, <3>3 DEF OneService
  <2>8. NoneStranded'
    <3>1. Cardinality(Execs') = Cardinality(Execs) - 1
      BY <1>1, <2>1, ExecsMove
    <3>2. Len(queue) <= posted + Cardinality(Execs)
      BY <1>3 DEF NoneStranded, Execs
    <3>3. Len(queue') <= posted' + Cardinality(Execs')
      BY <1>1, <2>2, <3>1, <3>2, ExecsFinite DEF TypeOK
    <3> QED
      BY <3>3 DEF NoneStranded, Execs
  <2> QED
    BY <2>4, <2>5, <2>6, <2>7, <2>8
<1> QED
  BY <1>2, <1>3

LEMMA InductiveStep == IInv /\ [Next]_vars => IInv'
<1> SUFFICES ASSUME IInv, [Next]_vars PROVE IInv'
  OBVIOUS
<1>1. ASSUME NEW c \in Caller, Begins(c) PROVE IInv'
  BY <1>1, CallerMoves DEF Begins
<1>2. ASSUME NEW c \in Caller, Goes(c) PROVE IInv'
  BY <1>2, CallerMoves, StartKeeps, StopKeeps, JoinKeeps, PostKeeps DEF Goes
<1>3. ASSUME NEW w \in Worker, Works(w) PROVE IInv'
  BY <1>3, WorkerKeeps, ExecHandlerKeeps DEF Works
<1>4. CASE UNCHANGED vars
  <2>1. UNCHANGED <<isStopped, stopped, service, posted, queue, pool, worker, job, caller, again, joining, count, stops, joined, overtaken>>
    BY <1>4 DEF vars, task, threads, callers, ghosts
  <2>2. TypeOK' /\ Numbers' /\ Owned'
    BY <2>1 DEF IInv, TypeOK, Numbers, Owned, Alive
  <2>3. Stopping' /\ OneService' /\ NoneStranded'
    BY <2>1 DEF IInv, Stopping, OneService, NoneStranded, Alive
  <2> QED
    BY <2>2, <2>3 DEF IInv
<1> QED
  BY <1>1, <1>2, <1>3, <1>4 DEF Next

(* The inductive invariant of CAsyncTask and the interface above it. *)
THEOREM Invariance == Spec => []IInv
<1> QED
  BY InductiveInit, InductiveStep, PTL DEF Spec

(* AsyncTask.cpp:75-96: no handler runs in two threads, and none that runs is *)
(* still queued, whichever services the threads belong to.                    *)
THEOREM HandlersRunOnce == Spec => []RunsOnce
<1>1. IInv => RunsOnce
  <2> SUFFICES ASSUME IInv, NEW w \in Busy
               PROVE  (\A v \in Busy \ {w} : job[v] # job[w]) /\ ~Contains(queue, job[w])
    BY DEF RunsOnce
  <2>1. \A v \in Busy \ {w} : job[v].number # job[w].number
    BY DEF IInv, Numbers, Busy
  <2>2. \A i \in 1 .. Len(queue) : queue[i].number # job[w].number
    BY DEF IInv, Numbers, Busy
  <2> QED
    BY <2>1, <2>2 DEF Contains
<1> QED
  BY <1>1, Invariance, PTL

(* AsyncTask.cpp:37-73:                                                       *)
(* what a Stop that returned has stopped never runs again, and a pool's worth *)
(* of handlers runs at most, unless a Start went by a joining Stop.           *)
THEOREM StopIsFinal == Spec => []QuietAfterStop
<1>1. IInv => QuietAfterStop
  <2> SUFFICES ASSUME IInv, ~overtaken
               PROVE  (\A w \in Busy : job[w].made \notin joined) /\ Cardinality(Busy) <= PoolSize
    BY DEF QuietAfterStop
  <2>1. ASSUME NEW w \in Busy PROVE w[1] = service /\ job[w].made = service /\ service \notin joined
    <3>1. w[1] = service /\ job[w].made = service /\ Alive(w)
      BY DEF IInv, OneService, Busy, Alive
    <3>2. CASE w \in pool
      <4>1. ~stopped
        BY <3>2 DEF IInv, TypeOK
      <4> QED
        BY <3>1, <4>1 DEF IInv, Stopping, TypeOK
    <3>3. CASE \E c \in Caller : w \in joining[c]
      BY <3>1, <3>3 DEF IInv, Owned, Stopping
    <3> QED
      BY <3>1, <3>2, <3>3 DEF IInv, Owned, Busy
  <2>2. Busy \in SUBSET ({service} \X (1 .. PoolSize))
    BY <2>1 DEF Busy, Worker
  <2>3. /\ IsFiniteSet({service}) /\ Cardinality({service}) = 1
        /\ IsFiniteSet(1 .. PoolSize) /\ Cardinality(1 .. PoolSize) = PoolSize
    <3>1. PoolSize \in Int /\ ~(1 > PoolSize) /\ PoolSize - 1 + 1 = PoolSize
      BY AsyncAssumption DEF AsyncAssumption
    <3>2. IsFiniteSet(1 .. PoolSize) /\ Cardinality(1 .. PoolSize) = PoolSize
      BY <3>1, FS_Interval
    <3>3. IsFiniteSet({service}) /\ Cardinality({service}) = 1
      BY FS_Singleton, Zenon
    <3> QED
      BY <3>2, <3>3
  <2>4. /\ IsFiniteSet({service} \X (1 .. PoolSize))
        /\ Cardinality({service} \X (1 .. PoolSize)) = PoolSize
    <3>1. 1 * PoolSize = PoolSize
      BY AsyncAssumption DEF AsyncAssumption
    <3> DEFINE mine == {service}
               threadsOf == 1 .. PoolSize
    <3>2. IsFiniteSet(mine) /\ IsFiniteSet(threadsOf) /\ Cardinality(mine) = 1 /\ Cardinality(threadsOf) = PoolSize
      BY <2>3
    <3> HIDE DEF mine, threadsOf
    <3>3. IsFiniteSet(mine \X threadsOf) /\ Cardinality(mine \X threadsOf) = 1 * PoolSize
      BY <3>2, FS_Product
    <3> QED
      BY <3>1, <3>3 DEF mine, threadsOf
  <2>5. Cardinality(Busy) <= PoolSize
    BY <2>2, <2>4, FS_Subset
  <2> QED
    BY <2>1, <2>5
<1> QED
  BY <1>1, Invariance, PTL

(* AsyncTask.h:51-67: every queued handler has an ExecHandler, in the         *)
(* io_service or in a thread.                                                 *)
THEOREM NoHandlerStranded == Spec => []NoneStranded
<1>1. IInv => NoneStranded
  BY DEF IInv
<1> QED
  BY <1>1, Invariance, PTL

(* AsyncTask.cpp:63-71: every thread is in the pool or is going to be joined. *)
THEOREM ThreadsKept == Spec => []NoThreadForgotten
<1>1. IInv => NoThreadForgotten
  <2>1. TypeOK => \A w \in Worker : worker[w] \notin {"unborn", "ended"} => Alive(w)
    BY DEF TypeOK, Alive
  <2> QED
    BY <2>1 DEF IInv, Owned, NoThreadForgotten
<1> QED
  BY <1>1, Invariance, PTL

(* AsyncTask.cpp:37-73, 75-96: a thread that a Stop joins takes no further   *)
(* ExecHandler, also when a Start went by and the task runs again: the Stop  *)
(* waits for the handler that runs, and for no other.                        *)
THEOREM JoinedTakeNoMore ==
  Spec => [][\A c \in Caller : \A w \in joining[c] : ~TakeExec(w)]_vars
<1>1. ASSUME IInv, NEW c \in Caller, NEW w \in joining[c]
      PROVE  ~Running(w)
  <2>1. caller[c] = "join" /\ w[1] = stops[c]
    BY <1>1 DEF IInv, Owned
  <2>2. stops[c] \in Nat /\ service \in Nat /\ (~stopped => stops[c] < service)
    BY <2>1, <1>1, AsyncAssumption DEF IInv, TypeOK, Stopping, AsyncAssumption
  <2> QED
    BY <2>1, <2>2 DEF Running
<1>2. IInv => \A c \in Caller : \A w \in joining[c] : ~TakeExec(w)
  BY <1>1 DEF TakeExec
<1> QED
  BY <1>2, Invariance, PTL DEF Spec
=============================================================================
