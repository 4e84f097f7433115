------------------------------ MODULE Reference ------------------------------
(***************************************************************************)
(* yeti/Source/Core/YetiReferences.h: Reference<T>, a counted pointer.     *)
(* All references to an object share a counter and, unless they were made  *)
(* without one, a mutex; the last to let go deletes all three.             *)
(*                                                                         *)
(* Threads work on references, a step at a time: take the mutex; change    *)
(* the counter and give the mutex back; delete the mutex.  The clients     *)
(* keep to what the class needs: no two threads use one reference at a     *)
(* time (reading it as the source of a copy excepted), and an object       *)
(* without a mutex is in the hands of one thread at a time.                *)
(***************************************************************************)
EXTENDS Naturals, FiniteSets

CONSTANTS
  Thread,   \* the threads that use references
  Handle,   \* the reference variables
  Object,   \* the objects; an object also names its counter and its mutex
  Ops       \* what the clients do: see Op

NULL == "NULL"
Op == {"copy", "assign", "assignObject", "destroy", "detach"}

ASSUME ReferenceAssumption ==
  /\ Ops \subseteq Op
  /\ NULL \notin Object \cup Handle
  /\ IsFiniteSet(Handle)

Pointers == [object : Object \cup {NULL}, mutex : Object \cup {NULL}]
Empty == [object |-> NULL, mutex |-> NULL]
Job == [op : Op, h : Handle, g : Handle, fresh : Object \cup {NULL}]
NoJob == [op |-> NULL]

VARIABLES
  made,      \* the references that are constructed
  ref,       \* ref[h]: m_object_ (with m_counter_) and m_mutex_ of h
  count,     \* count[o]: the counter of o
  object,    \* object[o]: "new", "alive", "deleted", or "detached": the client's alone
  mutex,     \* mutex[o]: "new", "alive" or "deleted"
  holder,    \* the thread that holds the mutex of o, or NULL
  pc,        \* "idle", "lock", "drop", "free", "next", "lockCopy", "count"
  job,       \* the operation each thread is in
  doomed     \* doomed[t]: the mutex that _release of t will delete, or NULL

vars == <<made, ref, count, object, mutex, holder, pc, job, doomed>>

TypeOK ==
  /\ made \subseteq Handle
  /\ ref \in [Handle -> Pointers]
  /\ count \in [Object -> 0 .. Cardinality(Handle)]
  /\ object \in [Object -> {"new", "alive", "deleted", "detached"}]
  /\ mutex \in [Object -> {"new", "alive", "deleted"}]
  /\ holder \in [Object -> Thread \cup {NULL}]
  /\ pc \in [Thread -> {"idle", "lock", "drop", "free", "next", "lockCopy", "count"}]
  /\ job \in [Thread -> Job \cup {NoJob}]
  /\ doomed \in [Thread -> Object \cup {NULL}]

Init ==
  /\ made = {}
  /\ ref = [h \in Handle |-> Empty]
  /\ count = [o \in Object |-> 0]
  /\ object = [o \in Object |-> "new"]
  /\ mutex = [o \in Object |-> "new"]
  /\ holder = [o \in Object |-> NULL]
  /\ pc = [t \in Thread |-> "idle"]
  /\ job = [t \in Thread |-> NoJob]
  /\ doomed = [t \in Thread |-> NULL]

Goto(t, l) == pc' = [pc EXCEPT ![t] = l]
H(t) == job[t].h

-----------------------------------------------------------------------------
(* The clients' discipline *)

Working == {t \in Thread : pc[t] # "idle"}
Written == {job[t].h : t \in Working}
Used == Written \cup {job[t].g : t \in Working}

(* The objects that have not been put under a reference. *)
Available == {o \in Object : object[o] = "new"} \ {job[t].fresh : t \in Working}

(* The objects an operation on h and g touches, and those it touches without a mutex. *)
Touched(h, g) == {ref[h].object, ref[g].object} \ {NULL}
Bare(h, g) == {o \in Touched(h, g) : mutex[o] = "new"}

MayBegin(h, g) ==
  /\ h \notin Used /\ g \notin Written
  /\ \A t \in Working : Bare(h, g) \cap Touched(job[t].h, job[t].g) = {}

-----------------------------------------------------------------------------
(* The constructor from a pointer. *)
New(h, o, threadSafe) ==
  /\ h \notin made \cup Used
  /\ o \in Available
  /\ made' = made \cup {h}
  /\ ref' = [ref EXCEPT ![h] = [object |-> o, mutex |-> IF threadSafe THEN o ELSE NULL]]
  /\ count' = [count EXCEPT ![o] = 1]
  /\ object' = [object EXCEPT ![o] = "alive"]
  /\ mutex' = IF threadSafe THEN [mutex EXCEPT ![o] = "alive"] ELSE mutex
  /\ UNCHANGED <<holder, pc, job, doomed>>

(* The copy constructor and the conversion take the pointers of g first. *)
BeginCopy(t, h, g) ==
  /\ "copy" \in Ops
  /\ pc[t] = "idle" /\ h \notin made /\ g \in made /\ MayBegin(h, g)
  /\ made' = made \cup {h}
  /\ ref' = [ref EXCEPT ![h] = ref[g]]
  /\ job' = [job EXCEPT ![t] = [op |-> "copy", h |-> h, g |-> g, fresh |-> NULL]]
  /\ Goto(t, "lockCopy")
  /\ UNCHANGED <<count, object, mutex, holder, doomed>>

(* Destructor, detach and both assignments begin with _release.  Assigning a *)
(* reference to itself does nothing.                                         *)
BeginRelease(t, op, h, g, fresh) ==
  /\ op \in Ops \ {"copy"}
  /\ pc[t] = "idle" /\ {h, g} \subseteq made /\ MayBegin(h, g)
  /\ op = "assign" <=> h # g
  /\ op = "assignObject" <=> fresh # NULL
  /\ fresh # NULL => fresh \in Available
  /\ job' = [job EXCEPT ![t] = [op |-> op, h |-> h, g |-> g, fresh |-> fresh]]
  /\ Goto(t, "lock")
  /\ UNCHANGED <<made, ref, count, object, mutex, holder, doomed>>

(* lock() of the mutex h points to, if any. *)
Lock(t) ==
  /\ pc[t] \in {"lock", "lockCopy"}
  /\ LET m == ref[H(t)].mutex
     IN \/ m = NULL /\ UNCHANGED holder
        \/ /\ m # NULL /\ mutex[m] = "alive" /\ holder[m] = NULL
           /\ holder' = [holder EXCEPT ![m] = t]
  /\ Goto(t, IF pc[t] = "lock" THEN "drop" ELSE "count")
  /\ UNCHANGED <<made, ref, count, object, mutex, job, doomed>>

Unlock(t) == holder' = [o \in Object |-> IF holder[o] = t THEN NULL ELSE holder[o]]

Drop_NeverLast(t) ==
  /\ pc[t] = "drop"
  /\ LET o == ref[H(t)].object
     IN /\ count' = IF o = NULL THEN count ELSE [count EXCEPT ![o] = @ - 1]
        /\ ref' = [ref EXCEPT ![H(t)].object = NULL]
  /\ Unlock(t)
  /\ Goto(t, "next")
  /\ UNCHANGED <<made, object, mutex, job, doomed>>

Drop_KeepMutex(t) ==
  /\ pc[t] = "drop"
  /\ LET h == H(t)
         o == ref[h].object
         last == o # NULL /\ count[o] = 1
     IN /\ count' = IF o = NULL THEN count ELSE [count EXCEPT ![o] = @ - 1]
        /\ object' = IF last THEN [object EXCEPT ![o] = "deleted"] ELSE object
        /\ ref' = [ref EXCEPT ![h].object = NULL]
  /\ Unlock(t)
  /\ Goto(t, "next")
  /\ UNCHANGED <<made, mutex, job, doomed>>

(* _release under the mutex: the last reference deletes the counter and,     *)
(* unless it only detaches, the object.  Only the last forgets the mutex.    *)
Drop(t) ==
  /\ pc[t] = "drop"
  /\ LET h == H(t)
         o == ref[h].object
         last == o # NULL /\ count[o] = 1
     IN /\ count' = IF o = NULL THEN count ELSE [count EXCEPT ![o] = @ - 1]
        /\ object' = IF ~last THEN object
                     ELSE [object EXCEPT ![o] = IF job[t].op = "detach" THEN "detached" ELSE "deleted"]
        /\ ref' = [ref EXCEPT ![h] = [object |-> NULL, mutex |-> IF last THEN NULL ELSE @.mutex]]
        /\ doomed' = [doomed EXCEPT ![t] = IF last THEN ref[h].mutex ELSE NULL]
  /\ Unlock(t)
  /\ Goto(t, IF doomed'[t] # NULL THEN "free" ELSE "next")
  /\ UNCHANGED <<made, mutex, job>>

(* The last reference deletes the mutex it has just given back. *)
Free(t) ==
  /\ pc[t] = "free"
  /\ mutex' = [mutex EXCEPT ![doomed[t]] = "deleted"]
  /\ doomed' = [doomed EXCEPT ![t] = NULL]
  /\ Goto(t, "next")
  /\ UNCHANGED <<made, ref, count, object, holder, job>>

Finish(t) ==
  /\ job' = [job EXCEPT ![t] = NoJob]
  /\ Goto(t, "idle")

(* What follows _release: nothing; the pointers of g; a counter of its own,  *)
(* without a mutex.                                                          *)
Next_DestroyOrDetach(t) ==
  /\ pc[t] = "next" /\ job[t].op \in {"destroy", "detach"}
  /\ IF job[t].op = "destroy"
     THEN /\ made' = made \ {H(t)}
          /\ ref' = [ref EXCEPT ![H(t)] = Empty]
     ELSE UNCHANGED <<made, ref>>
  /\ Finish(t)
  /\ UNCHANGED <<count, object, mutex, holder, doomed>>

Next_Assign(t) ==
  /\ pc[t] = "next" /\ job[t].op = "assign"
  /\ ref' = [ref EXCEPT ![H(t)] = ref[job[t].g]]
  /\ Goto(t, "lockCopy")
  /\ UNCHANGED <<made, count, object, mutex, holder, job, doomed>>

Next_AssignObject(t) ==
  /\ pc[t] = "next" /\ job[t].op = "assignObject"
  /\ LET o == job[t].fresh
     IN /\ ref' = [ref EXCEPT ![H(t)] = [object |-> o, mutex |-> NULL]]
        /\ count' = [count EXCEPT ![o] = 1]
        /\ object' = [object EXCEPT ![o] = "alive"]
  /\ Finish(t)
  /\ UNCHANGED <<made, mutex, holder, doomed>>

Count_NoIncrement(t) ==
  /\ pc[t] = "count"
  /\ Unlock(t)
  /\ Finish(t)
  /\ UNCHANGED <<made, ref, count, object, mutex, doomed>>

(* The copy counts itself, under the mutex. *)
Count(t) ==
  /\ pc[t] = "count"
  /\ LET o == ref[H(t)].object
     IN count' = IF o = NULL THEN count ELSE [count EXCEPT ![o] = @ + 1]
  /\ Unlock(t)
  /\ Finish(t)
  /\ UNCHANGED <<made, ref, object, mutex, doomed>>

Next ==
  \/ \E h \in Handle, o \in Object, threadSafe \in BOOLEAN : New(h, o, threadSafe)
  \/ \E t \in Thread :
       \/ \E h, g \in Handle : BeginCopy(t, h, g)
       \/ \E op \in Ops, h, g \in Handle, fresh \in Object \cup {NULL} :
            BeginRelease(t, op, h, g, fresh)
       \/ Lock(t) \/ Drop(t) \/ Free(t) \/ Count(t)
       \/ Next_DestroyOrDetach(t) \/ Next_Assign(t) \/ Next_AssignObject(t)

Spec == Init /\ [][Next]_vars

-----------------------------------------------------------------------------
(* h is a copy in the making: it has the pointers but has not been counted. *)
Uncounted == {job[t].h : t \in {u \in Thread : pc[u] \in {"lockCopy", "count"}}}
Holders(o) == {h \in made : ref[h].object = o /\ h \notin Uncounted}

(* YetiReferences.h:18-26, 42-55, 96-108: however copies, assignments and    *)
(* destructions interleave, the counter says how many references there are,  *)
(* and the object lives exactly as long as there is one.                     *)
CountsTrue ==
  \A o \in Object :
    /\ count[o] = Cardinality(Holders(o))
    /\ object[o] = "alive" <=> Holders(o) # {}
    /\ \A h \in made : ref[h].object = o => object[o] = "alive"

(* YetiReferences.h:99, 110-115: as long as a reference points to an object  *)
(* its mutex is there; when a thread deletes the mutex no other reference    *)
(* that points to an object has it, and no thread is inside on behalf of one.*)
SharedMutexAlive ==
  /\ \A h \in made :
       ref[h].object # NULL /\ ref[h].mutex # NULL => mutex[ref[h].mutex] = "alive"
  /\ \A t \in Working : doomed[t] # NULL =>
       /\ mutex[doomed[t]] = "alive"
       /\ \A h \in made : ref[h].mutex = doomed[t] => ref[h].object = NULL
       /\ holder[doomed[t]] # NULL => ref[H(holder[doomed[t]])].object = NULL

(* YetiReferences.h:99, 110-115 against NptReferences.h:130-135 (a detached  *)
(* reference has nothing to do with the shared object any more): no          *)
(* reference locks a mutex that has been deleted.                            *)
MutexOutlivesUse ==
  \A t \in Working :
    LET m == ref[H(t)].mutex
    IN pc[t] \in {"lock", "lockCopy"} /\ m # NULL => mutex[m] = "alive"

(* YetiReferences.h:101-114: when the last reference is gone for good, so is *)
(* the mutex: nothing is left behind.                                        *)
NothingLeft ==
  \A o \in Object :
    object[o] \in {"deleted", "detached"} /\ mutex[o] = "alive" => \E t \in Thread : doomed[t] = o
=============================================================================
