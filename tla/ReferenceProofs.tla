-------------------------- MODULE ReferenceProofs --------------------------
(***************************************************************************)
(* Proofs about module Reference: for any number of threads, references    *)
(* and objects, the counter is right, no reference to an object is left    *)
(* with a deleted mutex, and nothing is left behind.                       *)
(*                                                                         *)
(* The argument: a copy in the making is covered by the reference it is    *)
(* copied from, which nobody may change meanwhile, so the thread that      *)
(* counts down to zero is the last one that can reach the object.          *)
(***************************************************************************)
EXTENDS Reference, FiniteSetTheorems, TLAPS

Releasing == {"lock", "drop", "free", "next"}
Copying == {"lockCopy", "count"}
Gone == {"deleted", "detached"}

(* Nobody else changes what an operation works on; the source of a copy *)
(* still has the pointers that were taken from it.                      *)
Disciplined ==
  \A t \in Working :
    /\ job[t] \in Job /\ {H(t), job[t].g} \subseteq made
    /\ \A u \in Working : u # t => H(u) \notin {H(t), job[t].g}
    /\ job[t].op \in {"copy", "assign"} <=> H(t) # job[t].g
    /\ job[t].op = "copy" => pc[t] \in Copying
    /\ pc[t] \in Copying => job[t].op \in {"copy", "assign"} /\ ref[H(t)] = ref[job[t].g]
    /\ pc[t] \in {"free", "next"} => ref[H(t)].object = NULL

(* What assignObject will put under a reference is nobody else's. *)
FreshKept ==
  \A t \in Working :
    /\ job[t].op = "assignObject" <=> job[t].fresh # NULL
    /\ job[t].fresh # NULL =>
         /\ object[job[t].fresh] = "new"
         /\ \A u \in Working : u # t => job[u].fresh # job[t].fresh

(* A reference to an object has the mutex the object was given, if any. *)
Pointing ==
  \A h \in made : ref[h].object # NULL =>
    /\ object[ref[h].object] = "alive"
    /\ ref[h].mutex = IF mutex[ref[h].object] = "new" THEN NULL ELSE ref[h].object

Counted ==
  \A o \in Object :
    /\ count[o] = Cardinality(Holders(o))
    /\ object[o] = "alive" <=> Holders(o) # {}

MutexLives ==
  \A o \in Object :
    /\ object[o] = "new" => mutex[o] = "new"
    /\ mutex[o] = "deleted" => object[o] \in Gone

(* A mutex is deleted once, by the thread that let go of its object last. *)
Doomed ==
  \A t \in Thread :
    /\ doomed[t] # NULL <=> pc[t] = "free"
    /\ doomed[t] # NULL =>
         /\ object[doomed[t]] \in Gone /\ mutex[doomed[t]] = "alive"
         /\ \A u \in Thread : u # t => doomed[u] # doomed[t]

(* Whoever is inside a mutex went there on behalf of a reference that has it. *)
Inside ==
  \A o \in Object : holder[o] # NULL =>
    pc[holder[o]] \in {"drop", "count"} /\ ref[H(holder[o])].mutex = o

IInv ==
  /\ TypeOK /\ Disciplined /\ FreshKept /\ Pointing /\ Counted
  /\ MutexLives /\ Doomed /\ Inside /\ NothingLeft

LEMMA Names ==
  /\ NULL \notin Object /\ NULL \notin Handle /\ IsFiniteSet(Handle)
  /\ NULL \notin Op
  BY ReferenceAssumption DEF ReferenceAssumption, NULL, Op

LEMMA HandlesFinite ==
  ASSUME NEW S \in SUBSET Handle
  PROVE  IsFiniteSet(S) /\ Cardinality(S) \in 0 .. Cardinality(Handle)
  BY FS_Subset, FS_CardinalityType, Names

(* A thread's operation is one of Job, and the reference it works on exists. *)
LEMMA Work ==
  ASSUME IInv, NEW t \in Thread, pc[t] # "idle"
  PROVE  /\ job[t] \in Job /\ H(t) \in made /\ H(t) \in Handle
         /\ job[t].g \in made /\ job[t].g \in Handle
         /\ \A u \in Working : u # t => H(u) # H(t) /\ H(u) # job[t].g /\ job[u].g # H(t)
  BY DEF IInv, TypeOK, Disciplined, Working, Job, H

LEMMA InitIInv == Init => IInv
<1> SUFFICES ASSUME Init PROVE IInv
  OBVIOUS
<1> USE Names DEF Init
<1>1. Working = {}
  BY DEF Working
<1>2. TypeOK
  BY FS_CardinalityType DEF TypeOK, Pointers, Empty
<1>3. \A o \in Object : Holders(o) = {}
  BY DEF Holders
<1>4. Counted
  BY <1>3, FS_EmptySet DEF Counted
<1>5. Disciplined /\ FreshKept /\ Pointing
  BY <1>1 DEF Disciplined, FreshKept, Pointing
<1>6. MutexLives /\ Doomed /\ Inside /\ NothingLeft
  BY DEF MutexLives, Doomed, Inside, NothingLeft
<1> QED
  BY <1>2, <1>4, <1>5, <1>6 DEF IInv

LEMMA NewKeeps ==
  ASSUME IInv, NEW h \in Handle, NEW o \in Object, NEW threadSafe \in BOOLEAN,
         New(h, o, threadSafe)
  PROVE  IInv'
<1> USE Names DEF IInv, New
<1>1. object[o] = "new" /\ mutex[o] = "new" /\ h \notin made
      /\ (\A t \in Working : h # H(t) /\ h # job[t].g /\ job[t].fresh # o)
  BY DEF Available, MutexLives, Used, Written, H
<1>2. Working' = Working /\ \A t \in Thread : H(t)' = H(t)
  BY DEF Working, H
<1>3. Holders(o) = {}
  BY <1>1 DEF Counted
<1>4. Holders(o)' = {h}
  BY <1>1, <1>3 DEF Holders, Uncounted, Working, TypeOK, Pointers, H
<1>5. \A p \in Object : p # o => Holders(p)' = Holders(p)
  BY <1>1 DEF Holders, Uncounted, TypeOK, Pointers
<1>6. Counted'
  BY <1>4, <1>5, FS_Singleton DEF Counted, TypeOK
<1>7. TypeOK'
  <2>1. count' \in [Object -> 0 .. Cardinality(Handle)]
    <3>1. Cardinality({h}) = 1 /\ Cardinality({h}) \in 0 .. Cardinality(Handle)
      BY FS_Singleton, HandlesFinite
    <3> QED
      BY <3>1 DEF TypeOK
  <2>2. ref' \in [Handle -> Pointers]
    BY DEF TypeOK, Pointers
  <2> QED
    BY <2>1, <2>2 DEF TypeOK
<1>8. \A p \in Handle : p # h => ref'[p] = ref[p]
  BY DEF TypeOK
<1>9. Disciplined'
  BY <1>1, <1>2, <1>8, Work DEF Disciplined, Working, H
<1>10. FreshKept'
  BY <1>1, <1>2 DEF FreshKept, TypeOK
<1>11. Pointing'
  <2> SUFFICES ASSUME NEW p \in made', ref'[p].object # NULL
               PROVE  /\ object'[ref'[p].object] = "alive"
                      /\ ref'[p].mutex = IF mutex'[ref'[p].object] = "new" THEN NULL
                                         ELSE ref'[p].object
    BY DEF Pointing
  <2>1. CASE p = h
    <3>1. ref'[h] = [object |-> o, mutex |-> IF threadSafe THEN o ELSE NULL]
      BY DEF TypeOK
    <3>2. object'[o] = "alive"
      BY DEF TypeOK
    <3>3. CASE threadSafe
      BY <2>1, <3>1, <3>2, <3>3 DEF TypeOK
    <3>4. CASE ~threadSafe
      BY <2>1, <3>1, <3>2, <3>4, <1>1
    <3> QED
      BY <3>3, <3>4
  <2>2. CASE p # h
    <3>1. p \in made /\ ref'[p] = ref[p] /\ ref[p].object \in Object
      BY <2>2, <1>8 DEF TypeOK, Pointers
    <3>2. ref[p].object # o
      BY <3>1, <1>1 DEF Pointing
    <3> QED
      BY <3>1, <3>2 DEF Pointing, TypeOK
  <2> QED
    BY <2>1, <2>2
<1>12. MutexLives' /\ NothingLeft'
  BY <1>1 DEF MutexLives, NothingLeft, TypeOK
<1>13. Doomed'
  BY <1>1 DEF Doomed, Gone, TypeOK
<1>14. Inside'
  <2> SUFFICES ASSUME NEW p \in Object, holder[p] # NULL
               PROVE  pc[holder[p]] \in {"drop", "count"} /\ ref'[H(holder[p])].mutex = p
    BY <1>2 DEF Inside, H
  <2>1. holder[p] \in Working /\ H(holder[p]) \in Handle
    BY Work DEF Inside, TypeOK, Working
  <2> QED
    BY <2>1, <1>1, <1>8 DEF Inside
<1> QED
  BY <1>6, <1>7, <1>9, <1>10, <1>11, <1>12, <1>13, <1>14

LEMMA BeginCopyKeeps ==
  ASSUME IInv, NEW t \in Thread, NEW h \in Handle, NEW g \in Handle, BeginCopy(t, h, g)
  PROVE  IInv'
<1> USE Names DEF IInv, BeginCopy, Goto
<1>1. /\ h \notin made /\ g \in made /\ h # g /\ pc[t] = "idle"
      /\ \A u \in Working : h # H(u) /\ h # job[u].g /\ g # H(u)
  BY DEF MayBegin, Used, Written, H
<1>2. /\ pc' = [pc EXCEPT ![t] = "lockCopy"]
      /\ job' = [job EXCEPT ![t] = [op |-> "copy", h |-> h, g |-> g, fresh |-> NULL]]
      /\ DOMAIN job = Thread /\ DOMAIN pc = Thread
  BY DEF TypeOK
<1>3. Working' = Working \cup {t} /\ t \notin Working
  BY <1>1, <1>2 DEF Working
<1>4. \A u \in Thread : u # t => job'[u] = job[u] /\ pc'[u] = pc[u] /\ H(u)' = H(u)
  BY <1>2 DEF H
<1>5. /\ job'[t] = [op |-> "copy", h |-> h, g |-> g, fresh |-> NULL]
      /\ H(t)' = h /\ pc'[t] = "lockCopy" /\ job'[t] \in Job
  BY <1>2 DEF H, Job, Op
<1>6. ref'[h] = ref[g] /\ \A p \in Handle : p # h => ref'[p] = ref[p]
  BY DEF TypeOK
<1>7. \A o \in Object : Holders(o)' = Holders(o)
  <2>1. Uncounted' = Uncounted \cup {h}
    BY <1>1, <1>4, <1>5 DEF Uncounted, H
  <2> QED
    BY <2>1, <1>1, <1>6 DEF Holders, TypeOK
<1>8. Counted'
  BY <1>7 DEF Counted
<1>9. TypeOK'
  <2>1. ref' \in [Handle -> Pointers]
    BY DEF TypeOK
  <2>2. job' \in [Thread -> Job \cup {NoJob}]
    BY <1>2, <1>5 DEF TypeOK
  <2> QED
    BY <2>1, <2>2 DEF TypeOK
<1>10. Disciplined'
  <2> SUFFICES ASSUME NEW u \in Working'
               PROVE  /\ job'[u] \in Job /\ {H(u)', job'[u].g} \subseteq made'
                      /\ \A v \in Working' : v # u => H(v)' \notin {H(u)', job'[u].g}
                      /\ job'[u].op \in {"copy", "assign"} <=> H(u)' # job'[u].g
                      /\ job'[u].op = "copy" => pc'[u] \in Copying
                      /\ pc'[u] \in Copying =>
                           job'[u].op \in {"copy", "assign"} /\ ref'[H(u)'] = ref'[job'[u].g]
                      /\ pc'[u] \in {"free", "next"} => ref'[H(u)'].object = NULL
    BY DEF Disciplined, H
  <2>1. CASE u = t
    <3>1. /\ job'[u].op = "copy" /\ H(u)' = h /\ job'[u].g = g /\ job'[u] \in Job
          /\ pc'[u] = "lockCopy"
      BY <2>1, <1>5
    <3>2. \A v \in Working' : v # u => H(v)' \notin {h, g}
      BY <2>1, <1>1, <1>3, <1>4 DEF Working
    <3>3. ref'[h] = ref'[g]
      BY <1>1, <1>6
    <3> QED
      BY <3>1, <3>2, <3>3, <1>1 DEF Copying
  <2>2. CASE u # t
    <3>1. u \in Working /\ u \in Thread /\ pc[u] # "idle"
      BY <2>2, <1>3 DEF Working
    <3>2. H(u) \in Handle /\ job[u].g \in Handle /\ H(u) # h /\ job[u].g # h
      BY <3>1, <1>1, Work
    <3>3. ref'[H(u)] = ref[H(u)] /\ ref'[job[u].g] = ref[job[u].g]
      BY <3>2, <1>6
    <3>4. H(t)' \notin {H(u), job[u].g}
      BY <3>2, <1>5
    <3> QED
      BY <2>2, <3>1, <3>2, <3>3, <3>4, <1>3, <1>4 DEF Disciplined, Working
  <2> QED
    BY <2>1, <2>2
<1>11. FreshKept'
  BY <1>3, <1>4, <1>5 DEF FreshKept, Working
<1>12. Pointing'
  BY <1>1, <1>6 DEF Pointing, TypeOK
<1>13. MutexLives' /\ NothingLeft'
  BY DEF MutexLives, NothingLeft
<1>14. Doomed'
  BY <1>1, <1>2 DEF Doomed
<1>15. Inside'
  <2> SUFFICES ASSUME NEW p \in Object, holder[p] # NULL
               PROVE  pc'[holder[p]] \in {"drop", "count"} /\ ref'[H(holder[p])'].mutex = p
    BY DEF Inside, H
  <2>1. /\ holder[p] \in Thread /\ holder[p] \in Working /\ holder[p] # t
        /\ H(holder[p]) \in Handle
    BY <1>1, Work DEF Inside, TypeOK, Working
  <2>2. H(holder[p]) # h
    BY <2>1, <1>1
  <2> QED
    BY <2>1, <2>2, <1>4, <1>6 DEF Inside
<1> QED
  BY <1>8, <1>9, <1>10, <1>11, <1>12, <1>13, <1>14, <1>15

LEMMA BeginReleaseKeeps ==
  ASSUME IInv, NEW t \in Thread, NEW op \in Ops, NEW h \in Handle, NEW g \in Handle,
         NEW fresh \in Object \cup {NULL}, BeginRelease(t, op, h, g, fresh)
  PROVE  IInv'
<1> USE Names DEF IInv, BeginRelease, Goto
<1>1. /\ h \in made /\ g \in made /\ pc[t] = "idle" /\ op # "copy"
      /\ \A u \in Working : h # H(u) /\ h # job[u].g /\ g # H(u)
  BY DEF MayBegin, Used, Written, H
<1>2. /\ pc' = [pc EXCEPT ![t] = "lock"] /\ DOMAIN job = Thread /\ DOMAIN pc = Thread
      /\ job' = [job EXCEPT ![t] = [op |-> op, h |-> h, g |-> g, fresh |-> fresh]]
  BY DEF TypeOK
<1>3. Working' = Working \cup {t} /\ t \notin Working
  BY <1>1, <1>2 DEF Working
<1>4. \A u \in Thread : u # t => job'[u] = job[u] /\ pc'[u] = pc[u] /\ H(u)' = H(u)
  BY <1>2 DEF H
<1>5. /\ job'[t] = [op |-> op, h |-> h, g |-> g, fresh |-> fresh]
      /\ H(t)' = h /\ pc'[t] = "lock" /\ job'[t] \in Job
  BY <1>2, ReferenceAssumption DEF H, Job, ReferenceAssumption
<1>6. \A o \in Object : Holders(o)' = Holders(o)
  <2>1. Uncounted' = Uncounted
    BY <1>1, <1>4, <1>5 DEF Uncounted, H
  <2> QED
    BY <2>1 DEF Holders
<1>7. Counted'
  BY <1>6 DEF Counted
<1>8. TypeOK'
  <2>1. job' \in [Thread -> Job \cup {NoJob}]
    BY <1>2, <1>5 DEF TypeOK
  <2> QED
    BY <2>1 DEF TypeOK
<1>9. Disciplined'
  <2> SUFFICES ASSUME NEW u \in Working'
               PROVE  /\ job'[u] \in Job /\ {H(u)', job'[u].g} \subseteq made'
                      /\ \A v \in Working' : v # u => H(v)' \notin {H(u)', job'[u].g}
                      /\ job'[u].op \in {"copy", "assign"} <=> H(u)' # job'[u].g
                      /\ job'[u].op = "copy" => pc'[u] \in Copying
                      /\ pc'[u] \in Copying =>
                           job'[u].op \in {"copy", "assign"} /\ ref'[H(u)'] = ref'[job'[u].g]
                      /\ pc'[u] \in {"free", "next"} => ref'[H(u)'].object = NULL
    BY DEF Disciplined, H
  <2>1. CASE u = t
    <3>1. /\ job'[u].op = op /\ H(u)' = h /\ job'[u].g = g /\ job'[u] \in Job
          /\ pc'[u] = "lock"
      BY <2>1, <1>5
    <3>2. \A v \in Working' : v # u => H(v)' \notin {h, g}
      BY <2>1, <1>1, <1>3, <1>4 DEF Working
    <3>3. op \in {"copy", "assign"} <=> h # g
      BY <1>1
    <3> QED
      BY <3>1, <3>2, <3>3, <1>1 DEF Copying
  <2>2. CASE u # t
    <3>1. u \in Working /\ u \in Thread /\ pc[u] # "idle" /\ H(t)' \notin {H(u), job[u].g}
      BY <2>2, <1>1, <1>3, <1>5 DEF Working
    <3> QED
      BY <2>2, <3>1, <1>3, <1>4 DEF Disciplined, Working
  <2> QED
    BY <2>1, <2>2
<1>10. FreshKept'
  <2>1. fresh # NULL => object[fresh] = "new" /\ \A u \in Working : job[u].fresh # fresh
    BY DEF Available
  <2> QED
    BY <2>1, <1>3, <1>4, <1>5 DEF FreshKept, Working
<1>11. Pointing' /\ MutexLives' /\ NothingLeft'
  BY DEF Pointing, MutexLives, NothingLeft
<1>12. Doomed'
  BY <1>1, <1>2 DEF Doomed
<1>13. Inside'
  <2> SUFFICES ASSUME NEW p \in Object, holder[p] # NULL
               PROVE  pc'[holder[p]] \in {"drop", "count"} /\ ref[H(holder[p])'].mutex = p
    BY DEF Inside, H
  <2>1. holder[p] \in Thread /\ holder[p] # t
    BY <1>1 DEF Inside, TypeOK
  <2> QED
    BY <2>1, <1>4 DEF Inside
<1> QED
  BY <1>7, <1>8, <1>9, <1>10, <1>11, <1>12, <1>13

LEMMA LockKeeps ==
  ASSUME IInv, NEW t \in Thread, Lock(t)
  PROVE  IInv'
<1> USE Names DEF IInv, Lock, Goto
<1>1. /\ pc[t] # "idle" /\ DOMAIN pc = Thread
      /\ \/ pc[t] = "lock" /\ pc'[t] = "drop"
         \/ pc[t] = "lockCopy" /\ pc'[t] = "count"
      /\ \A u \in Thread : u # t => pc'[u] = pc[u]
  BY DEF TypeOK
<1>2. Working' = Working /\ \A u \in Thread : H(u)' = H(u)
  BY <1>1 DEF Working, H
<1>3. \A o \in Object : Holders(o)' = Holders(o)
  <2>1. Uncounted' = Uncounted
    BY <1>1 DEF Uncounted
  <2> QED
    BY <2>1 DEF Holders
<1>4. Counted'
  BY <1>3 DEF Counted
<1>5. TypeOK'
  <2>1. holder' \in [Object -> Thread \cup {NULL}]
    BY DEF TypeOK
  <2> QED
    BY <2>1 DEF TypeOK
<1>6. Disciplined'
  BY <1>1, <1>2 DEF Disciplined, Copying, H, Working
<1>7. FreshKept' /\ Pointing' /\ MutexLives' /\ NothingLeft'
  BY <1>2 DEF FreshKept, Pointing, MutexLives, NothingLeft
<1>8. Doomed'
  BY <1>1 DEF Doomed
<1>9. Inside'
  <2> SUFFICES ASSUME NEW p \in Object, holder'[p] # NULL
               PROVE  pc'[holder'[p]] \in {"drop", "count"} /\ ref[H(holder'[p])].mutex = p
    BY DEF Inside, H
  <2>1. CASE holder'[p] = holder[p]
    BY <2>1, <1>1 DEF Inside, TypeOK
  <2>2. CASE holder'[p] # holder[p]
    <3>1. holder'[p] = t /\ ref[H(t)].mutex = p
      BY <2>2 DEF TypeOK
    <3> QED
      BY <3>1, <1>1
  <2> QED
    BY <2>1, <2>2
<1> QED
  BY <1>4, <1>5, <1>6, <1>7, <1>8, <1>9

(* Whoever gives back what it holds is no longer inside; the others are as before. *)
LEMMA UnlockLeaves ==
  ASSUME IInv, NEW t \in Thread, Unlock(t)
  PROVE  /\ holder' \in [Object -> Thread \cup {NULL}]
         /\ \A p \in Object : holder'[p] # NULL =>
              /\ holder'[p] = holder[p] /\ holder[p] # t /\ holder[p] \in Thread
              /\ pc[holder[p]] \in {"drop", "count"} /\ ref[H(holder[p])].mutex = p
              /\ holder[p] \in Working
  BY Names DEF IInv, Unlock, TypeOK, Inside, Working

LEMMA DropKeeps ==
  ASSUME IInv, NEW t \in Thread, Drop(t)
  PROVE  IInv'
<1> USE Names DEF IInv
<1>h. PICK h : h = H(t)
  OBVIOUS
<1>o. PICK o : o = ref[h].object
  OBVIOUS
<1> DEFINE last == o # NULL /\ count[o] = 1
<1> HIDE DEF last
<1>1. /\ pc[t] = "drop" /\ h \in made /\ h \in Handle /\ o \in Object \cup {NULL} /\ h = H(t)
      /\ ref[h].mutex \in Object \cup {NULL} /\ t \in Working
      /\ \A u \in Working : u # t => H(u) # h /\ job[u].g # h
  BY <1>h, <1>o, Work DEF Drop, TypeOK, Pointers, Working
<1>2. /\ count' = IF o = NULL THEN count ELSE [count EXCEPT ![o] = @ - 1]
      /\ last \in BOOLEAN /\ (last => o \in Object /\ count[o] = 1)
  BY <1>1, <1>o DEF Drop, last
<1>3. /\ ref'[h] = [object |-> NULL, mutex |-> IF last THEN NULL ELSE ref[h].mutex]
      /\ \A p \in Handle : p # h => ref'[p] = ref[p]
      /\ ref' \in [Handle -> Pointers]
  BY <1>1, <1>o DEF Drop, TypeOK, Pointers, last
<1>4. /\ doomed'[t] = IF last THEN ref[h].mutex ELSE NULL
      /\ \A u \in Thread : u # t => doomed'[u] = doomed[u]
      /\ doomed' \in [Thread -> Object \cup {NULL}]
  BY <1>1, <1>o DEF Drop, TypeOK, last
<1>5. /\ pc'[t] \in {"free", "next"} /\ (pc'[t] = "free" <=> doomed'[t] # NULL)
      /\ \A u \in Thread : u # t => pc'[u] = pc[u]
      /\ pc' \in [Thread -> {"idle", "lock", "drop", "free", "next", "lockCopy", "count"}]
  BY DEF Drop, Goto, TypeOK
<1>6. Working' = Working /\ (\A u \in Thread : H(u)' = H(u)) /\ Unlock(t)
      /\ UNCHANGED <<made, mutex, job>>
  BY <1>1, <1>5 DEF Drop, Working, H
<1>7. /\ object' \in [Object -> {"new", "alive", "deleted", "detached"}]
      /\ \A p \in Object : object'[p] = object[p] \/ (last /\ p = o /\ object'[p] \in Gone)
      /\ last => object'[o] \in Gone
  BY <1>1, <1>2, <1>o DEF Drop, TypeOK, last, Gone
<1>8. Uncounted' = Uncounted /\ h \notin Uncounted
  <2>1. \A u \in Thread : pc'[u] \in {"lockCopy", "count"} <=> pc[u] \in {"lockCopy", "count"}
    BY <1>1, <1>5
  <2>2. h \notin Uncounted
    BY <1>1 DEF Uncounted, H, Working
  <2> QED
    BY <2>1, <2>2, <1>6 DEF Uncounted, H
<1>9. o # NULL => /\ h \in Holders(o) /\ Holders(o)' = Holders(o) \ {h}
                  /\ object[o] = "alive"
  <2>1. object[o] = "alive" \/ o = NULL
    BY <1>1, <1>o DEF Pointing
  <2>2. o # NULL => h \in Holders(o)
    BY <1>1, <1>o, <1>8 DEF Holders
  <2>3. ASSUME o # NULL PROVE Holders(o)' = Holders(o) \ {h}
    <3> DEFINE S == {p \in made : ref'[p].object = o /\ p \notin Uncounted}
    <3>1. S = Holders(o) \ {h}
      BY <2>3, <1>1, <1>o, <1>3 DEF Holders, TypeOK
    <3> QED
      BY <3>1, <1>6, <1>8 DEF Holders
  <2> QED
    BY <2>1, <2>2, <2>3
<1>10. \A p \in Object : p # o => Holders(p)' = Holders(p)
  BY <1>1, <1>o, <1>3, <1>6, <1>8 DEF Holders, TypeOK
<1>11. \A p \in Object : Holders(p) \in SUBSET Handle
  BY DEF Holders, TypeOK
<1>12. o # NULL => /\ IsFiniteSet(Holders(o)) /\ count[o] \in Nat
                   /\ Cardinality(Holders(o)') = count[o] - 1 /\ count'[o] = count[o] - 1
                   /\ (Holders(o)' = {} <=> last)
  <2> SUFFICES ASSUME o # NULL, o \in Object
               PROVE  /\ IsFiniteSet(Holders(o)) /\ count[o] \in Nat
                      /\ Cardinality(Holders(o)') = count[o] - 1 /\ count'[o] = count[o] - 1
                      /\ (Holders(o)' = {} <=> last)
    BY <1>1
  <2>1. IsFiniteSet(Holders(o)) /\ count[o] = Cardinality(Holders(o)) /\ count[o] \in Nat
    BY <1>11, HandlesFinite DEF Counted
  <2>2. Cardinality(Holders(o)') = count[o] - 1 /\ IsFiniteSet(Holders(o)')
    BY <2>1, <1>9, FS_RemoveElement
  <2>3. Holders(o)' = {} <=> count[o] - 1 = 0
    BY <2>1, <2>2, FS_EmptySet
  <2>4. last <=> count[o] = 1
    BY DEF last
  <2> QED
    BY <2>1, <2>2, <2>3, <2>4, <1>2 DEF TypeOK
<1>13. Counted'
  <2> SUFFICES ASSUME NEW p \in Object
               PROVE  /\ count'[p] = Cardinality(Holders(p)')
                      /\ object'[p] = "alive" <=> Holders(p)' # {}
    BY DEF Counted
  <2>1. CASE p = o
    <3>1. count'[p] = Cardinality(Holders(p)') /\ (Holders(p)' = {} <=> last) /\ object[p] = "alive"
      BY <2>1, <1>9, <1>12
    <3>2. object'[p] = "alive" <=> ~last
      BY <2>1, <3>1, <1>7 DEF Gone
    <3> QED
      BY <3>1, <3>2
  <2>2. CASE p # o
    <3>1. Holders(p)' = Holders(p) /\ object'[p] = object[p]
      BY <2>2, <1>7, <1>10
    <3>2. count'[p] = count[p]
      BY <2>2, <1>2 DEF TypeOK
    <3> QED
      BY <3>1, <3>2 DEF Counted
  <2> QED
    BY <2>1, <2>2
<1>14. TypeOK'
  <2>1. DOMAIN count' = Object /\ count' = [p \in Object |-> count'[p]]
    BY <1>1, <1>2 DEF TypeOK
  <2>2. \A p \in Object : count'[p] \in 0 .. Cardinality(Handle)
    <3> SUFFICES ASSUME NEW p \in Object PROVE count'[p] \in 0 .. Cardinality(Handle)
      OBVIOUS
    <3>1. Holders(p)' \in SUBSET Handle
      BY <1>9, <1>10, <1>11
    <3> QED
      BY <3>1, <1>13, HandlesFinite DEF Counted
  <2>3. holder' \in [Object -> Thread \cup {NULL}]
    BY <1>6, UnlockLeaves
  <2>4. count' \in [Object -> 0 .. Cardinality(Handle)]
    BY <2>1, <2>2
  <2> QED
    BY <2>3, <2>4, <1>3, <1>4, <1>5, <1>6, <1>7 DEF TypeOK
<1>15. Disciplined'
  <2> SUFFICES ASSUME NEW u \in Working
               PROVE  /\ job[u] \in Job /\ {H(u), job[u].g} \subseteq made
                      /\ \A v \in Working : v # u => H(v) \notin {H(u), job[u].g}
                      /\ job[u].op \in {"copy", "assign"} <=> H(u) # job[u].g
                      /\ job[u].op = "copy" => pc'[u] \in Copying
                      /\ pc'[u] \in Copying =>
                           job[u].op \in {"copy", "assign"} /\ ref'[H(u)] = ref'[job[u].g]
                      /\ pc'[u] \in {"free", "next"} => ref'[H(u)].object = NULL
    BY <1>6 DEF Disciplined, H
  <2>1. CASE u = t
    BY <2>1, <1>1, <1>3, <1>5 DEF Disciplined, Copying
  <2>2. CASE u # t
    <3>1. u \in Thread /\ pc[u] # "idle" /\ H(u) \in Handle /\ job[u].g \in Handle
      BY Work DEF Working
    <3>2. ref'[H(u)] = ref[H(u)] /\ ref'[job[u].g] = ref[job[u].g]
      BY <3>1, <2>2, <1>1, <1>3
    <3> QED
      BY <2>2, <3>1, <3>2, <1>5 DEF Disciplined
  <2> QED
    BY <2>1, <2>2
<1>16. FreshKept'
  <2> SUFFICES ASSUME NEW u \in Working, job[u].fresh # NULL
               PROVE  object'[job[u].fresh] = "new"
    BY <1>6 DEF FreshKept
  <2>1. job[u].fresh \in Object /\ object[job[u].fresh] = "new"
    BY DEF FreshKept, Disciplined, Job
  <2>2. ~ (last /\ job[u].fresh = o)
    BY <2>1, <1>1, <1>9
  <2> QED
    BY <2>1, <2>2, <1>7
<1>17. Pointing'
  <2> SUFFICES ASSUME NEW p \in made, ref'[p].object # NULL
               PROVE  /\ object'[ref'[p].object] = "alive"
                      /\ ref'[p].mutex = IF mutex[ref'[p].object] = "new" THEN NULL
                                         ELSE ref'[p].object
    BY <1>6 DEF Pointing
  <2>1. p # h /\ p \in Handle /\ ref'[p] = ref[p] /\ ref[p].object \in Object
    BY <1>3 DEF TypeOK, Pointers
  <2>2. object[ref[p].object] = "alive"
    BY <2>1 DEF Pointing
  <2>3. ~ (last /\ ref[p].object = o)
    <3> SUFFICES ASSUME last, ref[p].object = o PROVE FALSE
      OBVIOUS
    <3>1. o # NULL /\ Holders(o) \subseteq {h}
      BY <2>1, <1>9, <1>12
    <3>2. p \in Uncounted
      BY <3>1, <2>1 DEF Holders
    <3>3. PICK u \in Thread : pc[u] \in {"lockCopy", "count"} /\ H(u) = p
      BY <3>2 DEF Uncounted, H
    <3>4. u \in Working /\ u # t /\ pc[u] \in Copying /\ pc[u] # "idle"
      BY <3>3, <1>1 DEF Copying, Working
    <3>5. job[u].g \in made /\ ref[job[u].g] = ref[p] /\ job[u].g # p
      BY <3>3, <3>4 DEF Disciplined
    <3>6. job[u].g \notin Uncounted
      <4> SUFFICES ASSUME NEW v \in Thread, pc[v] \in {"lockCopy", "count"}, H(v) = job[u].g
                   PROVE  FALSE
        BY DEF Uncounted, H
      <4>1. v \in Working
        BY DEF Working
      <4>2. v # u
        BY <3>3, <3>5
      <4> QED
        BY <4>1, <4>2, <3>4 DEF Disciplined
    <3>7. job[u].g \in Holders(o)
      BY <3>5, <3>6 DEF Holders
    <3> QED
      BY <3>1, <3>4, <3>7, <1>1
  <2> QED
    BY <2>1, <2>2, <2>3, <1>7 DEF Pointing
<1>18. last => ref[h].mutex = (IF mutex[o] = "new" THEN NULL ELSE o) /\ mutex[o] \in {"new", "alive"}
  <2> SUFFICES ASSUME last
               PROVE  ref[h].mutex = (IF mutex[o] = "new" THEN NULL ELSE o)
                      /\ mutex[o] \in {"new", "alive"}
    OBVIOUS
  <2>1. o \in Object /\ object[o] = "alive" /\ ref[h].object = o /\ h \in made
    BY <1>1, <1>2, <1>9, <1>o
  <2>2. ref[h].mutex = IF mutex[o] = "new" THEN NULL ELSE o
    BY <2>1 DEF Pointing
  <2>3. mutex[o] \in {"new", "alive"}
    BY <2>1 DEF MutexLives, TypeOK, Gone
  <2> QED
    BY <2>2, <2>3
<1>19. /\ last /\ mutex[o] # "new" => doomed'[t] = o /\ mutex[o] = "alive"
       /\ last /\ doomed'[t] # NULL => doomed'[t] = o /\ mutex[o] = "alive"
  BY <1>4, <1>18
<1>20. MutexLives'
  <2> SUFFICES ASSUME NEW p \in Object
               PROVE  /\ object'[p] = "new" => mutex[p] = "new"
                      /\ mutex[p] = "deleted" => object'[p] \in Gone
    BY <1>6 DEF MutexLives
  <2>1. CASE object'[p] = object[p]
    BY <2>1 DEF MutexLives
  <2>2. CASE object'[p] # object[p]
    BY <2>2, <1>7 DEF Gone
  <2> QED
    BY <2>1, <2>2
<1>21. NothingLeft'
  <2> SUFFICES ASSUME NEW p \in Object, object'[p] \in Gone, mutex[p] = "alive"
               PROVE  \E u \in Thread : doomed'[u] = p
    BY <1>6 DEF NothingLeft, Gone
  <2>1. CASE object'[p] = object[p]
    <3>1. PICK u \in Thread : doomed[u] = p
      BY <2>1 DEF NothingLeft, Gone
    <3>2. u # t
      BY <3>1, <1>1 DEF Doomed
    <3> QED
      BY <3>1, <3>2, <1>4
  <2>2. CASE object'[p] # object[p]
    <3>1. last /\ p = o /\ mutex[o] = "alive"
      BY <2>2, <1>7
    <3> QED
      BY <3>1, <1>19
  <2> QED
    BY <2>1, <2>2
<1>22. Doomed'
  <2> SUFFICES ASSUME NEW u \in Thread
               PROVE  /\ doomed'[u] # NULL <=> pc'[u] = "free"
                      /\ doomed'[u] # NULL =>
                           /\ object'[doomed'[u]] \in Gone /\ mutex[doomed'[u]] = "alive"
                           /\ \A v \in Thread : v # u => doomed'[v] # doomed'[u]
    BY <1>6 DEF Doomed
  <2>1. \A v \in Thread : v # t /\ doomed[v] # NULL =>
          doomed[v] \in Object /\ object[doomed[v]] \in Gone /\ doomed[v] # o
    BY <1>9 DEF Doomed, TypeOK, Gone
  <2>2. doomed'[t] # NULL => doomed'[t] = o /\ mutex[o] = "alive" /\ object'[o] \in Gone
    BY <1>4, <1>7, <1>19
  <2>3. CASE u = t
    BY <2>1, <2>2, <2>3, <1>4, <1>5
  <2>4. CASE u # t
    <3>1. doomed'[u] = doomed[u] /\ pc'[u] = pc[u]
      BY <2>4, <1>4, <1>5
    <3>2. doomed[u] # NULL => object'[doomed[u]] \in Gone
      BY <2>1, <2>4, <1>7
    <3>3. doomed[u] # NULL => \A v \in Thread : v # u => doomed'[v] # doomed[u]
      BY <2>1, <2>2, <2>4, <1>4 DEF Doomed
    <3> QED
      BY <3>1, <3>2, <3>3 DEF Doomed
  <2> QED
    BY <2>3, <2>4
<1>23. Inside'
  <2> SUFFICES ASSUME NEW p \in Object, holder'[p] # NULL
               PROVE  pc'[holder'[p]] \in {"drop", "count"} /\ ref'[H(holder'[p])].mutex = p
    BY <1>6 DEF Inside, H
  <2>1. /\ holder'[p] = holder[p] /\ holder[p] # t /\ holder[p] \in Thread
        /\ pc[holder[p]] \in {"drop", "count"} /\ ref[H(holder[p])].mutex = p
        /\ holder[p] \in Working
    BY <1>6, UnlockLeaves
  <2>2. H(holder[p]) \in Handle /\ H(holder[p]) # h
    BY <2>1, <1>1, Work
  <2> QED
    BY <2>1, <2>2, <1>3, <1>5
<1> QED
  BY <1>13, <1>14, <1>15, <1>16, <1>17, <1>20, <1>21, <1>22, <1>23
LEMMA FreeKeeps ==
  ASSUME IInv, NEW t \in Thread, Free(t)
  PROVE  IInv'
<1> USE Names DEF IInv, Free, Goto
<1>m. PICK m : m = doomed[t]
  OBVIOUS
<1>1. /\ pc[t] = "free" /\ t \in Working /\ m \in Object /\ object[m] \in Gone
      /\ m # NULL /\ \A u \in Thread : u # t => doomed[u] # m
  BY <1>m DEF Doomed, TypeOK, Working
<1>2. /\ mutex'[m] = "deleted" /\ \A p \in Object : p # m => mutex'[p] = mutex[p]
      /\ mutex' \in [Object -> {"new", "alive", "deleted"}]
      /\ doomed'[t] = NULL /\ \A u \in Thread : u # t => doomed'[u] = doomed[u]
      /\ doomed' \in [Thread -> Object \cup {NULL}]
      /\ pc'[t] = "next" /\ \A u \in Thread : u # t => pc'[u] = pc[u]
      /\ pc' \in [Thread -> {"idle", "lock", "drop", "free", "next", "lockCopy", "count"}]
  BY <1>m, <1>1 DEF TypeOK
<1>3. Working' = Working /\ \A u \in Thread : H(u)' = H(u)
  BY <1>1, <1>2 DEF Working, H
<1>4. \A o \in Object : Holders(o)' = Holders(o)
  <2>1. Uncounted' = Uncounted
    BY <1>1, <1>2 DEF Uncounted
  <2> QED
    BY <2>1 DEF Holders
<1>5. Counted' /\ TypeOK'
  BY <1>2, <1>4 DEF Counted, TypeOK
<1>6. Disciplined'
  BY <1>1, <1>2, <1>3 DEF Disciplined, Copying, H, Working
<1>7. FreshKept'
  BY <1>3 DEF FreshKept
<1>8. Pointing'
  BY <1>1, <1>2 DEF Pointing, Gone
<1>9. MutexLives' /\ NothingLeft'
  <2>1. MutexLives'
    BY <1>1, <1>2 DEF MutexLives, Gone
  <2>2. NothingLeft'
    BY <1>m, <1>1, <1>2 DEF NothingLeft
  <2> QED
    BY <2>1, <2>2
<1>10. Doomed'
  BY <1>1, <1>2 DEF Doomed, TypeOK
<1>11. Inside'
  BY <1>1, <1>2, <1>3 DEF Inside, TypeOK
<1> QED
  BY <1>5, <1>6, <1>7, <1>8, <1>9, <1>10, <1>11

(* Whoever ends an operation leaves the others to theirs. *)
LEMMA FinishLeaves ==
  ASSUME IInv, NEW t \in Thread, pc[t] # "idle", Finish(t)
  PROVE  /\ pc' \in [Thread -> {"idle", "lock", "drop", "free", "next", "lockCopy", "count"}]
         /\ job' \in [Thread -> Job \cup {NoJob}]
         /\ Working' = Working \ {t} /\ t \in Working
         /\ \A u \in Thread : u # t => pc'[u] = pc[u] /\ job'[u] = job[u] /\ H(u)' = H(u)
  BY Names DEF IInv, TypeOK, Finish, Goto, Working, H

LEMMA DestroyOrDetachKeeps ==
  ASSUME IInv, NEW t \in Thread, Next_DestroyOrDetach(t)
  PROVE  IInv'
<1> USE Names DEF IInv, Next_DestroyOrDetach
<1>h. PICK h : h = H(t)
  OBVIOUS
<1>1. /\ pc[t] = "next" /\ pc[t] # "idle" /\ h \in made /\ h \in Handle /\ ref[h].object = NULL
      /\ \A u \in Working : u # t => H(u) # h /\ job[u].g # h
  BY <1>h, Work DEF Disciplined, Working
<1>2. /\ pc' \in [Thread -> {"idle", "lock", "drop", "free", "next", "lockCopy", "count"}]
      /\ job' \in [Thread -> Job \cup {NoJob}]
      /\ Working' = Working \ {t} /\ t \in Working
      /\ \A u \in Thread : u # t => pc'[u] = pc[u] /\ job'[u] = job[u] /\ H(u)' = H(u)
  BY <1>1, FinishLeaves
<1>3. /\ made' \in {made, made \ {h}} /\ ref' \in [Handle -> Pointers]
      /\ \A p \in Handle : p # h => ref'[p] = ref[p]
      /\ ref'[h].object = NULL
      /\ h \in made' => ref' = ref
  <2>1. CASE job[t].op = "destroy"
    <3>1. made' = made \ {h} /\ ref' = [ref EXCEPT ![h] = Empty]
      BY <2>1, <1>h
    <3>2. Empty \in Pointers /\ Empty.object = NULL
      BY DEF Empty, Pointers
    <3> QED
      BY <3>1, <3>2, <1>1 DEF TypeOK
  <2>2. CASE job[t].op # "destroy"
    BY <2>2, <1>1 DEF TypeOK
  <2> QED
    BY <2>1, <2>2
<1>4. pc'[t] = "idle"
  BY DEF Finish, Goto, TypeOK
<1>5. Uncounted' = Uncounted
  BY <1>1, <1>2, <1>4 DEF Uncounted, H
<1>6. \A o \in Object : Holders(o)' = Holders(o)
  BY <1>1, <1>3, <1>5 DEF Holders, TypeOK
<1>7. Counted'
  BY <1>6 DEF Counted
<1>8. TypeOK'
  BY <1>2, <1>3 DEF TypeOK
<1>9. Disciplined'
  <2> SUFFICES ASSUME NEW u \in Working'
               PROVE  /\ job[u] \in Job /\ {H(u), job[u].g} \subseteq made'
                      /\ \A v \in Working : v # u => H(v) \notin {H(u), job[u].g}
                      /\ job[u].op \in {"copy", "assign"} <=> H(u) # job[u].g
                      /\ job[u].op = "copy" => pc[u] \in Copying
                      /\ pc[u] \in Copying =>
                           job[u].op \in {"copy", "assign"} /\ ref'[H(u)] = ref'[job[u].g]
                      /\ pc[u] \in {"free", "next"} => ref'[H(u)].object = NULL
    BY <1>2 DEF Disciplined, H, Working
  <2>1. u \in Working /\ u \in Thread /\ u # t /\ pc[u] # "idle"
    BY <1>2 DEF Working
  <2>2. /\ H(u) # h /\ job[u].g # h /\ H(u) \in Handle /\ job[u].g \in Handle
        /\ H(u) \in made /\ job[u].g \in made
    BY <2>1, <1>1, Work
  <2>3. {H(u), job[u].g} \subseteq made'
    BY <2>2, <1>3
  <2>4. ref'[H(u)] = ref[H(u)] /\ ref'[job[u].g] = ref[job[u].g]
    BY <2>2, <1>3
  <2> QED
    BY <2>1, <2>3, <2>4 DEF Disciplined
<1>10. FreshKept'
  BY <1>2 DEF FreshKept, Working
<1>11. Pointing'
  BY <1>3 DEF Pointing, TypeOK
<1>12. MutexLives' /\ NothingLeft'
  BY DEF MutexLives, NothingLeft
<1>13. Doomed'
  BY <1>1, <1>2, <1>4 DEF Doomed
<1>14. Inside'
  <2> SUFFICES ASSUME NEW p \in Object, holder[p] # NULL
               PROVE  pc'[holder[p]] \in {"drop", "count"} /\ ref'[H(holder[p])'].mutex = p
    BY DEF Inside, H
  <2>1. holder[p] \in Thread /\ holder[p] # t /\ holder[p] \in Working /\ H(holder[p]) \in Handle
    BY <1>1, Work DEF Inside, TypeOK, Working
  <2> QED
    BY <2>1, <1>1, <1>2, <1>3 DEF Inside
<1> QED
  BY <1>7, <1>8, <1>9, <1>10, <1>11, <1>12, <1>13, <1>14

LEMMA AssignKeeps ==
  ASSUME IInv, NEW t \in Thread, Next_Assign(t)
  PROVE  IInv'
<1> USE Names DEF IInv, Next_Assign, Goto
<1>h. PICK h : h = H(t)
  OBVIOUS
<1>g. PICK g : g = job[t].g
  OBVIOUS
<1>1. /\ pc[t] = "next" /\ h \in made /\ g \in made /\ h \in Handle /\ g \in Handle /\ h # g
      /\ ref[h].object = NULL /\ t \in Working /\ job[t].op = "assign"
      /\ \A u \in Working : u # t => H(u) # h /\ job[u].g # h /\ H(u) # g
  BY <1>h, <1>g, Work DEF Disciplined, Working
<1>2. /\ ref'[h] = ref[g] /\ \A p \in Handle : p # h => ref'[p] = ref[p]
      /\ ref' \in [Handle -> Pointers]
      /\ pc'[t] = "lockCopy" /\ \A u \in Thread : u # t => pc'[u] = pc[u]
      /\ pc' \in [Thread -> {"idle", "lock", "drop", "free", "next", "lockCopy", "count"}]
  BY <1>h, <1>g, <1>1 DEF TypeOK
<1>3. Working' = Working /\ \A u \in Thread : H(u)' = H(u)
  BY <1>1, <1>2 DEF Working, H
<1>4. Uncounted' = Uncounted \cup {h}
  BY <1>h, <1>1, <1>2 DEF Uncounted, H
<1>5. \A o \in Object : Holders(o)' = Holders(o)
  BY <1>1, <1>2, <1>4 DEF Holders, TypeOK
<1>6. Counted' /\ TypeOK'
  BY <1>2, <1>5 DEF Counted, TypeOK
<1>7. Disciplined'
  <2> SUFFICES ASSUME NEW u \in Working
               PROVE  /\ job[u].op = "copy" => pc'[u] \in Copying
                      /\ pc'[u] \in Copying =>
                           job[u].op \in {"copy", "assign"} /\ ref'[H(u)] = ref'[job[u].g]
                      /\ pc'[u] \in {"free", "next"} => ref'[H(u)].object = NULL
    BY <1>3 DEF Disciplined, H
  <2>1. CASE u = t
    BY <2>1, <1>h, <1>g, <1>1, <1>2 DEF Copying
  <2>2. CASE u # t
    <3>1. u \in Thread /\ pc[u] # "idle" /\ H(u) \in Handle /\ job[u].g \in Handle
      BY Work DEF Working
    <3>2. ref'[H(u)] = ref[H(u)] /\ ref'[job[u].g] = ref[job[u].g] /\ pc'[u] = pc[u]
      BY <3>1, <2>2, <1>1, <1>2
    <3> QED
      BY <3>2 DEF Disciplined
  <2> QED
    BY <2>1, <2>2
<1>8. FreshKept' /\ MutexLives' /\ NothingLeft'
  BY <1>3 DEF FreshKept, MutexLives, NothingLeft
<1>9. Pointing'
  BY <1>1, <1>2 DEF Pointing, TypeOK
<1>10. Doomed'
  BY <1>1, <1>2 DEF Doomed
<1>11. Inside'
  <2> SUFFICES ASSUME NEW p \in Object, holder[p] # NULL
               PROVE  pc'[holder[p]] \in {"drop", "count"} /\ ref'[H(holder[p])].mutex = p
    BY <1>3 DEF Inside, H
  <2>1. holder[p] \in Thread /\ holder[p] # t /\ holder[p] \in Working /\ H(holder[p]) \in Handle
    BY <1>1, Work DEF Inside, TypeOK, Working
  <2> QED
    BY <2>1, <1>1, <1>2 DEF Inside
<1> QED
  BY <1>6, <1>7, <1>8, <1>9, <1>10, <1>11

LEMMA AssignObjectKeeps ==
  ASSUME IInv, NEW t \in Thread, Next_AssignObject(t)
  PROVE  IInv'
<1> USE Names DEF IInv, Next_AssignObject
<1>h. PICK h : h = H(t)
  OBVIOUS
<1>o. PICK o : o = job[t].fresh
  OBVIOUS
<1>1. /\ pc[t] = "next" /\ pc[t] # "idle" /\ t \in Working
      /\ h \in made /\ h \in Handle /\ ref[h].object = NULL
      /\ \A u \in Working : u # t => H(u) # h /\ job[u].g # h
  BY <1>h, Work DEF Disciplined, Working
<1>2. /\ o \in Object /\ o # NULL /\ object[o] = "new" /\ mutex[o] = "new"
      /\ \A u \in Working : u # t => job[u].fresh # o
  BY <1>o, <1>1, Work DEF FreshKept, MutexLives, Job
<1>3. /\ pc' \in [Thread -> {"idle", "lock", "drop", "free", "next", "lockCopy", "count"}]
      /\ job' \in [Thread -> Job \cup {NoJob}]
      /\ Working' = Working \ {t} /\ t \in Working
      /\ \A u \in Thread : u # t => pc'[u] = pc[u] /\ job'[u] = job[u] /\ H(u)' = H(u)
  BY <1>1, FinishLeaves
<1>4. pc'[t] = "idle"
  BY DEF Finish, Goto, TypeOK
<1>5. /\ ref'[h] = [object |-> o, mutex |-> NULL]
      /\ \A p \in Handle : p # h => ref'[p] = ref[p]
      /\ ref' \in [Handle -> Pointers]
      /\ count'[o] = 1 /\ \A p \in Object : p # o => count'[p] = count[p]
      /\ object'[o] = "alive" /\ \A p \in Object : p # o => object'[p] = object[p]
      /\ object' \in [Object -> {"new", "alive", "deleted", "detached"}]
  BY <1>h, <1>o, <1>1, <1>2 DEF TypeOK, Pointers
<1>6. Uncounted' = Uncounted /\ h \notin Uncounted
  BY <1>1, <1>3, <1>4 DEF Uncounted, H, Working
<1>7. Holders(o) = {} /\ \A p \in made : ref[p].object # o
  BY <1>2 DEF Counted, Pointing
<1>8. Holders(o)' = {h}
  BY <1>1, <1>5, <1>6, <1>7 DEF Holders, TypeOK
<1>9. \A p \in Object : p # o => Holders(p)' = Holders(p)
  BY <1>1, <1>2, <1>5, <1>6 DEF Holders, TypeOK
<1>10. Counted'
  <2> SUFFICES ASSUME NEW p \in Object
               PROVE  /\ count'[p] = Cardinality(Holders(p)')
                      /\ object'[p] = "alive" <=> Holders(p)' # {}
    BY DEF Counted
  <2>1. ASSUME p = o
        PROVE  /\ count'[o] = Cardinality(Holders(o)')
               /\ object'[o] = "alive" <=> Holders(o)' # {}
    <3>1. Cardinality({h}) = 1 /\ {h} # {}
      BY FS_Singleton
    <3> QED
      BY <3>1, <1>5, <1>8
  <2>2. ASSUME p # o
        PROVE  /\ count'[p] = Cardinality(Holders(p)')
               /\ object'[p] = "alive" <=> Holders(p)' # {}
    BY <2>2, <1>5, <1>9 DEF Counted
  <2> QED
    BY <2>1, <2>2
<1>11. TypeOK'
  <2>1. Cardinality({h}) = 1 /\ Cardinality({h}) \in 0 .. Cardinality(Handle)
    BY <1>1, FS_Singleton, HandlesFinite
  <2>2. count' \in [Object -> 0 .. Cardinality(Handle)]
    BY <1>o, <2>1 DEF TypeOK
  <2> QED
    BY <2>2, <1>3, <1>5 DEF TypeOK
<1>12. Disciplined'
  <2> SUFFICES ASSUME NEW u \in Working'
               PROVE  /\ job[u] \in Job /\ {H(u), job[u].g} \subseteq made
                      /\ \A v \in Working : v # u => H(v) \notin {H(u), job[u].g}
                      /\ job[u].op \in {"copy", "assign"} <=> H(u) # job[u].g
                      /\ job[u].op = "copy" => pc[u] \in Copying
                      /\ pc[u] \in Copying =>
                           job[u].op \in {"copy", "assign"} /\ ref'[H(u)] = ref'[job[u].g]
                      /\ pc[u] \in {"free", "next"} => ref'[H(u)].object = NULL
    BY <1>3 DEF Disciplined, H, Working
  <2>1. u \in Working /\ u \in Thread /\ u # t /\ pc[u] # "idle"
    BY <1>3 DEF Working
  <2>2. H(u) # h /\ job[u].g # h /\ H(u) \in Handle /\ job[u].g \in Handle
    BY <2>1, <1>1, Work
  <2>3. ref'[H(u)] = ref[H(u)] /\ ref'[job[u].g] = ref[job[u].g]
    BY <2>2, <1>5
  <2> QED
    BY <2>1, <2>3 DEF Disciplined
<1>13. FreshKept'
  <2> SUFFICES ASSUME NEW u \in Working, u # t
               PROVE  /\ job[u].op = "assignObject" <=> job[u].fresh # NULL
                      /\ job[u].fresh # NULL =>
                           /\ object'[job[u].fresh] = "new"
                           /\ \A v \in Working : v # u => job[v].fresh # job[u].fresh
    BY <1>3 DEF FreshKept, Working
  <2>1. job[u].fresh # o /\ job[u].fresh \in Object \cup {NULL}
    BY <1>2, Work DEF Job, Working
  <2> QED
    BY <2>1, <1>5 DEF FreshKept
<1>14. Pointing'
  <2> SUFFICES ASSUME NEW p \in made, ref'[p].object # NULL
               PROVE  /\ object'[ref'[p].object] = "alive"
                      /\ ref'[p].mutex = IF mutex[ref'[p].object] = "new" THEN NULL
                                         ELSE ref'[p].object
    BY DEF Pointing
  <2>1. CASE p = h
    BY <2>1, <1>2, <1>5
  <2>2. CASE p # h
    <3>1. ref'[p] = ref[p] /\ ref[p].object \in Object /\ ref[p].object # o
      BY <2>2, <1>5, <1>7 DEF TypeOK, Pointers
    <3> QED
      BY <3>1, <1>5 DEF Pointing
  <2> QED
    BY <2>1, <2>2
<1>15. MutexLives' /\ NothingLeft'
  BY <1>2, <1>5 DEF MutexLives, NothingLeft
<1>16. Doomed'
  BY <1>1, <1>2, <1>3, <1>4, <1>5 DEF Doomed, TypeOK, Gone
<1>17. Inside'
  <2> SUFFICES ASSUME NEW p \in Object, holder[p] # NULL
               PROVE  pc'[holder[p]] \in {"drop", "count"} /\ ref'[H(holder[p])'].mutex = p
    BY DEF Inside, H
  <2>1. holder[p] \in Thread /\ holder[p] # t /\ holder[p] \in Working /\ H(holder[p]) \in Handle
    BY <1>1, Work DEF Inside, TypeOK, Working
  <2> QED
    BY <2>1, <1>1, <1>3, <1>5 DEF Inside
<1> QED
  BY <1>10, <1>11, <1>12, <1>13, <1>14, <1>15, <1>16, <1>17

LEMMA CountKeeps ==
  ASSUME IInv, NEW t \in Thread, Count(t)
  PROVE  IInv'
<1> USE Names DEF IInv, Count
<1>h. PICK h : h = H(t)
  OBVIOUS
<1>o. PICK o : o = ref[h].object
  OBVIOUS
<1>1. /\ pc[t] = "count" /\ pc[t] # "idle" /\ t \in Working /\ h \in made /\ h \in Handle
      /\ o \in Object \cup {NULL}
      /\ \A u \in Working : u # t => H(u) # h
  BY <1>h, <1>o, Work DEF Working, TypeOK, Pointers
<1>2. /\ pc' \in [Thread -> {"idle", "lock", "drop", "free", "next", "lockCopy", "count"}]
      /\ job' \in [Thread -> Job \cup {NoJob}]
      /\ Working' = Working \ {t} /\ t \in Working
      /\ \A u \in Thread : u # t => pc'[u] = pc[u] /\ job'[u] = job[u] /\ H(u)' = H(u)
  BY <1>1, FinishLeaves
<1>3. pc'[t] = "idle"
  BY DEF Finish, Goto, TypeOK
<1>4. count' = IF o = NULL THEN count ELSE [count EXCEPT ![o] = @ + 1]
  BY <1>h, <1>o
<1>5. Uncounted' = Uncounted \ {h} /\ h \in Uncounted
  <2>1. h \in Uncounted
    BY <1>h, <1>1 DEF Uncounted, H
  <2>2. Uncounted' = {H(u) : u \in {v \in Thread \ {t} : pc[v] \in {"lockCopy", "count"}}}
    BY <1>2, <1>3 DEF Uncounted, H
  <2>3. Uncounted = Uncounted' \cup {h}
    BY <2>1, <2>2, <1>h DEF Uncounted, H
  <2>4. h \notin Uncounted'
    BY <2>2, <1>1 DEF Working
  <2> QED
    BY <2>1, <2>3, <2>4
<1>6. o # NULL => Holders(o)' = Holders(o) \cup {h} /\ h \notin Holders(o) /\ object[o] = "alive"
  <2>1. o # NULL => Holders(o)' = Holders(o) \cup {h} /\ h \notin Holders(o)
    BY <1>o, <1>1, <1>5 DEF Holders
  <2>2. o # NULL => object[o] = "alive"
    BY <1>o, <1>1 DEF Pointing
  <2> QED
    BY <2>1, <2>2
<1>7. \A p \in Object : p # o => Holders(p)' = Holders(p)
  BY <1>o, <1>5 DEF Holders
<1>8. \A p \in Object : Holders(p) \in SUBSET Handle
  BY DEF Holders, TypeOK
<1>9. Counted'
  <2> SUFFICES ASSUME NEW p \in Object
               PROVE  /\ count'[p] = Cardinality(Holders(p)')
                      /\ object[p] = "alive" <=> Holders(p)' # {}
    BY DEF Counted
  <2>1. ASSUME p = o
        PROVE  /\ count'[o] = Cardinality(Holders(o)')
               /\ object[o] = "alive" <=> Holders(o)' # {}
    <3>1. o \in Object /\ o # NULL /\ count'[o] = count[o] + 1
      BY <2>1, <1>4 DEF TypeOK
    <3>2. IsFiniteSet(Holders(o)) /\ count[o] = Cardinality(Holders(o))
      BY <3>1, <1>8, HandlesFinite DEF Counted
    <3> QED
      BY <3>1, <3>2, <1>6, FS_AddElement
  <2>2. ASSUME p # o
        PROVE  /\ count'[p] = Cardinality(Holders(p)')
               /\ object[p] = "alive" <=> Holders(p)' # {}
    <3>1. count'[p] = count[p]
      BY <2>2, <1>4 DEF TypeOK
    <3> QED
      BY <2>2, <3>1, <1>7 DEF Counted
  <2> QED
    BY <2>1, <2>2
<1>10. TypeOK'
  <2>1. count' = [p \in Object |-> count'[p]]
    BY <1>1, <1>4 DEF TypeOK
  <2>2. \A p \in Object : Holders(p)' \in SUBSET Handle
    BY <1>1, <1>6, <1>7, <1>8
  <2>3. \A p \in Object : count'[p] \in 0 .. Cardinality(Handle)
    BY <2>2, <1>9, HandlesFinite DEF Counted
  <2>4. count' \in [Object -> 0 .. Cardinality(Handle)]
    BY <2>1, <2>3
  <2>5. holder' \in [Object -> Thread \cup {NULL}]
    BY UnlockLeaves
  <2> QED
    BY <2>4, <2>5, <1>2 DEF TypeOK
<1>11. Disciplined'
  BY <1>2 DEF Disciplined, H, Working
<1>12. FreshKept'
  BY <1>2 DEF FreshKept, Working
<1>13. Pointing' /\ MutexLives' /\ NothingLeft'
  BY DEF Pointing, MutexLives, NothingLeft
<1>14. Doomed'
  BY <1>1, <1>2, <1>3 DEF Doomed
<1>15. Inside'
  <2> SUFFICES ASSUME NEW p \in Object, holder'[p] # NULL
               PROVE  pc'[holder'[p]] \in {"drop", "count"} /\ ref[job'[holder'[p]].h].mutex = p
    BY DEF Inside, H
  <2>1. /\ holder'[p] = holder[p] /\ holder[p] # t /\ holder[p] \in Thread
        /\ pc[holder[p]] \in {"drop", "count"} /\ ref[H(holder[p])].mutex = p
    BY UnlockLeaves
  <2> QED
    BY <2>1, <1>2 DEF H
<1> QED
  BY <1>9, <1>10, <1>11, <1>12, <1>13, <1>14, <1>15

LEMMA StepIInv == IInv /\ [Next]_vars => IInv'
<1> SUFFICES ASSUME IInv, [Next]_vars PROVE IInv'
  OBVIOUS
<1>1. ASSUME NEW h \in Handle, NEW o \in Object, NEW threadSafe \in BOOLEAN, New(h, o, threadSafe)
      PROVE  IInv'
  BY <1>1, NewKeeps
<1>2. ASSUME NEW t \in Thread, NEW h \in Handle, NEW g \in Handle, BeginCopy(t, h, g)
      PROVE  IInv'
  BY <1>2, BeginCopyKeeps
<1>3. ASSUME NEW t \in Thread, NEW op \in Ops, NEW h \in Handle, NEW g \in Handle,
             NEW fresh \in Object \cup {NULL}, BeginRelease(t, op, h, g, fresh)
      PROVE  IInv'
  BY <1>3, BeginReleaseKeeps
<1>4. ASSUME NEW t \in Thread, Lock(t) \/ Drop(t) \/ Free(t) \/ Count(t)
      PROVE  IInv'
  BY <1>4, LockKeeps, DropKeeps, FreeKeeps, CountKeeps
<1>5. ASSUME NEW t \in Thread, Next_DestroyOrDetach(t) \/ Next_Assign(t) \/ Next_AssignObject(t)
      PROVE  IInv'
  BY <1>5, DestroyOrDetachKeeps, AssignKeeps, AssignObjectKeeps
<1>6. CASE UNCHANGED vars
  <2>1. Working' = Working /\ \A o \in Object : Holders(o)' = Holders(o)
    BY <1>6 DEF vars, Working, Holders, Uncounted
  <2>2. TypeOK' /\ Disciplined' /\ FreshKept' /\ Pointing'
    BY <1>6, <2>1 DEF vars, IInv, TypeOK, Disciplined, FreshKept, Pointing, H
  <2>3. Counted'
    BY <1>6, <2>1 DEF vars, IInv, Counted
  <2>4. MutexLives' /\ Doomed' /\ Inside' /\ NothingLeft'
    BY <1>6 DEF vars, IInv, MutexLives, Doomed, Inside, NothingLeft, H
  <2> QED
    BY <2>2, <2>3, <2>4 DEF IInv
<1> QED
  BY <1>1, <1>2, <1>3, <1>4, <1>5, <1>6 DEF Next

(* The inductive invariant: of references, operations, counters and mutexes *)
(* together.                                                                *)
THEOREM Invariance == Spec => []IInv
<1> QED
  BY InitIInv, StepIInv, PTL DEF Spec

LEMMA NobodyElseReaches ==
  ASSUME IInv
  PROVE  CountsTrue /\ SharedMutexAlive
<1> USE Names DEF IInv
<1>1. CountsTrue
  BY DEF CountsTrue, Counted, Pointing, TypeOK, Pointers
<1>2. ASSUME NEW h \in made, ref[h].object # NULL, ref[h].mutex # NULL
      PROVE  ref[h].mutex = ref[h].object /\ mutex[ref[h].mutex] = "alive"
             /\ object[ref[h].mutex] = "alive"
  <2>1. ref[h].object \in Object /\ object[ref[h].object] = "alive"
        /\ ref[h].mutex = ref[h].object
    BY <1>2 DEF Pointing, TypeOK, Pointers
  <2> QED
    BY <2>1, <1>2 DEF Pointing, MutexLives, TypeOK, Gone
<1>3. ASSUME NEW t \in Working, doomed[t] # NULL
      PROVE  /\ mutex[doomed[t]] = "alive"
             /\ \A h \in made : ref[h].mutex = doomed[t] => ref[h].object = NULL
             /\ holder[doomed[t]] # NULL => ref[H(holder[doomed[t]])].object = NULL
  <2>1. t \in Thread /\ doomed[t] \in Object /\ object[doomed[t]] \in Gone
        /\ mutex[doomed[t]] = "alive"
    BY <1>3 DEF Doomed, Working, TypeOK
  <2>2. \A h \in made : ref[h].mutex = doomed[t] => ref[h].object = NULL
    BY <1>2, <1>3, <2>1 DEF Gone
  <2>3. ASSUME holder[doomed[t]] # NULL PROVE ref[H(holder[doomed[t]])].object = NULL
    <3>1. holder[doomed[t]] \in Thread /\ pc[holder[doomed[t]]] # "idle"
          /\ ref[H(holder[doomed[t]])].mutex = doomed[t]
      BY <2>1, <2>3 DEF Inside, TypeOK
    <3>2. H(holder[doomed[t]]) \in made
      BY <3>1, Work
    <3> QED
      BY <3>1, <3>2, <2>2
  <2> QED
    BY <2>1, <2>2, <2>3
<1>4. SharedMutexAlive
  BY <1>2, <1>3 DEF SharedMutexAlive
<1> QED
  BY <1>1, <1>4

(* YetiReferences.h:18-26, 42-55, 96-108: however copies, assignments and   *)
(* destructions interleave, the counter is the number of references that    *)
(* have been counted, and an object is alive exactly as long as it has one: *)
(* no thread reaches an object that another one deleted.                    *)
THEOREM CounterRight == Spec => []CountsTrue
<1>1. IInv => CountsTrue
  BY NobodyElseReaches
<1> QED
  BY <1>1, Invariance, PTL

(* YetiReferences.h:99, 110-115: no reference to an object is left with a   *)
(* deleted mutex, and the thread that deletes a mutex is the only one that  *)
(* could still reach the object through it.                                 *)
THEOREM MutexSafe == Spec => []SharedMutexAlive
<1>1. IInv => SharedMutexAlive
  BY NobodyElseReaches
<1> QED
  BY <1>1, Invariance, PTL

(* YetiReferences.h:101-114: when the object is gone its mutex is gone too, *)
(* or one thread is about to delete it.                                     *)
THEOREM NoMutexLeaks == Spec => []NothingLeft
<1>1. IInv => NothingLeft
  BY DEF IInv
<1> QED
  BY <1>1, Invariance, PTL
=============================================================================
