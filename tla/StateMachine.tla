----------------------------- MODULE StateMachine -----------------------------
(***************************************************************************)
(* yeti/Source/Core/YetiStateMachine: a hierarchical state machine.  Each  *)
(* state lies below its superstate, Root above all of them.  Handlers and  *)
(* init methods ask for transitions, rattleOn performs them: it exits the  *)
(* states that are left, remembers where they were left for the states     *)
(* that keep a history, enters the new ones and runs the init of the last. *)
(*                                                                         *)
(* One thread drives a machine.  A step is one call into the user's code   *)
(* or one round of rattleOn's inner loop: exit and entry methods may       *)
(* neither ask for a transition nor dispatch, so a round is one step.      *)
(***************************************************************************)
EXTENDS Naturals, FiniteSets

CONSTANTS
  State,        \* the states, with Root
  Root,         \* _RootInstance
  Top,          \* the user's top state
  Above,        \* Above[s]: s and all its superstates
  Kind,         \* Kind[s]: the history s keeps: "none", "shallow" or "deep"
  Persistent,   \* the states declared FSM_PERSISTENT
  Dispatches    \* bound: the events handlers dispatch in the life of a machine

NULL == "NULL"
Initializer == {"default", "history", "param"}
Request == [to : State, init : Initializer]
NoRequest == [to |-> NULL, init |-> "default"]

(* Above describes a tree of which Root is the root: the superstates of a    *)
(* state are a chain, and a state below h is, or is below, a substate of h.  *)
ASSUME TreeAssumption ==
  /\ Root \in State /\ Top \in State \ {Root} /\ NULL \notin State
  /\ Above \in [State -> SUBSET State]
  /\ Above[Root] = {Root}
  /\ \A s \in State :
       /\ s \in Above[s] /\ Root \in Above[s]
       /\ \A a \in Above[s] : Above[a] \subseteq Above[s]
       /\ \A h \in Above[s] \ {s} : \E c \in Above[s] \ {h} :
            /\ h \in Above[c]
            /\ \A d \in Above[s] \ {h} : h \in Above[d] => c \in Above[d]
  /\ \A a, b \in State : a \in Above[b] /\ b \in Above[a] => a = b
ASSUME StateAssumption ==
  /\ \A s \in State \ {Root} : Top \in Above[s]
  /\ Kind \in [State -> {"none", "shallow", "deep"}] /\ Kind[Root] = "none"
  /\ Persistent \subseteq State
  /\ Dispatches \in Nat

VARIABLES
  phase,     \* who runs: "off": nobody yet; "idle": the caller; "handler", "init":
             \* that method of current; "rattle": rattleOn; "gone": destroyed
  current,   \* myCurrentState
  pending,   \* myPendingState and myPendingInit
  starting,  \* the initializer that was pending when init runs
  event,     \* an event is pending
  closing,   \* shutdown has been called
  history,   \* history[s]: myHistory
  box,       \* box[s]: s has a box (myBox)
  budget,    \* the events that may still be dispatched
  entered,   \* ghost: the entries of s minus its exits
  lastIn     \* ghost: for a state with a history, where the machine was when it was
             \* last exited, unless cleared since

vars == <<phase, current, pending, starting, event, closing, history, box,
          budget, entered, lastIn>>

TypeOK ==
  /\ phase \in {"off", "idle", "handler", "init", "rattle", "gone"}
  /\ current \in State \cup {NULL}
  /\ pending \in Request \cup {NoRequest}
  /\ starting \in Initializer
  /\ event \in BOOLEAN /\ closing \in BOOLEAN
  /\ history \in [State -> State \cup {NULL}]
  /\ box \in [State -> BOOLEAN]
  /\ budget \in 0 .. Dispatches
  /\ entered \in [State -> {0, 1}]
  /\ lastIn \in [State -> State \cup {NULL}]

Init ==
  /\ phase = "off" /\ current = NULL
  /\ pending = NoRequest /\ starting = "default"
  /\ event = FALSE /\ closing = FALSE
  /\ history = [s \in State |-> NULL]
  /\ box = [s \in State |-> FALSE]
  /\ budget = Dispatches
  /\ entered = [s \in State |-> 0]
  /\ lastIn = [s \in State |-> NULL]

-----------------------------------------------------------------------------
(* _StateInstance: the walks up the tree *)

isChild(s, a) == a \in Above[s]
Below(s) == {d \in State \ {s} : isChild(d, s)}

(* The states of the path from s to the top that the walk of exit or entry *)
(* reaches: it goes on to the superstate while stop does not hold of one.   *)
Climb(s, stops) == {a \in Above[s] \ {Root} : \A b \in Above[s] : isChild(b, a) => b \notin stops}

Exits_StopAtTarget(cur, next) == Climb(cur, Above[next])

(* exit: a self transition, or the next state is not a substate. *)
Exits(cur, next) == Climb(cur, Above[next] \ {next})

(* entry: the first, or the previous state is not a substate. *)
Entries(prev, next) == Climb(next, Above[prev] \ {next})

(* The substate of h on the way to s. *)
ChildToward(h, s) ==
  CHOOSE c \in Above[s] \ {h} :
    isChild(c, h) /\ \A d \in Above[s] \ {h} : isChild(d, h) => isChild(d, c)

(* What h remembers of a machine that was in s. *)
Remembered(h, s) ==
  CASE Kind[h] = "none" -> NULL
    [] Kind[h] = "shallow" -> ChildToward(h, s)
    [] Kind[h] = "deep" -> s

SavedHistory_NoBubble(s) ==
  [h \in State |-> IF Below(h) \cap Above[s] = {s} /\ Kind[h] # "none"
                   THEN Remembered(h, s) ELSE history[h]]

(* setHistorySuper: all superstates of s that keep a history. *)
SavedHistory(s) ==
  [h \in State |->
     IF h # s /\ isChild(s, h) /\ Kind[h] # "none" THEN Remembered(h, s) ELSE history[h]]

(* Exits delete the boxes that do not persist, entries create missing ones. *)
BoxesAfter(outs, ins) ==
  [s \in State |-> s \in ins \/ (box[s] /\ (s \in outs => s \in Persistent))]

-----------------------------------------------------------------------------
(* The machine *)

(* The constructor: Top or what an alias says; the caller may bring the box *)
(* of Top.                                                                  *)
Construct(to, init, brought) ==
  /\ phase = "off"
  /\ current' = Root
  /\ pending' = [to |-> to, init |-> init]
  /\ box' = [box EXCEPT ![Top] = brought]
  /\ phase' = "rattle"
  /\ UNCHANGED <<starting, event, closing, history, budget, entered, lastIn>>

(* An event from outside. *)
HandleEvent ==
  /\ phase = "idle"
  /\ phase' = "handler"
  /\ UNCHANGED <<current, pending, starting, event, closing, history, box, budget,
                 entered, lastIn>>

(* The handler asks for a transition; to may be what history(), an alias of *)
(* it or StateHistory answers, which is a state too.                        *)
SetState(to, init) ==
  /\ phase = "handler"
  /\ pending = NoRequest
  /\ pending' = [to |-> to, init |-> init]
  /\ UNCHANGED <<phase, current, starting, event, closing, history, box, budget,
                 entered, lastIn>>

(* The handler leaves an event for the state the machine will be in. *)
Dispatch ==
  /\ phase = "handler"
  /\ ~event /\ budget > 0
  /\ event' = TRUE
  /\ budget' = budget - 1
  /\ UNCHANGED <<phase, current, pending, starting, closing, history, box, entered, lastIn>>

(* clearHistory and clearHistoryDeep. *)
ClearHistory(hs) ==
  /\ phase \in {"idle", "handler"}
  /\ history' = [h \in State |-> IF h \in hs THEN NULL ELSE history[h]]
  /\ lastIn' = [h \in State |-> IF h \in hs THEN NULL ELSE lastIn[h]]
  /\ UNCHANGED <<phase, current, pending, starting, event, closing, box, budget, entered>>

HandlerReturns_NoAdvice ==
  /\ phase = "handler"
  /\ phase' = "idle"
  /\ UNCHANGED <<current, pending, starting, event, closing, history, box, budget,
                 entered, lastIn>>

(* The AfterAdvice: rattleOn takes over. *)
HandlerReturns ==
  /\ phase = "handler"
  /\ phase' = "rattle"
  /\ UNCHANGED <<current, pending, starting, event, closing, history, box, budget,
                 entered, lastIn>>

(* rattleOn: exits, history, entries. *)
Transit ==
  /\ phase = "rattle" /\ pending # NoRequest
  /\ LET outs == Exits(current, pending.to)
         ins == Entries(current, pending.to)
     IN /\ entered' = [s \in State |->
                         entered[s] - (IF s \in outs THEN 1 ELSE 0)
                                    + (IF s \in ins THEN 1 ELSE 0)]
        /\ box' = BoxesAfter(outs, ins)
        /\ lastIn' = [s \in State |-> IF s \in outs /\ Kind[s] # "none" THEN current ELSE lastIn[s]]
  /\ history' = SavedHistory(current)
  /\ current' = pending.to
  /\ starting' = pending.init
  /\ pending' = NoRequest
  /\ phase' = "init"
  /\ UNCHANGED <<event, closing, budget>>

(* The history initializer goes on to the state that is remembered. *)
InitFromHistory ==
  /\ phase = "init"
  /\ starting = "history" /\ history[current] # NULL
  /\ pending' = [to |-> history[current], init |-> "default"]
  /\ history' = [history EXCEPT ![current] = NULL]
  /\ phase' = "rattle"
  /\ UNCHANGED <<current, starting, event, closing, box, budget, entered, lastIn>>

(* The user's init asks for nothing or for a proper substate.  An init with *)
(* parameters is called past _StateInstance::init and keeps the history.    *)
InitByUser(next) ==
  /\ phase = "init"
  /\ ~(starting = "history" /\ history[current] # NULL)
  /\ next # NoRequest => current # Root /\ next.to \in Below(current)
  /\ pending' = next
  /\ history' = IF starting = "param" THEN history ELSE [history EXCEPT ![current] = NULL]
  /\ phase' = "rattle"
  /\ UNCHANGED <<current, starting, event, closing, box, budget, entered, lastIn>>

DispatchPending_KeepEvent ==
  /\ phase = "rattle" /\ pending = NoRequest /\ event
  /\ phase' = "handler"
  /\ UNCHANGED <<current, pending, starting, event, closing, history, box, budget,
                 entered, lastIn>>

(* No transition is pending: the pending event goes to the new state. *)
DispatchPending ==
  /\ phase = "rattle" /\ pending = NoRequest /\ event
  /\ event' = FALSE
  /\ phase' = "handler"
  /\ UNCHANGED <<current, pending, starting, closing, history, box, budget, entered, lastIn>>

Settle ==
  /\ phase = "rattle" /\ pending = NoRequest /\ ~event
  /\ phase' = IF closing THEN "gone" ELSE "idle"
  /\ current' = IF closing THEN NULL ELSE current
  /\ UNCHANGED <<pending, starting, event, closing, history, box, budget, entered, lastIn>>

(* The destructor of the machine goes to Root. *)
Shutdown ==
  /\ phase = "idle"
  /\ closing' = TRUE
  /\ pending' = [to |-> Root, init |-> "default"]
  /\ phase' = "rattle"
  /\ UNCHANGED <<current, starting, event, history, box, budget, entered, lastIn>>

Next ==
  \/ \E to \in State \ {Root}, init \in Initializer, brought \in BOOLEAN :
       Construct(to, init, brought)
  \/ HandleEvent
  \/ \E to \in State \ {Root}, init \in Initializer : SetState(to, init)
  \/ Dispatch
  \/ \E s \in State \ {Root} : ClearHistory({s}) \/ ClearHistory({s} \cup Below(s))
  \/ HandlerReturns
  \/ Transit
  \/ InitFromHistory
  \/ \E next \in {r \in Request : r.to # Root} \cup {NoRequest} : InitByUser(next)
  \/ DispatchPending \/ Settle \/ Shutdown

Spec == Init /\ [][Next]_vars

(* Fairness: the one thread goes on, and the user's methods return. *)
Fairness == WF_vars(HandlerReturns \/ Transit \/ InitFromHistory \/ InitByUser(NoRequest)
                    \/ DispatchPending \/ Settle)
FairSpec == Spec /\ Fairness

-----------------------------------------------------------------------------
Active == IF current = NULL THEN {} ELSE Above[current] \ {Root}

(* YetiStateMachine.cpp:97-130: whatever transitions are asked for, every    *)
(* entry is matched by one exit: between two rounds of rattleOn exactly the  *)
(* current state and its superstates have been entered once more than they   *)
(* were exited, and after the shutdown no state is left entered.             *)
EnteredIsPath == \A s \in State : entered[s] = IF s \in Active THEN 1 ELSE 0

(* YetiStateMachine.cpp:108, 123-125; .h:95-98, 588-592: the box of a state  *)
(* is there whenever the state or a substate of it is current, and otherwise *)
(* only if the state is persistent (or Top's was brought and not yet used).  *)
BoxesFollow ==
  \A s \in State :
    /\ s \in Active => box[s]
    /\ box[s] /\ s \notin Active => s \in Persistent \/ (s = Top /\ current = Root /\ ~closing)

(* YetiStateMachine.cpp:339-343 asserts that init only goes to proper        *)
(* substates: what a state remembers is a proper substate (shallow: one of   *)
(* its own), so going on to the history keeps that promise.                  *)
HistoryBelow ==
  \A h \in State : history[h] # NULL =>
    /\ Kind[h] # "none"
    /\ history[h] \in Below(h)
    /\ Kind[h] = "shallow" => Below(h) \cap Above[history[h]] = {history[h]}

(* YetiStateMachine.cpp:132-144, 307-313: the history of a state that is not *)
(* active is where the machine was when it left the state, however it got    *)
(* there; if it was in the state itself, it may be what was there before an  *)
(* init with parameters.                                                     *)
HistoryRemembers ==
  \A h \in State : h \notin Active =>
    \/ lastIn[h] = h
    \/ history[h] = IF lastIn[h] = NULL THEN NULL ELSE Remembered(h, lastIn[h])

(* What the phase says of the rest. *)
PhaseOK ==
  /\ phase \in {"off", "gone"} <=> current = NULL
  /\ phase = "off" => ~closing
  /\ phase \in {"idle", "handler"} => ~closing
  /\ pending = NoRequest /\ current # NULL => (current = Root <=> closing)
  /\ phase \in {"off", "idle", "init"} => pending = NoRequest
  /\ phase = "idle" \/ closing => ~event
  /\ pending # NoRequest => (pending.to = Root <=> closing)

(* The invariant that carries its own proof: the properties above, and that  *)
(* rattleOn (YetiStateMachine.cpp:295-365) and the assertions of .h:1646-1650 *)
(* and .cpp:228 find what they rely on: no transition or event is left       *)
(* pending when the caller has the machine, and only the shutdown is at Root. *)
IInv ==
  TypeOK /\ PhaseOK /\ EnteredIsPath /\ BoxesFollow /\ HistoryBelow /\ HistoryRemembers

(* YetiStateMachine.cpp:295-365: while handlers do not dispatch for ever,    *)
(* rattleOn comes back: init goes down the tree and an event is used up.     *)
RattleEnds == phase \notin {"off", "idle"} ~> phase \in {"idle", "gone"}
=============================================================================
