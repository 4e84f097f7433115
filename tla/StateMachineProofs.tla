-------------------------- MODULE StateMachineProofs --------------------------
(***************************************************************************)
(* Proofs about StateMachine, for every tree of states, every choice of    *)
(* histories and of persistent states, and any number of events.           *)
(***************************************************************************)
EXTENDS StateMachine, TLAPS

(* Exits of YetiStateMachine.cpp:113-130: the walk that stops early leaves   *)
(* exactly the states above cur that are not above next, and next itself.    *)
LEMMA ExitsAre ==
  ASSUME NEW cur \in State, NEW next \in State
  PROVE  Exits(cur, next) = {a \in Above[cur] \ {Root} : a = next \/ a \notin Above[next]}
<1> DEFINE Stay == Above[next] \ {next}
<1>1. ASSUME NEW a \in Above[cur] \ {Root}, a = next \/ a \notin Above[next],
             NEW b \in Above[cur], a \in Above[b], b \in Stay
      PROVE  FALSE
  <2>1. /\ b \in State /\ b \in Above[next] /\ b # next /\ Above[b] \subseteq Above[next]
    BY <1>1, TreeAssumption
  <2>2. a = next
    BY <1>1, <2>1
  <2> QED BY <1>1, <2>1, <2>2, TreeAssumption
<1>2. \A a \in Above[cur] \ {Root} : a \in Above[a]
  BY TreeAssumption
<1> QED BY <1>1, <1>2 DEF Exits, Climb, isChild

(* Entries of YetiStateMachine.cpp:97-111: exactly the states above next     *)
(* that are not above prev, and next itself.                                 *)
LEMMA EntriesAre ==
  ASSUME NEW prev \in State, NEW next \in State
  PROVE  Entries(prev, next) = {a \in Above[next] \ {Root} : a = next \/ a \notin Above[prev]}
<1> DEFINE Stay == Above[prev] \ {next}
<1>1. ASSUME NEW a \in Above[next] \ {Root}, a = next \/ a \notin Above[prev],
             NEW b \in Above[next], a \in Above[b], b \in Stay
      PROVE  FALSE
  <2>1. b \in State /\ b \in Above[prev] /\ b # next /\ Above[b] \subseteq Above[prev]
    BY <1>1, TreeAssumption
  <2>2. a = next
    BY <1>1, <2>1
  <2> QED BY <1>1, <2>1, <2>2, TreeAssumption
<1>2. \A a \in Above[next] \ {Root} : a \in Above[a]
  BY TreeAssumption
<1> QED BY <1>1, <1>2 DEF Entries, Climb, isChild

(* A transition: what is exited was on the path, what is entered was not, or *)
(* has just been exited, and the outcome is the path to the next state.      *)
LEMMA PathMoves ==
  ASSUME NEW cur \in State, NEW next \in State
  PROVE  LET outs == Exits(cur, next)
             ins == Entries(cur, next)
             from == Above[cur] \ {Root}
             to == Above[next] \ {Root}
         IN /\ outs \subseteq from /\ ins \subseteq to
            /\ ins \cap (from \ outs) = {}
            /\ (from \ outs) \cup ins = to
BY ExitsAre, EntriesAre

(* The substate of h on the way to s is one, and no other lies between.      *)
LEMMA ChildTowardIs ==
  ASSUME NEW s \in State, NEW h \in Above[s], h # s
  PROVE  /\ ChildToward(h, s) \in Below(h)
         /\ Below(h) \cap Above[ChildToward(h, s)] = {ChildToward(h, s)}
<1> DEFINE OnTheWay(c) ==
      h \in Above[c] /\ \A d \in Above[s] \ {h} : h \in Above[d] => c \in Above[d]
<1> DEFINE c == ChildToward(h, s)
<1>1. \E x \in Above[s] \ {h} : OnTheWay(x)
  BY TreeAssumption
<1>2. c \in Above[s] \ {h} /\ OnTheWay(c)
  <2>1. c = CHOOSE x \in Above[s] \ {h} : OnTheWay(x)
    BY DEF ChildToward, isChild
  <2> HIDE DEF OnTheWay, c
  <2> QED BY <1>1, <2>1
<1> HIDE DEF c
<1>3. c \in State /\ Above[c] \subseteq Above[s] /\ c \in Above[c]
  BY <1>2, TreeAssumption
<1>4. c \in Below(h)
  BY <1>2, <1>3 DEF Below, isChild
<1>5. ASSUME NEW d \in Below(h) \cap Above[c]
      PROVE  d = c
  <2>1. d \in State /\ d \in Above[s] \ {h} /\ h \in Above[d]
    BY <1>3 DEF Below, isChild
  <2> QED BY <1>2, <1>3, <2>1, TreeAssumption
<1> QED BY <1>3, <1>4, <1>5 DEF c

(* What a superstate that keeps a history remembers of s lies below it.      *)
LEMMA RememberedIsBelow ==
  ASSUME NEW s \in State, NEW h \in Above[s], h # s, Kind[h] # "none"
  PROVE  /\ Remembered(h, s) \in Below(h)
         /\ Kind[h] = "shallow" =>
              Below(h) \cap Above[Remembered(h, s)] = {Remembered(h, s)}
<1>0. h \in State
  BY TreeAssumption
<1>1. CASE Kind[h] = "shallow"
  BY <1>1, ChildTowardIs DEF Remembered
<1>2. CASE Kind[h] = "deep"
  BY <1>2 DEF Remembered, Below, isChild
<1> QED BY <1>0, <1>1, <1>2, StateAssumption

-----------------------------------------------------------------------------
(* The steps that touch neither the path, the boxes nor the histories.       *)
Quiet == UNCHANGED <<history, box, entered, lastIn>>

LEMMA QuietStep ==
  ASSUME IInv, Quiet, Active' = Active,
         current = Root /\ ~closing => current' = Root /\ ~closing'
  PROVE  (EnteredIsPath /\ BoxesFollow /\ HistoryBelow /\ HistoryRemembers)'
<1> USE DEF IInv, Quiet
<1>1. EnteredIsPath'
  BY DEF EnteredIsPath
<1>2. BoxesFollow'
  BY DEF BoxesFollow
<1>3. HistoryBelow'
  BY DEF HistoryBelow
<1>4. HistoryRemembers'
  BY DEF HistoryRemembers
<1> QED BY <1>1, <1>2, <1>3, <1>4

(* A machine that has not been built yet satisfies the invariant.            *)
LEMMA InvInit == Init => IInv
<1> SUFFICES ASSUME Init PROVE IInv
  OBVIOUS
<1> USE DEF Init
<1>1. TypeOK
  <2>1. budget \in 0 .. Dispatches
    BY StateAssumption
  <2>2. entered \in [State -> {0, 1}]
    OBVIOUS
  <2> QED BY <2>1, <2>2 DEF TypeOK, Initializer
<1>2. PhaseOK
  BY TreeAssumption DEF PhaseOK
<1>3. EnteredIsPath /\ BoxesFollow /\ HistoryBelow
  BY DEF EnteredIsPath, BoxesFollow, HistoryBelow, Active
<1>4. HistoryRemembers
  BY DEF HistoryRemembers
<1> QED BY <1>1, <1>2, <1>3, <1>4 DEF IInv

-----------------------------------------------------------------------------
(* The round of rattleOn that exits, remembers and enters.                   *)
LEMMA TransitStep ==
  ASSUME IInv, Transit
  PROVE  IInv'
<1> DEFINE next == pending.to
           outs == Exits(current, next)
           ins == Entries(current, next)
           from == Above[current] \ {Root}
           to == Above[next] \ {Root}
<1>1. /\ current \in State /\ next \in State /\ pending \in Request
      /\ next = Root <=> closing
      /\ Active = from /\ Active' = to /\ current' = next
  <2>1. pending # NoRequest /\ phase = "rattle" /\ current' = next
    BY DEF Transit
  <2>2. current \in State /\ pending \in Request
    BY <2>1 DEF IInv, TypeOK, PhaseOK
  <2>3. next \in State /\ (next = Root <=> closing)
    BY <2>1, <2>2 DEF IInv, PhaseOK, Request
  <2> QED BY <2>1, <2>2, <2>3, TreeAssumption DEF Active
<1>2. /\ outs \subseteq from /\ ins \subseteq to
      /\ ins \cap (from \ outs) = {}
      /\ (from \ outs) \cup ins = to
  BY <1>1, PathMoves
<1>3. /\ entered' = [s \in State |-> entered[s] - (IF s \in outs THEN 1 ELSE 0)
                                               + (IF s \in ins THEN 1 ELSE 0)]
      /\ box' = BoxesAfter(outs, ins)
      /\ lastIn' = [s \in State |->
                      IF s \in outs /\ Kind[s] # "none" THEN current ELSE lastIn[s]]
      /\ history' = SavedHistory(current)
  BY DEF Transit
<1> HIDE DEF next, outs, ins, from, to
<1>4. EnteredIsPath'
  <2> SUFFICES ASSUME NEW s \in State
               PROVE  entered'[s] = IF s \in to THEN 1 ELSE 0
    BY <1>1 DEF EnteredIsPath
  <2>1. entered[s] = IF s \in from THEN 1 ELSE 0
    BY <1>1 DEF IInv, EnteredIsPath
  <2>2. entered'[s] = entered[s] - (IF s \in outs THEN 1 ELSE 0)
                                 + (IF s \in ins THEN 1 ELSE 0)
    BY <1>3
  <2>3. CASE s \in outs
    BY <1>2, <2>1, <2>2, <2>3
  <2>4. CASE s \notin outs
    BY <1>2, <2>1, <2>2, <2>4
  <2> QED BY <2>3, <2>4
<1>5. BoxesFollow'
  <2> SUFFICES ASSUME NEW s \in State
               PROVE  /\ s \in to => box'[s]
                      /\ box'[s] /\ s \notin to =>
                           s \in Persistent \/ (s = Top /\ next = Root /\ ~closing)
    BY <1>1 DEF BoxesFollow, Transit
  <2>1. box'[s] <=> s \in ins \/ (box[s] /\ (s \in outs => s \in Persistent))
    BY <1>3 DEF BoxesAfter
  <2>2. /\ s \in from => box[s]
        /\ box[s] /\ s \notin from =>
             s \in Persistent \/ (s = Top /\ current = Root /\ ~closing)
    BY <1>1 DEF IInv, BoxesFollow
  <2>3. s = Top /\ ~closing => s \in to
    BY <1>1, StateAssumption, TreeAssumption DEF to
  <2> QED BY <1>2, <2>1, <2>2, <2>3
<1>6. HistoryBelow'
  <2> SUFFICES ASSUME NEW h \in State, history'[h] # NULL
               PROVE  /\ Kind[h] # "none"
                      /\ history'[h] \in Below(h)
                      /\ Kind[h] = "shallow" => Below(h) \cap Above[history'[h]] = {history'[h]}
    BY DEF HistoryBelow
  <2>1. CASE h # current /\ isChild(current, h) /\ Kind[h] # "none"
    BY <1>1, <1>3, <2>1, RememberedIsBelow DEF SavedHistory, isChild
  <2>2. CASE ~(h # current /\ isChild(current, h) /\ Kind[h] # "none")
    BY <1>3, <2>2 DEF SavedHistory, IInv, HistoryBelow
  <2> QED BY <2>1, <2>2
<1>7. HistoryRemembers'
  <2> SUFFICES ASSUME NEW h \in State, h \notin to
               PROVE  \/ lastIn'[h] = h
                      \/ history'[h] = IF lastIn'[h] = NULL THEN NULL ELSE Remembered(h, lastIn'[h])
    BY <1>1 DEF HistoryRemembers
  <2>1. CASE h \in outs /\ Kind[h] # "none"
    <3>1. lastIn'[h] = current /\ current # NULL
      BY <1>1, <1>3, <2>1, TreeAssumption
    <3>2. isChild(current, h)
      BY <1>2, <2>1 DEF from, isChild
    <3>3. h # current => history'[h] = Remembered(h, current)
      BY <1>3, <2>1, <3>2 DEF SavedHistory
    <3> QED BY <3>1, <3>3
  <2>2. CASE ~(h \in outs /\ Kind[h] # "none")
    <3>1. lastIn'[h] = lastIn[h]
      BY <1>3, <2>2
    <3>2. Kind[h] # "none" => h \notin from
      BY <1>2, <2>2
    <3>3. history'[h] = history[h]
      BY <1>3, <3>2, StateAssumption DEF SavedHistory, from, isChild
    <3>4. Kind[h] = "none" => history[h] = NULL /\ Remembered(h, lastIn[h]) = NULL
      BY DEF IInv, HistoryBelow, Remembered
    <3> QED BY <1>1, <3>1, <3>2, <3>3, <3>4 DEF IInv, HistoryRemembers
  <2> QED BY <2>1, <2>2
<1>8. PhaseOK'
  BY <1>1, TreeAssumption DEF IInv, PhaseOK, Transit
<1>9. TypeOK'
  <2>1. entered' \in [State -> {0, 1}]
    BY <1>3, <1>4 DEF EnteredIsPath
  <2>2. box' \in [State -> BOOLEAN]
    BY <1>3 DEF BoxesAfter, IInv, TypeOK
  <2>3. lastIn' \in [State -> State \cup {NULL}]
    BY <1>1, <1>3 DEF IInv, TypeOK
  <2>4. history' \in [State -> State \cup {NULL}]
    <3> SUFFICES ASSUME NEW h \in State, history'[h] # NULL
                 PROVE  history'[h] \in State
      BY <1>3 DEF SavedHistory
    <3> QED BY <1>6 DEF HistoryBelow, Below
  <2> QED BY <1>1, <2>1, <2>2, <2>3, <2>4 DEF IInv, TypeOK, Transit, Request
<1> QED BY <1>4, <1>5, <1>6, <1>7, <1>8, <1>9 DEF IInv

(* Going on to a history, and the user's init: only current may forget.      *)
LEMMA ForgetStep ==
  ASSUME IInv, phase = "init", current' = current, closing' = closing,
         UNCHANGED <<box, entered, lastIn>>,
         history' = history \/ history' = [history EXCEPT ![current] = NULL]
  PROVE  (EnteredIsPath /\ BoxesFollow /\ HistoryBelow /\ HistoryRemembers)'
<1>1. current \in State /\ Active' = Active
  BY DEF IInv, TypeOK, PhaseOK, Active
<1>2. EnteredIsPath' /\ BoxesFollow'
  BY <1>1 DEF IInv, EnteredIsPath, BoxesFollow
<1>3. \A h \in State : history'[h] = history[h] \/ history'[h] = NULL
  BY DEF IInv, TypeOK
<1>4. HistoryBelow'
  BY <1>3 DEF IInv, HistoryBelow
<1>5. HistoryRemembers'
  <2> SUFFICES ASSUME NEW h \in State, h \notin Active
               PROVE  history'[h] = history[h]
    BY <1>1 DEF IInv, HistoryRemembers
  <2>1. h # current \/ h = Root
    BY <1>1, TreeAssumption DEF Active
  <2>2. history[Root] = NULL
    BY TreeAssumption, StateAssumption DEF IInv, HistoryBelow
  <2> QED BY <2>1, <2>2 DEF IInv, TypeOK
<1> QED BY <1>2, <1>4, <1>5

(* Clearing histories.                                                       *)
LEMMA ClearStep ==
  ASSUME IInv, NEW hs, ClearHistory(hs)
  PROVE  IInv'
<1> USE DEF IInv, ClearHistory
<1>1. Active' = Active
  BY DEF Active
<1>2. TypeOK' /\ PhaseOK'
  BY DEF TypeOK, PhaseOK
<1>3. EnteredIsPath' /\ BoxesFollow'
  BY <1>1 DEF EnteredIsPath, BoxesFollow
<1>4. \A h \in State : \/ history'[h] = NULL /\ lastIn'[h] = NULL
                       \/ history'[h] = history[h] /\ lastIn'[h] = lastIn[h]
  OBVIOUS
<1>5. HistoryBelow'
  BY <1>4 DEF HistoryBelow
<1>6. HistoryRemembers'
  BY <1>1, <1>4 DEF HistoryRemembers
<1> QED BY <1>2, <1>3, <1>5, <1>6

(* Every step keeps the invariant.                                           *)
LEMMA InvStep == IInv /\ [Next]_vars => IInv'
<1> SUFFICES ASSUME IInv, [Next]_vars PROVE IInv'
  OBVIOUS
<1> DEFINE Rest == (EnteredIsPath /\ BoxesFollow /\ HistoryBelow /\ HistoryRemembers)'
<1>1. ASSUME NEW to \in State \ {Root}, NEW init \in Initializer, NEW brought \in BOOLEAN,
             Construct(to, init, brought)
      PROVE  IInv'
  <2> USE <1>1 DEF Construct
  <2>1. TypeOK'
    BY TreeAssumption DEF IInv, TypeOK, Request
  <2>2. PhaseOK'
    BY TreeAssumption DEF IInv, PhaseOK, NoRequest
  <2>3. Active = {} /\ Active' = {}
    BY TreeAssumption DEF IInv, PhaseOK, Active
  <2>4. EnteredIsPath' /\ HistoryBelow' /\ HistoryRemembers'
    BY <2>3 DEF IInv, EnteredIsPath, HistoryBelow, HistoryRemembers
  <2>5. BoxesFollow'
    BY <2>3 DEF IInv, TypeOK, PhaseOK, BoxesFollow
  <2> QED BY <2>1, <2>2, <2>4, <2>5 DEF IInv
<1>2. ASSUME HandleEvent PROVE IInv'
  <2>1. TypeOK' /\ PhaseOK'
    BY <1>2 DEF HandleEvent, IInv, TypeOK, PhaseOK
  <2>2. Rest
    BY <1>2, QuietStep DEF HandleEvent, Quiet, Active
  <2> QED BY <2>1, <2>2 DEF IInv
<1>3. ASSUME NEW to \in State \ {Root}, NEW init \in Initializer, SetState(to, init)
      PROVE  IInv'
  <2>1. TypeOK' /\ PhaseOK'
    BY <1>3, TreeAssumption DEF SetState, IInv, TypeOK, PhaseOK, Request, NoRequest
  <2>2. Rest
    BY <1>3, QuietStep DEF SetState, Quiet, Active
  <2> QED BY <2>1, <2>2 DEF IInv
<1>4. ASSUME Dispatch PROVE IInv'
  <2>1. TypeOK' /\ PhaseOK'
    BY <1>4, StateAssumption DEF Dispatch, IInv, TypeOK, PhaseOK
  <2>2. Rest
    BY <1>4, QuietStep DEF Dispatch, Quiet, Active
  <2> QED BY <2>1, <2>2 DEF IInv
<1>5. ASSUME NEW s \in State \ {Root}, ClearHistory({s}) \/ ClearHistory({s} \cup Below(s))
      PROVE  IInv'
  BY <1>5, ClearStep
<1>6. ASSUME HandlerReturns PROVE IInv'
  <2>1. TypeOK' /\ PhaseOK'
    BY <1>6 DEF HandlerReturns, IInv, TypeOK, PhaseOK
  <2>2. Rest
    BY <1>6, QuietStep DEF HandlerReturns, Quiet, Active
  <2> QED BY <2>1, <2>2 DEF IInv
<1>7. ASSUME Transit PROVE IInv'
  BY <1>7, TransitStep
<1>8. ASSUME InitFromHistory PROVE IInv'
  <2> USE <1>8 DEF InitFromHistory
  <2>1. current \in State /\ pending = NoRequest
    BY DEF IInv, TypeOK, PhaseOK
  <2>2. history[current] \in State \ {current} /\ current \in Above[history[current]]
    BY <2>1 DEF IInv, HistoryBelow, Below, isChild
  <2>3. current # Root /\ history[current] # Root
    BY <2>1, <2>2, TreeAssumption, StateAssumption DEF IInv, HistoryBelow
  <2>4. TypeOK'
    BY <2>1, <2>2 DEF IInv, TypeOK, Request, Initializer
  <2>5. PhaseOK'
    BY <2>1, <2>2, <2>3, TreeAssumption DEF IInv, PhaseOK, NoRequest
  <2>6. Rest
    BY ForgetStep
  <2> QED BY <2>4, <2>5, <2>6 DEF IInv
<1>9. ASSUME NEW next \in {r \in Request : r.to # Root} \cup {NoRequest}, InitByUser(next)
      PROVE  IInv'
  <2> USE <1>9 DEF InitByUser
  <2>1. current \in State /\ pending = NoRequest
    BY DEF IInv, TypeOK, PhaseOK
  <2>2. TypeOK'
    BY <2>1 DEF IInv, TypeOK
  <2>3. PhaseOK'
    BY <2>1, TreeAssumption DEF IInv, PhaseOK, Below, Request
  <2>4. Rest
    BY ForgetStep
  <2> QED BY <2>2, <2>3, <2>4 DEF IInv
<1>10. ASSUME DispatchPending PROVE IInv'
  <2>1. TypeOK' /\ PhaseOK'
    BY <1>10 DEF DispatchPending, IInv, TypeOK, PhaseOK
  <2>2. Rest
    BY <1>10, QuietStep DEF DispatchPending, Quiet, Active
  <2> QED BY <2>1, <2>2 DEF IInv
<1>11. ASSUME Settle PROVE IInv'
  <2>1. TypeOK' /\ PhaseOK'
    BY <1>11, TreeAssumption DEF Settle, IInv, TypeOK, PhaseOK
  <2>2. Active' = Active /\ (current = Root => closing)
    BY <1>11, TreeAssumption DEF Settle, IInv, PhaseOK, Active
  <2>3. Rest
    BY <1>11, <2>2, QuietStep DEF Settle, Quiet
  <2> QED BY <2>1, <2>3 DEF IInv
<1>12. ASSUME Shutdown PROVE IInv'
  <2>1. TypeOK' /\ PhaseOK'
    BY <1>12, TreeAssumption DEF Shutdown, IInv, TypeOK, PhaseOK, Request, Initializer, NoRequest
  <2>2. current # Root
    BY <1>12 DEF Shutdown, IInv, PhaseOK
  <2>3. Rest
    BY <1>12, <2>2, QuietStep DEF Shutdown, Quiet, Active
  <2> QED BY <2>1, <2>3 DEF IInv
<1>13. CASE UNCHANGED vars
  <2>1. TypeOK' /\ PhaseOK'
    BY <1>13 DEF vars, IInv, TypeOK, PhaseOK
  <2>2. Rest
    BY <1>13, QuietStep DEF vars, Quiet, Active
  <2> QED BY <2>1, <2>2 DEF IInv
<1> QED BY <1>1, <1>2, <1>3, <1>4, <1>5, <1>6, <1>7, <1>8, <1>9, <1>10, <1>11, <1>12, <1>13
     DEF Next

-----------------------------------------------------------------------------
(* rattleOn, the handlers and the shutdown (YetiStateMachine.cpp:226-365)    *)
(* never break the invariant.                                                *)
THEOREM Invariance == Spec => []IInv
BY InvInit, InvStep, PTL DEF Spec

(* Entries and exits (YetiStateMachine.cpp:97-130) balance in every tree.    *)
THEOREM EntriesBalance == Spec => []EnteredIsPath
<1>1. IInv => EnteredIsPath
  BY DEF IInv
<1> QED BY <1>1, Invariance, PTL

(* A handler or init always finds the boxes of the states it runs in         *)
(* (YetiStateMachine.h:588-592), and no box outlives its state unasked.      *)
THEOREM BoxesKept == Spec => []BoxesFollow
<1>1. IInv => BoxesFollow
  BY DEF IInv
<1> QED BY <1>1, Invariance, PTL

(* The history of a state leads below it (YetiStateMachine.cpp:132-144).     *)
THEOREM HistorySafe == Spec => []HistoryBelow
<1>1. IInv => HistoryBelow
  BY DEF IInv
<1> QED BY <1>1, Invariance, PTL

(* ... and to where the machine was when it left the state.                  *)
THEOREM HistoryTrue == Spec => []HistoryRemembers
<1>1. IInv => HistoryRemembers
  BY DEF IInv
<1> QED BY <1>1, Invariance, PTL

(* A state below another: its path is longer, and going there exits nothing. *)
LEMMA DescentIs ==
  ASSUME NEW s \in State, NEW d \in Below(s)
  PROVE  /\ Exits(s, d) = {}
         /\ Above[s] \subseteq Above[d] /\ d \in Above[d] \ Above[s]
<1>1. d \in State /\ d # s /\ s \in Above[d]
  BY DEF Below, isChild
<1>2. Above[s] \subseteq Above[d] /\ d \in Above[d] /\ d \notin Above[s]
  BY <1>1, TreeAssumption
<1>3. Exits(s, d) = {a \in Above[s] \ {Root} : a = d \/ a \notin Above[d]}
  BY <1>1, ExitsAre
<1> QED BY <1>2, <1>3

(* YetiStateMachine.cpp:295-365: whatever an init asks for, on its own or    *)
(* because of what its state remembers, no state is exited for it and the    *)
(* path grows: a transition costs rattleOn at most as many rounds as the     *)
(* tree has levels.                                                          *)
THEOREM InitsOnlyDescend ==
  Spec => [][phase = "init" /\ pending' # NoRequest =>
               /\ Exits(current, pending'.to) = {}
               /\ Above[current] \subseteq Above[pending'.to]
               /\ pending'.to \in Above[pending'.to] \ Above[current]]_vars
<1>1. ASSUME IInv, [Next]_vars, phase = "init", pending' # NoRequest
      PROVE  current \in State /\ pending'.to \in Below(current)
  <2>1. current \in State /\ pending = NoRequest
    BY <1>1 DEF IInv, TypeOK, PhaseOK
  <2>2. InitFromHistory \/ \E next \in {r \in Request : r.to # Root} \cup {NoRequest} : InitByUser(next)
    BY <1>1, <2>1 DEF Next, vars, Construct, HandleEvent, SetState, Dispatch, ClearHistory,
                      HandlerReturns, Transit, DispatchPending, Settle, Shutdown
  <2>3. CASE InitFromHistory
    BY <1>1, <2>1, <2>3 DEF InitFromHistory, IInv, HistoryBelow
  <2>4. CASE \E next \in {r \in Request : r.to # Root} \cup {NoRequest} : InitByUser(next)
    BY <1>1, <2>1, <2>4 DEF InitByUser
  <2> QED BY <2>1, <2>2, <2>3, <2>4
<1>2. IInv /\ [Next]_vars =>
        [phase = "init" /\ pending' # NoRequest =>
           /\ Exits(current, pending'.to) = {}
           /\ Above[current] \subseteq Above[pending'.to]
           /\ pending'.to \in Above[pending'.to] \ Above[current]]_vars
  BY <1>1, DescentIs
<1> QED BY <1>2, Invariance, PTL DEF Spec
=============================================================================
