---------------------------- MODULE MCStateMachine ----------------------------
(* An instance of StateMachine for TLC: Top over A and B, and A over A1.     *)
(* A keeps a deep history and Top a shallow one.                             *)
EXTENDS StateMachine

Parent == [Top |-> "Root", A |-> "Top", B |-> "Top", A1 |-> "A"]
Tree == {"Root"} \cup DOMAIN Parent

(* No state is more than three below Root. *)
Up(S) == S \cup {Parent[s] : s \in S \ {"Root"}}
TreeAbove == [s \in Tree |-> Up(Up(Up({s})))]

TreeKind == [s \in Tree |->
  CASE s = "A" -> "deep" [] s = "Top" -> "shallow" [] OTHER -> "none"]
=============================================================================
