------------------------- MODULE Win32SharedVariable -------------------------
(***************************************************************************)
(* One Win32SharedVariable (yeti/Source/System/Win32/YetiWin32Thread.cpp): *)
(* an integer under a mutex, and an auto-reset event that set_value        *)
(* signals when the value changes.  The event forgets a signal as soon as  *)
(* ONE waiter has been released by it.                                     *)
(*                                                                         *)
(* The operators are the steps a caller's thread takes.  m_lock_ is only   *)
(* held inside one of them, so it needs no variable of its own.            *)
(***************************************************************************)
EXTENDS Integers

VARIABLES
  value,      \* m_value_
  signalled   \* the state of m_event_

(* set_value: a value that does not change anything wakes nobody. *)
SetValue(v) ==
  /\ value' = v
  /\ signalled' = (signalled \/ value # v)

(* One return from m_event_.wait(): the signal is used up. *)
Consume ==
  /\ signalled
  /\ signalled' = FALSE
  /\ UNCHANGED value

(* The wait can only time out while the event is not signalled. *)
MayTimeOut == ~signalled
=============================================================================
