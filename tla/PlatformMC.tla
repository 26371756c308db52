----------------------------- MODULE PlatformMC -----------------------------
(***************************************************************************)
(* A small instance of Platform: three events on one fd, in different      *)
(* directions, and one on another; and two bases that use a signal one     *)
(* after the other, the first with two events.                             *)
(***************************************************************************)
EXTENDS Platform

CONSTANTS fd1, fd2, ev1, ev2, ev3, ev4, base1, base2, sig1, sig2, sig3, int

MCFdOf == [ ev \in MapEvent |-> IF ev = ev4 THEN fd2 ELSE fd1 ]
MCEventsOf == [ ev \in MapEvent |->
  CASE ev = ev1 -> {"read"} [] ev = ev2 -> {"read", "write"}
    [] ev = ev3 -> {"read", "closed"} [] ev = ev4 -> {"write"} ]
MCBaseOf == [ ev \in SignalEvent |-> IF ev = sig3 THEN base2 ELSE base1 ]
MCSignalOf == [ ev \in SignalEvent |-> int ]
=============================================================================
