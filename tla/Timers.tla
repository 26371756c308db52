------------------------------- MODULE Timers -------------------------------
(***************************************************************************)
(* What the timeouts of an event_base promise, however they are kept: an   *)
(* event that has been added with a timeout is activated by it no earlier  *)
(* than its time, at most once for each time it has been scheduled, and    *)
(* not after its deletion; a persistent event is scheduled again when it   *)
(* is run.  The base goes by a clock of its own, which may be behind but   *)
(* is never set back.                                                      *)
(***************************************************************************)
EXTENDS Naturals

CONSTANTS Event, Persist, Never, MaxTime

VARIABLES
  now,
  clock,      \* what the base takes for the time
  deadline,   \* for each event the time it is scheduled for, or Never
  fired       \* the events activated by their timeouts and not yet run

timersVars == <<now, clock, deadline, fired>>

Init ==
  /\ now = 0 /\ clock = 0
  /\ deadline = [e \in Event |-> Never]
  /\ fired = {}

\* The clock of the base may be set to the time, or a part of the way.
Look == clock' >= clock /\ clock' <= now'

\* The time of e becomes another one, which has not passed for the base.
Schedule(e) ==
  /\ deadline' = [deadline EXCEPT ![e] = deadline'[e]]
  /\ deadline'[e] \in Nat /\ deadline'[e] >= clock

Tick == now' \in {now, now + 1} /\ now' <= MaxTime /\ Look /\ UNCHANGED <<deadline, fired>>

\* A new timeout takes the place of the old one, and of an activation by the old one.
Add(e) ==
  /\ Schedule(e)
  /\ fired' = fired \ {e}
  /\ UNCHANGED <<now, clock>>

Delete(e) ==
  /\ deadline' = [deadline EXCEPT ![e] = Never]
  /\ fired' = fired \ {e}
  /\ UNCHANGED <<now, clock>>

Fire(S) ==
  /\ Look /\ UNCHANGED now
  /\ \A e \in S : deadline[e] # Never /\ deadline[e] <= clock'
  /\ deadline' = [e \in Event |-> IF e \in S THEN Never ELSE deadline[e]]
  /\ fired' = fired \cup S

Run(e) ==
  /\ e \in fired
  /\ fired' = fired \ {e}
  /\ IF e \in Persist THEN Schedule(e) ELSE UNCHANGED deadline
  /\ UNCHANGED <<now, clock>>

Next ==
  \/ Tick
  \/ \E e \in Event : Add(e) \/ Delete(e) \/ Run(e)
  \/ \E S \in SUBSET Event : Fire(S)

Spec == Init /\ [][Next]_timersVars
=============================================================================
