---------------------------- MODULE EventBaseMC ----------------------------
(***************************************************************************)
(* Small instances of EventBase: the .cfg files give the events their      *)
(* kinds and priorities by membership in three sets.                       *)
(***************************************************************************)
EXTENDS EventBase, TLC

CONSTANTS
  IoEvent, SignalEvent,   \* the other events are pure timers
  Low                     \* callbacks with priority number 1; the others have 0

MCKind == [ e \in Event |-> IF e \in IoEvent THEN "io"
                            ELSE IF e \in SignalEvent THEN "signal" ELSE "timer" ]
MCPriority == [ c \in Callback |-> IF c \in Low THEN 1 ELSE 0 ]
MCUnlimited == -1    \* max_dispatch_time.tv_sec of a base without a limit
=============================================================================
