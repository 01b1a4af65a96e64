----------------------------- MODULE Notifier -----------------------------
(***************************************************************************)
(* What the way from a Docker event to a reconcile run promises, without   *)
(* goroutines, channels and timers: a single flag.  Whoever is told of a   *)
(* change raises it, and it may only be lowered by looking at Docker again *)
(* - so every change somebody was told of is followed by a look at Docker. *)
(* Changes nobody is told of are made up for by looking without a reason.  *)
(***************************************************************************)
EXTENDS Integers

VARIABLES
  version,  \* the state of Docker, numbered
  told,     \* its version when a change was last reported
  looked,   \* its version when it was last looked at
  raised,   \* the flag
  open      \* FALSE once the process is being stopped

vars == <<version, told, looked, raised, open>>

Change == /\ version' = version + 1
          /\ UNCHANGED <<told, looked, raised, open>>

Tell == /\ told' = version /\ raised' = TRUE
        /\ UNCHANGED <<version, looked, open>>

\* Another reason to look: a timer, or a report that comes in parts.
Raise == /\ raised' = TRUE
         /\ UNCHANGED <<version, told, looked, open>>

\* Looking at Docker, whether it answers or not.
Look == /\ raised \/ ~open
        /\ looked' = version
        /\ raised' \in BOOLEAN
        /\ UNCHANGED <<version, told, open>>

\* While the process is being stopped, reports are dropped.
Stop == /\ open' = FALSE
        /\ UNCHANGED <<version, told, looked, raised>>
Drop == /\ ~open /\ raised' = FALSE
        /\ UNCHANGED <<version, told, looked, open>>

Init == /\ version = 1 /\ told = 0 /\ looked = 0
        /\ raised = TRUE /\ open = TRUE

Next == Change \/ Tell \/ Raise \/ Look \/ Stop \/ Drop

Spec == Init /\ [][Next]_vars

\* The point of it: what was reported and not looked at yet keeps the flag up.
NothingForgotten == open /\ told > looked => raised

=============================================================================
