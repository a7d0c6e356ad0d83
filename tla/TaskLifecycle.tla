---------------------------- MODULE TaskLifecycle ----------------------------
(***************************************************************************)
(* What the task manager promises of each task, without locks, requests,   *)
(* pids and goroutines: a status that follows the state diagram, an exit   *)
(* that is recorded once, and one notice of it, which is given after the   *)
(* exit and after which the task's exit code stays as it is.               *)
(***************************************************************************)
CONSTANTS
    Tasks,
    ExitCodes,
    None       \* not an exit code

VARIABLES
    phase,   \* the status the task shows
    exit,    \* how its process ended, None as long as that is not known
    code,    \* the exit code the task shows
    notice   \* of the exit: "none", then "sent", then "taken" by a waiter

vars == <<phase, exit, code, notice>>

Init ==
    /\ phase = [t \in Tasks |-> "unborn"]
    /\ exit = [t \in Tasks |-> None]
    /\ code = [t \in Tasks |-> 0]
    /\ notice = [t \in Tasks |-> "none"]

(* Created, started, paused, resumed.                                      *)
Moves(t, from, to) ==
    /\ phase[t] = from
    /\ phase' = [phase EXCEPT ![t] = to]
    /\ UNCHANGED <<exit, code, notice>>

(* The process has ended, whatever the status.                             *)
Exits(t) ==
    /\ phase[t] # "unborn"
    /\ exit[t] = None
    /\ \E c \in ExitCodes : exit' = [exit EXCEPT ![t] = c]
    /\ UNCHANGED <<phase, code, notice>>

(* A running task shows the exit, before anybody is told.                  *)
Stops(t) ==
    /\ phase[t] = "RUNNING"
    /\ exit[t] # None
    /\ notice[t] = "none"
    /\ phase' = [phase EXCEPT ![t] = "STOPPED"]
    /\ code' = [code EXCEPT ![t] = exit[t]]
    /\ UNCHANGED <<exit, notice>>

Notifies(t) ==
    /\ exit[t] # None
    /\ notice[t] = "none"
    /\ notice' = [notice EXCEPT ![t] = "sent"]
    /\ UNCHANGED <<phase, exit, code>>

(* One waiter takes the notice.                                            *)
Taken(t) ==
    /\ notice[t] = "sent"
    /\ notice' = [notice EXCEPT ![t] = "taken"]
    /\ UNCHANGED <<phase, exit, code>>

TaskNext(t) ==
    \/ Moves(t, "unborn", "CREATED")
    \/ Moves(t, "CREATED", "RUNNING")
    \/ Moves(t, "RUNNING", "PAUSED")
    \/ Moves(t, "PAUSED", "RUNNING")
    \/ Exits(t) \/ Stops(t) \/ Notifies(t) \/ Taken(t)

Next == \E t \in Tasks : TaskNext(t)

Spec == Init /\ [][Next]_vars
=============================================================================
