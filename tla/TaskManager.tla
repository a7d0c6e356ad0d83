----------------------------- MODULE TaskManager -----------------------------
(***************************************************************************)
(* The task manager of mini-containerd                                     *)
(* (mini-containerd/internal/task/task.go, behind the gRPC handlers of     *)
(* service.go): task objects, the operating-system process of each, the    *)
(* monitor goroutine that reaps it, and concurrent requests.               *)
(*                                                                         *)
(* Create and Delete hold m.mu throughout and are one step each.  The      *)
(* other requests look the task up under m.mu, release it, and go on with  *)
(* the object they found, which may have changed or been deleted from the  *)
(* map in between: one step per critical section of t.mu, per channel      *)
(* receive and per signal.  Delete reads t.Status without t.mu; the word   *)
(* it can see is the one before or the one after a concurrent write, which *)
(* is what the interleaving of steps gives it.                             *)
(***************************************************************************)
EXTENDS Integers

CONSTANTS
    Ids,        \* container ids
    Tasks,      \* task objects that can be allocated (bounds Create)
    Pids,       \* process ids of the operating system
    Threads,    \* concurrent gRPC requests
    PidReuse,   \* may the kernel give the pid of a reaped process away?
    None

ASSUME NoneAssumption == None \notin Tasks \cup Pids \cup {0, 1, -1}
ASSUME ReuseAssumption == PidReuse \in BOOLEAN

VARIABLES
    tasks,   \* m.tasks: id -> object, or None
    task,    \* the fields Status, Pid and ExitCode of each object
    os,      \* the process of each object: its state, pid and exit code
    mon,     \* where the monitor goroutine of each object is
    waitCh,  \* the channel of capacity one
    thr      \* each request: where it is, its object, the pid it read

vars == <<tasks, task, os, mon, waitCh, thr>>

-----------------------------------------------------------------------------
Status == {"CREATED", "RUNNING", "STOPPED", "PAUSED"}

(* WaitStatus.ExitStatus: 0, a failure, or -1 for a process that died of a *)
(* signal.                                                                 *)
ExitCodes == {0, 1, -1}

NoPid == None

Unborn == [status |-> "unborn", pid |-> NoPid, code |-> 0]

NoProcess == [state |-> "none", pid |-> NoPid, exit |-> 0]

Idle == [pc |-> "idle", task |-> None, pid |-> NoPid]

Init ==
    /\ tasks = [id \in Ids |-> None]
    /\ task = [t \in Tasks |-> Unborn]
    /\ os = [t \in Tasks |-> NoProcess]
    /\ mon = [t \in Tasks |-> "none"]
    /\ waitCh = [t \in Tasks |-> "empty"]
    /\ thr = [th \in Threads |-> Idle]

-----------------------------------------------------------------------------
(* The operating system.                                                   *)

(* The kernel keeps a pid until the process has been waited for.           *)
HoldsPid(t, p) == os[t].pid = p /\ os[t].state \in {"alive", "frozen", "zombie"}

FreePid(p) ==
    \A t \in Tasks : IF PidReuse THEN ~HoldsPid(t, p) ELSE os[t].pid # p

(* The processes after a signal sent to pid p: a zombie ignores it, and    *)
(* with no process of that pid the call fails.                             *)
Signalled(p, sig) ==
    [t \in Tasks |->
        IF HoldsPid(t, p)
        THEN CASE sig = "SIGKILL" /\ os[t].state # "zombie" ->
                        [os[t] EXCEPT !.state = "zombie", !.exit = -1]
               [] sig = "SIGSTOP" /\ os[t].state = "alive" ->
                        [os[t] EXCEPT !.state = "frozen"]
               [] sig = "SIGCONT" /\ os[t].state = "frozen" ->
                        [os[t] EXCEPT !.state = "alive"]
               [] OTHER -> os[t]
        ELSE os[t]]

(* A process ends by itself, or of a signal it does not survive.           *)
ProcessExits(t) ==
    /\ os[t].state = "alive"
    /\ \E c \in ExitCodes :
            os' = [os EXCEPT ![t].state = "zombie", ![t].exit = c]
    /\ UNCHANGED <<tasks, task, mon, waitCh, thr>>

-----------------------------------------------------------------------------
(* Create and Delete.                                                      *)

(* Mutant: the pid of the process is not recorded.                         *)
CreateMutant(id, t, p) ==
    /\ tasks[id] = None
    /\ task[t] = Unborn
    /\ FreePid(p)
    /\ task' = [task EXCEPT ![t].status = "CREATED"]
    /\ os' = [os EXCEPT ![t] = [state |-> "alive", pid |-> p, exit |-> 0]]
    /\ mon' = [mon EXCEPT ![t] = "waiting"]
    /\ tasks' = [tasks EXCEPT ![id] = t]
    /\ UNCHANGED <<waitCh, thr>>

(* cmd.Start really starts the program, and the monitor with it.           *)
Create(id, t, p) ==
    /\ tasks[id] = None
    /\ task[t] = Unborn
    /\ FreePid(p)
    /\ task' = [task EXCEPT ![t] = [status |-> "CREATED", pid |-> p, code |-> 0]]
    /\ os' = [os EXCEPT ![t] = [state |-> "alive", pid |-> p, exit |-> 0]]
    /\ mon' = [mon EXCEPT ![t] = "waiting"]
    /\ tasks' = [tasks EXCEPT ![id] = t]
    /\ UNCHANGED <<waitCh, thr>>

Delete(id) ==
    /\ tasks[id] # None
    /\ task[tasks[id]].status # "RUNNING"
    /\ tasks' = [tasks EXCEPT ![id] = None]
    /\ UNCHANGED <<task, os, mon, waitCh, thr>>

-----------------------------------------------------------------------------
(* The monitor goroutine that Create starts.                               *)

(* cmd.Wait returns: the kernel has forgotten the process.                 *)
MonitorReap(t) ==
    /\ mon[t] = "waiting"
    /\ os[t].state = "zombie"
    /\ os' = [os EXCEPT ![t].state = "reaped"]
    /\ mon' = [mon EXCEPT ![t] = "reaped"]
    /\ UNCHANGED <<tasks, task, waitCh, thr>>

(* Mutant: the raw wait status in place of ExitStatus().                   *)
MonitorUpdateRawMutant(t) ==
    /\ mon[t] = "reaped"
    /\ task' = [task EXCEPT ![t] =
            IF task[t].status = "RUNNING"
            THEN [status |-> "STOPPED", pid |-> NoPid, code |-> 256 * os[t].exit]
            ELSE [task[t] EXCEPT !.pid = NoPid]]
    /\ mon' = [mon EXCEPT ![t] = "updated"]
    /\ UNCHANGED <<tasks, os, waitCh, thr>>

(* Mutant: Pid is cleared only with the status.                            *)
MonitorUpdatePidMutant(t) ==
    /\ mon[t] = "reaped"
    /\ task' = [task EXCEPT ![t] =
            IF task[t].status = "RUNNING"
            THEN [status |-> "STOPPED", pid |-> NoPid, code |-> os[t].exit]
            ELSE task[t]]
    /\ mon' = [mon EXCEPT ![t] = "updated"]
    /\ UNCHANGED <<tasks, os, waitCh, thr>>

(* Mutant: the status changes whatever it was.                             *)
MonitorUpdateAnyMutant(t) ==
    /\ mon[t] = "reaped"
    /\ task' = [task EXCEPT ![t] =
            [status |-> "STOPPED", pid |-> NoPid, code |-> os[t].exit]]
    /\ mon' = [mon EXCEPT ![t] = "updated"]
    /\ UNCHANGED <<tasks, os, waitCh, thr>>

(* The critical section of t.mu.  Status and ExitCode change only if the   *)
(* task is RUNNING; Pid is cleared in any case.                            *)
MonitorUpdate(t) ==
    /\ mon[t] = "reaped"
    /\ task' = [task EXCEPT ![t] =
            IF task[t].status = "RUNNING"
            THEN [status |-> "STOPPED", pid |-> NoPid, code |-> os[t].exit]
            ELSE [task[t] EXCEPT !.pid = NoPid]]
    /\ mon' = [mon EXCEPT ![t] = "updated"]
    /\ UNCHANGED <<tasks, os, waitCh, thr>>

(* Mutant: waiters are told only about tasks that were RUNNING.            *)
MonitorSendMutant(t) ==
    /\ mon[t] = "updated"
    /\ waitCh' = IF task[t].status = "STOPPED"
                 THEN [waitCh EXCEPT ![t] = "full"]
                 ELSE waitCh
    /\ mon' = [mon EXCEPT ![t] = "done"]
    /\ UNCHANGED <<tasks, task, os, thr>>

(* The one send on waitCh.                                                 *)
MonitorSend(t) ==
    /\ mon[t] = "updated"
    /\ waitCh' = [waitCh EXCEPT ![t] = "full"]
    /\ mon' = [mon EXCEPT ![t] = "done"]
    /\ UNCHANGED <<tasks, task, os, thr>>

Monitor(t) == MonitorReap(t) \/ MonitorUpdate(t) \/ MonitorSend(t)

-----------------------------------------------------------------------------
(* Requests.                                                               *)

(* The lookup under m.mu.RLock that Start, Kill, Wait, Pause and Resume    *)
(* begin with.                                                             *)
Lookup(th, id, op) ==
    /\ thr[th] = Idle
    /\ tasks[id] # None
    /\ thr' = [thr EXCEPT ![th] = [pc |-> op, task |-> tasks[id], pid |-> NoPid]]
    /\ UNCHANGED <<tasks, task, os, mon, waitCh>>

(* The request answers.                                                    *)
Return(th) == thr' = [thr EXCEPT ![th] = Idle]

Start(th) ==
    LET t == thr[th].task IN
    /\ thr[th].pc = "start"
    /\ task' = IF task[t].status = "CREATED"
               THEN [task EXCEPT ![t].status = "RUNNING"]
               ELSE task
    /\ Return(th)
    /\ UNCHANGED <<tasks, os, mon, waitCh>>

(* Mutant: the status changes, SIGSTOP is not sent.                        *)
PauseMutant(th) ==
    LET t == thr[th].task IN
    /\ thr[th].pc = "pause"
    /\ task' = IF task[t].status = "RUNNING"
               THEN [task EXCEPT ![t].status = "PAUSED"]
               ELSE task
    /\ Return(th)
    /\ UNCHANGED <<tasks, os, mon, waitCh>>

(* Pause and Resume change the status and, if Pid is set, signal that pid, *)
(* all under t.mu.                                                         *)
Pause(th) ==
    LET t == thr[th].task IN
    /\ thr[th].pc = "pause"
    /\ IF task[t].status = "RUNNING"
       THEN /\ task' = [task EXCEPT ![t].status = "PAUSED"]
            /\ os' = Signalled(task[t].pid, "SIGSTOP")
       ELSE UNCHANGED <<task, os>>
    /\ Return(th)
    /\ UNCHANGED <<tasks, mon, waitCh>>

Resume(th) ==
    LET t == thr[th].task IN
    /\ thr[th].pc = "resume"
    /\ IF task[t].status = "PAUSED"
       THEN /\ task' = [task EXCEPT ![t].status = "RUNNING"]
            /\ os' = Signalled(task[t].pid, "SIGCONT")
       ELSE UNCHANGED <<task, os>>
    /\ Return(th)
    /\ UNCHANGED <<tasks, mon, waitCh>>

(* Kill reads t.Pid under t.mu and signals that number after unlocking.    *)
KillReadPid(th) ==
    LET t == thr[th].task IN
    /\ thr[th].pc = "kill"
    /\ IF task[t].pid = NoPid
       THEN Return(th)
       ELSE thr' = [thr EXCEPT ![th] =
                        [pc |-> "signal", task |-> t, pid |-> task[t].pid]]
    /\ UNCHANGED <<tasks, task, os, mon, waitCh>>

(* Mutant: the task is marked STOPPED as soon as it is signalled.          *)
KillSignalMutant(th, sig) ==
    /\ thr[th].pc = "signal"
    /\ os' = Signalled(thr[th].pid, sig)
    /\ task' = [task EXCEPT ![thr[th].task].status = "STOPPED"]
    /\ Return(th)
    /\ UNCHANGED <<tasks, mon, waitCh>>

(* SIGKILL takes effect at once.  What other signals do to a process that  *)
(* handles or ignores them is ProcessExits.                                *)
KillSignal(th, sig) ==
    /\ thr[th].pc = "signal"
    /\ os' = Signalled(thr[th].pid, sig)
    /\ Return(th)
    /\ UNCHANGED <<tasks, task, mon, waitCh>>

(* Mutant: Wait does not block on the channel.                             *)
WaitReceiveMutant(th) ==
    /\ thr[th].pc = "wait"
    /\ thr' = [thr EXCEPT ![th].pc = "exitcode"]
    /\ UNCHANGED <<tasks, task, os, mon, waitCh>>

WaitReceive(th) ==
    LET t == thr[th].task IN
    /\ thr[th].pc = "wait"
    /\ waitCh[t] = "full"
    /\ waitCh' = [waitCh EXCEPT ![t] = "taken"]
    /\ thr' = [thr EXCEPT ![th].pc = "exitcode"]
    /\ UNCHANGED <<tasks, task, os, mon>>

(* Wait reads ExitCode under t.mu and returns it.                          *)
WaitReturn(th) ==
    /\ thr[th].pc = "exitcode"
    /\ Return(th)
    /\ UNCHANGED <<tasks, task, os, mon, waitCh>>

Ops == {"start", "pause", "resume", "kill", "wait"}

(* The signals that the clients of this repository send.                   *)
Signals == {"SIGKILL", "SIGTERM"}

(* A request that has found its task goes on.                              *)
Proceed(th) ==
    \/ Start(th) \/ Pause(th) \/ Resume(th)
    \/ KillReadPid(th) \/ \E sig \in Signals : KillSignal(th, sig)
    \/ WaitReceive(th) \/ WaitReturn(th)

Next ==
    \/ \E id \in Ids, t \in Tasks, p \in Pids : Create(id, t, p)
    \/ \E id \in Ids : Delete(id)
    \/ \E t \in Tasks : Monitor(t) \/ ProcessExits(t)
    \/ \E th \in Threads, id \in Ids, op \in Ops : Lookup(th, id, op)
    \/ \E th \in Threads : Proceed(th)

Spec == Init /\ [][Next]_vars

-----------------------------------------------------------------------------
(* Properties.                                                             *)

Objects == [status : Status \cup {"unborn"}, pid : Pids \cup {NoPid}, code : ExitCodes]

Processes == [state : {"none", "alive", "frozen", "zombie", "reaped"},
              pid : Pids \cup {NoPid}, exit : ExitCodes]

Requests ==
    [pc : {"idle", "signal", "exitcode"} \cup Ops,
     task : Tasks \cup {None}, pid : Pids \cup {NoPid}]

(* Every field holds a value of its Go type.                               *)
TypeOK ==
    /\ tasks \in [Ids -> Tasks \cup {None}]
    /\ task \in [Tasks -> Objects]
    /\ os \in [Tasks -> Processes]
    /\ mon \in [Tasks -> {"none", "waiting", "reaped", "updated", "done"}]
    /\ waitCh \in [Tasks -> {"empty", "full", "taken"}]
    /\ thr \in [Threads -> Requests]

(* A task that says STOPPED has no process left, and the exit code it      *)
(* shows is the one the process ended with.                                *)
StoppedIsDead ==
    \A t \in Tasks :
        task[t].status = "STOPPED" =>
            os[t].state = "reaped" /\ task[t].code = os[t].exit

(* t.Pid is cleared only after the process is gone: Kill never refuses     *)
(* ("has no running process") while there is one.                          *)
PidUntilGone ==
    \A t \in Tasks :
        os[t].state \in {"alive", "frozen", "zombie"} => task[t].pid = os[t].pid

(* A Wait that got past the channel belongs to a process that has been     *)
(* reaped, and the exit code it is about to read no longer changes.        *)
WaitAfterExit ==
    \A th \in Threads :
        thr[th].pc = "exitcode" =>
            /\ os[thr[th].task].state = "reaped"
            /\ mon[thr[th].task] = "done"

(* The arrows of the state diagram.                                        *)
Arrows ==
    {<<"unborn", "CREATED">>, <<"CREATED", "RUNNING">>, <<"RUNNING", "STOPPED">>,
     <<"RUNNING", "PAUSED">>, <<"PAUSED", "RUNNING">>}

LegalStep ==
    \A t \in Tasks :
        task'[t].status # task[t].status =>
            <<task[t].status, task'[t].status>> \in Arrows

(* Every step moves a status along an arrow, requests that overtake each   *)
(* other, objects already deleted from the map and the monitor included.   *)
(* In particular STOPPED is final.                                         *)
LegalTransitions == [][LegalStep]_vars

(* The process of a PAUSED task does not execute, unless its pid was once  *)
(* another task's: Resume of that one signals the number it has noted.     *)
PausedIsFrozen ==
    \A t \in Tasks :
        /\ task[t].status = "PAUSED"
        /\ \A u \in Tasks \ {t} : os[u].pid # os[t].pid
        => os[t].state # "alive"

(* If a process ends while somebody waits for it, some waiter is told.     *)
ExitIsReported ==
    \A t \in Tasks :
        (/\ os[t].state \in {"zombie", "reaped"}
         /\ \E th \in Threads : thr[th].pc = "wait" /\ thr[th].task = t)
        ~> waitCh[t] = "taken"

(* Once the process is dead, the task object stops naming its pid.         *)
DeadPidIsCleared ==
    \A t \in Tasks : os[t].state = "zombie" ~> task[t].pid = NoPid

-----------------------------------------------------------------------------
(* What the manager promises of each task.                                 *)
Phase == [t \in Tasks |-> task[t].status]
Exit == [t \in Tasks |-> IF os[t].state = "reaped" THEN os[t].exit ELSE None]
Code == [t \in Tasks |-> task[t].code]
Notice == [t \in Tasks |-> IF waitCh[t] = "empty" THEN "none"
                           ELSE IF waitCh[t] = "full" THEN "sent" ELSE "taken"]

Lifecycle == INSTANCE TaskLifecycle WITH
    phase <- Phase, exit <- Exit, code <- Code, notice <- Notice

(* Whatever requests overtake each other and whatever object they hold,    *)
(* every step is, for one task at a time, a step of the lifecycle: Create, *)
(* Start, Pause and Resume move it along the diagram, the monitor records  *)
(* the exit, shows it if the task is RUNNING and only then sends the one   *)
(* value that one Wait receives; the code that Wait reads is final.        *)
ImplementsLifecycle == Lifecycle!Spec
=============================================================================
