------------------------- MODULE ContainerLifecycle -------------------------
(***************************************************************************)
(* The commands that run, stop and remove containers, over the task        *)
(* manager and the containers store of one mini-containerd: Run, Stop and  *)
(* Remove of mini-nerdctl/pkg/container, Exec of pkg/runtime, and the      *)
(* create, start and stop handlers of mini-docker/internal/api.            *)
(*                                                                         *)
(* A command is a sequence of gRPC calls, one action each.  The calls that *)
(* block in the daemon are requests of TaskManager, and a command can have *)
(* two of them: the Wait that the client library runs in a goroutine of    *)
(* its own, and the call the command makes meanwhile.  A command that is   *)
(* interrupted is gone at once; its requests stay, because no handler of   *)
(* the daemon looks at its context.                                        *)
(*                                                                         *)
(* A call may fail where the daemon or the image gives it a reason that is *)
(* not modelled here (unpacking, the spec, starting the program).          *)
(***************************************************************************)
EXTENDS TaskManager

CONSTANTS
    Clients,    \* commands; each is given once
    May,        \* what each of them may be
    Impatient,  \* the commands that may be interrupted
    DockerId    \* "docker-" + the pid of mini-dockerd: one id for all

Commands ==
    {"run", "run_detached", "stop", "rm", "rm_force", "exec",
     "docker_create", "docker_start", "docker_stop"}

ASSUME MayAssumption == May \in [Clients -> SUBSET Commands]
ASSUME ImpatientAssumption == Impatient \subseteq Clients
ASSUME IdAssumption == DockerId \in Ids /\ None \notin Ids
ASSUME ThreadAssumption == Threads = Clients \X {"call", "wait"}

(* uint32(n), as its upper and its lower sixteen bits: -1 becomes 2^32 - 1.*)
UInt32(n) == <<(n \div 65536) % 65536, n % 65536>>

(* The client library delivers an error of Wait as an exit status.         *)
UnknownExitStatus == UInt32(255)

(* What a command can receive from its channel.                            *)
ExitStatuses == {UInt32(code) : code \in ExitCodes} \cup {UnknownExitStatus}

ASSUME StatusAssumption == None \notin ExitStatuses

VARIABLES
    records,    \* the containers store: has it this id?
    snaps,      \* the ids that have a snapshot
    cmd         \* where each command is, and what it knows

lifecycleVars == <<vars, records, snaps, cmd>>

Call(c) == <<c, "call">>

Waiter(c) == <<c, "wait">>

(* own: the task a run or docker start has made; seen: the task that a     *)
(* stop or a removal found RUNNING, or that a run waits for; nopid: the    *)
(* client's task has pid 0; exit: the uint32 in the client's channel; cut: *)
(* interrupted.                                                            *)
NotGiven ==
    [op |-> "none", id |-> None, pc |-> "idle", own |-> None, seen |-> None,
     nopid |-> FALSE, exit |-> None, result |-> "none", cut |-> FALSE]

LifecycleInit ==
    /\ Init
    /\ records = [id \in Ids |-> FALSE]
    /\ snaps = [id \in Ids |-> FALSE]
    /\ cmd = [c \in Clients |-> NotGiven]

-----------------------------------------------------------------------------
(* The command c is at pc.                                                 *)
At(c, pc) == cmd[c].pc = pc /\ ~cmd[c].cut

Is(c, ops) == cmd[c].op \in ops

(* A command goes on with what it knows, or ends.                          *)
Becomes(c, new) == cmd' = [cmd EXCEPT ![c] = new]

Goes(c, pc) == Becomes(c, [cmd[c] EXCEPT !.pc = pc])

Ends(c, result) ==
    Becomes(c, [cmd[c] EXCEPT !.pc = "done", !.result = result])

Daemon == <<tasks, task, os, mon, waitCh, thr>>

Store == <<records, snaps>>

(* What the Get call of the task service says.                             *)
StatusOf(id) == IF tasks[id] = None THEN "NotFound" ELSE task[tasks[id]].status

Named(id) == \E d \in Clients : cmd[d].id = id

(* generateID never returns an id twice; the other commands name a         *)
(* container that somebody has asked for.                                  *)
Begin(c, op, id) ==
    /\ cmd[c] = NotGiven
    /\ CASE op \in {"run", "run_detached"}  -> id # DockerId /\ ~Named(id)
         [] op = "docker_create"      -> id = DockerId
         [] OTHER                     -> Named(id)
    /\ Becomes(c, [NotGiven EXCEPT !.op = op, !.id = id,
                    !.pc = IF op \in {"run", "run_detached", "docker_create"}
                           THEN "image" ELSE "load"])
    /\ UNCHANGED <<Daemon, Store>>

-----------------------------------------------------------------------------
(* NewContainer.                                                           *)

(* The image is found and unpacked, or pulled.                             *)
EnsureImage(c) ==
    /\ At(c, "image")
    /\ Goes(c, "snapshot") \/ Ends(c, "fail")
    /\ UNCHANGED <<Daemon, Store>>

(* WithNewSnapshot: Prepare of the key id, before the spec is made.        *)
NewSnapshot(c) ==
    /\ At(c, "snapshot")
    /\ \/ /\ ~snaps[cmd[c].id]
          /\ snaps' = [snaps EXCEPT ![cmd[c].id] = TRUE]
          /\ Goes(c, "record")
       \/ /\ Ends(c, "fail")
          /\ UNCHANGED snaps
    /\ UNCHANGED <<Daemon, records>>

(* WithNewSpec, which may fail, and Create of the containers store.        *)
NewRecord(c) ==
    /\ At(c, "record")
    /\ \/ /\ ~records[cmd[c].id]
          /\ records' = [records EXCEPT ![cmd[c].id] = TRUE]
          /\ IF Is(c, {"docker_create"}) THEN Ends(c, "ok") ELSE Goes(c, "newtask")
       \/ /\ Ends(c, "fail")
          /\ UNCHANGED records
    /\ UNCHANGED <<Daemon, snaps>>

-----------------------------------------------------------------------------
(* NewTask and Start.                                                      *)

NewTask(c, t, p) ==
    /\ At(c, "newtask")
    /\ Create(cmd[c].id, t, p)
    /\ Becomes(c, [cmd[c] EXCEPT !.pc = "pid", !.own = t])
    /\ UNCHANGED Store

(* The handler reads task.Pid for its answer when it has let go of the     *)
(* lock.                                                                   *)
NewTaskAnswers(c) ==
    /\ At(c, "pid")
    /\ Becomes(c, [cmd[c] EXCEPT !.pc = "start",
                    !.nopid = task[cmd[c].own].pid = NoPid])
    /\ UNCHANGED <<Daemon, Store>>

(* There is a task of that id, or the program cannot be started.  Run      *)
(* deletes the container and keeps the snapshot.                           *)
NewTaskFails(c) ==
    /\ At(c, "newtask")
    /\ IF Is(c, {"docker_start"})
       THEN Ends(c, "fail")
       ELSE Becomes(c, [cmd[c] EXCEPT !.pc = "unlist", !.result = "fail"])
    /\ UNCHANGED <<Daemon, Store>>

CallStart(c) ==
    /\ At(c, "start")
    /\ Lookup(Call(c), cmd[c].id, "start")
    /\ UNCHANGED <<records, snaps, cmd>>

(* What an error of Start leads to.                                        *)
StartError(c) ==
    IF Is(c, {"docker_start"})
    THEN Ends(c, "fail")
    ELSE Becomes(c, [cmd[c] EXCEPT !.pc = "deltask", !.result = "fail"])

StartNotFound(c) ==
    /\ At(c, "start")
    /\ thr[Call(c)] = Idle
    /\ tasks[cmd[c].id] = None
    /\ StartError(c)
    /\ UNCHANGED <<Daemon, Store>>

(* The answer has no Pid, which sets that of the client's task to 0; only  *)
(* the run in the foreground goes on with that task.                       *)
StartAnswers(c) ==
    /\ Start(Call(c))
    /\ CASE cmd[c].cut -> UNCHANGED cmd
         [] ~cmd[c].cut /\ task[thr[Call(c)].task].status # "CREATED" -> StartError(c)
         [] OTHER -> IF Is(c, {"run"})
                     THEN Becomes(c, [cmd[c] EXCEPT !.pc = "wait", !.nopid = TRUE])
                     ELSE Ends(c, "ok")
    /\ UNCHANGED Store

-----------------------------------------------------------------------------
(* LoadContainer, Task and Status.                                         *)

LoadContainer(c) ==
    /\ At(c, "load")
    /\ CASE ~records[cmd[c].id]                     -> Ends(c, "fail")
         [] Is(c, {"rm"}) /\ records[cmd[c].id]     -> Goes(c, "unlist")
         [] Is(c, {"docker_start"}) /\ records[cmd[c].id] -> Goes(c, "newtask")
         [] OTHER                                   -> Goes(c, "task")
    /\ UNCHANGED <<Daemon, Store>>

NoTask(c) ==
    /\ At(c, "task")
    /\ tasks[cmd[c].id] = None
    /\ CASE Is(c, {"stop", "exec"}) -> Ends(c, "fail")
         [] Is(c, {"docker_stop"})  -> Ends(c, "ok")
         [] Is(c, {"rm_force"})        -> Goes(c, "unlist")
    /\ UNCHANGED <<Daemon, Store>>

(* The Exec call of the daemon does nothing, and the client never calls    *)
(* Start for the new process: it waits, and ExecID is ignored there.       *)
LoadTask(c) ==
    LET t == tasks[cmd[c].id] IN
    /\ At(c, "task")
    /\ t # None
    /\ Becomes(c, [cmd[c] EXCEPT
            !.nopid = task[t].pid = NoPid,
            !.pc = CASE Is(c, {"exec"})        -> "wait"
                     [] Is(c, {"docker_stop"}) -> "kill"
                     [] OTHER                  -> "status"])
    /\ UNCHANGED <<Daemon, Store>>

(* Stop sends SIGTERM unless the task is stopped or was never started.     *)
StopReadsStatus(c) ==
    LET status == StatusOf(cmd[c].id) IN
    /\ At(c, "status")
    /\ Is(c, {"stop"})
    /\ CASE status = "NotFound"               -> Ends(c, "fail")
         [] status \in {"STOPPED", "CREATED"} -> Ends(c, "ok")
         [] OTHER -> Becomes(c, [cmd[c] EXCEPT !.pc = "term",
                                              !.seen = tasks[cmd[c].id]])
    /\ UNCHANGED <<Daemon, Store>>

(* Remove kills what is RUNNING; it ignores an error of Status and takes   *)
(* it for "not running".                                                   *)
RemoveReadsStatus(c) ==
    /\ At(c, "status")
    /\ Is(c, {"rm_force"})
    /\ IF StatusOf(cmd[c].id) = "RUNNING"
       THEN Becomes(c, [cmd[c] EXCEPT !.pc = "kill", !.seen = tasks[cmd[c].id]])
       ELSE Goes(c, "deltask")
    /\ UNCHANGED <<Daemon, Store>>

-----------------------------------------------------------------------------
(* Kill.  Stop gives up at an error; Remove and docker stop do not look.   *)

Killing == {"term", "kill", "force"}

Sig(c) == IF cmd[c].pc = "term" THEN "SIGTERM" ELSE "SIGKILL"

CallKill(c) ==
    /\ \E pc \in Killing : At(c, pc)
    /\ Lookup(Call(c), cmd[c].id, "kill")
    /\ UNCHANGED <<records, snaps, cmd>>

KillError(c) ==
    CASE Is(c, {"stop"})        -> Ends(c, "fail")
      [] Is(c, {"rm_force"})       -> Goes(c, "wait")
      [] Is(c, {"docker_stop"}) -> Ends(c, "ok")

KillOk(c) ==
    CASE Is(c, {"docker_stop"})  -> Ends(c, "ok")
      [] cmd[c].pc = "force"     -> Goes(c, "reap")
      [] OTHER                   -> Goes(c, "wait")

KillNotFound(c) ==
    /\ \E pc \in Killing : At(c, pc)
    /\ thr[Call(c)] = Idle
    /\ tasks[cmd[c].id] = None
    /\ KillError(c)
    /\ UNCHANGED <<Daemon, Store>>

KillReadsPid(c) ==
    /\ KillReadPid(Call(c))
    /\ IF task[thr[Call(c)].task].pid = NoPid /\ ~cmd[c].cut
       THEN KillError(c)
       ELSE UNCHANGED cmd
    /\ UNCHANGED Store

(* Mutant: the second signal of Stop is SIGTERM again.                     *)
KillSignalsTermMutant(c) ==
    /\ KillSignal(Call(c), IF Is(c, {"stop"}) THEN "SIGTERM" ELSE Sig(c))
    /\ CASE cmd[c].cut -> UNCHANGED cmd
         [] ~cmd[c].cut /\ ~\E t \in Tasks : HoldsPid(t, thr[Call(c)].pid) -> KillError(c)
         [] OTHER -> KillOk(c)
    /\ UNCHANGED Store

(* Mutant: Stop does not wait for the process it has killed.               *)
KillSignalsMutant(c) ==
    /\ KillSignal(Call(c), Sig(c))
    /\ CASE cmd[c].cut -> UNCHANGED cmd
         [] ~cmd[c].cut /\ ~\E t \in Tasks : HoldsPid(t, thr[Call(c)].pid) -> KillError(c)
         [] OTHER -> IF cmd[c].pc = "force" THEN Ends(c, "ok") ELSE KillOk(c)
    /\ UNCHANGED Store

KillSignals(c) ==
    /\ KillSignal(Call(c), Sig(c))
    /\ CASE cmd[c].cut -> UNCHANGED cmd
         [] ~cmd[c].cut /\ ~\E t \in Tasks : HoldsPid(t, thr[Call(c)].pid) -> KillError(c)
         [] OTHER -> KillOk(c)
    /\ UNCHANGED Store

-----------------------------------------------------------------------------
(* Wait.                                                                   *)

CallWait(c) ==
    /\ At(c, "wait")
    /\ Lookup(Waiter(c), cmd[c].id, "wait")
    /\ Becomes(c, [cmd[c] EXCEPT !.pc = "waiting",
                    !.seen = IF Is(c, {"run"}) THEN tasks[cmd[c].id] ELSE @])
    /\ UNCHANGED Store

WaitNotFound(c) ==
    /\ At(c, "wait")
    /\ tasks[cmd[c].id] = None
    /\ Becomes(c, [cmd[c] EXCEPT !.pc = "waiting", !.exit = UnknownExitStatus])
    /\ UNCHANGED <<Daemon, Store>>

WaitTakes(c) ==
    /\ WaitReceive(Waiter(c))
    /\ UNCHANGED <<records, snaps, cmd>>

(* The answer carries uint32(exitCode).                                    *)
WaitAnswers(c) ==
    /\ WaitReturn(Waiter(c))
    /\ cmd' = IF cmd[c].cut THEN cmd
              ELSE [cmd EXCEPT ![c].exit = UInt32(task[thr[Waiter(c)].task].code)]
    /\ UNCHANGED Store

(* time.After of Stop.                                                     *)
Timeout(c) ==
    /\ At(c, "waiting")
    /\ Is(c, {"stop"})
    /\ Goes(c, "force")
    /\ UNCHANGED <<Daemon, Store>>

(* The command receives from its channel.                                  *)
Exited(c) ==
    /\ At(c, "waiting") \/ At(c, "reap")
    /\ cmd[c].exit # None
    /\ CASE Is(c, {"run", "rm_force"}) -> Goes(c, "deltask")
         [] Is(c, {"exec"}) /\ cmd[c].exit = UnknownExitStatus -> Ends(c, "fail")
         [] OTHER -> Ends(c, "ok")
    /\ UNCHANGED <<Daemon, Store>>

-----------------------------------------------------------------------------
(* Delete of the task, then of the container.                              *)

(* Run gives up at an error of task.Delete, unless it is undoing; Remove   *)
(* goes on.                                                                *)
DeleteError(c) ==
    IF Is(c, {"rm_force"}) \/ cmd[c].result = "fail"
    THEN Goes(c, "unlist")
    ELSE Ends(c, "fail")

(* task.Delete of the client asks for the status first and refuses unless  *)
(* the task is STOPPED, or CREATED with pid 0.                             *)
CheckStopped(c) ==
    /\ At(c, "deltask")
    /\ IF \/ StatusOf(cmd[c].id) = "STOPPED"
          \/ StatusOf(cmd[c].id) = "CREATED" /\ cmd[c].nopid
       THEN Goes(c, "delrpc")
       ELSE DeleteError(c)
    /\ UNCHANGED <<Daemon, Store>>

DeleteTask(c) ==
    /\ At(c, "delrpc")
    /\ Delete(cmd[c].id)
    /\ Goes(c, "unlist")
    /\ UNCHANGED Store

DeleteTaskRefused(c) ==
    /\ At(c, "delrpc")
    /\ StatusOf(cmd[c].id) \in {"NotFound", "RUNNING"}
    /\ DeleteError(c)
    /\ UNCHANGED <<Daemon, Store>>

(* container.Delete of the client first looks for a task and refuses if    *)
(* there is one.                                                           *)
CheckNoTask(c) ==
    /\ At(c, "unlist")
    /\ IF tasks[cmd[c].id] = None THEN Goes(c, "delrecord") ELSE Ends(c, "fail")
    /\ UNCHANGED <<Daemon, Store>>

(* Delete of the containers store.  Nobody removes the snapshot.           *)
DeleteRecord(c) ==
    /\ At(c, "delrecord")
    /\ records' = [records EXCEPT ![cmd[c].id] = FALSE]
    /\ Ends(c, IF cmd[c].result = "fail" \/ ~records[cmd[c].id] THEN "fail" ELSE "ok")
    /\ UNCHANGED <<Daemon, snaps>>

-----------------------------------------------------------------------------
(* The user interrupts a command, or the HTTP client of mini-docker goes   *)
(* away.  The context is cancelled and every later call fails.  Stop, if   *)
(* it is waiting, receives the error of Wait as an exit and reports        *)
(* success; docker stop does not look at the answer of Kill.               *)
Interrupt(c) ==
    /\ cmd[c].pc \notin {"idle", "done"} /\ ~cmd[c].cut
    /\ Becomes(c, [cmd[c] EXCEPT !.cut = TRUE,
            !.result = IF \/ Is(c, {"stop"}) /\ cmd[c].pc \in {"waiting", "reap"}
                          \/ Is(c, {"docker_stop"}) /\ cmd[c].pc # "load"
                       THEN "ok" ELSE "fail"])
    /\ UNCHANGED <<Daemon, Store>>

-----------------------------------------------------------------------------
(* What the command itself does next.                                      *)
ClientStep(c) ==
    \/ EnsureImage(c) \/ NewSnapshot(c) \/ NewRecord(c)
    \/ \E t \in Tasks, p \in Pids : NewTask(c, t, p)
    \/ NewTaskAnswers(c) \/ NewTaskFails(c)
    \/ CallStart(c) \/ StartNotFound(c)
    \/ LoadContainer(c) \/ NoTask(c) \/ LoadTask(c)
    \/ StopReadsStatus(c) \/ RemoveReadsStatus(c)
    \/ CallKill(c) \/ KillNotFound(c)
    \/ CallWait(c) \/ WaitNotFound(c) \/ Timeout(c) \/ Exited(c)
    \/ CheckStopped(c) \/ DeleteTask(c) \/ DeleteTaskRefused(c)
    \/ CheckNoTask(c) \/ DeleteRecord(c)

(* What the daemon does for its call.                                      *)
CallStep(c) == StartAnswers(c) \/ KillReadsPid(c) \/ KillSignals(c)

WaiterStep(c) == WaitTakes(c) \/ WaitAnswers(c)

Background(t) == (Monitor(t) \/ ProcessExits(t)) /\ UNCHANGED <<records, snaps, cmd>>

LifecycleNext ==
    \/ \E c \in Clients :
            \/ \E op \in May[c], id \in Ids : Begin(c, op, id)
            \/ ClientStep(c) \/ CallStep(c) \/ WaiterStep(c)
    \/ \E c \in Impatient : Interrupt(c)
    \/ \E t \in Tasks : Background(t)

LifecycleSpec == LifecycleInit /\ [][LifecycleNext]_lifecycleVars

(* Commands and the goroutines of the daemon run while they can; time      *)
(* passes.  Nobody has to give a command, interrupt one or end a process.  *)
LifecycleFairness ==
    /\ \A c \in Clients :
            /\ WF_lifecycleVars(ClientStep(c))
            /\ WF_lifecycleVars(CallStep(c))
            /\ WF_lifecycleVars(WaiterStep(c))
    /\ \A t \in Tasks :
            WF_lifecycleVars(Monitor(t) /\ UNCHANGED <<records, snaps, cmd>>)

LifecycleFairSpec == LifecycleSpec /\ LifecycleFairness

-----------------------------------------------------------------------------
(* Properties.                                                             *)

Places ==
    {"idle", "image", "snapshot", "record", "newtask", "pid", "start", "load",
     "task", "status", "wait", "waiting", "reap", "deltask", "delrpc", "unlist",
     "delrecord", "done"} \cup Killing

CommandStates ==
    [op : Commands \cup {"none"}, id : Ids \cup {None}, pc : Places,
     own : Tasks \cup {None}, seen : Tasks \cup {None}, nopid : BOOLEAN,
     exit : ExitStatuses \cup {None},
     result : {"none", "ok", "fail"}, cut : BOOLEAN]

(* The stores and what a command knows have their types.                   *)
LifecycleTypeOK ==
    /\ TypeOK
    /\ records \in [Ids -> BOOLEAN]
    /\ snaps \in [Ids -> BOOLEAN]
    /\ cmd \in [Clients -> CommandStates]

(* The command has ended.                                                  *)
Over(c) == cmd[c].pc = "done" \/ cmd[c].cut

Succeeded(c, ops) == Is(c, ops) /\ cmd[c].pc = "done" /\ cmd[c].result = "ok"

(* A stop or a forced removal that found its container RUNNING and reports *)
(* success has seen the process through to its end, whether the process    *)
(* went of itself, of SIGTERM or of SIGKILL, and though others may have    *)
(* deleted the task or started the container again meanwhile.  (Not so if  *)
(* it was interrupted.)                                                    *)
StoppedForGood ==
    \A c \in Clients :
        Succeeded(c, {"stop", "rm_force"}) /\ cmd[c].seen # None =>
            os[cmd[c].seen].state = "reaped"

(* A foreground run that succeeds and whose Wait found the task that this  *)
(* run had made reports the exit code of its process, as the daemon and    *)
(* the client convert it: the uint32 of the code, so that a process that   *)
(* died of a signal is reported as 4294967295, of which the shell sees     *)
(* 255.  A code the daemon missed, because the process ended before Start, *)
(* is never reported as a success: the task stays RUNNING and cannot be    *)
(* deleted.  (A forced removal and a docker start between Start and Wait   *)
(* make it wait for another task, whose code may have been missed.)        *)
RunReportsExit ==
    \A c \in Clients :
        Succeeded(c, {"run"}) /\ cmd[c].seen = cmd[c].own =>
            /\ os[cmd[c].own].state = "reaped"
            /\ cmd[c].exit = UInt32(os[cmd[c].own].exit)

(* A docker start, or a removal, was given for the container.              *)
Restarted(id) == \E d \in Clients : Is(d, {"docker_start"}) /\ cmd[d].id = id

Removed(id) == \E d \in Clients : Is(d, {"rm", "rm_force"}) /\ cmd[d].id = id

(* The process that a run has started stays within reach of stop and rm    *)
(* until it is gone.  Whatever the other commands do to it, its task is    *)
(* not taken off the daemon's list while its process lives, and unless     *)
(* somebody removes the container its record is there for LoadContainer to *)
(* find: Run, when it gives up, does not delete that either.  Two cases    *)
(* the code does not guard are left out.  A removal that finds no task     *)
(* because Run is about to call NewTask deletes the record, and the task   *)
(* that Run then creates is on the list but cannot be named by a command.  *)
(* And if somebody uses docker start on the container there can be a task  *)
(* before that of the run: of two forced removals one deletes it, and the  *)
(* other, which has found it STOPPED or without a process too, deletes the *)
(* task that the run has created since.                                    *)
RunKeepsProcess ==
    \A c \in Clients :
        /\ Is(c, {"run", "run_detached"}) /\ cmd[c].own # None
        /\ os[cmd[c].own].state # "reaped" /\ ~Restarted(cmd[c].id)
        => /\ tasks[cmd[c].id] = cmd[c].own
           /\ records[cmd[c].id] \/ Removed(cmd[c].id)

(* Another command that waits for the container of c: of two callers of    *)
(* Wait only one is told.                                                  *)
Rival(c) ==
    \E d \in Clients \ {c} :
        Is(d, {"run", "stop", "exec", "rm_force"}) /\ cmd[d].id = cmd[c].id

(* Every command whose end is not up to the container's process ends: Stop *)
(* because SIGKILL follows when SIGTERM was ignored.                       *)
CommandEnds ==
    \A c \in Clients :
        cmd[c].op \notin {"none", "run", "exec"} ~> Over(c) \/ Rival(c)

(* A run in the foreground and an exec end when the process has ended, at  *)
(* whatever point of their way to Wait.                                    *)
RunEnds ==
    \A c \in Clients, t \in Tasks :
        (Is(c, {"run", "exec"}) /\ tasks[cmd[c].id] = t /\ os[t].state = "zombie")
        ~> Over(c) \/ Rival(c)
=============================================================================
