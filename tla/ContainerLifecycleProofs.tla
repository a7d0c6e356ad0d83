---------------------- MODULE ContainerLifecycleProofs ----------------------
(***************************************************************************)
(* What a stop, a removal and a run may rely on, for any number of         *)
(* commands given to one daemon at the same time, interrupted anywhere.    *)
(*                                                                         *)
(* The daemon under the commands takes no step but those of TaskManager    *)
(* (DaemonRefined), so that what TaskManagerProofs shows of it holds here. *)
(* What the commands add is knowledge that may be out of date: the task a  *)
(* command has seen, made or waits for can be deleted, and replaced under  *)
(* the same id, between any two of its calls.  ClientInv says what is left *)
(* of that knowledge: a task seen RUNNING is on the list until it has      *)
(* stopped, and what is off the list never comes back.                     *)
(***************************************************************************)
EXTENDS ContainerLifecycle, TaskManagerProofs

(* Which command can be at which place.                                    *)
OnRoute(pc, op) ==
    \/ pc = "idle" /\ op = "none"
    \/ pc \in {"image", "snapshot", "record"} /\ op \in {"run", "run_detached", "docker_create"}
    \/ pc \in {"newtask", "pid", "start"} /\ op \in {"run", "run_detached", "docker_start"}
    \/ pc = "load" /\ op \in {"stop", "rm", "rm_force", "exec", "docker_start", "docker_stop"}
    \/ pc = "task" /\ op \in {"stop", "rm_force", "exec", "docker_stop"}
    \/ pc = "status" /\ op \in {"stop", "rm_force"}
    \/ pc \in {"term", "force", "reap"} /\ op = "stop"
    \/ pc = "kill" /\ op \in {"rm_force", "docker_stop"}
    \/ pc \in {"wait", "waiting"} /\ op \in {"run", "exec", "stop", "rm_force"}
    \/ pc \in {"deltask", "delrpc"} /\ op \in {"run", "run_detached", "rm_force"}
    \/ pc \in {"unlist", "delrecord"} /\ op \in {"run", "run_detached", "rm", "rm_force"}
    \/ pc = "done" /\ op \in Commands

(* The places before a command has seen a RUNNING task or made one, before *)
(* the answer of Create, and before Wait is called.                        *)
Unseen == {"idle", "image", "snapshot", "record", "newtask", "load", "task", "status"}

Taskless == Unseen \cup {"term", "kill"}

Early == Taskless \cup {"pid", "start", "wait"}

Reaped(t) == os[t].state = "reaped"

Started(t) == task[t].status \in {"RUNNING", "STOPPED"}

(* A command and its two requests agree on where it is.                    *)
Placed(c) ==
    /\ OnRoute(cmd[c].pc, cmd[c].op)
    /\ cmd[c].pc # "idle" => cmd[c].id \in Ids
    /\ cmd[c].pc = "idle" => ~cmd[c].cut
    /\ thr[Call(c)].pc \in {"idle", "start", "kill", "signal"}
    /\ thr[Waiter(c)].pc \in {"idle", "wait", "exitcode"}
    /\ ~cmd[c].cut /\ thr[Call(c)].pc = "start" => cmd[c].pc = "start"
    /\ ~cmd[c].cut /\ thr[Call(c)].pc \in {"kill", "signal"} => cmd[c].pc \in Killing
    /\ cmd[c].pc \in Early => cmd[c].exit = None /\ thr[Waiter(c)].pc = "idle"

(* The task it has made was born, and is there from "pid" on; what it has  *)
(* not looked for it has not seen.                                         *)
Owns(c) ==
    /\ cmd[c].pc \in Unseen => cmd[c].seen = None
    /\ cmd[c].pc \in Taskless => cmd[c].own = None
    /\ cmd[c].pc \in {"pid", "start"} => cmd[c].own # None
    /\ cmd[c].own # None => mon[cmd[c].own] # "none"

(* What a stop or a forced removal knows of the task it saw RUNNING.       *)
SeenRunning(c) ==
    Is(c, {"stop", "rm_force"}) /\ cmd[c].seen # None =>
        LET s == cmd[c].seen IN
        /\ Started(s)
        /\ tasks[cmd[c].id] = s \/ Reaped(s)
        /\ thr[Waiter(c)].pc # "idle" => thr[Waiter(c)].task = s \/ Reaped(s)
        /\ cmd[c].exit # None => Reaped(s)
        /\ cmd[c].pc \in {"deltask", "delrpc", "unlist", "delrecord", "done"} =>
                Reaped(s) \/ cmd[c].result = "fail"

(* What a run in the foreground knows of the task it has made: up to Wait, *)
RunStarts(c) ==
    Is(c, {"run"}) =>
        /\ cmd[c].pc \in Early => cmd[c].seen = None
        /\ cmd[c].pc = "wait" => cmd[c].own # None
        /\ /\ thr[Call(c)].pc = "start"
           /\ cmd[c].own # None /\ tasks[cmd[c].id] = cmd[c].own
           => thr[Call(c)].task = cmd[c].own
        /\ cmd[c].pc = "wait" /\ tasks[cmd[c].id] = cmd[c].own => Started(cmd[c].own)

(* if that is the task it waits for,                                       *)
RunWaits(c) ==
    Is(c, {"run"}) =>
        /\ thr[Waiter(c)].pc # "idle" => thr[Waiter(c)].task = cmd[c].seen
        /\ cmd[c].own # None /\ cmd[c].seen = cmd[c].own =>
                /\ Started(cmd[c].own)
                /\ \/ tasks[cmd[c].id] = cmd[c].own
                   \/ task[cmd[c].own].status = "STOPPED"
                /\ cmd[c].exit # None => /\ mon[cmd[c].own] = "done"
                                         /\ cmd[c].exit = UInt32(task[cmd[c].own].code)

(* and when it has been told of an exit.                                   *)
Good(c, pcs) == cmd[c].pc \in pcs /\ cmd[c].result # "fail"

RunReports(c) ==
    Is(c, {"run"}) =>
        /\ Good(c, {"waiting", "deltask", "delrpc", "unlist", "delrecord", "done"}) =>
                cmd[c].own # None
        /\ Good(c, {"deltask", "delrpc", "unlist", "delrecord", "done"}) =>
                cmd[c].exit # None
        /\ /\ Good(c, {"delrpc", "unlist", "delrecord", "done"})
           /\ cmd[c].seen = cmd[c].own
           => task[cmd[c].own].status = "STOPPED"

ClientInv(c) ==
    /\ Placed(c) /\ Owns(c)
    /\ SeenRunning(c)
    /\ RunStarts(c) /\ RunWaits(c) /\ RunReports(c)

(* No command pauses a task, and what is on the list was born.             *)
ListInv ==
    /\ \A t \in Tasks : task[t].status # "PAUSED"
    /\ \A id \in Ids : tasks[id] # None => mon[tasks[id]] # "none"

(* What is on the list was asked for by somebody.                          *)
Called == \A id \in Ids : tasks[id] # None => Named(id)

(* Two runs never share an id, nor does one have that of docker create.    *)
RunIds ==
    \A c \in Clients : Is(c, {"run", "run_detached"}) =>
        /\ cmd[c].id # DockerId
        /\ \A d \in Clients : Is(d, {"run", "run_detached"}) /\ cmd[d].id = cmd[c].id => d = c

(* Without docker start the task of a run is the only one of its id; who   *)
(* is about to delete it is right, and who takes it to have no pid would   *)
(* be, if it were still CREATED.                                           *)
Kept(c) ==
    Is(c, {"run", "run_detached"}) /\ ~Restarted(cmd[c].id) =>
        /\ tasks[cmd[c].id] \in {None, cmd[c].own}
        /\ cmd[c].own # None /\ tasks[cmd[c].id] = None => Reaped(cmd[c].own)
        /\ \A d \in Clients : cmd[d].id = cmd[c].id =>
              /\ cmd[d].nopid => /\ cmd[c].own # None
                                 /\ Reaped(cmd[c].own) \/ Started(cmd[c].own)
              /\ cmd[d].pc = "delrpc" => cmd[c].own # None /\ Reaped(cmd[c].own)

CommandsInv ==
    /\ LifecycleTypeOK
    /\ IInv /\ PauseInv
    /\ ListInv
    /\ Called /\ RunIds
    /\ \A c \in Clients : ClientInv(c) /\ Kept(c)

-----------------------------------------------------------------------------
(* The daemon under the commands.                                          *)

(* What a command can make the daemon do: anything but Pause and Resume.   *)
DaemonStep ==
    \/ \E id \in Ids, t \in Tasks, p \in Pids : Create(id, t, p)
    \/ \E id \in Ids : Delete(id)
    \/ \E t \in Tasks : Monitor(t) \/ ProcessExits(t)
    \/ \E th \in Threads, id \in Ids, op \in Ops : Lookup(th, id, op)
    \/ \E th \in Threads :
            \/ Start(th) \/ KillReadPid(th) \/ WaitReceive(th) \/ WaitReturn(th)
            \/ \E sig \in Signals : KillSignal(th, sig)
    \/ UNCHANGED vars

LEMMA DaemonStepIsNext == DaemonStep => [Next]_vars
  BY DEF DaemonStep, Next, Proceed

LEMMA ClientThreads == \A c \in Clients : Call(c) \in Threads /\ Waiter(c) \in Threads
  BY ThreadAssumption DEF Call, Waiter

(* What no step undoes: a process reaped, a monitor that is done, a status *)
(* STOPPED; a task leaves the list only if it is not RUNNING, and what     *)
(* comes onto it is new.                                                   *)
Onward(t) ==
    /\ Reaped(t) => Reaped(t)'
    /\ mon[t] # "none" => mon'[t] # "none"
    /\ mon[t] = "done" => mon'[t] = "done" /\ task'[t].code = task[t].code
    /\ Started(t) => Started(t)'
    /\ task[t].status = "STOPPED" => task'[t].status = "STOPPED"
    /\ task'[t].status = "PAUSED" => task[t].status = "PAUSED"

ListStep(id) ==
    \/ tasks'[id] = tasks[id]
    \/ tasks[id] # None /\ tasks'[id] = None /\ task[tasks[id]].status # "RUNNING"
    \/ tasks[id] = None /\ tasks'[id] \in Tasks /\ mon[tasks'[id]] = "none"
       /\ mon'[tasks'[id]] # "none"

LEMMA OnwardStep ==
    ASSUME IInv, DaemonStep
    PROVE  /\ \A t \in Tasks : Onward(t)
           /\ \A id \in Ids : ListStep(id)
<1> USE DEF Onward, Reaped, Started
<1>0. /\ TypeOK /\ task \in [Tasks -> Objects] /\ os \in [Tasks -> Processes]
      /\ \A t \in Tasks : ExitProtocol(t)
  BY DEF IInv, TypeOK
<1>1. ASSUME NEW id \in Ids, NEW t \in Tasks, NEW p \in Pids, Create(id, t, p)
      PROVE  (\A u \in Tasks : Onward(u)) /\ (\A i \in Ids : ListStep(i))
  <2>1. mon[t] = "none" /\ os[t].state = "none"
    BY <1>0, <1>1 DEF Create, Unborn, ExitProtocol
  <2>2. task[t].status = "unborn"
    BY <1>1 DEF Create, Unborn
  <2>3. ASSUME NEW u \in Tasks PROVE Onward(u)
    BY <1>0, <1>1, <2>1, <2>2 DEF Create, TypeOK
  <2>4. ASSUME NEW i \in Ids PROVE ListStep(i)
    BY <1>0, <1>1, <2>1 DEF Create, TypeOK, ListStep
  <2> QED BY <2>3, <2>4
<1>2. ASSUME NEW id \in Ids, Delete(id)
      PROVE  (\A u \in Tasks : Onward(u)) /\ (\A i \in Ids : ListStep(i))
  BY <1>0, <1>2 DEF Delete, TypeOK, ListStep
<1>3. ASSUME NEW t \in Tasks, Monitor(t) \/ ProcessExits(t)
      PROVE  (\A u \in Tasks : Onward(u)) /\ (\A i \in Ids : ListStep(i))
  <2>1. CASE MonitorReap(t)
    BY <1>0, <2>1 DEF MonitorReap, TypeOK, Processes, ListStep
  <2>2. CASE MonitorUpdate(t)
    BY <1>0, <2>2 DEF MonitorUpdate, TypeOK, Objects, ListStep
  <2>3. CASE MonitorSend(t)
    BY <1>0, <2>3 DEF MonitorSend, TypeOK, ListStep
  <2>4. CASE ProcessExits(t)
    BY <1>0, <2>4 DEF ProcessExits, TypeOK, Processes, ListStep
  <2> QED BY <1>3, <2>1, <2>2, <2>3, <2>4 DEF Monitor
<1>4. ASSUME NEW th \in Threads, NEW id \in Ids, NEW op \in Ops, Lookup(th, id, op)
      PROVE  (\A u \in Tasks : Onward(u)) /\ (\A i \in Ids : ListStep(i))
  BY <1>4 DEF Lookup, ListStep
<1>5. ASSUME NEW th \in Threads,
             Start(th) \/ KillReadPid(th) \/ WaitReceive(th) \/ WaitReturn(th)
      PROVE  (\A u \in Tasks : Onward(u)) /\ (\A i \in Ids : ListStep(i))
  <2>1. CASE Start(th)
    BY <1>0, <2>1 DEF Start, TypeOK, Objects, ListStep
  <2>2. CASE KillReadPid(th) \/ WaitReceive(th) \/ WaitReturn(th)
    BY <2>2 DEF KillReadPid, WaitReceive, WaitReturn, ListStep
  <2> QED BY <1>5, <2>1, <2>2
<1>6. ASSUME NEW th \in Threads, NEW sig \in Signals, KillSignal(th, sig)
      PROVE  (\A u \in Tasks : Onward(u)) /\ (\A i \in Ids : ListStep(i))
  <2>1. Moved(os')
    BY <1>0, <1>6, SignalledProcesses DEF KillSignal
  <2> QED BY <1>6, <2>1 DEF KillSignal, Moved, ListStep
<1>7. CASE UNCHANGED vars
  BY <1>7 DEF vars, ListStep
<1> QED BY <1>1, <1>2, <1>3, <1>4, <1>5, <1>6, <1>7 DEF DaemonStep

(* Every command uses the daemon through its calls only.                   *)
LEMMA CommandsAreDaemonSteps ==
    ASSUME LifecycleTypeOK, \A c \in Clients : Placed(c),
           [LifecycleNext]_lifecycleVars
    PROVE  DaemonStep
<1>1. ASSUME NEW c \in Clients, ClientStep(c) PROVE DaemonStep
  <2>1. cmd[c].pc # "idle" => cmd[c].id \in Ids
    BY DEF Placed
  <2>2. ASSUME NEW t \in Tasks, NEW p \in Pids, NewTask(c, t, p) PROVE DaemonStep
    BY <2>1, <2>2 DEF NewTask, At, DaemonStep
  <2>3. CASE CallStart(c)
    BY <2>1, <2>3, ClientThreads DEF CallStart, At, DaemonStep, Ops
  <2>4. CASE CallKill(c)
    BY <2>1, <2>4, ClientThreads DEF CallKill, At, Killing, DaemonStep, Ops
  <2>5. CASE CallWait(c)
    BY <2>1, <2>5, ClientThreads DEF CallWait, At, DaemonStep, Ops
  <2>6. CASE DeleteTask(c)
    BY <2>1, <2>6 DEF DeleteTask, At, DaemonStep
  <2>7. CASE UNCHANGED Daemon
    BY <2>7 DEF Daemon, vars, DaemonStep
  <2>8. CASE \/ EnsureImage(c) \/ NewSnapshot(c) \/ NewRecord(c)
             \/ NewTaskAnswers(c) \/ NewTaskFails(c) \/ StartNotFound(c)
             \/ LoadContainer(c) \/ NoTask(c) \/ LoadTask(c)
    BY <2>7, <2>8 DEF EnsureImage, NewSnapshot, NewRecord, NewTaskAnswers, NewTaskFails,
                      StartNotFound, LoadContainer, NoTask, LoadTask
  <2>9. CASE \/ StopReadsStatus(c) \/ RemoveReadsStatus(c) \/ KillNotFound(c)
             \/ WaitNotFound(c) \/ Timeout(c) \/ Exited(c) \/ CheckStopped(c)
             \/ DeleteTaskRefused(c) \/ CheckNoTask(c) \/ DeleteRecord(c)
    BY <2>7, <2>9 DEF StopReadsStatus, RemoveReadsStatus, KillNotFound, WaitNotFound,
                      Timeout, Exited, CheckStopped, DeleteTaskRefused, CheckNoTask,
                      DeleteRecord
  <2> QED BY <1>1, <2>2, <2>3, <2>4, <2>5, <2>6, <2>8, <2>9 DEF ClientStep
<1>2. ASSUME NEW c \in Clients, CallStep(c) \/ WaiterStep(c) PROVE DaemonStep
  <2>1. Sig(c) \in Signals
    BY DEF Sig, Signals
  <2>2. CASE StartAnswers(c) \/ KillReadsPid(c) \/ WaitTakes(c) \/ WaitAnswers(c)
    BY <2>2, ClientThreads
       DEF StartAnswers, KillReadsPid, WaitTakes, WaitAnswers, DaemonStep
  <2>3. CASE KillSignals(c)
    BY <2>1, <2>3, ClientThreads DEF KillSignals, DaemonStep
  <2> QED BY <1>2, <2>2, <2>3 DEF CallStep, WaiterStep
<1>3. ASSUME NEW c \in Clients, NEW op \in May[c], NEW id \in Ids, Begin(c, op, id)
      PROVE  DaemonStep
  BY <1>3 DEF Begin, Daemon, vars, DaemonStep
<1>4. ASSUME NEW c \in Impatient, Interrupt(c) PROVE DaemonStep
  BY <1>4 DEF Interrupt, Daemon, vars, DaemonStep
<1>5. ASSUME NEW t \in Tasks, Background(t) PROVE DaemonStep
  BY <1>5 DEF Background, DaemonStep
<1>6. CASE UNCHANGED lifecycleVars
  BY <1>6 DEF lifecycleVars, DaemonStep
<1> QED BY <1>1, <1>2, <1>3, <1>4, <1>5, <1>6 DEF LifecycleNext

-----------------------------------------------------------------------------
(* What a command knows, while others and the daemon go on.                *)

(* A started task leaves the list only when it is dead; a task that has    *)
(* left the list does not come back.                                       *)
Known(s, id) ==
    /\ os[s].state = "reaped" => os'[s].state = "reaped"
    /\ mon[s] = "done" => mon'[s] = "done" /\ task'[s].code = task[s].code
    /\ task[s].status = "STOPPED" => task'[s].status = "STOPPED"
    /\ task[s].status \in {"RUNNING", "STOPPED"} =>
            task'[s].status \in {"RUNNING", "STOPPED"}
    /\ tasks[id] = s /\ task[s].status \in {"RUNNING", "STOPPED"} =>
            tasks'[id] = s \/ (task[s].status = "STOPPED" /\ os[s].state = "reaped")
    /\ tasks'[id] = s /\ mon[s] # "none" => tasks[id] = s

LEMMA KnownTask ==
    ASSUME IInv, NEW s \in Tasks, NEW id \in Ids, Onward(s), ListStep(id)
    PROVE  Known(s, id)
<1>1. s # None
  BY NoneAssumption
<1>2. task[s].status = "STOPPED" => os[s].state = "reaped"
  BY DEF IInv, ExitProtocol
<1>3. ASSUME tasks[id] = s, task[s].status \in {"RUNNING", "STOPPED"}, tasks'[id] # s
      PROVE  task[s].status = "STOPPED"
  BY <1>1, <1>3 DEF ListStep
<1>4. ASSUME tasks'[id] = s, mon[s] # "none" PROVE tasks[id] = s
  BY <1>1, <1>4 DEF ListStep
<1>5. /\ os[s].state = "reaped" => os'[s].state = "reaped"
      /\ mon[s] = "done" => mon'[s] = "done" /\ task'[s].code = task[s].code
      /\ task[s].status = "STOPPED" => task'[s].status = "STOPPED"
      /\ task[s].status \in {"RUNNING", "STOPPED"} =>
              task'[s].status \in {"RUNNING", "STOPPED"}
  BY DEF Onward, Reaped, Started
<1> QED BY <1>2, <1>3, <1>4, <1>5 DEF Known

(* Nobody, or only a request of the command, has moved.                    *)
Stays(c) ==
    /\ cmd'[c] = cmd[c]
    /\ \/ thr'[Call(c)] = thr[Call(c)]
       \/ thr'[Call(c)].pc = "idle"
       \/ /\ cmd[c].pc = "start" /\ thr'[Call(c)].pc = "start"
          /\ thr'[Call(c)].task = tasks[cmd[c].id] /\ tasks' = tasks
       \/ cmd[c].pc \in Killing /\ thr'[Call(c)].pc = "kill"
       \/ thr[Call(c)].pc = "kill" /\ thr'[Call(c)].pc = "signal"
    /\ \/ thr'[Waiter(c)] = thr[Waiter(c)]
       \/ /\ thr[Waiter(c)].pc = "wait" /\ thr'[Waiter(c)].pc = "exitcode"
          /\ thr'[Waiter(c)].task = thr[Waiter(c)].task
       \/ thr'[Waiter(c)].pc = "idle"

LEMMA StayStep ==
    ASSUME IInv, NEW c \in Clients, cmd[c] \in CommandStates, ClientInv(c), Stays(c),
           \A t \in Tasks : Onward(t), \A id \in Ids : ListStep(id)
    PROVE  ClientInv(c)'
<1> USE DEF ClientInv
<1>1. /\ cmd[c].own \in Tasks \cup {None} /\ cmd[c].seen \in Tasks \cup {None}
      /\ cmd[c].op # "none" => cmd[c].id \in Ids
  BY DEF CommandStates, Placed, OnRoute
<1>2. Placed(c)'
  BY DEF Stays, Placed, Killing, Early, Taskless, Unseen
<1>3. Owns(c)'
  <2>1. cmd[c].own # None => mon[cmd[c].own] # "none" /\ mon'[cmd[c].own] # "none"
    BY <1>1 DEF Owns, Onward
  <2> QED BY <2>1 DEF Owns, Stays
<1>4. SeenRunning(c)'
  <2> SUFFICES ASSUME Is(c, {"stop", "rm_force"}), cmd[c].seen # None
               PROVE  SeenRunning(c)'
    BY DEF SeenRunning, Is, Stays
  <2>1. cmd[c].seen \in Tasks /\ cmd[c].id \in Ids
    BY <1>1 DEF Is
  <2>2. Known(cmd[c].seen, cmd[c].id)
    BY <2>1, KnownTask
  <2> QED BY <2>2 DEF SeenRunning, Stays, Is, Reaped, Started, Known
<1>5. ASSUME cmd[c].own # None, cmd[c].op = "run"
      PROVE  Known(cmd[c].own, cmd[c].id) /\ mon[cmd[c].own] # "none"
  <2>1. cmd[c].own \in Tasks /\ cmd[c].id \in Ids
    BY <1>1, <1>5
  <2> QED BY <1>5, <2>1, KnownTask DEF Owns
<1>6. RunStarts(c)'
  BY <1>5 DEF RunStarts, Stays, Is, Started, Known, Killing
<1>7. RunWaits(c)'
  BY <1>5 DEF RunWaits, Stays, Is, Started, Known
<1>8. RunReports(c)'
  BY <1>5 DEF RunReports, Good, Stays, Is, Known
<1> QED BY <1>2, <1>3, <1>4, <1>6, <1>7, <1>8

-----------------------------------------------------------------------------
(* A command goes on from place to place.                                  *)

(* The others keep what they know, and their requests are where they were. *)
OthersStay(c) ==
    \A d \in Clients \ {c} : /\ cmd'[d] = cmd[d]
                             /\ thr'[Call(d)] = thr[Call(d)]
                             /\ thr'[Waiter(d)] = thr[Waiter(d)]

(* What the command c knows now, and where it is.                          *)
Learns(c, pc, own, seen, nopid, exit, result, cut) ==
    /\ \A d \in Clients \ {c} : cmd'[d] = cmd[d]
    /\ cmd' \in [Clients -> CommandStates]
    /\ cmd'[c].op = cmd[c].op /\ cmd'[c].id = cmd[c].id
    /\ cmd'[c].pc = pc /\ cmd'[c].own = own /\ cmd'[c].seen = seen
    /\ cmd'[c].nopid = nopid /\ cmd'[c].exit = exit
    /\ cmd'[c].result = result /\ cmd'[c].cut = cut

(* It is at p, with result r, and knows what it knew.                      *)
Walks(c, p, r) ==
    Learns(c, p, cmd[c].own, cmd[c].seen, cmd[c].nopid, cmd[c].exit, r, cmd[c].cut)

LEMMA BecomesWalks ==
    ASSUME cmd \in [Clients -> CommandStates], NEW c \in Clients,
           NEW p \in Places, NEW r \in {"none", "ok", "fail"}
    PROVE  /\ Goes(c, p) => Walks(c, p, cmd[c].result)
           /\ Ends(c, r) => Walks(c, "done", r)
           /\ Becomes(c, [cmd[c] EXCEPT !.pc = p, !.result = r]) => Walks(c, p, r)
<1>0. cmd[c] \in CommandStates
  OBVIOUS
<1>1. ASSUME Goes(c, p) PROVE Walks(c, p, cmd[c].result)
  <2>1. [cmd[c] EXCEPT !.pc = p] \in CommandStates
    BY <1>0 DEF CommandStates
  <2>2. /\ cmd'[c] = [cmd[c] EXCEPT !.pc = p]
        /\ \A d \in Clients \ {c} : cmd'[d] = cmd[d]
        /\ cmd' \in [Clients -> CommandStates]
    BY <2>1, <1>1 DEF Goes, Becomes
  <2> QED BY <1>0, <2>1, <2>2 DEF Walks, Learns, CommandStates
<1>2. ASSUME NEW q \in Places, Becomes(c, [cmd[c] EXCEPT !.pc = q, !.result = r])
      PROVE  Walks(c, q, r)
  <2>1. [cmd[c] EXCEPT !.pc = q, !.result = r] \in CommandStates
    BY <1>0 DEF CommandStates
  <2>2. /\ cmd'[c] = [cmd[c] EXCEPT !.pc = q, !.result = r]
        /\ \A d \in Clients \ {c} : cmd'[d] = cmd[d]
        /\ cmd' \in [Clients -> CommandStates]
    BY <2>1, <1>2 DEF Becomes
  <2> QED BY <1>0, <2>1, <2>2 DEF Walks, Learns, CommandStates
<1>3. "done" \in Places
  BY DEF Places
<1> QED BY <1>1, <1>2, <1>3, Zenon DEF Ends

(* Where a command may go without learning anything.                       *)
MayWalk(c, p, r) ==
    /\ OnRoute(p, cmd[c].op)
    /\ p \notin {"idle", "pid", "start", "waiting"}
    /\ p \in Early => cmd[c].pc \in Early
    /\ p \in Unseen => cmd[c].pc \in Unseen
    /\ p \in Taskless => cmd[c].pc \in Taskless
    /\ p = "wait" => cmd[c].op # "run"
    /\ /\ cmd[c].op \in {"stop", "rm_force"} /\ cmd[c].seen # None
       /\ p \in {"deltask", "delrpc", "unlist", "delrecord", "done"} /\ r # "fail"
       => Reaped(cmd[c].seen)
    /\ /\ cmd[c].op = "run" /\ r # "fail"
       /\ p \in {"deltask", "delrpc", "unlist", "delrecord", "done"}
       => /\ cmd[c].exit # None /\ cmd[c].own # None
          /\ p # "deltask" /\ cmd[c].seen = cmd[c].own =>
                task[cmd[c].own].status = "STOPPED"

LEMMA WalkStep ==
    ASSUME IInv, NEW c \in Clients, cmd[c] \in CommandStates, ClientInv(c),
           NEW p, NEW r, Walks(c, p, r), MayWalk(c, p, r), cmd[c].pc # "idle",
           thr'[Call(c)].pc = "idle", thr'[Waiter(c)] = thr[Waiter(c)],
           \A t \in Tasks : Onward(t), \A id \in Ids : ListStep(id)
    PROVE  ClientInv(c)'
<1> USE DEF ClientInv
<1>1. /\ cmd[c].own \in Tasks \cup {None} /\ cmd[c].seen \in Tasks \cup {None}
      /\ cmd[c].id \in Ids /\ cmd[c].cut \in BOOLEAN
  BY DEF CommandStates, Placed
<1>2. Placed(c)'
  BY <1>1 DEF Walks, Learns, MayWalk, Placed
<1>3. Owns(c)'
  <2>1. cmd[c].own # None => mon[cmd[c].own] # "none" /\ mon'[cmd[c].own] # "none"
    BY <1>1 DEF Owns, Onward
  <2> QED BY <2>1 DEF Owns, Walks, Learns, MayWalk
<1>4. SeenRunning(c)'
  <2> SUFFICES ASSUME Is(c, {"stop", "rm_force"}), cmd[c].seen # None
               PROVE  SeenRunning(c)'
    BY DEF SeenRunning, Is, Walks, Learns
  <2>1. cmd[c].seen \in Tasks /\ cmd[c].id \in Ids
    BY <1>1 DEF Is
  <2>2. Known(cmd[c].seen, cmd[c].id)
    BY <2>1, KnownTask
  <2> QED BY <2>2 DEF SeenRunning, Walks, Learns, MayWalk, Is, Reaped, Started, Known
<1>5. ASSUME cmd[c].own # None, cmd[c].op = "run"
      PROVE  Known(cmd[c].own, cmd[c].id) /\ mon[cmd[c].own] # "none"
  <2>1. cmd[c].own \in Tasks /\ cmd[c].id \in Ids
    BY <1>1, <1>5
  <2> QED BY <1>5, <2>1, KnownTask DEF Owns
<1>6. RunStarts(c)'
  BY <1>5 DEF RunStarts, Walks, Learns, MayWalk, Is, Started, Known
<1>7. RunWaits(c)'
  BY <1>5 DEF RunWaits, Walks, Learns, Is, Started, Known
<1>8. RunReports(c)'
  BY <1>5 DEF RunReports, Good, Walks, Learns, MayWalk, Is, Known
<1> QED BY <1>2, <1>3, <1>4, <1>6, <1>7, <1>8

(* The ways of the commands that end in failure, or in a success that says *)
(* nothing of a task.                                                      *)
LEMMA EndsMayWalk ==
    ASSUME NEW c \in Clients, Placed(c), cmd[c].pc # "idle"
    PROVE  /\ MayWalk(c, "done", "fail")
           /\ cmd[c].op \notin {"stop", "rm_force", "run"} => MayWalk(c, "done", "ok")
<1>1. cmd[c].op \in Commands
  BY DEF Placed, OnRoute, Commands
<1> QED BY <1>1 DEF MayWalk, OnRoute, Early, Taskless, Unseen

(* The ways before Wait.                                                   *)
LEMMA EarlyMayWalk ==
    ASSUME NEW c \in Clients, Placed(c), Owns(c)
    PROVE  /\ cmd[c].pc = "image" => MayWalk(c, "snapshot", cmd[c].result)
           /\ cmd[c].pc = "snapshot" => MayWalk(c, "record", cmd[c].result)
           /\ cmd[c].pc = "record" /\ cmd[c].op # "docker_create" =>
                MayWalk(c, "newtask", cmd[c].result)
           /\ cmd[c].pc = "newtask" /\ cmd[c].op # "docker_start" =>
                MayWalk(c, "unlist", "fail")
           /\ cmd[c].pc = "start" /\ cmd[c].op # "docker_start" =>
                MayWalk(c, "deltask", "fail")
           /\ cmd[c].pc = "load" /\ cmd[c].op = "rm" =>
                MayWalk(c, "unlist", cmd[c].result)
           /\ cmd[c].pc = "load" /\ cmd[c].op = "docker_start" =>
                MayWalk(c, "newtask", cmd[c].result)
           /\ cmd[c].pc = "load" /\ cmd[c].op \notin {"rm", "docker_start"} =>
                MayWalk(c, "task", cmd[c].result)
           /\ cmd[c].pc = "task" /\ cmd[c].op = "rm_force" =>
                MayWalk(c, "unlist", cmd[c].result)
           /\ cmd[c].pc = "status" /\ cmd[c].op = "stop" => MayWalk(c, "done", "ok")
           /\ cmd[c].pc = "status" /\ cmd[c].op = "rm_force" =>
                MayWalk(c, "deltask", cmd[c].result)
           /\ cmd[c].pc = "kill" /\ cmd[c].op # "docker_stop" =>
                MayWalk(c, "wait", cmd[c].result)
           /\ cmd[c].pc = "term" => MayWalk(c, "wait", cmd[c].result)
           /\ cmd[c].pc = "force" => MayWalk(c, "reap", cmd[c].result)
           /\ cmd[c].pc = "waiting" /\ cmd[c].op = "stop" =>
                MayWalk(c, "force", cmd[c].result)
<1> USE DEF MayWalk, OnRoute, Early, Taskless, Unseen
<1>1. cmd[c].pc = "image" => MayWalk(c, "snapshot", cmd[c].result)
  BY DEF Placed
<1>2. cmd[c].pc = "snapshot" => MayWalk(c, "record", cmd[c].result)
  BY DEF Placed
<1>3. cmd[c].pc = "record" /\ cmd[c].op # "docker_create" =>
            MayWalk(c, "newtask", cmd[c].result)
  BY DEF Placed
<1>4. cmd[c].pc = "newtask" /\ cmd[c].op # "docker_start" =>
            MayWalk(c, "unlist", "fail")
  BY DEF Placed
<1>5. cmd[c].pc = "start" /\ cmd[c].op # "docker_start" =>
            MayWalk(c, "deltask", "fail")
  BY DEF Placed
<1>6. cmd[c].pc = "load" /\ cmd[c].op = "rm" => MayWalk(c, "unlist", cmd[c].result)
  BY DEF Placed, Commands
<1>7. cmd[c].pc = "load" /\ cmd[c].op = "docker_start" =>
     MayWalk(c, "newtask", cmd[c].result)
  BY DEF Placed, Commands
<1>8. cmd[c].pc = "load" /\ cmd[c].op \notin {"rm", "docker_start"} =>
            MayWalk(c, "task", cmd[c].result)
  BY DEF Placed, Commands
<1>9. cmd[c].pc = "task" /\ cmd[c].op = "rm_force" => MayWalk(c, "unlist", cmd[c].result)
  BY DEF Placed, Owns
<1>10. cmd[c].pc = "status" /\ cmd[c].op = "stop" => MayWalk(c, "done", "ok")
  BY DEF Placed, Owns, Commands
<1>11. cmd[c].pc = "status" /\ cmd[c].op = "rm_force" => MayWalk(c, "deltask", cmd[c].result)
  BY DEF Placed, Owns
<1>12. cmd[c].pc = "kill" /\ cmd[c].op # "docker_stop" =>
     MayWalk(c, "wait", cmd[c].result)
  BY DEF Placed
<1>13. cmd[c].pc = "term" => MayWalk(c, "wait", cmd[c].result)
  BY DEF Placed
<1>14. cmd[c].pc = "force" => MayWalk(c, "reap", cmd[c].result)
  BY DEF Placed
<1>15. cmd[c].pc = "waiting" /\ cmd[c].op = "stop" => MayWalk(c, "force", cmd[c].result)
  BY DEF Placed
<1> HIDE DEF MayWalk
<1> QED BY <1>1, <1>2, <1>3, <1>4, <1>5, <1>6, <1>7,
           <1>8, <1>9, <1>10, <1>11, <1>12, <1>13, <1>14, <1>15

(* The ways after Wait.                                                    *)
LEMMA LateMayWalk ==
    ASSUME NEW c \in Clients, ClientInv(c)
    PROVE  /\ cmd[c].pc \in {"waiting", "reap"} /\ cmd[c].exit # None =>
                 /\ cmd[c].op \in {"run", "rm_force"} => MayWalk(c, "deltask", cmd[c].result)
                 /\ cmd[c].op \notin {"run", "rm_force"} => MayWalk(c, "done", "ok")
           /\ /\ cmd[c].pc = "deltask"
              /\ cmd[c].op = "run" /\ cmd[c].seen = cmd[c].own /\ cmd[c].own # None
                 /\ cmd[c].result # "fail" => task[cmd[c].own].status = "STOPPED"
              => MayWalk(c, "delrpc", cmd[c].result)
           /\ /\ cmd[c].pc \in {"deltask", "delrpc"}
              /\ cmd[c].op = "rm_force" \/ cmd[c].result = "fail"
              => MayWalk(c, "unlist", cmd[c].result)
           /\ cmd[c].pc = "delrpc" => MayWalk(c, "unlist", cmd[c].result)
           /\ cmd[c].pc = "unlist" => MayWalk(c, "delrecord", cmd[c].result)
           /\ cmd[c].pc = "delrecord" /\ cmd[c].result # "fail" => MayWalk(c, "done", "ok")
<1> USE DEF ClientInv, Placed, MayWalk, Early, Taskless, Unseen
<1>1. cmd[c].pc \in {"waiting", "reap"} /\ cmd[c].exit # None =>
            /\ cmd[c].op \in {"run", "rm_force"} => MayWalk(c, "deltask", cmd[c].result)
            /\ cmd[c].op \notin {"run", "rm_force"} => MayWalk(c, "done", "ok")
  BY DEF OnRoute, Commands, SeenRunning, Is, RunReports, Good
<1>2. ASSUME cmd[c].pc = "deltask",
             cmd[c].op = "run" /\ cmd[c].seen = cmd[c].own /\ cmd[c].own # None
                 /\ cmd[c].result # "fail" => task[cmd[c].own].status = "STOPPED"
      PROVE  MayWalk(c, "delrpc", cmd[c].result)
  BY <1>2 DEF OnRoute, SeenRunning, Is, RunReports, Good
<1>3. ASSUME cmd[c].pc \in {"deltask", "delrpc"},
             cmd[c].op = "rm_force" \/ cmd[c].result = "fail"
      PROVE  MayWalk(c, "unlist", cmd[c].result)
  BY <1>3 DEF OnRoute, SeenRunning, Is
<1>4. cmd[c].pc = "delrpc" => MayWalk(c, "unlist", cmd[c].result)
  BY DEF OnRoute, SeenRunning, Is, RunReports, Good
<1>5. cmd[c].pc = "unlist" => MayWalk(c, "delrecord", cmd[c].result)
  BY DEF OnRoute, SeenRunning, Is, RunReports, Good
<1>6. cmd[c].pc = "delrecord" /\ cmd[c].result # "fail" => MayWalk(c, "done", "ok")
  BY DEF OnRoute, Commands, SeenRunning, Is, RunReports, Good
<1> HIDE DEF ClientInv, Placed, MayWalk
<1> QED BY <1>1, <1>2, <1>3, <1>4, <1>5, <1>6

-----------------------------------------------------------------------------
(* A command learns something.                                             *)

LEMMA NewTaskClient ==
    ASSUME LifecycleTypeOK, IInv, NEW c \in Clients, ClientInv(c),
           NEW t \in Tasks, NEW p \in Pids, NewTask(c, t, p)
    PROVE  /\ Learns(c, "pid", t, cmd[c].seen, cmd[c].nopid, cmd[c].exit,
                     cmd[c].result, cmd[c].cut)
           /\ ClientInv(c)'
<1>0. cmd[c] \in CommandStates /\ cmd \in [Clients -> CommandStates]
  BY DEF LifecycleTypeOK
<1>1. Learns(c, "pid", t, cmd[c].seen, cmd[c].nopid, cmd[c].exit,
             cmd[c].result, cmd[c].cut)
  <2>1. [cmd[c] EXCEPT !.pc = "pid", !.own = t] \in CommandStates
    BY <1>0 DEF CommandStates, Places
  <2>2. /\ cmd'[c] = [cmd[c] EXCEPT !.pc = "pid", !.own = t]
        /\ \A d \in Clients \ {c} : cmd'[d] = cmd[d]
        /\ cmd' \in [Clients -> CommandStates]
    BY <2>1, <1>0 DEF NewTask, Becomes
  <2> QED BY <1>0, <2>1, <2>2 DEF Learns, CommandStates
<1>2. /\ cmd[c].pc = "newtask" /\ ~cmd[c].cut /\ thr' = thr
      /\ mon'[t] = "waiting" /\ t # None
  BY NoneAssumption DEF NewTask, At, Create, LifecycleTypeOK, TypeOK
<1>3. /\ cmd[c].op \in {"run", "run_detached", "docker_start"} /\ cmd[c].id \in Ids
      /\ cmd[c].seen = None /\ cmd[c].exit = None
      /\ thr[Call(c)].pc = "idle" /\ thr[Waiter(c)].pc = "idle"
  BY <1>2 DEF ClientInv, Placed, OnRoute, Owns, Early, Taskless, Unseen, Killing
<1>4. Placed(c)'
  BY <1>1, <1>2, <1>3 DEF Placed, OnRoute, Learns
<1>5. Owns(c)'
  BY <1>1, <1>2, <1>3 DEF Owns, Learns, Taskless, Unseen
<1>6. SeenRunning(c)' /\ RunStarts(c)' /\ RunWaits(c)' /\ RunReports(c)'
  BY <1>1, <1>2, <1>3 DEF SeenRunning, RunStarts, RunWaits, RunReports, Good, Is, Learns
<1> QED BY <1>1, <1>4, <1>5, <1>6 DEF ClientInv

LEMMA NewTaskAnswersClient ==
    ASSUME LifecycleTypeOK, IInv, NEW c \in Clients, ClientInv(c), NewTaskAnswers(c)
    PROVE  /\ Learns(c, "start", cmd[c].own, cmd[c].seen, task[cmd[c].own].pid = NoPid,
                     cmd[c].exit, cmd[c].result, cmd[c].cut)
           /\ ClientInv(c)'
<1> DEFINE np == task[cmd[c].own].pid = NoPid
<1>0. cmd[c] \in CommandStates /\ cmd \in [Clients -> CommandStates] /\ np \in BOOLEAN
  BY DEF LifecycleTypeOK
<1>2. /\ cmd[c].pc = "pid" /\ ~cmd[c].cut
      /\ UNCHANGED <<tasks, task, os, mon, waitCh, thr>>
      /\ cmd' = [cmd EXCEPT ![c] = [cmd[c] EXCEPT !.pc = "start", !.nopid = np]]
  BY DEF NewTaskAnswers, At, Daemon, Becomes
<1> HIDE DEF np
<1>1. Learns(c, "start", cmd[c].own, cmd[c].seen, np, cmd[c].exit,
             cmd[c].result, cmd[c].cut)
  <2>1. [cmd[c] EXCEPT !.pc = "start", !.nopid = np] \in CommandStates
    BY <1>0 DEF CommandStates, Places
  <2>2. /\ cmd'[c] = [cmd[c] EXCEPT !.pc = "start", !.nopid = np]
        /\ \A d \in Clients \ {c} : cmd'[d] = cmd[d]
        /\ cmd' \in [Clients -> CommandStates]
    BY <2>1, <1>0, <1>2
  <2> QED BY <1>0, <2>1, <2>2 DEF Learns, CommandStates
<1>3. /\ cmd[c].op \in {"run", "run_detached", "docker_start"} /\ cmd[c].id \in Ids
      /\ cmd[c].exit = None /\ cmd[c].own # None /\ mon[cmd[c].own] # "none"
      /\ thr[Call(c)].pc = "idle" /\ thr[Waiter(c)].pc = "idle"
  BY <1>2 DEF ClientInv, Placed, OnRoute, Owns, Early, Taskless, Unseen, Killing
<1>4. Placed(c)'
  BY <1>1, <1>2, <1>3 DEF Placed, OnRoute, Learns
<1>5. Owns(c)'
  BY <1>1, <1>2, <1>3 DEF Owns, Learns, Taskless, Unseen
<1>6. cmd[c].op = "run" => cmd[c].seen = None
  BY <1>2 DEF ClientInv, RunStarts, Is, Early
<1>7. SeenRunning(c)' /\ RunStarts(c)' /\ RunWaits(c)' /\ RunReports(c)'
  BY <1>1, <1>2, <1>3, <1>6
     DEF SeenRunning, RunStarts, RunWaits, RunReports, Good, Is, Learns
<1> QED BY <1>1, <1>4, <1>5, <1>7 DEF ClientInv, np

LEMMA LoadTaskClient ==
    ASSUME LifecycleTypeOK, IInv, NEW c \in Clients, ClientInv(c), LoadTask(c)
    PROVE  /\ \E pc \in {"wait", "kill", "status"} :
                 Learns(c, pc, cmd[c].own, cmd[c].seen,
                        task[tasks[cmd[c].id]].pid = NoPid, cmd[c].exit,
                        cmd[c].result, cmd[c].cut)
           /\ ClientInv(c)'
<1> DEFINE np == task[tasks[cmd[c].id]].pid = NoPid
           pc == CASE Is(c, {"exec"})        -> "wait"
                   [] Is(c, {"docker_stop"}) -> "kill"
                   [] OTHER                  -> "status"
<1>0. cmd[c] \in CommandStates /\ cmd \in [Clients -> CommandStates] /\ np \in BOOLEAN
  BY DEF LifecycleTypeOK
<1>2. /\ cmd[c].pc = "task" /\ ~cmd[c].cut
      /\ UNCHANGED <<tasks, task, os, mon, waitCh, thr>>
      /\ cmd' = [cmd EXCEPT ![c] = [cmd[c] EXCEPT !.nopid = np, !.pc = pc]]
  BY DEF LoadTask, At, Daemon, Becomes
<1>a. pc \in {"wait", "kill", "status"} /\ pc \in Places
  BY DEF Is, Places, Killing
<1>3. /\ cmd[c].op \in {"stop", "rm_force", "exec", "docker_stop"} /\ cmd[c].id \in Ids
      /\ cmd[c].seen = None /\ cmd[c].exit = None /\ cmd[c].own = None
      /\ thr[Call(c)].pc = "idle" /\ thr[Waiter(c)].pc = "idle"
  BY <1>2 DEF ClientInv, Placed, OnRoute, Owns, Early, Taskless, Unseen, Killing
<1>b. OnRoute(pc, cmd[c].op)
  BY <1>3 DEF OnRoute, Is
<1> HIDE DEF np, pc
<1>1. Learns(c, pc, cmd[c].own, cmd[c].seen, np, cmd[c].exit, cmd[c].result, cmd[c].cut)
  <2>1. [cmd[c] EXCEPT !.nopid = np, !.pc = pc] \in CommandStates
    BY <1>0, <1>a DEF CommandStates
  <2>2. /\ cmd'[c] = [cmd[c] EXCEPT !.nopid = np, !.pc = pc]
        /\ \A d \in Clients \ {c} : cmd'[d] = cmd[d]
        /\ cmd' \in [Clients -> CommandStates]
    BY <2>1, <1>0, <1>2
  <2> QED BY <1>0, <2>1, <2>2 DEF Learns, CommandStates
<1>4. Placed(c)'
  BY <1>a, <1>b, <1>1, <1>2, <1>3 DEF Placed, Learns
<1>5. Owns(c)'
  BY <1>a, <1>1, <1>2, <1>3 DEF Owns, Learns
<1>6. SeenRunning(c)' /\ RunStarts(c)' /\ RunWaits(c)' /\ RunReports(c)'
  BY <1>1, <1>3 DEF SeenRunning, RunStarts, RunWaits, RunReports, Is, Learns
<1> QED BY <1>1, <1>a, <1>4, <1>5, <1>6 DEF ClientInv, np

(* A stop or a forced removal notes the task that is RUNNING.              *)
LEMMA SeesRunningClient ==
    ASSUME LifecycleTypeOK, IInv, ListInv, NEW c \in Clients, ClientInv(c),
           NEW pc \in {"term", "kill"}, OnRoute(pc, cmd[c].op),
           At(c, "status"), cmd[c].op \in {"stop", "rm_force"},
           StatusOf(cmd[c].id) \notin {"NotFound", "STOPPED", "CREATED"},
           Becomes(c, [cmd[c] EXCEPT !.pc = pc, !.seen = tasks[cmd[c].id]]),
           UNCHANGED Daemon
    PROVE  /\ Learns(c, pc, cmd[c].own, tasks[cmd[c].id], cmd[c].nopid, cmd[c].exit,
                     cmd[c].result, cmd[c].cut)
           /\ ClientInv(c)'
<1> DEFINE s == tasks[cmd[c].id]
<1>0. /\ cmd[c] \in CommandStates /\ cmd \in [Clients -> CommandStates]
      /\ task \in [Tasks -> Objects] /\ tasks \in [Ids -> Tasks \cup {None}]
  BY DEF LifecycleTypeOK, TypeOK
<1>2. /\ cmd[c].pc = "status" /\ ~cmd[c].cut
      /\ UNCHANGED <<tasks, task, os, mon, waitCh, thr>>
  BY DEF At, Daemon
<1>3. /\ cmd[c].id \in Ids
      /\ cmd[c].seen = None /\ cmd[c].exit = None /\ cmd[c].own = None
      /\ thr[Call(c)].pc = "idle" /\ thr[Waiter(c)].pc = "idle"
  BY <1>2 DEF ClientInv, Placed, Owns, Early, Taskless, Unseen, Killing
<1>4. s \in Tasks /\ Started(s)
  <2>1. s \in Tasks /\ task[s].status \notin {"STOPPED", "CREATED"}
    BY <1>0, <1>3 DEF StatusOf
  <2>2. task[s].status # "PAUSED" /\ mon[s] # "none"
    BY <1>3, <2>1, NoneAssumption DEF ListInv
  <2>4. task[s].status # "unborn"
    BY <2>1, <2>2 DEF IInv, ExitProtocol
  <2>3. task[s].status \in Status \cup {"unborn"}
    BY <1>0, <2>1 DEF Objects
  <2> HIDE DEF s
  <2> QED BY <2>1, <2>2, <2>3, <2>4 DEF Started, Status
<1>1. Learns(c, pc, cmd[c].own, s, cmd[c].nopid, cmd[c].exit, cmd[c].result, cmd[c].cut)
  <2> HIDE DEF s
  <2>0. pc \in Places
    BY DEF Places, Killing
  <2>1. [cmd[c] EXCEPT !.pc = pc, !.seen = s] \in CommandStates
    BY <1>0, <1>4, <2>0 DEF CommandStates
  <2>2. /\ cmd'[c] = [cmd[c] EXCEPT !.pc = pc, !.seen = s]
        /\ \A d \in Clients \ {c} : cmd'[d] = cmd[d]
        /\ cmd' \in [Clients -> CommandStates]
    BY <2>1, <1>0 DEF Becomes, s
  <2> QED BY <1>0, <2>1, <2>2 DEF Learns, CommandStates
<1>5. Placed(c)'
  BY <1>1, <1>2, <1>3 DEF Placed, Learns
<1>6. Owns(c)'
  BY <1>1, <1>3 DEF Owns, Learns, Unseen
<1>7. SeenRunning(c)'
  BY <1>1, <1>2, <1>3, <1>4 DEF SeenRunning, Learns, Started
<1>8. RunStarts(c)' /\ RunWaits(c)' /\ RunReports(c)'
  BY <1>1 DEF RunStarts, RunWaits, RunReports, Is, Learns
<1> QED BY <1>1, <1>5, <1>6, <1>7, <1>8 DEF ClientInv

(* The Start of a run succeeds: if its own task is on the list, that is    *)
(* the one that has been started.                                          *)
LEMMA RunStartedClient ==
    ASSUME LifecycleTypeOK, IInv, IInv', NEW c \in Clients, ClientInv(c),
           Start(Call(c)), ~cmd[c].cut, task[thr[Call(c)].task].status = "CREATED",
           cmd[c].op = "run", Becomes(c, [cmd[c] EXCEPT !.pc = "wait", !.nopid = TRUE])
    PROVE  /\ Learns(c, "wait", cmd[c].own, cmd[c].seen, TRUE, cmd[c].exit,
                     cmd[c].result, cmd[c].cut)
           /\ ClientInv(c)' /\ cmd[c].own # None
           /\ tasks[cmd[c].id] = cmd[c].own => Started(cmd[c].own)'
<1>0. /\ cmd[c] \in CommandStates /\ cmd \in [Clients -> CommandStates]
      /\ task \in [Tasks -> Objects] /\ thr \in [Threads -> Requests]
      /\ Call(c) \in Threads /\ Waiter(c) \in Threads /\ Call(c) # Waiter(c)
  BY ClientThreads DEF LifecycleTypeOK, TypeOK, Call, Waiter
<1>1. Learns(c, "wait", cmd[c].own, cmd[c].seen, TRUE, cmd[c].exit,
             cmd[c].result, cmd[c].cut)
  <2>1. [cmd[c] EXCEPT !.pc = "wait", !.nopid = TRUE] \in CommandStates
    BY <1>0 DEF CommandStates, Places
  <2>2. /\ cmd'[c] = [cmd[c] EXCEPT !.pc = "wait", !.nopid = TRUE]
        /\ \A d \in Clients \ {c} : cmd'[d] = cmd[d]
        /\ cmd' \in [Clients -> CommandStates]
    BY <2>1, <1>0 DEF Becomes
  <2> QED BY <1>0, <2>1, <2>2 DEF Learns, CommandStates
<1>2. /\ thr[Call(c)].pc = "start" /\ thr'[Call(c)] = Idle
      /\ thr'[Waiter(c)] = thr[Waiter(c)] /\ UNCHANGED <<tasks, os, mon>>
      /\ task' = [task EXCEPT ![thr[Call(c)].task].status = "RUNNING"]
  BY <1>0 DEF Start, Return
<1>3. /\ cmd[c].pc = "start" /\ cmd[c].id \in Ids /\ cmd[c].exit = None
      /\ cmd[c].own # None /\ mon[cmd[c].own] # "none" /\ cmd[c].seen = None
      /\ thr[Waiter(c)].pc = "idle"
  <2>1. cmd[c].pc = "start"
    BY <1>2 DEF ClientInv, Placed
  <2> QED BY <2>1 DEF ClientInv, Placed, Owns, RunStarts, Is, Early
<1>4. tasks[cmd[c].id] = cmd[c].own => task'[cmd[c].own].status = "RUNNING"
  <2>1. cmd[c].own \in Tasks
    BY <1>0, <1>3 DEF CommandStates
  <2> QED BY <1>0, <1>2, <1>3, <2>1 DEF ClientInv, RunStarts, Is, Objects
<1>5. Placed(c)'
  BY <1>1, <1>2, <1>3 DEF Placed, OnRoute, Learns, Idle
<1>6. Owns(c)'
  BY <1>1, <1>2, <1>3 DEF Owns, Learns, Taskless, Unseen
<1>7. RunStarts(c)'
  BY <1>1, <1>2, <1>3, <1>4 DEF RunStarts, Learns, Idle, Started
<1>8. SeenRunning(c)' /\ RunWaits(c)' /\ RunReports(c)'
  BY <1>1, <1>2, <1>3 DEF SeenRunning, RunWaits, RunReports, Good, Is, Learns
<1>9. cmd[c].own # None /\ (tasks[cmd[c].id] = cmd[c].own => Started(cmd[c].own)')
  BY <1>1, <1>3, <1>4 DEF Started, Learns
<1> QED BY <1>1, <1>5, <1>6, <1>7, <1>8, <1>9 DEF ClientInv

(* Wait finds a task: the one that was seen RUNNING, or that one is dead.  *)
LEMMA CallWaitClient ==
    ASSUME LifecycleTypeOK, IInv, NEW c \in Clients, ClientInv(c), CallWait(c)
    PROVE  /\ Learns(c, "waiting", cmd[c].own, cmd'[c].seen, cmd[c].nopid, cmd[c].exit,
                     cmd[c].result, cmd[c].cut)
           /\ ClientInv(c)'
<1> DEFINE u == tasks[cmd[c].id]
           s == IF Is(c, {"run"}) THEN u ELSE cmd[c].seen
<1>0. /\ cmd[c] \in CommandStates /\ cmd \in [Clients -> CommandStates]
      /\ tasks \in [Ids -> Tasks \cup {None}] /\ thr \in [Threads -> Requests]
      /\ Call(c) \in Threads /\ Waiter(c) \in Threads /\ Call(c) # Waiter(c)
  BY ClientThreads DEF LifecycleTypeOK, TypeOK, Call, Waiter
<1>2. /\ cmd[c].pc = "wait" /\ ~cmd[c].cut /\ u # None
      /\ UNCHANGED <<tasks, task, os, mon, waitCh>>
      /\ cmd' = [cmd EXCEPT ![c] = [cmd[c] EXCEPT !.pc = "waiting", !.seen = s]]
  BY DEF CallWait, At, Lookup, Becomes
<1>3. /\ thr'[Waiter(c)].pc = "wait" /\ thr'[Waiter(c)].task = u
      /\ thr'[Call(c)] = thr[Call(c)]
  BY <1>0 DEF CallWait, Lookup
<1>4. /\ cmd[c].op \in {"run", "exec", "stop", "rm_force"} /\ cmd[c].id \in Ids
      /\ cmd[c].exit = None /\ thr[Call(c)].pc = "idle"
  BY <1>2 DEF ClientInv, Placed, OnRoute, Early, Killing
<1>5. s \in Tasks \cup {None}
  BY <1>0, <1>4 DEF CommandStates
<1>6. cmd[c].op = "run" => /\ s = u /\ cmd[c].own # None
                           /\ u = cmd[c].own => Started(cmd[c].own)
  BY <1>2 DEF ClientInv, RunStarts, Is
<1>7. cmd[c].op \in {"stop", "rm_force"} /\ cmd[c].seen # None =>
          /\ s = cmd[c].seen /\ Started(s)
          /\ u = s \/ Reaped(s)
  BY DEF ClientInv, SeenRunning, Is
<1> HIDE DEF u, s
<1>1. Learns(c, "waiting", cmd[c].own, s, cmd[c].nopid, cmd[c].exit,
             cmd[c].result, cmd[c].cut)
  <2>1. [cmd[c] EXCEPT !.pc = "waiting", !.seen = s] \in CommandStates
    BY <1>0, <1>5 DEF CommandStates, Places
  <2>2. /\ cmd'[c] = [cmd[c] EXCEPT !.pc = "waiting", !.seen = s]
        /\ \A d \in Clients \ {c} : cmd'[d] = cmd[d]
        /\ cmd' \in [Clients -> CommandStates]
    BY <2>1, <1>0, <1>2
  <2> QED BY <1>0, <2>1, <2>2 DEF Learns, CommandStates
<1>8. Placed(c)'
  BY <1>1, <1>3, <1>4 DEF Placed, OnRoute, Learns, Early, Taskless, Unseen
<1>9. Owns(c)'
  BY <1>1, <1>2 DEF ClientInv, Owns, Learns, Taskless, Unseen
<1>10. SeenRunning(c)'
  <2>1. Is(c, {"stop", "rm_force"})' => s = cmd[c].seen
    BY <1>1 DEF Is, Learns, s
  <2> QED BY <1>1, <1>2, <1>3, <1>4, <1>7, <2>1
          DEF SeenRunning, Is, Learns, u, Started, Reaped
<1>11. RunStarts(c)'
  BY <1>1, <1>3, <1>4, <1>6 DEF RunStarts, Is, Learns, Early, Taskless, Unseen
<1>12. RunWaits(c)'
  BY <1>1, <1>2, <1>3, <1>4, <1>6 DEF RunWaits, Is, Learns, Started, u
<1>13. RunReports(c)'
  BY <1>1, <1>6 DEF RunReports, Good, Is, Learns
<1>14. s = cmd'[c].seen
  BY <1>1 DEF Learns
<1> QED BY <1>1, <1>14, <1>8, <1>9, <1>10, <1>11, <1>12, <1>13 DEF ClientInv

LEMMA WaitNotFoundClient ==
    ASSUME LifecycleTypeOK, IInv, NEW c \in Clients, ClientInv(c), WaitNotFound(c)
    PROVE  /\ Learns(c, "waiting", cmd[c].own, cmd[c].seen, cmd[c].nopid,
                     UnknownExitStatus, cmd[c].result, cmd[c].cut)
           /\ ClientInv(c)'
<1>0. cmd[c] \in CommandStates /\ cmd \in [Clients -> CommandStates]
  BY DEF LifecycleTypeOK
<1>1. Learns(c, "waiting", cmd[c].own, cmd[c].seen, cmd[c].nopid, UnknownExitStatus,
             cmd[c].result, cmd[c].cut)
  <2>0. UnknownExitStatus \in ExitStatuses
    BY DEF ExitStatuses
  <2>1. [cmd[c] EXCEPT !.pc = "waiting", !.exit = UnknownExitStatus] \in CommandStates
    BY <1>0, <2>0 DEF CommandStates, Places
  <2>2. /\ cmd'[c] = [cmd[c] EXCEPT !.pc = "waiting", !.exit = UnknownExitStatus]
        /\ \A d \in Clients \ {c} : cmd'[d] = cmd[d]
        /\ cmd' \in [Clients -> CommandStates]
    BY <2>1, <1>0 DEF WaitNotFound, Becomes
  <2> QED BY <1>0, <2>1, <2>2 DEF Learns, CommandStates
<1>2. /\ cmd[c].pc = "wait" /\ ~cmd[c].cut /\ tasks[cmd[c].id] = None
      /\ UNCHANGED <<tasks, task, os, mon, waitCh, thr>>
  BY DEF WaitNotFound, At, Daemon
<1>3. /\ cmd[c].op \in {"run", "exec", "stop", "rm_force"} /\ cmd[c].id \in Ids
      /\ thr[Call(c)].pc = "idle" /\ thr[Waiter(c)].pc = "idle"
  BY <1>2 DEF ClientInv, Placed, OnRoute, Early, Killing
<1>4. cmd[c].op = "run" => cmd[c].own # None /\ cmd[c].seen = None
  BY <1>2 DEF ClientInv, RunStarts, Is, Early
<1>5. cmd[c].op \in {"stop", "rm_force"} /\ cmd[c].seen # None =>
          Started(cmd[c].seen) /\ Reaped(cmd[c].seen)
  BY <1>2 DEF ClientInv, SeenRunning, Is
<1>6. Placed(c)'
  BY <1>1, <1>2, <1>3 DEF Placed, OnRoute, Learns, Early, Taskless, Unseen
<1>7. Owns(c)'
  BY <1>1, <1>2 DEF ClientInv, Owns, Learns, Taskless, Unseen
<1>8. SeenRunning(c)'
  BY <1>1, <1>2, <1>3, <1>5 DEF SeenRunning, Is, Learns, Started, Reaped
<1>9. RunStarts(c)' /\ RunWaits(c)' /\ RunReports(c)'
  BY <1>1, <1>2, <1>3, <1>4
     DEF RunStarts, RunWaits, RunReports, Good, Is, Learns, Early, Taskless, Unseen
<1> QED BY <1>1, <1>6, <1>7, <1>8, <1>9 DEF ClientInv

(* The answer of Wait: the process it was about is reaped, and the code is *)
(* final.                                                                  *)
LEMMA WaitAnswersClient ==
    ASSUME LifecycleTypeOK, IInv, NEW c \in Clients, ClientInv(c),
           WaitAnswers(c), ~cmd[c].cut
    PROVE  /\ Learns(c, cmd[c].pc, cmd[c].own, cmd[c].seen, cmd[c].nopid,
                     UInt32(task[thr[Waiter(c)].task].code), cmd[c].result, cmd[c].cut)
           /\ ClientInv(c)'
<1> DEFINE u == thr[Waiter(c)].task
           code == UInt32(task[u].code)
<1>0. /\ cmd[c] \in CommandStates /\ cmd \in [Clients -> CommandStates]
      /\ task \in [Tasks -> Objects] /\ thr \in [Threads -> Requests]
      /\ Call(c) \in Threads /\ Waiter(c) \in Threads /\ Call(c) # Waiter(c)
  BY ClientThreads DEF LifecycleTypeOK, TypeOK, Call, Waiter
<1>2. /\ thr[Waiter(c)].pc = "exitcode" /\ thr'[Waiter(c)] = Idle
      /\ thr'[Call(c)] = thr[Call(c)] /\ UNCHANGED <<tasks, task, os, mon>>
      /\ cmd' = [cmd EXCEPT ![c].exit = code]
  BY <1>0 DEF WaitAnswers, WaitReturn, Return
<1>3. u \in Tasks /\ mon[u] = "done" /\ Reaped(u)
  <2>1. u \in Tasks /\ waitCh[u] = "taken"
    BY <1>0, <1>2 DEF IInv, RequestOK
  <2> QED BY <2>1 DEF IInv, ExitProtocol, Reaped
<1>4. code \in ExitStatuses /\ code # None
  <2>1. task[u].code \in ExitCodes
    BY <1>0, <1>3 DEF Objects
  <2> QED BY <2>1, StatusAssumption DEF ExitStatuses
<1> HIDE DEF u, code
<1>1. Learns(c, cmd[c].pc, cmd[c].own, cmd[c].seen, cmd[c].nopid, code,
             cmd[c].result, cmd[c].cut)
  <2>1. [cmd[c] EXCEPT !.exit = code] \in CommandStates
    BY <1>0, <1>4 DEF CommandStates
  <2>2. /\ cmd'[c] = [cmd[c] EXCEPT !.exit = code]
        /\ \A d \in Clients \ {c} : cmd'[d] = cmd[d]
        /\ cmd' \in [Clients -> CommandStates]
    BY <2>1, <1>0, <1>2
  <2> QED BY <1>0, <2>1, <2>2 DEF Learns, CommandStates
<1>5. cmd[c].pc \notin Early
  BY <1>2 DEF ClientInv, Placed
<1>6. Placed(c)'
  BY <1>1, <1>2, <1>5 DEF ClientInv, Placed, Learns, Idle
<1>7. Owns(c)'
  BY <1>1, <1>2 DEF ClientInv, Owns, Learns
<1>8. SeenRunning(c)'
  <2>1. Is(c, {"stop", "rm_force"}) /\ cmd[c].seen # None => Reaped(cmd[c].seen)
    BY <1>2, <1>3 DEF ClientInv, SeenRunning, u
  <2> QED BY <1>1, <1>2, <2>1 DEF ClientInv, SeenRunning, Is, Learns, Idle, Reaped, Started
<1>9. RunStarts(c)'
  BY <1>1, <1>2 DEF ClientInv, RunStarts, Is, Learns, Started
<1>10. RunWaits(c)'
  <2>1. Is(c, {"run"}) => u = cmd[c].seen
    BY <1>2 DEF ClientInv, RunWaits, u
  <2> QED BY <1>1, <1>2, <1>3, <2>1
          DEF ClientInv, RunWaits, Is, Learns, Started, Idle, code
<1>11. RunReports(c)'
  BY <1>1, <1>2, <1>4 DEF ClientInv, RunReports, Good, Is, Learns
<1> QED BY <1>1, <1>6, <1>7, <1>8, <1>9, <1>10, <1>11 DEF ClientInv, code, u

LEMMA InterruptClient ==
    ASSUME LifecycleTypeOK, IInv, NEW c \in Clients, ClientInv(c), Interrupt(c)
    PROVE  /\ Learns(c, cmd[c].pc, cmd[c].own, cmd[c].seen, cmd[c].nopid,
                     cmd[c].exit, cmd'[c].result, TRUE)
           /\ ClientInv(c)'
<1> DEFINE r == IF \/ Is(c, {"stop"}) /\ cmd[c].pc \in {"waiting", "reap"}
                   \/ Is(c, {"docker_stop"}) /\ cmd[c].pc # "load"
                THEN "ok" ELSE "fail"
<1>0. cmd[c] \in CommandStates /\ cmd \in [Clients -> CommandStates]
  BY DEF LifecycleTypeOK
<1>2. /\ cmd[c].pc \notin {"idle", "done"}
      /\ UNCHANGED <<tasks, task, os, mon, waitCh, thr>>
      /\ cmd' = [cmd EXCEPT ![c] = [cmd[c] EXCEPT !.cut = TRUE, !.result = r]]
  BY DEF Interrupt, Daemon, Becomes
<1>3. /\ r \in {"ok", "fail"}
      /\ cmd[c].op = "run" => r = "fail"
      /\ /\ cmd[c].op \in {"stop", "rm_force"}
         /\ cmd[c].pc \in {"deltask", "delrpc", "unlist", "delrecord", "done"}
         => r = "fail"
  BY DEF Is
<1> HIDE DEF r
<1>1. Learns(c, cmd[c].pc, cmd[c].own, cmd[c].seen, cmd[c].nopid, cmd[c].exit, r, TRUE)
  <2>1. [cmd[c] EXCEPT !.cut = TRUE, !.result = r] \in CommandStates
    BY <1>0, <1>3 DEF CommandStates
  <2>2. /\ cmd'[c] = [cmd[c] EXCEPT !.cut = TRUE, !.result = r]
        /\ \A d \in Clients \ {c} : cmd'[d] = cmd[d]
        /\ cmd' \in [Clients -> CommandStates]
    BY <2>1, <1>0, <1>2
  <2> QED BY <1>0, <2>1, <2>2 DEF Learns, CommandStates
<1>4. Placed(c)'
  BY <1>1, <1>2 DEF ClientInv, Placed, Learns
<1>5. Owns(c)'
  BY <1>1, <1>2 DEF ClientInv, Owns, Learns
<1>6. SeenRunning(c)'
  BY <1>1, <1>2, <1>3 DEF ClientInv, SeenRunning, Is, Learns, Started, Reaped
<1>7. RunStarts(c)' /\ RunWaits(c)'
  BY <1>1, <1>2 DEF ClientInv, RunStarts, RunWaits, Is, Learns, Started
<1>8. RunReports(c)'
  BY <1>1, <1>3 DEF RunReports, Good, Is, Learns
<1>9. r = cmd'[c].result
  BY <1>1 DEF Learns
<1> QED BY <1>1, <1>9, <1>4, <1>5, <1>6, <1>7, <1>8 DEF ClientInv

LEMMA BeginClient ==
    ASSUME LifecycleTypeOK, IInv, NEW c \in Clients, ClientInv(c),
           NEW op \in May[c], NEW id \in Ids, Begin(c, op, id)
    PROVE  /\ cmd[c] = NotGiven /\ op \in Commands
           /\ cmd' \in [Clients -> CommandStates]
           /\ cmd'[c].op = op /\ cmd'[c].id = id /\ cmd'[c].own = None
           /\ cmd'[c].pc \in {"image", "load"} /\ ~cmd'[c].nopid
           /\ \A d \in Clients \ {c} : cmd'[d] = cmd[d]
           /\ ClientInv(c)'
<1> DEFINE pc == IF op \in {"run", "run_detached", "docker_create"} THEN "image" ELSE "load"
           k == [NotGiven EXCEPT !.op = op, !.id = id, !.pc = pc]
<1>0. cmd[c] = NotGiven /\ cmd \in [Clients -> CommandStates] /\ op \in Commands
  BY MayAssumption DEF LifecycleTypeOK, Begin
<1>1. /\ cmd'[c] = k /\ \A d \in Clients \ {c} : cmd'[d] = cmd[d]
      /\ UNCHANGED <<tasks, task, os, mon, waitCh, thr>>
  BY <1>0 DEF Begin, Becomes, Daemon
<1>2. pc \in {"image", "load"} /\ pc \in Places /\ OnRoute(pc, op)
  <2>1. CASE op \in {"run", "run_detached", "docker_create"}
    BY <2>1 DEF Places, OnRoute
  <2>2. CASE op \in Commands \ {"run", "run_detached", "docker_create"}
    <3>1. pc = "load" /\ op \notin {"run", "run_detached", "docker_create"}
      BY <2>2
    <3>2. op \in {"stop", "rm", "rm_force", "exec", "docker_start", "docker_stop"}
      BY <2>2 DEF Commands
    <3>3. OnRoute("load", op)
      BY <3>2 DEF OnRoute
    <3> QED BY <3>1, <3>3 DEF Places
  <2> QED BY <1>0, <2>1, <2>2
<1>3. /\ NotGiven.pc = "idle" /\ NotGiven.cut = FALSE /\ NotGiven.op = "none"
      /\ NotGiven.own = None /\ NotGiven.seen = None /\ NotGiven.exit = None
      /\ NotGiven.nopid = FALSE /\ NotGiven \in CommandStates
  <2>1. NotGiven \in CommandStates
    BY <1>0
  <2> QED BY <2>1 DEF NotGiven
<1> HIDE DEF pc
<1>4. k \in CommandStates
  <2>1. NotGiven \in CommandStates /\ pc \in Places /\ op \in Commands
    BY <1>0, <1>2, <1>3
  <2> QED BY <2>1 DEF CommandStates
<1>5. /\ k.op = op /\ k.id = id /\ k.pc = pc /\ k.own = None /\ k.seen = None
      /\ k.exit = None /\ k.nopid = FALSE /\ k.cut = FALSE
  BY <1>3 DEF CommandStates
<1> HIDE DEF k
<1>6. thr[Call(c)].pc = "idle" /\ thr[Waiter(c)].pc = "idle"
  BY <1>0, <1>3 DEF ClientInv, Placed, Early, Taskless, Unseen, Killing
<1>7. Placed(c)'
  BY <1>1, <1>2, <1>5, <1>6 DEF Placed
<1>8. Owns(c)'
  BY <1>1, <1>2, <1>5 DEF Owns
<1>9. SeenRunning(c)' /\ RunStarts(c)' /\ RunWaits(c)' /\ RunReports(c)'
  BY <1>1, <1>2, <1>5, <1>6
     DEF SeenRunning, RunStarts, RunWaits, RunReports, Good, Is
<1>10. cmd' \in [Clients -> CommandStates]
  BY <1>0, <1>4 DEF Begin, Becomes, k, pc
<1> QED BY <1>0, <1>1, <1>2, <1>10, <1>5, <1>7, <1>8, <1>9 DEF ClientInv

-----------------------------------------------------------------------------
(* The steps in which a command only goes on.                              *)

(* Every place but the one where the task is deleted next.                 *)
Stations == Places \ {"delrpc"}

GoesOn(c) ==
    \E p \in Stations, r \in {"none", "ok", "fail"} : Walks(c, p, r) /\ MayWalk(c, p, r)

LEMMA GoOn ==
    ASSUME LifecycleTypeOK, NEW c \in Clients,
           NEW p \in Stations, NEW r \in {"none", "ok", "fail"}
    PROVE  /\ Goes(c, p) /\ MayWalk(c, p, cmd[c].result) => GoesOn(c)
           /\ Ends(c, r) /\ MayWalk(c, "done", r) => GoesOn(c)
           /\ /\ Becomes(c, [cmd[c] EXCEPT !.pc = p, !.result = r])
              /\ MayWalk(c, p, r)
              => GoesOn(c)
<1>1. cmd \in [Clients -> CommandStates]
  BY DEF LifecycleTypeOK
<1>2. cmd[c].result \in {"none", "ok", "fail"}
  BY <1>1 DEF CommandStates
<1>3. "done" \in Stations
  BY DEF Stations, Places
<1>4. p \in Places
  BY DEF Stations
<1> QED BY <1>1, <1>2, <1>3, <1>4, BecomesWalks, Zenon DEF GoesOn

LEMMA StartErrorGoesOn ==
    ASSUME LifecycleTypeOK, NEW c \in Clients, ClientInv(c), cmd[c].pc = "start"
    PROVE  StartError(c) => GoesOn(c)
<1>0. "deltask" \in Stations
  BY DEF Stations, Places
<1>1. Placed(c) /\ Owns(c)
  BY DEF ClientInv
<1>2. MayWalk(c, "done", "fail")
  BY <1>1, EndsMayWalk
<1>3. cmd[c].op # "docker_start" => MayWalk(c, "deltask", "fail")
  BY <1>1, EarlyMayWalk
<1> QED BY <1>0, <1>2, <1>3, GoOn, Zenon DEF StartError, Is

LEMMA KillGoesOn ==
    ASSUME LifecycleTypeOK, NEW c \in Clients, ClientInv(c), cmd[c].pc \in Killing
    PROVE  KillError(c) \/ KillOk(c) => GoesOn(c)
<1>0. "wait" \in Stations /\ "reap" \in Stations
  BY DEF Stations, Places
<1>1. Placed(c) /\ Owns(c)
  BY DEF ClientInv
<1>2. /\ MayWalk(c, "done", "fail")
      /\ cmd[c].op = "docker_stop" => MayWalk(c, "done", "ok")
  BY <1>1, EndsMayWalk DEF Killing
<1>3. /\ cmd[c].pc = "kill" /\ cmd[c].op # "docker_stop" => MayWalk(c, "wait", cmd[c].result)
      /\ cmd[c].pc = "term" => MayWalk(c, "wait", cmd[c].result)
      /\ cmd[c].pc = "force" => MayWalk(c, "reap", cmd[c].result)
  BY <1>1, EarlyMayWalk
<1>4. /\ cmd[c].op \in {"stop", "rm_force", "docker_stop"}
      /\ cmd[c].op = "rm_force" => cmd[c].pc = "kill"
      /\ cmd[c].op = "docker_stop" => cmd[c].pc = "kill"
  BY <1>1 DEF Placed, OnRoute, Killing
<1>5. ASSUME KillError(c) PROVE GoesOn(c)
  BY <1>0, <1>2, <1>3, <1>4, <1>5, GoOn, Zenon DEF KillError, Is
<1>6. ASSUME KillOk(c) PROVE GoesOn(c)
  BY <1>0, <1>2, <1>3, <1>4, <1>6, GoOn, Zenon DEF KillOk, Is, Killing
<1> QED BY <1>5, <1>6

LEMMA DeleteErrorGoesOn ==
    ASSUME LifecycleTypeOK, NEW c \in Clients, ClientInv(c),
           cmd[c].pc \in {"deltask", "delrpc"}
    PROVE  DeleteError(c) => GoesOn(c)
<1>0. "unlist" \in Stations
  BY DEF Stations, Places
<1>1. Placed(c)
  BY DEF ClientInv
<1>2. MayWalk(c, "done", "fail")
  BY <1>1, EndsMayWalk
<1>3. cmd[c].op = "rm_force" \/ cmd[c].result = "fail" => MayWalk(c, "unlist", cmd[c].result)
  BY LateMayWalk
<1> QED BY <1>0, <1>2, <1>3, GoOn, Zenon DEF DeleteError, Is

(* Up to Kill.                                                             *)
LEMMA EarlyGoesOn ==
    ASSUME LifecycleTypeOK, NEW c \in Clients, ClientInv(c)
    PROVE  \/ EnsureImage(c) \/ NewSnapshot(c) \/ NewRecord(c) \/ NewTaskFails(c)
           \/ LoadContainer(c) \/ NoTask(c)
           \/ At(c, "status") /\ Is(c, {"stop"}) /\ (Ends(c, "fail") \/ Ends(c, "ok"))
           \/ At(c, "status") /\ Is(c, {"rm_force"}) /\ Goes(c, "deltask")
           \/ Timeout(c)
           => GoesOn(c)
<1>0. /\ "snapshot" \in Stations /\ "record" \in Stations /\ "newtask" \in Stations
      /\ "unlist" \in Stations /\ "task" \in Stations /\ "deltask" \in Stations
      /\ "force" \in Stations
  BY DEF Stations, Places, Killing
<1>1. Placed(c) /\ Owns(c)
  BY DEF ClientInv
<1>e. cmd[c].pc # "idle" => MayWalk(c, "done", "fail")
  BY <1>1, EndsMayWalk
<1>2. ASSUME EnsureImage(c) PROVE GoesOn(c)
  <2>1. cmd[c].pc = "image" => MayWalk(c, "snapshot", cmd[c].result)
    BY <1>1, EarlyMayWalk
  <2> QED BY <1>0, <1>e, <1>2, <2>1, GoOn, Zenon DEF EnsureImage, At
<1>3. ASSUME NewSnapshot(c) PROVE GoesOn(c)
  <2>1. cmd[c].pc = "snapshot" => MayWalk(c, "record", cmd[c].result)
    BY <1>1, EarlyMayWalk
  <2> QED BY <1>0, <1>e, <1>3, <2>1, GoOn, Zenon DEF NewSnapshot, At
<1>4. ASSUME NewRecord(c) PROVE GoesOn(c)
  <2>1. cmd[c].pc = "record" /\ cmd[c].op # "docker_create" =>
            MayWalk(c, "newtask", cmd[c].result)
    BY <1>1, EarlyMayWalk
  <2>2. cmd[c].pc # "idle" /\ cmd[c].op = "docker_create" => MayWalk(c, "done", "ok")
    BY <1>1, EndsMayWalk
  <2> QED BY <1>0, <1>e, <1>4, <2>1, <2>2, GoOn, Zenon DEF NewRecord, At, Is
<1>5. ASSUME NewTaskFails(c) PROVE GoesOn(c)
  <2>1. cmd[c].pc = "newtask" /\ cmd[c].op # "docker_start" => MayWalk(c, "unlist", "fail")
    BY <1>1, EarlyMayWalk
  <2> QED BY <1>0, <1>e, <1>5, <2>1, GoOn, Zenon DEF NewTaskFails, At, Is
<1>6. ASSUME LoadContainer(c) PROVE GoesOn(c)
  <2>1. /\ cmd[c].pc = "load" /\ cmd[c].op = "rm" => MayWalk(c, "unlist", cmd[c].result)
        /\ cmd[c].pc = "load" /\ cmd[c].op = "docker_start" =>
                MayWalk(c, "newtask", cmd[c].result)
        /\ cmd[c].pc = "load" /\ cmd[c].op \notin {"rm", "docker_start"} =>
                MayWalk(c, "task", cmd[c].result)
    BY <1>1, EarlyMayWalk
  <2>2. /\ cmd[c].pc = "load"
        /\ \/ Ends(c, "fail")
           \/ cmd[c].op = "rm" /\ Goes(c, "unlist")
           \/ cmd[c].op = "docker_start" /\ Goes(c, "newtask")
           \/ cmd[c].op \notin {"rm", "docker_start"} /\ Goes(c, "task")
    BY <1>6 DEF LoadContainer, At, Is
  <2> QED BY <1>0, <1>e, <2>1, <2>2, GoOn, Zenon
<1>7. ASSUME NoTask(c) PROVE GoesOn(c)
  <2>1. cmd[c].pc = "task" /\ cmd[c].op = "rm_force" => MayWalk(c, "unlist", cmd[c].result)
    BY <1>1, EarlyMayWalk
  <2>2. cmd[c].pc # "idle" /\ cmd[c].op = "docker_stop" => MayWalk(c, "done", "ok")
    BY <1>1, EndsMayWalk
  <2>3. cmd[c].pc = "task" /\ cmd[c].op \in {"stop", "rm_force", "exec", "docker_stop"}
    BY <1>1, <1>7 DEF NoTask, At, Placed, OnRoute
  <2> QED BY <1>0, <1>e, <1>7, <2>1, <2>2, <2>3, GoOn, Zenon DEF NoTask, Is
<1>8. ASSUME At(c, "status"), Is(c, {"stop"}), Ends(c, "fail") \/ Ends(c, "ok")
      PROVE  GoesOn(c)
  <2>1. cmd[c].pc = "status" /\ cmd[c].op = "stop" => MayWalk(c, "done", "ok")
    BY <1>1, EarlyMayWalk
  <2> QED BY <1>e, <1>8, <2>1, <1>0, GoOn, Zenon DEF At, Is
<1>9. ASSUME At(c, "status"), Is(c, {"rm_force"}), Goes(c, "deltask") PROVE GoesOn(c)
  <2>1. cmd[c].pc = "status" /\ cmd[c].op = "rm_force" => MayWalk(c, "deltask", cmd[c].result)
    BY <1>1, EarlyMayWalk
  <2> QED BY <1>9, <2>1, <1>0, GoOn, Zenon DEF At, Is
<1>10. ASSUME Timeout(c) PROVE GoesOn(c)
  <2>1. cmd[c].pc = "waiting" /\ cmd[c].op = "stop" => MayWalk(c, "force", cmd[c].result)
    BY <1>1, EarlyMayWalk
  <2> QED BY <1>10, <2>1, <1>0, GoOn, Zenon DEF Timeout, At, Is
<1> QED BY <1>2, <1>3, <1>4, <1>5, <1>6, <1>7, <1>8, <1>9, <1>10

(* From the exit on.                                                       *)
LEMMA LateGoesOn ==
    ASSUME LifecycleTypeOK, NEW c \in Clients, ClientInv(c)
    PROVE  \/ Exited(c) \/ DeleteTask(c) \/ DeleteTaskRefused(c)
           \/ CheckStopped(c) /\ ~Goes(c, "delrpc")
           \/ CheckNoTask(c) \/ DeleteRecord(c)
           => GoesOn(c)
<1>0. /\ "deltask" \in Stations /\ "unlist" \in Stations /\ "delrecord" \in Stations
  BY DEF Stations, Places
<1>1. Placed(c)
  BY DEF ClientInv
<1>e. cmd[c].pc # "idle" => MayWalk(c, "done", "fail")
  BY <1>1, EndsMayWalk
<1>2. ASSUME Exited(c) PROVE GoesOn(c)
  <2>1. cmd[c].pc \in {"waiting", "reap"} /\ cmd[c].exit # None
    BY <1>2 DEF Exited, At
  <2>2. /\ cmd[c].op \in {"run", "rm_force"} => MayWalk(c, "deltask", cmd[c].result)
        /\ cmd[c].op \notin {"run", "rm_force"} => MayWalk(c, "done", "ok")
    BY <2>1, LateMayWalk
  <2>3. \/ cmd[c].op \in {"run", "rm_force"} /\ Goes(c, "deltask")
        \/ cmd[c].op \notin {"run", "rm_force"} /\ (Ends(c, "fail") \/ Ends(c, "ok"))
    BY <1>2 DEF Exited, Is
  <2> QED BY <1>0, <1>e, <2>1, <2>2, <2>3, GoOn, Zenon
<1>3. ASSUME DeleteTask(c) PROVE GoesOn(c)
  <2>1. cmd[c].pc = "delrpc" => MayWalk(c, "unlist", cmd[c].result)
    BY LateMayWalk
  <2> QED BY <1>0, <1>3, <2>1, GoOn, Zenon DEF DeleteTask, At
<1>4. ASSUME DeleteTaskRefused(c) PROVE GoesOn(c)
  BY <1>4, DeleteErrorGoesOn DEF DeleteTaskRefused, At
<1>5. ASSUME CheckStopped(c), ~Goes(c, "delrpc") PROVE GoesOn(c)
  BY <1>5, DeleteErrorGoesOn DEF CheckStopped, At
<1>6. ASSUME CheckNoTask(c) PROVE GoesOn(c)
  <2>1. cmd[c].pc = "unlist" => MayWalk(c, "delrecord", cmd[c].result)
    BY LateMayWalk
  <2> QED BY <1>0, <1>e, <1>6, <2>1, GoOn, Zenon DEF CheckNoTask, At
<1>7. ASSUME DeleteRecord(c) PROVE GoesOn(c)
  <2>1. cmd[c].pc = "delrecord" /\ cmd[c].result # "fail" => MayWalk(c, "done", "ok")
    BY LateMayWalk
  <2>2. /\ cmd[c].pc = "delrecord"
        /\ Ends(c, "fail") \/ (Ends(c, "ok") /\ cmd[c].result # "fail")
    BY <1>7 DEF DeleteRecord, At
  <2> QED BY <1>0, <1>e, <2>1, <2>2, GoOn, Zenon
<1> QED BY <1>2, <1>3, <1>4, <1>5, <1>6, <1>7

(* A run that has found its task STOPPED goes on to delete it.             *)
LEMMA CheckStoppedWalks ==
    ASSUME LifecycleTypeOK, IInv, NEW c \in Clients, ClientInv(c),
           CheckStopped(c), Goes(c, "delrpc"),
           StatusOf(cmd[c].id) \in {"STOPPED", "CREATED"}
    PROVE  Walks(c, "delrpc", cmd[c].result) /\ MayWalk(c, "delrpc", cmd[c].result)
<1>0. cmd \in [Clients -> CommandStates] /\ cmd[c] \in CommandStates
  BY DEF LifecycleTypeOK
<1>1. "delrpc" \in Places
  BY DEF Places
<1>2. Walks(c, "delrpc", cmd[c].result)
  BY <1>0, <1>1, BecomesWalks, Zenon
<1>3. cmd[c].pc = "deltask"
  BY DEF CheckStopped, At
<1>4. ASSUME cmd[c].op = "run", cmd[c].seen = cmd[c].own, cmd[c].own # None
      PROVE  task[cmd[c].own].status = "STOPPED"
  BY <1>4 DEF ClientInv, RunWaits, Is, StatusOf, Started
<1> QED BY <1>2, <1>3, <1>4, LateMayWalk

-----------------------------------------------------------------------------
(* Every step of a command.                                                *)

(* The others keep what they know, and c what it must.                     *)
Holds(c) ==
    /\ cmd' \in [Clients -> CommandStates]
    /\ \A d \in Clients \ {c} : cmd'[d] = cmd[d]
    /\ ClientInv(c)'

(* Nothing that concerns the deletion of tasks is learnt or done.          *)
Quiet(c) ==
    /\ cmd'[c].op = cmd[c].op /\ cmd'[c].id = cmd[c].id /\ cmd'[c].own = cmd[c].own
    /\ cmd'[c].nopid = cmd[c].nopid
    /\ cmd'[c].pc = "delrpc" => cmd[c].pc = "delrpc"

LEMMA GoesOnStep ==
    ASSUME LifecycleTypeOK, IInv, NEW c \in Clients, ClientInv(c), GoesOn(c),
           cmd[c].pc # "idle",
           thr'[Call(c)].pc = "idle", thr'[Waiter(c)] = thr[Waiter(c)],
           \A t \in Tasks : Onward(t), \A id \in Ids : ListStep(id)
    PROVE  Holds(c) /\ Quiet(c)
<1>1. PICK p \in Stations, r \in {"none", "ok", "fail"} :
          Walks(c, p, r) /\ MayWalk(c, p, r)
  BY DEF GoesOn
<1>2. cmd[c] \in CommandStates
  BY DEF LifecycleTypeOK
<1>3. ClientInv(c)'
  BY <1>1, <1>2, WalkStep
<1>4. p # "delrpc"
  BY DEF Stations
<1> QED BY <1>1, <1>3, <1>4 DEF Holds, Quiet, Walks, Learns

(* The daemon is not involved.                                             *)
LEMMA SilentStep ==
    ASSUME LifecycleTypeOK, IInv, ListInv, NEW c \in Clients, ClientInv(c),
           UNCHANGED Daemon, \A t \in Tasks : Onward(t), \A id \in Ids : ListStep(id)
    PROVE  /\ \/ EnsureImage(c) \/ NewSnapshot(c) \/ NewRecord(c) \/ NewTaskFails(c)
              \/ LoadContainer(c) \/ NoTask(c) \/ Timeout(c)
              \/ StopReadsStatus(c) \/ RemoveReadsStatus(c)
              => Holds(c) /\ Quiet(c)
           /\ \/ StartNotFound(c) \/ KillNotFound(c) \/ WaitNotFound(c)
              \/ Exited(c) \/ DeleteTaskRefused(c) \/ CheckNoTask(c) \/ DeleteRecord(c)
              => Holds(c) /\ Quiet(c)
           /\ CheckStopped(c) =>
                 /\ Holds(c)
                 /\ \/ Quiet(c)
                    \/ /\ Walks(c, "delrpc", cmd[c].result)
                       /\ \/ StatusOf(cmd[c].id) = "STOPPED"
                          \/ StatusOf(cmd[c].id) = "CREATED" /\ cmd[c].nopid
<1>0. /\ thr' = thr /\ Placed(c) /\ cmd[c] \in CommandStates
      /\ UNCHANGED <<tasks, task, os, mon, waitCh>>
  BY DEF Daemon, ClientInv, LifecycleTypeOK
<1>1. ASSUME cmd[c].pc \notin {"idle", "start"} \cup Killing, ~cmd[c].cut, GoesOn(c)
      PROVE  Holds(c) /\ Quiet(c)
  <2>1. thr[Call(c)].pc = "idle"
    BY <1>0, <1>1 DEF Placed
  <2> QED BY <1>0, <1>1, <2>1, GoesOnStep
<1>2. ASSUME EnsureImage(c) \/ NewSnapshot(c) \/ NewRecord(c) \/ NewTaskFails(c)
             \/ LoadContainer(c) \/ NoTask(c) \/ Timeout(c)
      PROVE  Holds(c) /\ Quiet(c)
  <2>1. GoesOn(c)
    BY <1>2, EarlyGoesOn
  <2>2. cmd[c].pc \in {"image", "snapshot", "record", "newtask", "load", "task", "waiting"}
        /\ ~cmd[c].cut
    BY <1>2, Zenon DEF EnsureImage, NewSnapshot, NewRecord, NewTaskFails, LoadContainer,
                       NoTask, Timeout, At
  <2> QED BY <1>1, <2>1, <2>2 DEF Killing
<1>3. ASSUME NEW pc \in {"term", "kill"}, OnRoute(pc, cmd[c].op),
             At(c, "status"), cmd[c].op \in {"stop", "rm_force"},
             StatusOf(cmd[c].id) \notin {"NotFound", "STOPPED", "CREATED"},
             Becomes(c, [cmd[c] EXCEPT !.pc = pc, !.seen = tasks[cmd[c].id]])
      PROVE  Holds(c) /\ Quiet(c)
  <2>1. /\ Learns(c, pc, cmd[c].own, tasks[cmd[c].id], cmd[c].nopid, cmd[c].exit,
                  cmd[c].result, cmd[c].cut)
        /\ ClientInv(c)'
    BY <1>3, SeesRunningClient, Zenon
  <2>2. pc # "delrpc"
    BY <1>3
  <2> QED BY <2>1, <2>2 DEF Holds, Quiet, Learns
<1>4. ASSUME StopReadsStatus(c) PROVE Holds(c) /\ Quiet(c)
  <2>1. /\ cmd[c].pc = "status" /\ ~cmd[c].cut /\ cmd[c].op = "stop"
        /\ At(c, "status") /\ Is(c, {"stop"})
    BY <1>4 DEF StopReadsStatus, At, Is
  <2>2. CASE Ends(c, "fail") \/ Ends(c, "ok")
    <3>1. GoesOn(c)
      BY <2>1, <2>2, EarlyGoesOn
    <3> QED BY <1>1, <2>1, <3>1 DEF Killing
  <2>3. CASE /\ StatusOf(cmd[c].id) \notin {"NotFound", "STOPPED", "CREATED"}
             /\ Becomes(c, [cmd[c] EXCEPT !.pc = "term", !.seen = tasks[cmd[c].id]])
    BY <1>3, <2>1, <2>3 DEF OnRoute
  <2> QED BY <1>4, <2>2, <2>3 DEF StopReadsStatus
<1>5. ASSUME RemoveReadsStatus(c) PROVE Holds(c) /\ Quiet(c)
  <2>1. /\ cmd[c].pc = "status" /\ ~cmd[c].cut /\ cmd[c].op = "rm_force"
        /\ At(c, "status") /\ Is(c, {"rm_force"})
    BY <1>5 DEF RemoveReadsStatus, At, Is
  <2>2. CASE Goes(c, "deltask")
    <3>1. GoesOn(c)
      BY <2>1, <2>2, EarlyGoesOn
    <3> QED BY <1>1, <2>1, <3>1 DEF Killing
  <2>3. CASE /\ StatusOf(cmd[c].id) = "RUNNING"
             /\ Becomes(c, [cmd[c] EXCEPT !.pc = "kill", !.seen = tasks[cmd[c].id]])
    BY <1>3, <2>1, <2>3 DEF OnRoute
  <2> QED BY <1>5, <2>2, <2>3 DEF RemoveReadsStatus
<1>6. ASSUME StartNotFound(c) PROVE Holds(c) /\ Quiet(c)
  <2>1. cmd[c].pc = "start" /\ thr'[Call(c)].pc = "idle" /\ StartError(c)
    BY <1>0, <1>6 DEF StartNotFound, At, Idle
  <2> QED BY <1>0, <2>1, StartErrorGoesOn, GoesOnStep
<1>7. ASSUME KillNotFound(c) PROVE Holds(c) /\ Quiet(c)
  <2>1. cmd[c].pc \in Killing /\ thr'[Call(c)].pc = "idle" /\ KillError(c)
    BY <1>0, <1>7 DEF KillNotFound, At, Idle
  <2>2. cmd[c].pc # "idle"
    BY <2>1 DEF Killing
  <2> QED BY <1>0, <2>1, <2>2, KillGoesOn, GoesOnStep
<1>8. ASSUME WaitNotFound(c) PROVE Holds(c) /\ Quiet(c)
  <2>1. /\ Learns(c, "waiting", cmd[c].own, cmd[c].seen, cmd[c].nopid,
                  UnknownExitStatus, cmd[c].result, cmd[c].cut)
        /\ ClientInv(c)'
    BY <1>8, WaitNotFoundClient
  <2> QED BY <2>1 DEF Holds, Quiet, Learns
<1>9. ASSUME Exited(c) \/ DeleteTaskRefused(c) \/ CheckNoTask(c) \/ DeleteRecord(c)
      PROVE  Holds(c) /\ Quiet(c)
  <2>1. GoesOn(c)
    BY <1>9, LateGoesOn
  <2>2. cmd[c].pc \in {"waiting", "reap", "delrpc", "unlist", "delrecord"} /\ ~cmd[c].cut
    BY <1>9 DEF Exited, DeleteTaskRefused, CheckNoTask, DeleteRecord, At
  <2> QED BY <1>1, <2>1, <2>2 DEF Killing
<1>10. ASSUME CheckStopped(c)
       PROVE  /\ Holds(c)
              /\ \/ Quiet(c)
                 \/ /\ Walks(c, "delrpc", cmd[c].result)
                    /\ \/ StatusOf(cmd[c].id) = "STOPPED"
                       \/ StatusOf(cmd[c].id) = "CREATED" /\ cmd[c].nopid
  <2>1. cmd[c].pc = "deltask" /\ ~cmd[c].cut
    BY <1>10 DEF CheckStopped, At
  <2>2. CASE DeleteError(c)
    <3>1. GoesOn(c)
      BY <2>1, <2>2, DeleteErrorGoesOn
    <3> QED BY <1>1, <2>1, <3>1 DEF Killing
  <2>3. CASE /\ Goes(c, "delrpc")
             /\ \/ StatusOf(cmd[c].id) = "STOPPED"
                \/ StatusOf(cmd[c].id) = "CREATED" /\ cmd[c].nopid
    <3>1. Walks(c, "delrpc", cmd[c].result) /\ MayWalk(c, "delrpc", cmd[c].result)
      BY <1>10, <2>3, CheckStoppedWalks
    <3>2. thr'[Call(c)].pc = "idle"
      BY <1>0, <2>1 DEF Placed, Killing
    <3>3. ClientInv(c)'
      BY <1>0, <2>1, <3>1, <3>2, WalkStep
    <3> QED BY <2>3, <3>1, <3>3 DEF Holds, Walks, Learns
  <2> QED BY <1>10, <2>2, <2>3 DEF CheckStopped
<1> QED BY <1>2, <1>4, <1>5, <1>6, <1>7, <1>8, <1>9, <1>10

-----------------------------------------------------------------------------
(* The steps in which the daemon takes part.                               *)

(* Only the requests of c move.                                            *)
LEMMA OwnThreads ==
    ASSUME LifecycleTypeOK, NEW c \in Clients,
           \/ ClientStep(c) \/ CallStep(c) \/ WaiterStep(c) \/ Interrupt(c)
           \/ \E op \in May[c], id \in Ids : Begin(c, op, id)
    PROVE  \A th \in Threads \ {Call(c), Waiter(c)} : thr'[th] = thr[th]
<1>0. thr \in [Threads -> Requests]
  BY DEF LifecycleTypeOK, TypeOK
<1>1. CASE UNCHANGED Daemon
  BY <1>1 DEF Daemon
<1>2. ASSUME NEW t \in Tasks, NEW p \in Pids, NewTask(c, t, p) PROVE thr' = thr
  BY <1>2 DEF NewTask, Create
<1>3. CASE DeleteTask(c)
  BY <1>3 DEF DeleteTask, Delete
<1>4. CASE CallStart(c) \/ CallKill(c) \/ CallWait(c)
  BY <1>0, <1>4 DEF CallStart, CallKill, CallWait, Lookup
<1>5. CASE StartAnswers(c)
  BY <1>0, <1>5 DEF StartAnswers, Start, Return
<1>6. CASE KillReadsPid(c)
  BY <1>0, <1>6 DEF KillReadsPid, KillReadPid, Return
<1>7. CASE KillSignals(c)
  BY <1>0, <1>7 DEF KillSignals, KillSignal, Return
<1>8. CASE WaitTakes(c) \/ WaitAnswers(c)
  BY <1>0, <1>8 DEF WaitTakes, WaitAnswers, WaitReceive, WaitReturn, Return
<1>9. CASE Interrupt(c) \/ \E op \in May[c], id \in Ids : Begin(c, op, id)
  BY <1>1, <1>9, Zenon DEF Interrupt, Begin, Daemon
<1>10. CASE \/ EnsureImage(c) \/ NewSnapshot(c) \/ NewRecord(c)
            \/ NewTaskAnswers(c) \/ NewTaskFails(c) \/ StartNotFound(c)
            \/ LoadContainer(c) \/ NoTask(c) \/ LoadTask(c)
  BY <1>1, <1>10 DEF EnsureImage, NewSnapshot, NewRecord, NewTaskAnswers, NewTaskFails,
                     StartNotFound, LoadContainer, NoTask, LoadTask
<1>11. CASE \/ StopReadsStatus(c) \/ RemoveReadsStatus(c) \/ KillNotFound(c)
            \/ WaitNotFound(c) \/ Timeout(c) \/ Exited(c) \/ CheckStopped(c)
            \/ DeleteTaskRefused(c) \/ CheckNoTask(c) \/ DeleteRecord(c)
  BY <1>1, <1>11 DEF StopReadsStatus, RemoveReadsStatus, KillNotFound, WaitNotFound,
                     Timeout, Exited, CheckStopped, DeleteTaskRefused, CheckNoTask,
                     DeleteRecord
<1> QED BY <1>2, <1>3, <1>4, <1>5, <1>6, <1>7, <1>8, <1>9, <1>10, <1>11
        DEF ClientStep, CallStep, WaiterStep

(* A request of the command goes on, or the answer comes to nobody.        *)
LEMMA StaysStep ==
    ASSUME LifecycleTypeOK, IInv, NEW c \in Clients, ClientInv(c), Stays(c), cmd' = cmd,
           \A t \in Tasks : Onward(t), \A id \in Ids : ListStep(id)
    PROVE  Holds(c) /\ Quiet(c)
<1>1. cmd[c] \in CommandStates /\ cmd \in [Clients -> CommandStates]
  BY DEF LifecycleTypeOK
<1>2. ClientInv(c)'
  BY <1>1, StayStep
<1> QED BY <1>1, <1>2 DEF Holds, Quiet

LEMMA RequestSteps ==
    ASSUME LifecycleTypeOK, IInv, NEW c \in Clients, ClientInv(c),
           \A t \in Tasks : Onward(t), \A id \in Ids : ListStep(id)
    PROVE  /\ CallStart(c) \/ CallKill(c) \/ WaitTakes(c) =>
                tasks' = tasks /\ Holds(c) /\ Quiet(c)
           /\ KillReadsPid(c) \/ KillSignals(c) =>
                tasks' = tasks /\ Holds(c) /\ Quiet(c)
           /\ CallWait(c) \/ WaitAnswers(c) =>
                tasks' = tasks /\ Holds(c) /\ Quiet(c)
<1>0. /\ thr \in [Threads -> Requests] /\ cmd \in [Clients -> CommandStates]
      /\ Call(c) \in Threads /\ Waiter(c) \in Threads /\ Call(c) # Waiter(c)
      /\ Placed(c)
  BY ClientThreads DEF LifecycleTypeOK, TypeOK, Call, Waiter, ClientInv
<1>1. ASSUME CallStart(c) PROVE tasks' = tasks /\ Holds(c) /\ Quiet(c)
  <2>1. cmd' = cmd /\ tasks' = tasks /\ cmd[c].pc = "start"
    BY <1>1 DEF CallStart, At, Lookup
  <2>2. /\ thr'[Call(c)].pc = "start" /\ thr'[Call(c)].task = tasks[cmd[c].id]
        /\ thr'[Waiter(c)] = thr[Waiter(c)]
    BY <1>0, <1>1 DEF CallStart, Lookup
  <2> QED BY <2>1, <2>2, StaysStep DEF Stays
<1>2. ASSUME CallKill(c) PROVE tasks' = tasks /\ Holds(c) /\ Quiet(c)
  <2>1. cmd' = cmd /\ tasks' = tasks /\ cmd[c].pc \in Killing
    BY <1>2 DEF CallKill, At, Lookup
  <2>2. thr'[Call(c)].pc = "kill" /\ thr'[Waiter(c)] = thr[Waiter(c)]
    BY <1>0, <1>2 DEF CallKill, Lookup
  <2> QED BY <2>1, <2>2, StaysStep DEF Stays
<1>3. ASSUME WaitTakes(c) PROVE tasks' = tasks /\ Holds(c) /\ Quiet(c)
  <2>1. cmd' = cmd /\ tasks' = tasks /\ thr[Waiter(c)].pc = "wait"
    BY <1>3 DEF WaitTakes, WaitReceive
  <2>2. /\ thr'[Waiter(c)].pc = "exitcode" /\ thr'[Call(c)] = thr[Call(c)]
        /\ thr'[Waiter(c)].task = thr[Waiter(c)].task
    BY <1>0, <1>3 DEF WaitTakes, WaitReceive, Requests
  <2> QED BY <2>1, <2>2, StaysStep DEF Stays
<1>4. ASSUME tasks' = tasks, thr[Call(c)].pc \in {"kill", "signal"},
             thr'[Call(c)].pc = "idle", thr'[Waiter(c)] = thr[Waiter(c)]
      PROVE  /\ cmd' = cmd => Holds(c) /\ Quiet(c)
             /\ ~cmd[c].cut /\ (KillError(c) \/ KillOk(c)) => Holds(c) /\ Quiet(c)
  <2>1. ASSUME cmd' = cmd PROVE Holds(c) /\ Quiet(c)
    BY <1>4, <2>1, StaysStep DEF Stays
  <2>2. ASSUME ~cmd[c].cut, KillError(c) \/ KillOk(c) PROVE Holds(c) /\ Quiet(c)
    <3>1. cmd[c].pc \in Killing
      BY <1>0, <1>4, <2>2 DEF Placed
    <3>2. cmd[c].pc # "idle"
      BY <3>1 DEF Killing
    <3> QED BY <1>4, <2>2, <3>1, <3>2, KillGoesOn, GoesOnStep
  <2> QED BY <2>1, <2>2
<1>5. ASSUME KillReadsPid(c) PROVE tasks' = tasks /\ Holds(c) /\ Quiet(c)
  <2>1. /\ tasks' = tasks /\ thr[Call(c)].pc = "kill"
        /\ thr'[Waiter(c)] = thr[Waiter(c)]
    BY <1>0, <1>5 DEF KillReadsPid, KillReadPid, Return
  <2>2. CASE task[thr[Call(c)].task].pid = NoPid
    <3>1. thr'[Call(c)].pc = "idle"
      BY <1>0, <1>5, <2>2 DEF KillReadsPid, KillReadPid, Return, Idle
    <3>2. cmd' = cmd \/ (~cmd[c].cut /\ KillError(c))
      BY <1>5, <2>2 DEF KillReadsPid
    <3> QED BY <1>4, <2>1, <3>1, <3>2
  <2>3. CASE task[thr[Call(c)].task].pid # NoPid
    <3>1. thr'[Call(c)].pc = "signal" /\ cmd' = cmd
      BY <1>0, <1>5, <2>3 DEF KillReadsPid, KillReadPid
    <3> QED BY <2>1, <3>1, StaysStep DEF Stays
  <2> QED BY <2>2, <2>3
<1>6. ASSUME KillSignals(c) PROVE tasks' = tasks /\ Holds(c) /\ Quiet(c)
  <2>1. /\ tasks' = tasks /\ thr[Call(c)].pc = "signal"
        /\ thr'[Waiter(c)] = thr[Waiter(c)] /\ thr'[Call(c)].pc = "idle"
    BY <1>0, <1>6 DEF KillSignals, KillSignal, Return, Idle
  <2>2. cmd' = cmd \/ (~cmd[c].cut /\ (KillError(c) \/ KillOk(c)))
    BY <1>6 DEF KillSignals
  <2> QED BY <1>4, <2>1, <2>2
<1>7. ASSUME CallWait(c) PROVE tasks' = tasks /\ Holds(c) /\ Quiet(c)
  <2>1. /\ Learns(c, "waiting", cmd[c].own, cmd'[c].seen, cmd[c].nopid, cmd[c].exit,
                  cmd[c].result, cmd[c].cut)
        /\ ClientInv(c)'
    BY <1>7, CallWaitClient, Zenon
  <2>2. tasks' = tasks
    BY <1>7 DEF CallWait, Lookup
  <2> QED BY <2>1, <2>2 DEF Learns, Holds, Quiet
<1>8. ASSUME WaitAnswers(c) PROVE tasks' = tasks /\ Holds(c) /\ Quiet(c)
  <2>1. /\ tasks' = tasks /\ thr'[Call(c)] = thr[Call(c)]
        /\ thr'[Waiter(c)].pc = "idle"
    BY <1>0, <1>8 DEF WaitAnswers, WaitReturn, Return, Idle
  <2>2. CASE cmd[c].cut
    <3>1. cmd' = cmd
      BY <1>8, <2>2 DEF WaitAnswers
    <3> QED BY <2>1, <3>1, StaysStep DEF Stays
  <2>3. CASE ~cmd[c].cut
    <3>1. /\ Learns(c, cmd[c].pc, cmd[c].own, cmd[c].seen, cmd[c].nopid,
                    UInt32(task[thr[Waiter(c)].task].code), cmd[c].result, cmd[c].cut)
          /\ ClientInv(c)'
      BY <1>8, <2>3, WaitAnswersClient
    <3> QED BY <2>1, <3>1 DEF Learns, Holds, Quiet
  <2> QED BY <2>2, <2>3
<1> QED BY <1>1, <1>2, <1>3, <1>5, <1>6, <1>7, <1>8

(* The run has started its task, if that is still on the list, and takes   *)
(* it to have no pid.                                                      *)
Starts(c) ==
    /\ cmd'[c].op = cmd[c].op /\ cmd'[c].id = cmd[c].id /\ cmd'[c].own = cmd[c].own
    /\ cmd[c].op = "run" /\ cmd[c].own # None /\ cmd'[c].pc # "delrpc"
    /\ tasks[cmd[c].id] = cmd[c].own => Started(cmd[c].own)'

LEMMA StartAnswersStep ==
    ASSUME LifecycleTypeOK, IInv, IInv', NEW c \in Clients, ClientInv(c), StartAnswers(c),
           \A t \in Tasks : Onward(t), \A id \in Ids : ListStep(id)
    PROVE  tasks' = tasks /\ Holds(c) /\ (Quiet(c) \/ Starts(c))
<1>0. /\ thr \in [Threads -> Requests]
      /\ Call(c) \in Threads /\ Waiter(c) \in Threads /\ Call(c) # Waiter(c)
      /\ Placed(c)
  BY ClientThreads DEF LifecycleTypeOK, TypeOK, Call, Waiter, ClientInv
<1>1. /\ tasks' = tasks /\ thr[Call(c)].pc = "start" /\ thr'[Call(c)].pc = "idle"
      /\ thr'[Waiter(c)] = thr[Waiter(c)] /\ Start(Call(c))
  BY <1>0 DEF StartAnswers, Start, Return, Idle
<1>2. CASE cmd[c].cut
  <2>1. cmd' = cmd
    BY <1>2 DEF StartAnswers
  <2> QED BY <1>1, <2>1, StaysStep DEF Stays
<1>3. CASE ~cmd[c].cut
  <2>1. cmd[c].pc = "start"
    BY <1>0, <1>1, <1>3 DEF Placed
  <2>2. CASE StartError(c)
    BY <1>1, <2>1, <2>2, StartErrorGoesOn, GoesOnStep
  <2>3. CASE /\ task[thr[Call(c)].task].status = "CREATED"
             /\ cmd[c].op = "run"
             /\ Becomes(c, [cmd[c] EXCEPT !.pc = "wait", !.nopid = TRUE])
    <3>1. /\ Learns(c, "wait", cmd[c].own, cmd[c].seen, TRUE, cmd[c].exit,
                    cmd[c].result, cmd[c].cut)
          /\ ClientInv(c)' /\ cmd[c].own # None
          /\ tasks[cmd[c].id] = cmd[c].own => Started(cmd[c].own)'
      BY <1>1, <1>3, <2>3, RunStartedClient
    <3> QED BY <1>1, <2>3, <3>1 DEF Learns, Holds, Starts
  <2>4. CASE cmd[c].op # "run" /\ Ends(c, "ok")
    <3>1. cmd[c].op \notin {"stop", "rm_force", "run"}
      BY <1>0, <2>1, <2>4 DEF Placed, OnRoute
    <3>2. MayWalk(c, "done", "ok") /\ "done" \in Stations
      BY <1>0, <2>1, <3>1, EndsMayWalk DEF Stations, Places
    <3>3. GoesOn(c)
      BY <2>4, <3>2, GoOn, Zenon
    <3> QED BY <1>1, <2>1, <3>3, GoesOnStep
  <2> QED BY <1>3, <2>2, <2>3, <2>4 DEF StartAnswers, Is
<1> QED BY <1>2, <1>3

-----------------------------------------------------------------------------
(* What a step of a command means for the list of tasks, and for what the  *)
(* command takes for granted when it deletes one.                          *)

Keeps(c) == cmd'[c].op = cmd[c].op /\ cmd'[c].id = cmd[c].id

Makes(c, t) ==
    /\ Keeps(c) /\ cmd[c].op \in {"run", "run_detached", "docker_start"}
    /\ cmd[c].own = None /\ cmd[c].id \in Ids
    /\ tasks' = [tasks EXCEPT ![cmd[c].id] = t]
    /\ cmd'[c].own = t /\ cmd'[c].pc = "pid" /\ cmd'[c].nopid = cmd[c].nopid

Drops(c) ==
    /\ Quiet(c)
    /\ cmd[c].pc = "delrpc" /\ cmd[c].id \in Ids
    /\ tasks' = [tasks EXCEPT ![cmd[c].id] = None]

(* The task without a pid is the one the command has made, or the one on   *)
(* the list.                                                               *)
Reads(c) ==
    /\ Keeps(c) /\ tasks' = tasks /\ cmd'[c].own = cmd[c].own
    /\ cmd'[c].pc # "delrpc"
    /\ cmd'[c].nopid =>
          \E t \in Tasks :
             /\ task[t].pid = NoPid /\ mon[t] # "none"
             /\ \/ /\ t = cmd[c].own
                   /\ cmd[c].op \in {"run", "run_detached", "docker_start"}
                \/ cmd[c].id \in Ids /\ t = tasks[cmd[c].id]

Decides(c) ==
    /\ Keeps(c) /\ tasks' = tasks /\ cmd'[c].own = cmd[c].own
    /\ cmd'[c].nopid = cmd[c].nopid
    /\ tasks[cmd[c].id] # None
    /\ \/ cmd[c].nopid /\ task[tasks[cmd[c].id]].status = "CREATED"
       \/ task[tasks[cmd[c].id]].status = "STOPPED"

Outcome(c) ==
    \/ tasks' = tasks /\ (Quiet(c) \/ Starts(c))
    \/ \E t \in Tasks : Makes(c, t)
    \/ Drops(c) \/ Reads(c) \/ Decides(c)

LEMMA CommandStep ==
    ASSUME LifecycleTypeOK, IInv, IInv', ListInv, NEW c \in Clients, ClientInv(c),
           ClientStep(c) \/ CallStep(c) \/ WaiterStep(c) \/ Interrupt(c),
           \A t \in Tasks : Onward(t), \A id \in Ids : ListStep(id)
    PROVE  Holds(c) /\ Outcome(c)
<1>0. /\ Placed(c) /\ Owns(c) /\ cmd[c] \in CommandStates
      /\ cmd[c].pc # "idle" => cmd[c].id \in Ids
  BY DEF ClientInv, Placed, LifecycleTypeOK
<1>1. CASE tasks' = tasks /\ Holds(c) /\ (Quiet(c) \/ Starts(c))
  BY <1>1 DEF Outcome
<1>2. ASSUME NEW t \in Tasks, NEW p \in Pids, NewTask(c, t, p)
      PROVE  Holds(c) /\ Outcome(c)
  <2>1. /\ Learns(c, "pid", t, cmd[c].seen, cmd[c].nopid, cmd[c].exit,
                  cmd[c].result, cmd[c].cut)
        /\ ClientInv(c)'
    BY <1>2, NewTaskClient
  <2>2. /\ cmd[c].pc = "newtask" /\ tasks' = [tasks EXCEPT ![cmd[c].id] = t]
    BY <1>2 DEF NewTask, At, Create
  <2>3. /\ cmd[c].op \in {"run", "run_detached", "docker_start"}
        /\ cmd[c].own = None /\ cmd[c].id \in Ids
    BY <1>0, <2>2 DEF Placed, OnRoute, Owns, Taskless, Unseen
  <2>4. Makes(c, t)
    BY <2>1, <2>2, <2>3 DEF Makes, Keeps, Learns
  <2> QED BY <2>1, <2>4 DEF Holds, Outcome, Learns
<1>3. CASE NewTaskAnswers(c)
  <2>1. /\ Learns(c, "start", cmd[c].own, cmd[c].seen, task[cmd[c].own].pid = NoPid,
                  cmd[c].exit, cmd[c].result, cmd[c].cut)
        /\ ClientInv(c)'
    BY <1>3, NewTaskAnswersClient
  <2>2. cmd[c].pc = "pid" /\ tasks' = tasks
    BY <1>3 DEF NewTaskAnswers, At, Daemon
  <2>3. /\ cmd[c].op \in {"run", "run_detached", "docker_start"}
        /\ cmd[c].own \in Tasks /\ mon[cmd[c].own] # "none"
    BY <1>0, <2>2 DEF Placed, OnRoute, Owns, CommandStates
  <2>4. Reads(c)
    BY <2>1, <2>2, <2>3 DEF Reads, Keeps, Learns
  <2> QED BY <2>1, <2>4 DEF Holds, Outcome, Learns
<1>4. CASE LoadTask(c)
  <2>1. PICK pc \in {"wait", "kill", "status"} :
           Learns(c, pc, cmd[c].own, cmd[c].seen, task[tasks[cmd[c].id]].pid = NoPid,
                  cmd[c].exit, cmd[c].result, cmd[c].cut)
    BY <1>4, LoadTaskClient
  <2>2. ClientInv(c)'
    BY <1>4, LoadTaskClient
  <2>3. cmd[c].id \in Ids /\ tasks' = tasks /\ tasks[cmd[c].id] # None
    BY <1>0, <1>4 DEF LoadTask, At, Daemon
  <2>4. tasks[cmd[c].id] \in Tasks /\ mon[tasks[cmd[c].id]] # "none"
    BY <2>3 DEF LifecycleTypeOK, TypeOK, ListInv
  <2>5. Reads(c)
    BY <2>1, <2>3, <2>4 DEF Reads, Keeps, Learns
  <2> QED BY <2>1, <2>2, <2>5 DEF Holds, Outcome, Learns
<1>5. CASE DeleteTask(c)
  <2>1. /\ cmd[c].pc = "delrpc" /\ ~cmd[c].cut /\ thr' = thr
        /\ tasks' = [tasks EXCEPT ![cmd[c].id] = None]
    BY <1>5 DEF DeleteTask, At, Delete
  <2>2. thr'[Call(c)].pc = "idle"
    BY <1>0, <2>1 DEF Placed, Killing
  <2>3. GoesOn(c)
    BY <1>5, LateGoesOn
  <2>4. Holds(c) /\ Quiet(c)
    BY <2>1, <2>2, <2>3, GoesOnStep
  <2> QED BY <1>0, <2>1, <2>4 DEF Outcome, Drops
<1>6. CASE CheckStopped(c)
  <2>1. UNCHANGED Daemon /\ tasks' = tasks
    BY <1>6 DEF CheckStopped, Daemon
  <2>2. /\ Holds(c)
        /\ \/ Quiet(c)
           \/ /\ Walks(c, "delrpc", cmd[c].result)
              /\ \/ StatusOf(cmd[c].id) = "STOPPED"
                 \/ StatusOf(cmd[c].id) = "CREATED" /\ cmd[c].nopid
    BY <1>6, <2>1, SilentStep
  <2>3. Walks(c, "delrpc", cmd[c].result) =>
           Keeps(c) /\ cmd'[c].own = cmd[c].own /\ cmd'[c].nopid = cmd[c].nopid
    BY DEF Walks, Learns, Keeps
  <2> QED BY <2>1, <2>2, <2>3 DEF Outcome, Decides, StatusOf
<1>7. CASE Interrupt(c)
  <2>1. /\ Learns(c, cmd[c].pc, cmd[c].own, cmd[c].seen, cmd[c].nopid,
                  cmd[c].exit, cmd'[c].result, TRUE)
        /\ ClientInv(c)'
    BY <1>7, InterruptClient, Zenon
  <2>2. tasks' = tasks
    BY <1>7 DEF Interrupt, Daemon
  <2>3. Holds(c) /\ Quiet(c)
    BY <2>1 DEF Learns, Holds, Quiet
  <2> QED BY <1>1, <2>2, <2>3
<1>8. CASE \/ EnsureImage(c) \/ NewSnapshot(c) \/ NewRecord(c) \/ NewTaskFails(c)
           \/ LoadContainer(c) \/ NoTask(c) \/ Timeout(c)
           \/ StopReadsStatus(c) \/ RemoveReadsStatus(c)
  <2>1. UNCHANGED Daemon
    BY <1>8, Zenon DEF EnsureImage, NewSnapshot, NewRecord, NewTaskFails, LoadContainer,
                       NoTask, Timeout, StopReadsStatus, RemoveReadsStatus
  <2> QED BY <1>1, <1>8, <2>1, SilentStep DEF Daemon
<1>9. CASE \/ StartNotFound(c) \/ KillNotFound(c) \/ WaitNotFound(c)
           \/ Exited(c) \/ DeleteTaskRefused(c) \/ CheckNoTask(c) \/ DeleteRecord(c)
  <2>1. UNCHANGED Daemon
    BY <1>9, Zenon DEF StartNotFound, KillNotFound, WaitNotFound, Exited,
                       DeleteTaskRefused, CheckNoTask, DeleteRecord
  <2> QED BY <1>1, <1>9, <2>1, SilentStep DEF Daemon
<1>10. CASE \/ CallStart(c) \/ CallKill(c) \/ WaitTakes(c)
            \/ KillReadsPid(c) \/ KillSignals(c) \/ CallWait(c) \/ WaitAnswers(c)
  BY <1>1, <1>10, RequestSteps
<1>11. CASE StartAnswers(c)
  BY <1>1, <1>11, StartAnswersStep
<1> QED BY <1>2, <1>3, <1>4, <1>5, <1>6, <1>7, <1>8, <1>9, <1>10, <1>11
        DEF ClientStep, CallStep, WaiterStep

-----------------------------------------------------------------------------
(* The task of a run is kept until its process is gone.                    *)

(* An object that was born and names no pid: its process has been reaped.  *)
LEMMA NoPidIsReaped ==
    ASSUME IInv, PauseInv, NEW t \in Tasks, task[t].pid = NoPid, mon[t] # "none"
    PROVE  Reaped(t)
<1>1. ExitProtocol(t) /\ PidTied(t)
  BY DEF IInv, PauseInv
<1>2. mon[t] \in {"none", "waiting", "reaped", "updated", "done"}
  BY DEF IInv, TypeOK
<1>3. mon[t] # "waiting"
  BY <1>1, NoneAssumption DEF ExitProtocol, PidTied, NoPid
<1> QED BY <1>1, <1>2, <1>3 DEF ExitProtocol, Reaped

LEMMA KeptStep ==
    ASSUME CommandsInv, NEW c \in Clients, Holds(c), Outcome(c),
           \A t \in Tasks : Onward(t), NEW r \in Clients
    PROVE  Kept(r)'
<1>0. /\ cmd \in [Clients -> CommandStates] /\ tasks \in [Ids -> Tasks \cup {None}]
      /\ IInv /\ PauseInv /\ RunIds /\ Kept(r) /\ Placed(r)
      /\ \A d \in Clients \ {c} : cmd'[d] = cmd[d]
  BY DEF CommandsInv, LifecycleTypeOK, TypeOK, ClientInv, Holds
<1>1. Keeps(c)
  BY DEF Outcome, Makes, Drops, Reads, Decides, Quiet, Starts, Keeps
<1>2. \A d \in Clients : cmd'[d].op = cmd[d].op /\ cmd'[d].id = cmd[d].id
  BY <1>0, <1>1 DEF Keeps
<1> DEFINE i == cmd[r].id
           o == cmd[r].own
<1>3. \A id : Restarted(id)' <=> Restarted(id)
  BY <1>2 DEF Restarted, Is
<1> SUFFICES ASSUME Is(r, {"run", "run_detached"}), ~Restarted(i)
             PROVE  Kept(r)'
  BY <1>2, <1>3 DEF Kept, Is
<1>4. /\ tasks[i] \in {None, o}
      /\ o # None /\ tasks[i] = None => Reaped(o)
  BY <1>0 DEF Kept
<1>5. ASSUME NEW d \in Clients, cmd[d].id = i
      PROVE  /\ cmd[d].nopid => o # None /\ (Reaped(o) \/ Started(o))
             /\ cmd[d].pc = "delrpc" => o # None /\ Reaped(o)
  BY <1>0, <1>5 DEF Kept
<1>6. o # None => o \in Tasks
  BY <1>0 DEF CommandStates
<1>7. o # None => /\ Reaped(o) => os'[o].state = "reaped"
                  /\ Started(o) => task'[o].status \in {"RUNNING", "STOPPED"}
  BY <1>6 DEF Onward, Reaped, Started
<1>a. i \in Ids
  BY <1>0 DEF Placed, OnRoute, Is
<1>b. ASSUME NEW d \in Clients, cmd[d].id = i, cmd[d].op \in {"run", "run_detached", "docker_start"}
      PROVE  d = r
  BY <1>0, <1>b DEF RunIds, Restarted, Is
<1> DEFINE Gone == os'[cmd'[r].own].state = "reaped"
           Begun == task'[cmd'[r].own].status \in {"RUNNING", "STOPPED"}
           Right(d) == /\ cmd'[d].nopid => cmd'[r].own # None /\ (Gone \/ Begun)
                       /\ cmd'[d].pc = "delrpc" => cmd'[r].own # None /\ Gone
           Listed == /\ tasks'[i] \in {None, cmd'[r].own}
                     /\ cmd'[r].own # None /\ tasks'[i] = None => Gone
<1>8. SUFFICES Listed /\ \A d \in Clients : cmd[d].id = i => Right(d)
  <2>1. cmd'[r].id = i
    BY <1>2
  <2>2. \A d \in Clients : cmd'[d].id = i =>
            /\ cmd'[d].nopid => /\ cmd'[r].own # None
                                /\ Reaped(cmd[r].own)' \/ Started(cmd[r].own)'
            /\ cmd'[d].pc = "delrpc" => cmd'[r].own # None /\ Reaped(cmd[r].own)'
    BY <1>2, <1>8 DEF Reaped, Started
  <2>3. Listed <=> /\ tasks'[i] \in {None, cmd'[r].own}
                   /\ cmd'[r].own # None /\ tasks'[i] = None => Reaped(cmd[r].own)'
    BY DEF Reaped
  <2> QED BY <1>8, <2>1, <2>2, <2>3 DEF Kept
<1>9. ASSUME cmd'[r].own = o
      PROVE  /\ tasks'[i] = tasks[i] => Listed
             /\ \A d \in Clients \ {c} : cmd[d].id = i => Right(d)
             /\ /\ cmd'[c].nopid = cmd[c].nopid
                /\ cmd'[c].pc = "delrpc" => cmd[c].pc = "delrpc"
                => (cmd[c].id = i => Right(c))
  <2>1. o # None => (Reaped(o) => Gone) /\ (Started(o) => Begun)
    BY <1>7, <1>9
  <2>2. tasks'[i] = tasks[i] => Listed
    BY <1>4, <1>9, <2>1
  <2> HIDE DEF Gone, Begun, i, o
  <2>3. ASSUME NEW d \in Clients, cmd[d].id = i, cmd'[d].nopid => cmd[d].nopid,
               cmd'[d].pc = "delrpc" => cmd[d].pc = "delrpc"
        PROVE  Right(d)
    BY <1>5, <1>9, <2>1, <2>3
  <2> HIDE DEF Right
  <2> QED BY <1>0, <2>2, <2>3
<1> HIDE DEF i, o
<1>10. CASE tasks' = tasks /\ Quiet(c)
  <2>1. cmd'[r].own = o
    BY <1>0, <1>10 DEF Quiet, o
  <2> HIDE DEF Right, Listed
  <2> QED BY <1>9, <1>10, <2>1 DEF Quiet
<1>15. CASE tasks' = tasks /\ Starts(c)
  <2>1. cmd'[r].own = o
    BY <1>0, <1>15 DEF Starts, o
  <2>2. ASSUME cmd[c].id = i PROVE Right(c)
    <3>1. c = r /\ o # None /\ cmd'[c].pc # "delrpc"
      BY <1>b, <1>15, <2>2 DEF Starts, o
    <3>2. CASE tasks[i] = o
      <4>1. Started(cmd[r].own)'
        BY <1>15, <3>1, <3>2 DEF Starts, i, o
      <4>2. Begun
        BY <4>1 DEF Started
      <4> QED BY <2>1, <3>1, <4>2
    <3>3. CASE tasks[i] # o
      <4>1. os'[o].state = "reaped"
        BY <1>4, <1>7, <3>1, <3>3
      <4>2. Gone
        BY <2>1, <4>1
      <4> QED BY <2>1, <3>1, <4>2
    <3> QED BY <3>2, <3>3
  <2> HIDE DEF Right, Listed
  <2> QED BY <1>9, <1>15, <2>1, <2>2
<1>11. ASSUME NEW t \in Tasks, Makes(c, t)
       PROVE  Listed /\ \A d \in Clients : cmd[d].id = i => Right(d)
  <2>1. CASE c = r
    <3>1. o = None /\ cmd'[r].own = t /\ tasks'[i] = t /\ t # None
      BY <1>0, <1>a, <1>11, <2>1, NoneAssumption DEF Makes, i, o
    <3>2. ASSUME NEW d \in Clients, cmd[d].id = i PROVE ~cmd'[d].nopid /\ cmd'[d].pc # "delrpc"
      BY <1>0, <1>5, <1>11, <3>1, <3>2 DEF Makes
    <3> QED BY <3>1, <3>2
  <2>2. CASE c # r
    <3>1. cmd[c].id # i
      BY <1>b, <1>11, <2>2 DEF Makes
    <3>2. cmd'[r].own = o /\ tasks'[i] = tasks[i]
      BY <1>0, <1>a, <1>11, <2>2, <3>1 DEF Makes, o
    <3> HIDE DEF Right, Listed
    <3> QED BY <1>9, <3>1, <3>2
  <2> QED BY <2>1, <2>2
<1>12. CASE Drops(c)
  <2>1. cmd'[r].own = o
    BY <1>0, <1>12 DEF Drops, Quiet, o
  <2>2. ASSUME cmd[c].id = i PROVE o # None /\ Gone
    <3>1. o # None /\ os'[o].state = "reaped"
      BY <1>5, <1>7, <1>12, <2>2 DEF Drops
    <3> QED BY <2>1, <3>1
  <2>3. IF cmd[c].id = i THEN tasks'[i] = None ELSE tasks'[i] = tasks[i]
    BY <1>0, <1>a, <1>12 DEF Drops
  <2>4. Listed
    BY <1>9, <2>1, <2>2, <2>3
  <2> HIDE DEF Right, Listed
  <2> QED BY <1>9, <1>12, <2>1, <2>4 DEF Drops, Quiet
<1>13. CASE Reads(c)
  <2>1. cmd'[r].own = o /\ tasks' = tasks /\ cmd'[c].pc # "delrpc"
    BY <1>0, <1>13 DEF Reads, o
  <2>2. ASSUME cmd[c].id = i, cmd'[c].nopid PROVE o # None /\ Gone
    <3>1. PICK t \in Tasks :
             /\ task[t].pid = NoPid /\ mon[t] # "none"
             /\ \/ /\ t = cmd[c].own
                   /\ cmd[c].op \in {"run", "run_detached", "docker_start"}
                \/ cmd[c].id \in Ids /\ t = tasks[cmd[c].id]
      BY <1>13, <2>2 DEF Reads
    <3>2. t = o /\ t # None
      BY <1>4, <1>b, <2>2, <3>1, NoneAssumption DEF o
    <3>3. Reaped(o)
      BY <1>0, <3>1, <3>2, NoPidIsReaped
    <3>4. os'[o].state = "reaped"
      BY <1>7, <3>2, <3>3
    <3> QED BY <2>1, <3>2, <3>4
  <2>3. cmd[c].id = i => Right(c)
    BY <2>1, <2>2
  <2> HIDE DEF Right, Listed
  <2> QED BY <1>9, <2>1, <2>3
<1>14. CASE Decides(c)
  <2>1. cmd'[r].own = o /\ tasks' = tasks
    BY <1>0, <1>14 DEF Decides, o
  <2>2. ASSUME cmd[c].id = i PROVE o # None /\ Gone
    <3>1. /\ o \in Tasks /\ o # None /\ tasks[i] = o
          /\ \/ cmd[c].nopid /\ task[o].status = "CREATED"
             \/ task[o].status = "STOPPED"
      BY <1>4, <1>6, <1>14, <2>2 DEF Decides
    <3>2. ASSUME cmd[c].nopid, task[o].status = "CREATED" PROVE Reaped(o)
      <4>1. Reaped(o) \/ Started(o)
        BY <1>5, <2>2, <3>2
      <4>2. ~Started(o)
        BY <3>2 DEF Started
      <4> QED BY <4>1, <4>2
    <3>3. ASSUME task[o].status = "STOPPED" PROVE Reaped(o)
      BY <1>0, <3>1, <3>3 DEF IInv, ExitProtocol, Reaped
    <3>4. Reaped(o)
      BY <3>1, <3>2, <3>3
    <3>5. os'[o].state = "reaped"
      BY <1>7, <3>1, <3>4
    <3> QED BY <2>1, <3>1, <3>5
  <2>3. cmd[c].id = i => Right(c)
    BY <2>1, <2>2
  <2> HIDE DEF Right, Listed
  <2> QED BY <1>9, <2>1, <2>3
<1> HIDE DEF Right, Listed
<1> QED BY <1>10, <1>11, <1>12, <1>13, <1>14, <1>15 DEF Outcome

(* Who begins with run has an id that nobody has named.                    *)
LEMMA BeginKept ==
    ASSUME CommandsInv, NEW c \in Clients, NEW op \in May[c], NEW id \in Ids,
           Begin(c, op, id), NEW r \in Clients
    PROVE  RunIds' /\ Called' /\ Kept(r)'
<1>0. /\ IInv /\ ClientInv(c) /\ LifecycleTypeOK /\ RunIds /\ Called /\ Kept(r)
  BY DEF CommandsInv
<1>1. /\ cmd[c] = NotGiven /\ op \in Commands
      /\ cmd'[c].op = op /\ cmd'[c].id = id /\ cmd'[c].own = None
      /\ cmd'[c].pc \in {"image", "load"} /\ ~cmd'[c].nopid
      /\ \A d \in Clients \ {c} : cmd'[d] = cmd[d]
  BY <1>0, BeginClient, Zenon
<1>2. cmd[c].op = "none" /\ cmd[c].id = None
  BY <1>1 DEF NotGiven
<1>3. tasks' = tasks /\ os' = os /\ task' = task
  BY DEF Begin, Daemon
<1>4. op \in {"run", "run_detached"} => id # DockerId /\ ~Named(id)
  BY DEF Begin
<1>5. RunIds'
  BY <1>0, <1>1, <1>2, <1>4 DEF RunIds, Named, Is
<1>6. \A i \in Ids : Named(i) => Named(i)'
  BY <1>1, <1>2, IdAssumption DEF Named
<1>7. Called'
  BY <1>0, <1>3, <1>6 DEF Called
<1>8. ASSUME r = c PROVE Kept(r)'
  <2>0. Is(r, {"run", "run_detached"})' <=> op \in {"run", "run_detached"}
    BY <1>1, <1>8 DEF Is
  <2> SUFFICES ASSUME op \in {"run", "run_detached"} PROVE Kept(r)'
    BY <2>0 DEF Kept
  <2>1. ~Named(id)
    BY <1>4
  <2>2. tasks[id] = None
    BY <1>0, <2>1 DEF Called
  <2>3. \A d \in Clients \ {c} : cmd'[d].id # id
    BY <1>1, <2>1 DEF Named
  <2> QED BY <1>1, <1>3, <1>8, <2>2, <2>3 DEF Kept
<1>9. ASSUME r # c PROVE Kept(r)'
  <2>1. cmd'[r] = cmd[r]
    BY <1>1, <1>9
  <2>2. Restarted(cmd[r].id) => Restarted(cmd[r].id)'
    BY <1>1, <1>2, <2>1 DEF Restarted, Is
  <2>3. ASSUME NEW d \in Clients, cmd'[d].nopid \/ cmd'[d].pc = "delrpc"
        PROVE  cmd'[d] = cmd[d]
    BY <1>1, <2>3
  <2> SUFFICES ASSUME Is(r, {"run", "run_detached"}), ~Restarted(cmd[r].id)
               PROVE  /\ tasks[cmd[r].id] \in {None, cmd[r].own}
                      /\ cmd[r].own # None /\ tasks[cmd[r].id] = None => Reaped(cmd[r].own)
                      /\ \A d \in Clients : cmd'[d].id = cmd[r].id =>
                            /\ cmd'[d].nopid =>
                                  /\ cmd[r].own # None
                                  /\ Reaped(cmd[r].own) \/ Started(cmd[r].own)
                            /\ cmd'[d].pc = "delrpc" =>
                                  cmd[r].own # None /\ Reaped(cmd[r].own)
    <3>1. Is(r, {"run", "run_detached"})' => Is(r, {"run", "run_detached"})
      BY <2>1 DEF Is
    <3>2. /\ Reaped(cmd[r].own) => Reaped(cmd[r].own)'
          /\ Started(cmd[r].own) => Started(cmd[r].own)'
      BY <1>3, <2>1 DEF Reaped, Started
    <3> QED BY <1>3, <2>1, <2>2, <3>1, <3>2 DEF Kept
  <2>4. \A d \in Clients : cmd[d].id = cmd[r].id =>
             /\ cmd[d].nopid => /\ cmd[r].own # None
                                /\ Reaped(cmd[r].own) \/ Started(cmd[r].own)
             /\ cmd[d].pc = "delrpc" => cmd[r].own # None /\ Reaped(cmd[r].own)
    BY <1>0 DEF Kept
  <2>5. /\ tasks[cmd[r].id] \in {None, cmd[r].own}
        /\ cmd[r].own # None /\ tasks[cmd[r].id] = None => Reaped(cmd[r].own)
    BY <1>0 DEF Kept
  <2> QED BY <2>3, <2>4, <2>5, Zenon
<1> QED BY <1>5, <1>7, <1>8, <1>9

-----------------------------------------------------------------------------
(* The invariant is inductive.                                             *)

LEMMA StoreTypes ==
    ASSUME LifecycleTypeOK, [LifecycleNext]_lifecycleVars
    PROVE  records' \in [Ids -> BOOLEAN] /\ snaps' \in [Ids -> BOOLEAN]
<1>0. records \in [Ids -> BOOLEAN] /\ snaps \in [Ids -> BOOLEAN]
  BY DEF LifecycleTypeOK
<1>1. CASE UNCHANGED Store
  BY <1>0, <1>1 DEF Store
<1>2. ASSUME NEW c \in Clients, NewSnapshot(c) \/ NewRecord(c) \/ DeleteRecord(c)
      PROVE  records' \in [Ids -> BOOLEAN] /\ snaps' \in [Ids -> BOOLEAN]
  BY <1>0, <1>2 DEF NewSnapshot, NewRecord, DeleteRecord
<1>3. ASSUME NEW c \in Clients,
             \/ EnsureImage(c) \/ NewTaskAnswers(c) \/ NewTaskFails(c)
             \/ \E t \in Tasks, p \in Pids : NewTask(c, t, p)
             \/ CallStart(c) \/ StartNotFound(c)
             \/ LoadContainer(c) \/ NoTask(c) \/ LoadTask(c)
      PROVE  UNCHANGED Store
  BY <1>3, Zenon
     DEF EnsureImage, NewTaskAnswers, NewTaskFails, NewTask, CallStart, StartNotFound,
         LoadContainer, NoTask, LoadTask, Store
<1>4. ASSUME NEW c \in Clients,
             \/ StopReadsStatus(c) \/ RemoveReadsStatus(c) \/ CallKill(c) \/ KillNotFound(c)
             \/ CallWait(c) \/ WaitNotFound(c) \/ Timeout(c) \/ Exited(c)
             \/ CheckStopped(c) \/ DeleteTask(c) \/ DeleteTaskRefused(c) \/ CheckNoTask(c)
      PROVE  UNCHANGED Store
  BY <1>4 DEF StopReadsStatus, RemoveReadsStatus, CallKill, KillNotFound, CallWait,
              WaitNotFound, Timeout, Exited, CheckStopped, DeleteTask, DeleteTaskRefused,
              CheckNoTask, Store
<1>5. ASSUME NEW c \in Clients, CallStep(c) \/ WaiterStep(c) PROVE UNCHANGED Store
  BY <1>5 DEF CallStep, WaiterStep, StartAnswers, KillReadsPid, KillSignals, WaitTakes,
              WaitAnswers, Store
<1>6. ASSUME NEW c \in Clients, NEW op \in May[c], NEW id \in Ids, Begin(c, op, id)
      PROVE  UNCHANGED Store
  BY <1>6 DEF Begin, Store
<1>7. ASSUME NEW c \in Clients, Interrupt(c) PROVE UNCHANGED Store
  BY <1>7 DEF Interrupt, Store
<1>8. ASSUME NEW t \in Tasks, Background(t) PROVE UNCHANGED Store
  BY <1>8 DEF Background, Store
<1>9. CASE UNCHANGED lifecycleVars
  BY <1>1, <1>9 DEF lifecycleVars, Store
<1>10. ASSUME NEW c \in Clients, ClientStep(c)
       PROVE  records' \in [Ids -> BOOLEAN] /\ snaps' \in [Ids -> BOOLEAN]
  BY <1>1, <1>2, <1>3, <1>4, <1>10 DEF ClientStep
<1> QED BY <1>1, <1>5, <1>6, <1>7, <1>8, <1>9, <1>10, ImpatientAssumption DEF LifecycleNext

(* Tasks go on and off the list as the daemon lets them.                   *)
LEMMA ListInvStep ==
    ASSUME ListInv, \A t \in Tasks : Onward(t), \A id \in Ids : ListStep(id),
           tasks \in [Ids -> Tasks \cup {None}]
    PROVE  ListInv'
<1>1. ASSUME NEW t \in Tasks PROVE task'[t].status # "PAUSED"
  BY DEF ListInv, Onward
<1>2. ASSUME NEW id \in Ids, tasks'[id] # None PROVE mon'[tasks'[id]] # "none"
  <2>1. CASE tasks'[id] = tasks[id]
    BY <1>2, <2>1 DEF ListInv, Onward
  <2>2. CASE tasks'[id] # tasks[id]
    BY <1>2, <2>2 DEF ListStep
  <2> QED BY <2>1, <2>2
<1> QED BY <1>1, <1>2 DEF ListInv

LEMMA CalledStep ==
    ASSUME Called, tasks \in [Ids -> Tasks \cup {None}], NEW c \in Clients, Outcome(c),
           \A d \in Clients : cmd'[d].id = cmd[d].id
    PROVE  Called'
<1>1. \A i : Named(i) => Named(i)'
  BY DEF Named
<1>2. CASE tasks' = tasks
  BY <1>1, <1>2 DEF Called
<1>3. ASSUME NEW t \in Tasks, Makes(c, t) PROVE Called'
  <2>1. Named(cmd[c].id)
    BY DEF Named
  <2> QED BY <1>1, <1>3, <2>1 DEF Makes, Called
<1>4. CASE Drops(c)
  BY <1>1, <1>4 DEF Drops, Called
<1> QED BY <1>2, <1>3, <1>4 DEF Outcome, Reads, Decides

LEMMA NextCommandsInv == CommandsInv /\ [LifecycleNext]_lifecycleVars => CommandsInv'
<1> SUFFICES ASSUME CommandsInv, [LifecycleNext]_lifecycleVars PROVE CommandsInv'
  OBVIOUS
<1>0. /\ LifecycleTypeOK /\ IInv /\ PauseInv /\ ListInv /\ Called /\ RunIds
      /\ \A c \in Clients : ClientInv(c) /\ Kept(c)
  BY DEF CommandsInv
<1>1. DaemonStep
  BY <1>0, CommandsAreDaemonSteps DEF ClientInv
<1>2. IInv' /\ PauseInv'
  BY <1>0, <1>1, DaemonStepIsNext, NextIInv, NextPauseInv
<1>3. (\A t \in Tasks : Onward(t)) /\ (\A id \in Ids : ListStep(id))
  BY <1>0, <1>1, OnwardStep
<1>4. /\ cmd \in [Clients -> CommandStates] /\ tasks \in [Ids -> Tasks \cup {None}]
  BY <1>0 DEF LifecycleTypeOK, TypeOK
<1>5. ListInv'
  BY <1>0, <1>3, <1>4, ListInvStep
<1>6. records' \in [Ids -> BOOLEAN] /\ snaps' \in [Ids -> BOOLEAN]
  BY <1>0, StoreTypes
<1>7. ASSUME NEW d \in Clients, cmd'[d] = cmd[d],
             thr'[Call(d)] = thr[Call(d)], thr'[Waiter(d)] = thr[Waiter(d)]
      PROVE  ClientInv(d)'
  <2>1. Stays(d)
    BY <1>7 DEF Stays
  <2> QED BY <1>0, <1>3, <1>4, <2>1, StayStep
<1>8. SUFFICES /\ cmd' \in [Clients -> CommandStates]
               /\ Called' /\ RunIds' /\ \A c \in Clients : ClientInv(c)' /\ Kept(c)'
  BY <1>2, <1>5, <1>6 DEF CommandsInv, LifecycleTypeOK, IInv
<1>9. ASSUME NEW c \in Clients, \A th \in Threads \ {Call(c), Waiter(c)} : thr'[th] = thr[th],
             \A d \in Clients \ {c} : cmd'[d] = cmd[d], ClientInv(c)'
      PROVE  \A d \in Clients : ClientInv(d)'
  <2>1. ASSUME NEW d \in Clients, d # c PROVE ClientInv(d)'
    <3>1. Call(d) \in Threads \ {Call(c), Waiter(c)} /\ Waiter(d) \in Threads \ {Call(c), Waiter(c)}
      BY <2>1, ClientThreads DEF Call, Waiter
    <3> QED BY <1>7, <1>9, <2>1, <3>1
  <2> QED BY <1>9, <2>1
<1>10. ASSUME NEW c \in Clients, ClientStep(c) \/ CallStep(c) \/ WaiterStep(c) \/ Interrupt(c)
       PROVE  /\ cmd' \in [Clients -> CommandStates]
              /\ Called' /\ RunIds' /\ \A d \in Clients : ClientInv(d)' /\ Kept(d)'
  <2>1. Holds(c) /\ Outcome(c)
    BY <1>0, <1>2, <1>3, <1>10, CommandStep
  <2>2. \A th \in Threads \ {Call(c), Waiter(c)} : thr'[th] = thr[th]
    BY <1>0, <1>10, OwnThreads
  <2>3. \A d \in Clients : ClientInv(d)'
    BY <1>9, <2>1, <2>2 DEF Holds
  <2>4. \A d \in Clients : cmd'[d].op = cmd[d].op /\ cmd'[d].id = cmd[d].id
    BY <2>1 DEF Holds, Outcome, Makes, Drops, Reads, Decides, Quiet, Starts, Keeps
  <2>5. Called'
    BY <1>0, <1>4, <2>1, <2>4, CalledStep
  <2>6. RunIds'
    BY <1>0, <2>4 DEF RunIds, Is
  <2>7. \A d \in Clients : Kept(d)'
    BY <1>3, <2>1, KeptStep
  <2> QED BY <2>1, <2>3, <2>5, <2>6, <2>7 DEF Holds
<1>11. ASSUME NEW c \in Clients, NEW op \in May[c], NEW id \in Ids, Begin(c, op, id)
       PROVE  /\ cmd' \in [Clients -> CommandStates]
              /\ Called' /\ RunIds' /\ \A d \in Clients : ClientInv(d)' /\ Kept(d)'
  <2>1. /\ cmd' \in [Clients -> CommandStates] /\ ClientInv(c)'
        /\ \A d \in Clients \ {c} : cmd'[d] = cmd[d]
    BY <1>0, <1>11, BeginClient
  <2>2. thr' = thr
    BY <1>11 DEF Begin, Daemon
  <2>3. \A d \in Clients : ClientInv(d)'
    BY <1>9, <2>1, <2>2
  <2> QED BY <1>11, <2>1, <2>3, BeginKept
<1>12. ASSUME cmd' = cmd, thr' = thr, tasks' = tasks
       PROVE  /\ cmd' \in [Clients -> CommandStates]
              /\ Called' /\ RunIds' /\ \A d \in Clients : ClientInv(d)' /\ Kept(d)'
  <2>1. \A d \in Clients : ClientInv(d)'
    BY <1>7, <1>12
  <2>2. Called' /\ RunIds'
    BY <1>0, <1>12 DEF Called, RunIds, Named, Is
  <2>3. ASSUME NEW d \in Clients PROVE Kept(d)'
    <3>1. Holds(d) /\ Outcome(d)
      BY <1>4, <1>12, <2>1 DEF Holds, Outcome, Quiet
    <3> QED BY <1>3, <3>1, KeptStep
  <2> QED BY <1>4, <1>12, <2>1, <2>2, <2>3
<1>13. ASSUME NEW t \in Tasks, Background(t) PROVE cmd' = cmd /\ thr' = thr /\ tasks' = tasks
  BY <1>13 DEF Background, Monitor, MonitorReap, MonitorUpdate, MonitorSend, ProcessExits
<1>14. UNCHANGED lifecycleVars => cmd' = cmd /\ thr' = thr /\ tasks' = tasks
  BY DEF lifecycleVars, vars
<1> QED BY <1>10, <1>11, <1>12, <1>13, <1>14, ImpatientAssumption DEF LifecycleNext

LEMMA InitCommandsInv == LifecycleInit => CommandsInv
<1> SUFFICES ASSUME LifecycleInit PROVE CommandsInv
  OBVIOUS
<1>1. /\ IInv /\ PauseInv /\ TypeOK
  BY InitIInv, InitPauseInv DEF LifecycleInit, IInv
<1>2. /\ tasks = [id \in Ids |-> None] /\ task = [t \in Tasks |-> Unborn]
      /\ mon = [t \in Tasks |-> "none"] /\ thr = [th \in Threads |-> Idle]
      /\ cmd = [c \in Clients |-> NotGiven]
  BY DEF LifecycleInit, Init
<1>3. /\ NotGiven.pc = "idle" /\ NotGiven.cut = FALSE /\ NotGiven.op = "none"
      /\ NotGiven.own = None /\ NotGiven.seen = None /\ NotGiven.exit = None
  BY DEF NotGiven
<1>4. NotGiven \in CommandStates
  BY DEF NotGiven, CommandStates, Places
<1>5. LifecycleTypeOK
  BY <1>1, <1>2, <1>4 DEF LifecycleTypeOK, LifecycleInit
<1>6. ListInv /\ Called
  BY <1>2 DEF ListInv, Called, Unborn
<1>7. ASSUME NEW c \in Clients PROVE ClientInv(c) /\ Kept(c)
  <2>1. cmd[c] = NotGiven /\ thr[Call(c)].pc = "idle" /\ thr[Waiter(c)].pc = "idle"
    BY <1>2, ClientThreads DEF Idle
  <2>2. Placed(c) /\ Owns(c)
    BY <1>3, <2>1 DEF Placed, Owns, OnRoute, Killing
  <2> QED BY <1>3, <2>1, <2>2
          DEF ClientInv, SeenRunning, RunStarts, RunWaits, RunReports, Kept, Is
<1>8. RunIds
  BY <1>2, <1>3 DEF RunIds, Is
<1> QED BY <1>1, <1>5, <1>6, <1>7, <1>8 DEF CommandsInv

LEMMA CommandsInductive == LifecycleSpec => []CommandsInv
  BY InitCommandsInv, NextCommandsInv, PTL DEF LifecycleSpec

-----------------------------------------------------------------------------
(* The record of a run's container is kept as long as its process lives.   *)

(* Without docker start and removals: the record is there when the task is *)
(* made, and Run deletes it only when the process is gone.                 *)
Recorded(c) ==
    Is(c, {"run", "run_detached"}) /\ ~Restarted(cmd[c].id) /\ ~Removed(cmd[c].id) =>
        /\ cmd[c].pc = "newtask" => records[cmd[c].id]
        /\ cmd[c].own # None => records[cmd[c].id] \/ Reaped(cmd[c].own)
        /\ cmd[c].pc = "delrecord" /\ cmd[c].own # None => Reaped(cmd[c].own)

RecordInv == \A c \in Clients : Recorded(c)

(* What a step of c means for the records.                                 *)
Files(c) ==
    /\ \A id \in Ids :
          records[id] => records'[id] \/ (cmd[c].pc = "delrecord" /\ cmd[c].id = id)
    /\ cmd'[c].own = cmd[c].own \/ (cmd[c].pc = "newtask" /\ cmd'[c].pc = "pid")
    /\ cmd'[c].pc = "newtask" /\ cmd[c].op \in {"run", "run_detached"} =>
          cmd[c].pc = "newtask" \/ records'[cmd[c].id]
    /\ cmd'[c].pc = "delrecord" =>
          cmd[c].pc = "delrecord" \/ tasks[cmd[c].id] = None

(* A command that goes elsewhere, and leaves the records alone.            *)
LEMMA Elsewhere ==
    ASSUME cmd \in [Clients -> CommandStates], NEW c \in Clients, records' = records,
           NEW k \in {"none", "ok", "fail"},
           NEW p \in Places \ {"newtask", "delrecord"}
    PROVE  Goes(c, p) \/ Ends(c, k) \/ Becomes(c, [cmd[c] EXCEPT !.pc = p, !.result = k])
           => Files(c)
<1>1. ASSUME NEW q, q \notin {"newtask", "delrecord"}, NEW x, Walks(c, q, x)
      PROVE  Files(c)
  BY <1>1 DEF Files, Walks, Learns
<1>2. p \notin {"newtask", "delrecord"} /\ p \in Places
  OBVIOUS
<1>3. ASSUME Goes(c, p) PROVE Files(c)
  <2>1. Walks(c, p, cmd[c].result)
    BY <1>2, <1>3, BecomesWalks, Zenon
  <2> QED BY <1>1, <1>2, <2>1
<1>4. ASSUME Ends(c, k) PROVE Files(c)
  <2>1. Walks(c, "done", k)
    BY <1>2, <1>4, BecomesWalks, Zenon
  <2> QED BY <1>1, <2>1
<1>5. ASSUME Becomes(c, [cmd[c] EXCEPT !.pc = p, !.result = k]) PROVE Files(c)
  <2>1. Walks(c, p, k)
    BY <1>2, <1>5, BecomesWalks, Zenon
  <2> QED BY <1>1, <1>2, <2>1
<1> QED BY <1>3, <1>4, <1>5

LEMMA EarlyFiles ==
    ASSUME LifecycleTypeOK, NEW c \in Clients, ClientInv(c)
    PROVE  /\ EnsureImage(c) \/ NewSnapshot(c) \/ NewRecord(c) \/ NewTaskFails(c)
              => Files(c)
           /\ StartNotFound(c) \/ LoadContainer(c) \/ NoTask(c) => Files(c)
           /\ (\E t \in Tasks, p \in Pids : NewTask(c, t, p)) => Files(c)
           /\ NewTaskAnswers(c) \/ LoadTask(c) => Files(c)
<1>0. cmd \in [Clients -> CommandStates] /\ cmd[c] \in CommandStates
      /\ records \in [Ids -> BOOLEAN]
  BY DEF LifecycleTypeOK
<1>p. {"snapshot", "record", "unlist", "deltask", "task", "done"}
          \subseteq Places \ {"newtask", "delrecord"}
  BY DEF Places
<1>1. ASSUME EnsureImage(c) PROVE Files(c)
  BY <1>0, <1>1, <1>p, Elsewhere DEF EnsureImage, Store
<1>2. ASSUME NewSnapshot(c) PROVE Files(c)
  BY <1>0, <1>2, <1>p, Elsewhere DEF NewSnapshot
<1>3. ASSUME NewRecord(c) PROVE Files(c)
  <2>1. CASE /\ ~records[cmd[c].id] /\ records' = [records EXCEPT ![cmd[c].id] = TRUE]
             /\ Ends(c, "ok") \/ Goes(c, "newtask")
    <3>1. cmd[c].id \in Ids
      BY <1>3 DEF ClientInv, Placed, NewRecord, At
    <3>2. "newtask" \in Places
      BY DEF Places
    <3>3. Walks(c, "done", "ok") \/ Walks(c, "newtask", cmd[c].result)
      BY <1>0, <2>1, <3>2, BecomesWalks, Zenon
    <3> QED BY <1>0, <2>1, <3>1, <3>3 DEF Files, Walks, Learns
  <2>2. CASE Ends(c, "fail") /\ UNCHANGED records
    BY <1>0, <1>p, <2>2, Elsewhere
  <2> QED BY <1>3, <2>1, <2>2 DEF NewRecord
<1>4. ASSUME NewTaskFails(c) PROVE Files(c)
  BY <1>0, <1>4, <1>p, Elsewhere DEF NewTaskFails, Store
<1>5. ASSUME StartNotFound(c) PROVE Files(c)
  BY <1>0, <1>5, <1>p, Elsewhere DEF StartNotFound, StartError, Store
<1>6. ASSUME LoadContainer(c) PROVE Files(c)
  <2>1. records' = records
    BY <1>6 DEF LoadContainer, Store
  <2>2. CASE Is(c, {"docker_start"}) /\ Goes(c, "newtask")
    <3>1. Walks(c, "newtask", cmd[c].result)
      <4>1. "newtask" \in Places
        BY DEF Places
      <4> QED BY <1>0, <2>2, <4>1, BecomesWalks, Zenon
    <3> QED BY <2>1, <2>2, <3>1 DEF Files, Walks, Learns, Is
  <2>3. CASE Ends(c, "fail") \/ Goes(c, "unlist") \/ Goes(c, "task")
    BY <1>0, <1>p, <2>1, <2>3, Elsewhere
  <2> QED BY <1>6, <2>2, <2>3 DEF LoadContainer
<1>7. ASSUME NoTask(c) PROVE Files(c)
  <2>1. cmd[c].op \in {"stop", "exec", "docker_stop", "rm_force"}
    BY <1>7 DEF ClientInv, Placed, OnRoute, NoTask, At
  <2>2. Ends(c, "fail") \/ Ends(c, "ok") \/ Goes(c, "unlist")
    BY <1>7, <2>1 DEF NoTask, Is
  <2> QED BY <1>0, <1>7, <1>p, <2>2, Elsewhere DEF NoTask, Store
<1>8. ASSUME NEW t \in Tasks, NEW p \in Pids, NewTask(c, t, p) PROVE Files(c)
  <2>1. /\ cmd[c].pc = "newtask" /\ records' = records
        /\ cmd'[c] = [cmd[c] EXCEPT !.pc = "pid", !.own = t]
    BY <1>0, <1>8 DEF NewTask, At, Becomes, Store
  <2> QED BY <1>0, <2>1 DEF Files, CommandStates
<1>9. ASSUME NewTaskAnswers(c) PROVE Files(c)
  <2>1. /\ records' = records
        /\ cmd'[c] = [cmd[c] EXCEPT !.pc = "start", !.nopid = task[cmd[c].own].pid = NoPid]
    BY <1>0, <1>9 DEF NewTaskAnswers, Becomes, Store
  <2> QED BY <1>0, <2>1 DEF Files, CommandStates
<1>10. ASSUME LoadTask(c) PROVE Files(c)
  <2> DEFINE np == task[tasks[cmd[c].id]].pid = NoPid
             p == CASE Is(c, {"exec"})        -> "wait"
                    [] Is(c, {"docker_stop"}) -> "kill"
                    [] OTHER                  -> "status"
  <2>1. records' = records /\ cmd'[c] = [cmd[c] EXCEPT !.nopid = np, !.pc = p]
    BY <1>0, <1>10 DEF LoadTask, Becomes, Store
  <2>2. p \notin {"newtask", "delrecord"}
    OBVIOUS
  <2> HIDE DEF np, p
  <2> QED BY <1>0, <2>1, <2>2 DEF Files, CommandStates
<1> QED BY <1>1, <1>2, <1>3, <1>4, <1>5, <1>6, <1>7, <1>8, <1>9, <1>10

LEMMA KillFiles ==
    ASSUME LifecycleTypeOK, NEW c \in Clients, ClientInv(c), records' = records,
           cmd[c].pc \in Killing
    PROVE  KillError(c) \/ KillOk(c) => Files(c)
<1>0. cmd \in [Clients -> CommandStates]
  BY DEF LifecycleTypeOK
<1>1. {"wait", "reap", "done"} \subseteq Places \ {"newtask", "delrecord"}
  BY DEF Places
<1>2. cmd[c].op \in {"stop", "rm_force", "docker_stop"}
  BY DEF ClientInv, Placed, OnRoute, Killing
<1>3. KillError(c) => Ends(c, "fail") \/ Goes(c, "wait") \/ Ends(c, "ok")
  BY <1>2 DEF KillError, Is
<1>4. KillOk(c) => Ends(c, "ok") \/ Goes(c, "reap") \/ Goes(c, "wait")
  BY DEF KillOk
<1> QED BY <1>0, <1>1, <1>3, <1>4, Elsewhere

LEMMA LateFiles ==
    ASSUME LifecycleTypeOK, NEW c \in Clients, ClientInv(c)
    PROVE  /\ StopReadsStatus(c) \/ RemoveReadsStatus(c) \/ KillNotFound(c) => Files(c)
           /\ CallWait(c) \/ WaitNotFound(c) \/ Timeout(c) \/ Exited(c) => Files(c)
           /\ CheckStopped(c) \/ DeleteTask(c) \/ DeleteTaskRefused(c) => Files(c)
           /\ CheckNoTask(c) \/ DeleteRecord(c) => Files(c)
<1>0. cmd \in [Clients -> CommandStates] /\ cmd[c] \in CommandStates
      /\ records \in [Ids -> BOOLEAN]
  BY DEF LifecycleTypeOK
<1>p. {"unlist", "deltask", "delrpc", "wait", "force", "done"}
          \subseteq Places \ {"newtask", "delrecord"}
  BY DEF Places, Killing
<1>1. ASSUME NEW p \in {"term", "kill", "waiting"}, NEW t, records' = records,
             Becomes(c, [cmd[c] EXCEPT !.pc = p, !.seen = t])
      PROVE  Files(c)
  <2>1. cmd'[c] = [cmd[c] EXCEPT !.pc = p, !.seen = t]
    BY <1>0, <1>1 DEF Becomes
  <2> QED BY <1>0, <1>1, <2>1 DEF Files, CommandStates
<1>2. ASSUME StopReadsStatus(c) PROVE Files(c)
  <2>1. records' = records
    BY <1>2 DEF StopReadsStatus, Store
  <2>2. \/ Ends(c, "fail") \/ Ends(c, "ok")
        \/ Becomes(c, [cmd[c] EXCEPT !.pc = "term", !.seen = tasks[cmd[c].id]])
    BY <1>2 DEF StopReadsStatus
  <2> QED BY <1>0, <1>1, <1>p, <2>1, <2>2, Elsewhere
<1>3. ASSUME RemoveReadsStatus(c) PROVE Files(c)
  BY <1>0, <1>1, <1>3, <1>p, Elsewhere DEF RemoveReadsStatus, Store
<1>4. ASSUME KillNotFound(c) PROVE Files(c)
  <2>1. cmd[c].pc \in Killing /\ records' = records /\ KillError(c)
    BY <1>4 DEF KillNotFound, At, Store
  <2> QED BY <1>0, <1>p, <2>1, KillFiles
<1>5. ASSUME CallWait(c) PROVE Files(c)
  BY <1>1, <1>5 DEF CallWait, Store
<1>6. ASSUME WaitNotFound(c) PROVE Files(c)
  <2>1. /\ records' = records
        /\ cmd'[c] = [cmd[c] EXCEPT !.pc = "waiting", !.exit = UnknownExitStatus]
    BY <1>0, <1>6 DEF WaitNotFound, Becomes, Store
  <2> QED BY <1>0, <2>1 DEF Files, CommandStates
<1>7. ASSUME Timeout(c) PROVE Files(c)
  BY <1>0, <1>7, <1>p, Elsewhere DEF Timeout, Store
<1>8. ASSUME Exited(c) PROVE Files(c)
  BY <1>0, <1>8, <1>p, Elsewhere DEF Exited, Store
<1>9. ASSUME records' = records, DeleteError(c) PROVE Files(c)
  BY <1>0, <1>9, <1>p, Elsewhere DEF DeleteError
<1>10. ASSUME CheckStopped(c) PROVE Files(c)
  BY <1>0, <1>9, <1>10, <1>p, Elsewhere DEF CheckStopped, Store
<1>11. ASSUME DeleteTask(c) PROVE Files(c)
  BY <1>0, <1>11, <1>p, Elsewhere DEF DeleteTask, Store
<1>12. ASSUME DeleteTaskRefused(c) PROVE Files(c)
  BY <1>9, <1>12 DEF DeleteTaskRefused, Store
<1>13. ASSUME CheckNoTask(c) PROVE Files(c)
  <2>1. records' = records
    BY <1>13 DEF CheckNoTask, Store
  <2>2. CASE tasks[cmd[c].id] = None /\ Goes(c, "delrecord")
    <3>1. cmd'[c] = [cmd[c] EXCEPT !.pc = "delrecord"]
      BY <1>0, <2>2 DEF Goes, Becomes
    <3> QED BY <1>0, <2>1, <2>2, <3>1 DEF Files, CommandStates
  <2>3. CASE Ends(c, "fail")
    BY <1>0, <1>p, <2>1, <2>3, Elsewhere
  <2> QED BY <1>13, <2>2, <2>3 DEF CheckNoTask
<1>14. ASSUME DeleteRecord(c) PROVE Files(c)
  <2>1. /\ cmd[c].pc = "delrecord" /\ cmd[c].id \in Ids
        /\ records' = [records EXCEPT ![cmd[c].id] = FALSE]
    BY <1>14 DEF DeleteRecord, At, ClientInv, Placed
  <2>2. Ends(c, "ok") \/ Ends(c, "fail")
    BY <1>14 DEF DeleteRecord
  <2>3. "done" \in Places
    BY DEF Places
  <2>4. Walks(c, "done", "ok") \/ Walks(c, "done", "fail")
    BY <1>0, <2>2, <2>3, BecomesWalks, Zenon
  <2> QED BY <1>0, <2>1, <2>4 DEF Files, Walks, Learns
<1> QED BY <1>2, <1>3, <1>4, <1>5, <1>6, <1>7, <1>8, <1>10, <1>11, <1>12, <1>13, <1>14

LEMMA RequestFiles ==
    ASSUME LifecycleTypeOK, NEW c \in Clients, ClientInv(c)
    PROVE  /\ CallStart(c) \/ CallKill(c) \/ WaiterStep(c) => Files(c)
           /\ CallStep(c) \/ Interrupt(c) => Files(c)
<1>0. cmd \in [Clients -> CommandStates] /\ cmd[c] \in CommandStates
      /\ records \in [Ids -> BOOLEAN] /\ Placed(c)
  BY DEF LifecycleTypeOK, ClientInv
<1>p. {"deltask", "done"} \subseteq Places \ {"newtask", "delrecord"}
  BY DEF Places
<1>1. ASSUME cmd' = cmd, records' = records PROVE Files(c)
  BY <1>1 DEF Files
<1>2. ASSUME CallStart(c) \/ CallKill(c) \/ WaitTakes(c) PROVE Files(c)
  BY <1>1, <1>2 DEF CallStart, CallKill, WaitTakes
<1>3. ASSUME WaitAnswers(c) PROVE Files(c)
  <2>1. /\ records' = records
        /\ \/ cmd' = cmd
           \/ \E x : cmd'[c] = [cmd[c] EXCEPT !.exit = x]
    BY <1>0, <1>3 DEF WaitAnswers, Store
  <2> QED BY <1>0, <1>1, <2>1 DEF Files, CommandStates
<1>4. ASSUME StartAnswers(c) PROVE Files(c)
  <2>1. records' = records
    BY <1>4 DEF StartAnswers, Store
  <2>2. CASE StartError(c) \/ Ends(c, "ok")
    BY <1>0, <1>p, <2>1, <2>2, Elsewhere DEF StartError
  <2>3. CASE Becomes(c, [cmd[c] EXCEPT !.pc = "wait", !.nopid = TRUE])
    <3>1. cmd'[c] = [cmd[c] EXCEPT !.pc = "wait", !.nopid = TRUE]
      BY <1>0, <2>3 DEF Becomes
    <3> QED BY <1>0, <2>1, <3>1 DEF Files, CommandStates
  <2> QED BY <1>1, <1>4, <2>1, <2>2, <2>3 DEF StartAnswers
<1>5. ASSUME KillReadsPid(c) PROVE Files(c)
  <2>1. /\ records' = records
        /\ cmd' = cmd \/ (~cmd[c].cut /\ KillError(c) /\ thr[Call(c)].pc = "kill")
    BY <1>5 DEF KillReadsPid, KillReadPid, Store
  <2>2. ~cmd[c].cut /\ thr[Call(c)].pc = "kill" => cmd[c].pc \in Killing
    BY <1>0 DEF Placed
  <2> QED BY <1>0, <1>1, <2>1, <2>2, KillFiles
<1>6. ASSUME KillSignals(c) PROVE Files(c)
  <2>1. /\ records' = records /\ thr[Call(c)].pc = "signal"
        /\ cmd' = cmd \/ (~cmd[c].cut /\ (KillError(c) \/ KillOk(c)))
    BY <1>6 DEF KillSignals, KillSignal, Store
  <2>2. ~cmd[c].cut => cmd[c].pc \in Killing
    BY <1>0, <2>1 DEF Placed
  <2> QED BY <1>0, <1>1, <2>1, <2>2, KillFiles
<1>7. ASSUME Interrupt(c) PROVE Files(c)
  <2>1. /\ records' = records
        /\ \E x : cmd'[c] = [cmd[c] EXCEPT !.cut = TRUE, !.result = x]
    BY <1>0, <1>7 DEF Interrupt, Becomes, Store
  <2> QED BY <1>0, <2>1 DEF Files, CommandStates
<1> QED BY <1>2, <1>3, <1>4, <1>5, <1>6, <1>7 DEF WaiterStep, CallStep

(* No step of a command deletes the record while its run's process lives.  *)
LEMMA NextRecordInv ==
    ASSUME CommandsInv, RecordInv, CommandsInv', [LifecycleNext]_lifecycleVars
    PROVE  RecordInv'
<1>0. /\ LifecycleTypeOK /\ RunIds /\ \A c \in Clients : ClientInv(c) /\ Kept(c) /\ Placed(c)
      /\ cmd \in [Clients -> CommandStates]
  BY DEF CommandsInv, LifecycleTypeOK, ClientInv
<1>1. \A t \in Tasks : Onward(t)
  <2>1. IInv /\ DaemonStep
    BY <1>0, CommandsAreDaemonSteps DEF CommandsInv
  <2> QED BY <2>1, OnwardStep
<1>2. ASSUME NEW c \in Clients, Files(c), \A d \in Clients \ {c} : cmd'[d] = cmd[d],
             cmd'[c].op = cmd[c].op, cmd'[c].id = cmd[c].id, NEW r \in Clients
      PROVE  Recorded(r)'
  <2> DEFINE i == cmd[r].id
             o == cmd[r].own
  <2>1. \A d \in Clients : cmd'[d].op = cmd[d].op /\ cmd'[d].id = cmd[d].id
    BY <1>2
  <2>2. /\ Restarted(i)' <=> Restarted(i)
        /\ Removed(i)' <=> Removed(i)
    BY <2>1 DEF Restarted, Removed, Is
  <2> SUFFICES ASSUME cmd[r].op \in {"run", "run_detached"}, ~Restarted(i), ~Removed(i)
               PROVE  Recorded(r)'
    BY <2>1, <2>2 DEF Recorded, Is
  <2>3. /\ cmd[r].pc = "newtask" => records[i]
        /\ o # None => records[i] \/ Reaped(o)
        /\ cmd[r].pc = "delrecord" /\ o # None => Reaped(o)
    BY DEF RecordInv, Recorded, Is
  <2>4. o # None /\ Reaped(o) => os'[o].state = "reaped"
    BY <1>0, <1>1 DEF Onward, Reaped, CommandStates
  <2>5. i \in Ids
    BY <1>0 DEF Placed, OnRoute
  <2>6. o # None /\ tasks[i] = None => Reaped(o)
    BY <1>0 DEF Kept, Is
  <2>7. cmd[c].pc = "delrecord" /\ cmd[c].id = i => c = r
    BY <1>0 DEF Placed, OnRoute, RunIds, Removed, Is
  <2>8. records[i] => records'[i] \/ (c = r /\ cmd[r].pc = "delrecord")
    BY <1>2, <2>5, <2>7 DEF Files
  <2>9. CASE c # r
    <3>1. cmd'[r] = cmd[r]
      BY <1>2, <2>9
    <3> QED BY <2>3, <2>4, <2>8, <2>9, <3>1 DEF Recorded, Reaped
  <2>10. CASE c = r
    <3>1. ASSUME cmd'[r].pc = "newtask" PROVE records'[i]
      BY <1>2, <2>3, <2>8, <2>10, <3>1 DEF Files
    <3>2. ASSUME cmd'[r].own # None PROVE records'[i] \/ os'[cmd'[r].own].state = "reaped"
      BY <1>2, <2>3, <2>4, <2>8, <2>10, <3>2 DEF Files
    <3>3. ASSUME cmd'[r].pc = "delrecord", cmd'[r].own # None
          PROVE  os'[cmd'[r].own].state = "reaped"
      <4>1. cmd'[r].own = o
        BY <1>2, <2>10, <3>3 DEF Files
      <4> QED BY <1>2, <2>3, <2>4, <2>6, <2>10, <3>3, <4>1 DEF Files
    <3> QED BY <2>1, <3>1, <3>2, <3>3 DEF Recorded, Reaped
  <2> QED BY <2>9, <2>10
<1>3. ASSUME NEW c \in Clients, ClientStep(c) \/ CallStep(c) \/ WaiterStep(c) \/ Interrupt(c)
      PROVE  RecordInv'
  <2>1. Files(c)
    <3>1. ClientStep(c) => Files(c)
      BY <1>0, EarlyFiles, LateFiles, RequestFiles DEF ClientStep
    <3> QED BY <1>0, <1>3, <3>1, RequestFiles
  <2>2. Holds(c) /\ Outcome(c)
    BY <1>0, <1>1, <1>3, CommandStep, CommandsAreDaemonSteps, OnwardStep DEF CommandsInv
  <2>3. /\ \A d \in Clients \ {c} : cmd'[d] = cmd[d]
        /\ cmd'[c].op = cmd[c].op /\ cmd'[c].id = cmd[c].id
    BY <2>2 DEF Holds, Outcome, Makes, Drops, Reads, Decides, Quiet, Starts, Keeps
  <2> QED BY <1>2, <2>1, <2>3 DEF RecordInv
<1>4. ASSUME NEW c \in Clients, NEW op \in May[c], NEW id \in Ids, Begin(c, op, id)
      PROVE  RecordInv'
  <2>1. /\ cmd[c] = NotGiven /\ cmd'[c].own = None /\ cmd'[c].pc \in {"image", "load"}
        /\ \A d \in Clients \ {c} : cmd'[d] = cmd[d]
    BY <1>0, <1>4, BeginClient DEF CommandsInv
  <2>2. UNCHANGED <<records, os>>
    BY <1>4 DEF Begin, Daemon, Store
  <2>3. Recorded(c)'
    BY <2>1 DEF Recorded
  <2>4. ASSUME NEW r \in Clients \ {c} PROVE Recorded(r)'
    <3>1. cmd'[r] = cmd[r]
      BY <2>1, <2>4
    <3>2. \A i : (Restarted(i) => Restarted(i)') /\ (Removed(i) => Removed(i)')
      BY <2>1 DEF Restarted, Removed, Is, NotGiven
    <3> QED BY <2>2, <3>1, <3>2 DEF RecordInv, Recorded, Reaped, Is
  <2> QED BY <2>3, <2>4 DEF RecordInv
<1>5. ASSUME cmd' = cmd, records' = records PROVE RecordInv'
  <2>1. \A c \in Clients : Files(c)
    BY <1>5 DEF Files
  <2> QED BY <1>2, <1>5, <2>1 DEF RecordInv
<1>6. ASSUME NEW t \in Tasks, Background(t) PROVE RecordInv'
  BY <1>5, <1>6 DEF Background
<1>7. CASE UNCHANGED lifecycleVars
  BY <1>5, <1>7 DEF lifecycleVars
<1> QED BY <1>3, <1>4, <1>6, <1>7, ImpatientAssumption DEF LifecycleNext

LEMMA RecordsInductive == LifecycleSpec => []RecordInv
<1>1. LifecycleInit => RecordInv
  BY DEF LifecycleInit, RecordInv, Recorded, NotGiven, Is
<1>2. CommandsInv /\ RecordInv /\ CommandsInv' /\ [LifecycleNext]_lifecycleVars => RecordInv'
  BY NextRecordInv
<1> QED BY <1>1, <1>2, CommandsInductive, PTL DEF LifecycleSpec

-----------------------------------------------------------------------------
(* The stores and what every command knows are well-typed.                 *)
THEOREM LifecycleTypes == LifecycleSpec => []LifecycleTypeOK
<1>1. CommandsInv => LifecycleTypeOK
  BY DEF CommandsInv
<1> QED BY <1>1, CommandsInductive, PTL

(* Stop and Remove: who reports success for a task it has seen RUNNING has *)
(* seen its process through to the end, however many commands interfere.   *)
THEOREM StopsAreFinal == LifecycleSpec => []StoppedForGood
<1>1. CommandsInv => StoppedForGood
  BY DEF CommandsInv, ClientInv, SeenRunning, StoppedForGood, Succeeded, Is, Reaped
<1> QED BY <1>1, CommandsInductive, PTL

(* Run: a success tells the exit code of the process it has started.       *)
THEOREM RunsReportExits == LifecycleSpec => []RunReportsExit
<1>1. ASSUME CommandsInv, NEW c \in Clients, Succeeded(c, {"run"}), cmd[c].seen = cmd[c].own
      PROVE  os[cmd[c].own].state = "reaped" /\ cmd[c].exit = UInt32(os[cmd[c].own].exit)
  <2>1. /\ ClientInv(c) /\ IInv /\ cmd[c] \in CommandStates
        /\ cmd[c].op = "run" /\ cmd[c].pc = "done" /\ cmd[c].result = "ok"
    BY <1>1 DEF CommandsInv, LifecycleTypeOK, Succeeded, Is
  <2>2. /\ cmd[c].own # None /\ cmd[c].exit # None
        /\ task[cmd[c].own].status = "STOPPED"
    BY <1>1, <2>1 DEF ClientInv, RunReports, Good, Is
  <2>3. cmd[c].exit = UInt32(task[cmd[c].own].code)
    BY <1>1, <2>1, <2>2 DEF ClientInv, RunWaits, Is
  <2>4. ExitProtocol(cmd[c].own)
    BY <2>1, <2>2 DEF IInv, CommandStates
  <2> QED BY <2>2, <2>3, <2>4 DEF ExitProtocol
<1>2. CommandsInv => RunReportsExit
  BY <1>1 DEF RunReportsExit
<1> QED BY <1>2, CommandsInductive, PTL

(* Run: while its process lives its task stays on the daemon's list and    *)
(* its container keeps its record, as long as nobody starts the container  *)
(* again; only a removal can take the record.                              *)
THEOREM RunsKeepProcesses == LifecycleSpec => []RunKeepsProcess
<1>1. ASSUME CommandsInv, RecordInv, NEW c \in Clients, Is(c, {"run", "run_detached"}),
             cmd[c].own # None, ~Reaped(cmd[c].own), ~Restarted(cmd[c].id)
      PROVE  tasks[cmd[c].id] = cmd[c].own /\ (records[cmd[c].id] \/ Removed(cmd[c].id))
  BY <1>1 DEF CommandsInv, Kept, RecordInv, Recorded
<1>2. CommandsInv /\ RecordInv => RunKeepsProcess
  BY <1>1 DEF RunKeepsProcess, Reaped
<1> QED BY <1>2, CommandsInductive, RecordsInductive, PTL

(* The daemon that the commands use is TaskManager: they take no step      *)
(* around it, so what is proved of it holds while they run.                *)
THEOREM DaemonRefined == LifecycleSpec => Spec
<1>1. CommandsInv /\ [LifecycleNext]_lifecycleVars => [Next]_vars
  BY CommandsAreDaemonSteps, DaemonStepIsNext DEF CommandsInv, ClientInv
<1>2. LifecycleInit => Init
  BY DEF LifecycleInit
<1> QED BY <1>1, <1>2, CommandsInductive, PTL DEF LifecycleSpec, Spec

(* So whatever the commands do, in whatever order and however they are     *)
(* interrupted, tasks go through the states of the documented life cycle,  *)
(* a task shown as stopped has no process, pids are known until they are   *)
(* reaped, Wait answers after the exit only and paused processes rest.     *)
THEOREM CommandsKeepDaemonCorrect ==
    LifecycleSpec => /\ ImplementsLifecycle
                     /\ [](StoppedIsDead /\ PidUntilGone /\ WaitAfterExit /\ PausedIsFrozen)
BY DaemonRefined, ManagerImplementsLifecycle, StoppedTasksAreDead, PidsAreKept,
   WaitsEndAfterExit, PausedTasksRest, PTL
=============================================================================
