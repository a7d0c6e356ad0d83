-------------------------- MODULE TaskManagerProofs --------------------------
(***************************************************************************)
(* What the exit protocol between the kernel, the monitor goroutine and    *)
(* the waiters guarantees, for any number of containers, task objects,     *)
(* pids and concurrent requests, recycled pids included.                   *)
(*                                                                         *)
(* None of the invariants is inductive alone.  ExitProtocol ties the three *)
(* pieces of state together along the steps of the monitor: until it has   *)
(* reaped the process, Pid is the pid of that process and ExitCode is 0;   *)
(* only its critical section makes a task STOPPED; only its send fills the *)
(* channel.                                                                *)
(***************************************************************************)
EXTENDS TaskManager, TLAPS

(* The state of an object's process, fields and channel at each point of   *)
(* its monitor.                                                            *)
ExitProtocol(t) ==
    /\ task[t].status = "unborn" => mon[t] = "none"
    /\ mon[t] = "none" => os[t].state = "none"
    /\ mon[t] = "waiting" =>
            /\ os[t].state \in {"alive", "frozen", "zombie"}
            /\ task[t].pid = os[t].pid
    /\ mon[t] \in {"reaped", "updated", "done"} => os[t].state = "reaped"
    /\ task[t].status = "STOPPED" =>
            /\ mon[t] \in {"updated", "done"}
            /\ task[t].code = os[t].exit
    /\ waitCh[t] # "empty" => mon[t] = "done"

(* A request past its lookup has an object; one past the channel has taken *)
(* the token.                                                              *)
RequestOK(th) ==
    /\ thr[th].pc # "idle" => thr[th].task \in Tasks
    /\ thr[th].pc = "exitcode" => waitCh[thr[th].task] = "taken"

IInv ==
    /\ TypeOK
    /\ \A t \in Tasks : ExitProtocol(t)
    /\ \A th \in Threads : RequestOK(th)

(* q is os after some processes that have not been reaped changed state.   *)
Moved(q) ==
    /\ q \in [Tasks -> Processes]
    /\ \A t \in Tasks :
          /\ q[t].pid = os[t].pid
          /\ q[t] # os[t] =>
                /\ os[t].state \in {"alive", "frozen", "zombie"}
                /\ q[t].state \in {"alive", "frozen", "zombie"}

(* The fields of an object, a process or a request are changed one by one. *)
LEMMA FieldTypes ==
    /\ \A o \in Objects :
            /\ \A s \in Status : [o EXCEPT !.status = s] \in Objects
            /\ [o EXCEPT !.pid = NoPid] \in Objects
    /\ \A p \in Processes :
            /\ [p EXCEPT !.state = "reaped"] \in Processes
            /\ \A c \in ExitCodes :
                    [p EXCEPT !.state = "zombie", !.exit = c] \in Processes
    /\ \A r \in Requests : [r EXCEPT !.pc = "exitcode"] \in Requests
<1>1. ASSUME NEW o \in Objects
      PROVE  /\ \A s \in Status : [o EXCEPT !.status = s] \in Objects
             /\ [o EXCEPT !.pid = NoPid] \in Objects
  BY DEF Objects
<1>2. ASSUME NEW p \in Processes
      PROVE  /\ [p EXCEPT !.state = "reaped"] \in Processes
             /\ \A c \in ExitCodes :
                    [p EXCEPT !.state = "zombie", !.exit = c] \in Processes
  BY DEF Processes
<1>3. ASSUME NEW r \in Requests PROVE [r EXCEPT !.pc = "exitcode"] \in Requests
  BY DEF Requests
<1> QED BY <1>1, <1>2, <1>3

LEMMA StandStill == TypeOK => Moved(os)
  BY DEF Moved, TypeOK, Objects, Processes

(* A signal only moves a process that still holds its pid among the states *)
(* of a process that has not been reaped.                                  *)
LEMMA SignalledProcesses ==
    ASSUME TypeOK, NEW p, NEW sig
    PROVE  Moved(Signalled(p, sig))
<1> DEFINE res(t) == Signalled(p, sig)[t]
<1>1. ASSUME NEW t \in Tasks
      PROVE  /\ res(t) \in Processes
             /\ res(t).pid = os[t].pid
             /\ res(t) # os[t] =>
                    /\ os[t].state \in {"alive", "frozen", "zombie"}
                    /\ res(t).state \in {"alive", "frozen", "zombie"}
  <2> DEFINE killed == [os[t] EXCEPT !.state = "zombie", !.exit = -1]
             frozen == [os[t] EXCEPT !.state = "frozen"]
             resumed == [os[t] EXCEPT !.state = "alive"]
  <2>1. res(t) \in {os[t], killed, frozen, resumed}
    BY DEF Signalled
  <2>2. res(t) # os[t] => HoldsPid(t, p)
    BY DEF Signalled
  <2>3. os[t] \in Processes
    BY DEF TypeOK, Objects, Processes
  <2>4. killed.pid = os[t].pid /\ frozen.pid = os[t].pid /\ resumed.pid = os[t].pid
    BY <2>3 DEF Processes
  <2>5. killed.state = "zombie" /\ frozen.state = "frozen" /\ resumed.state = "alive"
    BY <2>3 DEF Processes
  <2>6. {killed, frozen, resumed} \subseteq Processes
    BY <2>3 DEF ExitCodes, Processes
  <2> HIDE DEF res, killed, frozen, resumed
  <2> QED BY <2>1, <2>2, <2>3, <2>4, <2>5, <2>6 DEF HoldsPid
<1>2. Signalled(p, sig) = [t \in Tasks |-> res(t)]
  BY DEF Signalled
<1> HIDE DEF res
<1> QED BY <1>1, <1>2 DEF Moved

LEMMA InitIInv == Init => IInv
  BY DEF Init, IInv, TypeOK, Objects, Processes, ExitProtocol, RequestOK, Requests, Ops, Idle, Unborn,
         NoProcess, NoPid, ExitCodes, Status

-----------------------------------------------------------------------------
(* The steps of the kernel, of Create and Delete, and of the monitor.      *)
LEMMA BackgroundStep ==
    ASSUME IInv,
           \/ \E id \in Ids, t \in Tasks, p \in Pids : Create(id, t, p)
           \/ \E id \in Ids : Delete(id)
           \/ \E t \in Tasks : Monitor(t) \/ ProcessExits(t)
    PROVE  IInv'
<1> USE DEF IInv
<1>1. ASSUME NEW id \in Ids, NEW t \in Tasks, NEW p \in Pids, Create(id, t, p)
      PROVE  IInv'
  <2>1. TypeOK'
    BY <1>1 DEF Create, TypeOK, Objects, Processes, Status, ExitCodes, NoPid
  <2>2. mon[t] = "none" /\ waitCh[t] = "empty"
    BY <1>1 DEF Create, Unborn, ExitProtocol
  <2>3. ASSUME NEW u \in Tasks PROVE ExitProtocol(u)'
    BY <1>1, <2>2 DEF Create, TypeOK, Objects, Processes, ExitProtocol
  <2>4. ASSUME NEW th \in Threads PROVE RequestOK(th)'
    BY <1>1 DEF Create, RequestOK
  <2> QED BY <2>1, <2>3, <2>4
<1>2. ASSUME NEW id \in Ids, Delete(id)
      PROVE  IInv'
  BY <1>2 DEF Delete, TypeOK, Objects, Processes, ExitProtocol, RequestOK
<1>3. ASSUME NEW t \in Tasks, MonitorReap(t)
      PROVE  IInv'
  <2>1. TypeOK'
    BY <1>3, FieldTypes DEF MonitorReap, TypeOK
  <2>2. ASSUME NEW u \in Tasks PROVE ExitProtocol(u)'
    BY <1>3 DEF MonitorReap, TypeOK, Objects, Processes, ExitProtocol
  <2>3. ASSUME NEW th \in Threads PROVE RequestOK(th)'
    BY <1>3 DEF MonitorReap, RequestOK
  <2> QED BY <2>1, <2>2, <2>3
<1>4. ASSUME NEW t \in Tasks, MonitorUpdate(t)
      PROVE  IInv'
  <2>1. TypeOK'
    <3>1. [status |-> "STOPPED", pid |-> NoPid, code |-> os[t].exit] \in Objects
      BY DEF TypeOK, Objects, Processes, Status
    <3> QED BY <1>4, <3>1, FieldTypes DEF MonitorUpdate, TypeOK
  <2>2. ASSUME NEW u \in Tasks PROVE ExitProtocol(u)'
    BY <1>4 DEF MonitorUpdate, TypeOK, Objects, Processes, ExitProtocol
  <2>3. ASSUME NEW th \in Threads PROVE RequestOK(th)'
    BY <1>4 DEF MonitorUpdate, RequestOK
  <2> QED BY <2>1, <2>2, <2>3
<1>5. ASSUME NEW t \in Tasks, MonitorSend(t)
      PROVE  IInv'
  <2>1. TypeOK'
    BY <1>5 DEF MonitorSend, TypeOK, Objects, Processes
  <2>2. ASSUME NEW u \in Tasks PROVE ExitProtocol(u)'
    BY <1>5 DEF MonitorSend, TypeOK, Objects, Processes, ExitProtocol
  <2>3. ASSUME NEW th \in Threads PROVE RequestOK(th)'
    BY <1>5 DEF MonitorSend, RequestOK, ExitProtocol, TypeOK, Objects, Processes
  <2> QED BY <2>1, <2>2, <2>3
<1>6. ASSUME NEW t \in Tasks, ProcessExits(t)
      PROVE  IInv'
  <2>1. TypeOK'
    <3>1. PICK c \in ExitCodes :
              os' = [os EXCEPT ![t].state = "zombie", ![t].exit = c]
      BY <1>6 DEF ProcessExits
    <3>2. os' = [os EXCEPT ![t] = [os[t] EXCEPT !.state = "zombie", !.exit = c]]
      BY <3>1 DEF TypeOK
    <3> QED BY <1>6, <3>2, FieldTypes DEF ProcessExits, TypeOK
  <2>2. ASSUME NEW u \in Tasks PROVE ExitProtocol(u)'
    BY <1>6 DEF ProcessExits, TypeOK, Objects, Processes, ExitProtocol
  <2>3. ASSUME NEW th \in Threads PROVE RequestOK(th)'
    BY <1>6 DEF ProcessExits, RequestOK
  <2> QED BY <2>1, <2>2, <2>3
<1> QED BY <1>1, <1>2, <1>3, <1>4, <1>5, <1>6 DEF Monitor

(* The steps of the requests.                                              *)
LEMMA RequestStep ==
    ASSUME IInv, NEW th \in Threads,
           (\E id \in Ids, op \in Ops : Lookup(th, id, op)) \/ Proceed(th)
    PROVE  IInv'
<1> USE DEF IInv
<1> DEFINE tk == thr[th].task
<1>0. Return(th) => thr' \in [Threads -> Requests]
                    /\ \A o \in Threads : thr'[o] \in {thr[o], Idle}
  BY DEF Return, TypeOK, Objects, Processes, Requests, Idle, NoPid
<1>1. ASSUME NEW id \in Ids, NEW op \in Ops, Lookup(th, id, op)
      PROVE  IInv'
  <2>1. TypeOK'
    BY <1>1 DEF Lookup, TypeOK, Objects, Processes, Requests, NoPid
  <2>2. ASSUME NEW u \in Tasks PROVE ExitProtocol(u)'
    BY <1>1 DEF Lookup, ExitProtocol
  <2>3. ASSUME NEW o \in Threads PROVE RequestOK(o)'
    BY <1>1 DEF Lookup, RequestOK, TypeOK, Objects, Processes, Ops
  <2> QED BY <2>1, <2>2, <2>3
<1>2. CASE Start(th)
  <2>0. tk \in Tasks
    BY <1>2 DEF Start, RequestOK
  <2>1. TypeOK'
    BY <1>2, <1>0, <2>0, FieldTypes DEF Start, TypeOK, Status
  <2>2. ASSUME NEW u \in Tasks PROVE ExitProtocol(u)'
    BY <1>2, <2>0 DEF Start, TypeOK, Objects, Processes, ExitProtocol
  <2>3. ASSUME NEW o \in Threads PROVE RequestOK(o)'
    BY <1>2, <1>0 DEF Start, RequestOK, Idle
  <2> QED BY <2>1, <2>2, <2>3
<1>3. CASE Pause(th)
  <2>0. tk \in Tasks
    BY <1>3 DEF Pause, RequestOK
  <2>a. Moved(os')
    BY <1>3, SignalledProcesses, StandStill DEF Pause
  <2>b. task' \in [Tasks -> Objects]
    <3>1. [task[tk] EXCEPT !.status = "PAUSED"] \in Objects
      BY <2>0, FieldTypes DEF TypeOK, Status
    <3>2. task' \in {task, [task EXCEPT ![tk] = [task[tk] EXCEPT !.status = "PAUSED"]]}
      BY <1>3 DEF Pause
    <3> QED BY <2>0, <3>1, <3>2 DEF TypeOK
  <2>1. TypeOK'
    BY <1>3, <1>0, <2>a, <2>b DEF Pause, TypeOK, Moved
  <2>c. \A u \in Tasks : /\ task'[u].pid = task[u].pid
                         /\ task'[u].code = task[u].code
                         /\ task'[u].status # task[u].status =>
                                task'[u].status \notin {"unborn", "STOPPED"}
    <3>1. CASE task[tk].status = "RUNNING"
      BY <1>3, <2>0, <3>1 DEF Pause, TypeOK, Objects, Processes
    <3>2. CASE task[tk].status # "RUNNING"
      BY <1>3, <3>2 DEF Pause
    <3> QED BY <3>1, <3>2
  <2>2. ASSUME NEW u \in Tasks PROVE ExitProtocol(u)'
    BY <1>3, <2>a, <2>c DEF Pause, ExitProtocol, Moved
  <2>3. ASSUME NEW o \in Threads PROVE RequestOK(o)'
    BY <1>3, <1>0 DEF Pause, RequestOK, Idle
  <2> QED BY <2>1, <2>2, <2>3
<1>4. CASE Resume(th)
  <2>0. tk \in Tasks
    BY <1>4 DEF Resume, RequestOK
  <2>a. Moved(os')
    BY <1>4, SignalledProcesses, StandStill DEF Resume
  <2>b. task' \in [Tasks -> Objects]
    <3>1. [task[tk] EXCEPT !.status = "RUNNING"] \in Objects
      BY <2>0, FieldTypes DEF TypeOK, Status
    <3>2. task' \in {task, [task EXCEPT ![tk] = [task[tk] EXCEPT !.status = "RUNNING"]]}
      BY <1>4 DEF Resume
    <3> QED BY <2>0, <3>1, <3>2 DEF TypeOK
  <2>1. TypeOK'
    BY <1>4, <1>0, <2>a, <2>b DEF Resume, TypeOK, Moved
  <2>c. \A u \in Tasks : /\ task'[u].pid = task[u].pid
                         /\ task'[u].code = task[u].code
                         /\ task'[u].status # task[u].status =>
                                task'[u].status \notin {"unborn", "STOPPED"}
    <3>1. CASE task[tk].status = "PAUSED"
      BY <1>4, <2>0, <3>1 DEF Resume, TypeOK, Objects, Processes
    <3>2. CASE task[tk].status # "PAUSED"
      BY <1>4, <3>2 DEF Resume
    <3> QED BY <3>1, <3>2
  <2>2. ASSUME NEW u \in Tasks PROVE ExitProtocol(u)'
    BY <1>4, <2>a, <2>c DEF Resume, ExitProtocol, Moved
  <2>3. ASSUME NEW o \in Threads PROVE RequestOK(o)'
    BY <1>4, <1>0 DEF Resume, RequestOK, Idle
  <2> QED BY <2>1, <2>2, <2>3
<1>5. CASE KillReadPid(th)
  <2>0. tk \in Tasks
    BY <1>5 DEF KillReadPid, RequestOK
  <2>1. TypeOK'
    <3>1. CASE task[tk].pid = NoPid
      BY <1>5, <1>0, <3>1 DEF KillReadPid, TypeOK, Objects, Processes
    <3>2. CASE task[tk].pid # NoPid
      <4>1. [pc |-> "signal", task |-> tk, pid |-> task[tk].pid] \in Requests
        BY <2>0 DEF TypeOK, Objects, Processes, Requests
      <4>2. thr' \in [Threads -> Requests]
        BY <1>5, <3>2, <4>1 DEF KillReadPid, TypeOK, Objects, Processes
      <4> QED BY <1>5, <4>2 DEF KillReadPid, TypeOK, Objects, Processes
    <3> QED BY <3>1, <3>2
  <2>2. ASSUME NEW u \in Tasks PROVE ExitProtocol(u)'
    BY <1>5 DEF KillReadPid, ExitProtocol
  <2>3. ASSUME NEW o \in Threads PROVE RequestOK(o)'
    <3>1. CASE task[tk].pid = NoPid
      BY <1>5, <1>0, <3>1 DEF KillReadPid, RequestOK, Idle
    <3>2. CASE task[tk].pid # NoPid
      <4>1. /\ thr' = [thr EXCEPT ![th] = [pc |-> "signal", task |-> tk, pid |-> task[tk].pid]]
            /\ waitCh' = waitCh
        BY <1>5, <3>2 DEF KillReadPid
      <4>2. thr'[o] = IF o = th THEN [pc |-> "signal", task |-> tk, pid |-> task[tk].pid]
                      ELSE thr[o]
        BY <4>1 DEF TypeOK
      <4>3. CASE o = th
        BY <2>0, <4>2, <4>3 DEF RequestOK
      <4>4. CASE o # th
        BY <4>1, <4>2, <4>4 DEF RequestOK
      <4> QED BY <4>3, <4>4
    <3> QED BY <3>1, <3>2
  <2> QED BY <2>1, <2>2, <2>3
<1>6. ASSUME NEW sig \in Signals, KillSignal(th, sig)
      PROVE  IInv'
  <2>a. Moved(os')
    BY <1>6, SignalledProcesses DEF KillSignal
  <2>1. TypeOK'
    BY <1>6, <1>0, <2>a DEF KillSignal, TypeOK, Objects, Processes, Moved
  <2>2. ASSUME NEW u \in Tasks PROVE ExitProtocol(u)'
    BY <1>6, <2>a DEF KillSignal, ExitProtocol, Moved
  <2>3. ASSUME NEW o \in Threads PROVE RequestOK(o)'
    BY <1>6, <1>0 DEF KillSignal, RequestOK, Idle
  <2> QED BY <2>1, <2>2, <2>3
<1>7. CASE WaitReceive(th)
  <2>0. tk \in Tasks
    BY <1>7 DEF WaitReceive, RequestOK
  <2>1. TypeOK'
    BY <1>7, <2>0, FieldTypes DEF WaitReceive, TypeOK
  <2>2. ASSUME NEW u \in Tasks PROVE ExitProtocol(u)'
    BY <1>7, <2>0 DEF WaitReceive, TypeOK, Objects, Processes, ExitProtocol
  <2>3. ASSUME NEW o \in Threads PROVE RequestOK(o)'
    BY <1>7, <2>0 DEF WaitReceive, RequestOK, TypeOK, Objects, Processes, Requests
  <2> QED BY <2>1, <2>2, <2>3
<1>8. CASE WaitReturn(th)
  BY <1>8, <1>0 DEF WaitReturn, TypeOK, Objects, Processes, ExitProtocol, RequestOK, Idle
<1> QED BY <1>1, <1>2, <1>3, <1>4, <1>5, <1>6, <1>7, <1>8 DEF Proceed

LEMMA NextIInv == IInv /\ [Next]_vars => IInv'
<1> SUFFICES ASSUME IInv, [Next]_vars PROVE IInv'
  OBVIOUS
<1>1. CASE UNCHANGED vars
  BY <1>1 DEF vars, IInv, TypeOK, Objects, Processes, ExitProtocol, RequestOK
<1> QED BY <1>1, BackgroundStep, RequestStep DEF Next

LEMMA Inductive == Spec => []IInv
  BY InitIInv, NextIInv, PTL DEF Spec

-----------------------------------------------------------------------------
(* The fields of every task, process, channel and request are well-typed.  *)
THEOREM TypeCorrect == Spec => []TypeOK
<1>1. IInv => TypeOK
  BY DEF IInv
<1> QED BY <1>1, Inductive, PTL

(* A STOPPED task has no process left and shows its process's exit code.   *)
THEOREM StoppedTasksAreDead == Spec => []StoppedIsDead
<1>1. IInv => StoppedIsDead
  BY DEF IInv, ExitProtocol, StoppedIsDead
<1> QED BY <1>1, Inductive, PTL

(* A process that has not been reaped can be found through its task's Pid. *)
THEOREM PidsAreKept == Spec => []PidUntilGone
<1>1. IInv => PidUntilGone
  <2> SUFFICES ASSUME IInv, NEW t \in Tasks,
                      os[t].state \in {"alive", "frozen", "zombie"}
               PROVE  task[t].pid = os[t].pid
    BY DEF PidUntilGone
  <2>1. mon[t] = "waiting"
    BY DEF IInv, TypeOK, Objects, Processes, ExitProtocol
  <2> QED BY <2>1 DEF IInv, ExitProtocol
<1> QED BY <1>1, Inductive, PTL

(* Wait never gets past the channel before the process has been reaped and *)
(* the task object says what became of it.                                 *)
THEOREM WaitsEndAfterExit == Spec => []WaitAfterExit
<1>1. IInv => WaitAfterExit
  <2> SUFFICES ASSUME IInv, NEW th \in Threads, thr[th].pc = "exitcode"
               PROVE  os[thr[th].task].state = "reaped" /\ mon[thr[th].task] = "done"
    BY DEF WaitAfterExit
  <2>1. thr[th].task \in Tasks /\ waitCh[thr[th].task] = "taken"
    BY DEF IInv, RequestOK
  <2> QED BY <2>1 DEF IInv, ExitProtocol
<1> QED BY <1>1, Inductive, PTL

(* Every step of every actor moves a status along an arrow of the state    *)
(* diagram; STOPPED is final.                                              *)
THEOREM StatusFollowsDiagram == Spec => LegalTransitions
<1> DEFINE Legal(u) == task'[u].status # task[u].status =>
                           <<task[u].status, task'[u].status>> \in Arrows
<1>1. ASSUME IInv, [Next]_vars, NEW u \in Tasks
      PROVE  Legal(u)
  <2> USE <1>1 DEF IInv
  <2>1. ASSUME NEW id \in Ids, NEW t \in Tasks, NEW p \in Pids, Create(id, t, p)
        PROVE  Legal(u)
    BY <2>1 DEF Create, Unborn, TypeOK, Objects, Processes, Arrows
  <2>2. ASSUME NEW id \in Ids, Delete(id)
        PROVE  Legal(u)
    BY <2>2 DEF Delete
  <2>3. ASSUME NEW t \in Tasks, Monitor(t) \/ ProcessExits(t)
        PROVE  Legal(u)
    <3>1. CASE MonitorUpdate(t)
      BY <3>1 DEF MonitorUpdate, TypeOK, Objects, Processes, Arrows
    <3> QED BY <2>3, <3>1 DEF Monitor, MonitorReap, MonitorSend, ProcessExits
  <2>4. ASSUME NEW th \in Threads, NEW id \in Ids, NEW op \in Ops, Lookup(th, id, op)
        PROVE  Legal(u)
    BY <2>4 DEF Lookup
  <2>5. ASSUME NEW th \in Threads, Proceed(th)
        PROVE  Legal(u)
    <3>1. CASE Start(th)
      BY <3>1 DEF Start, TypeOK, Objects, Processes, Arrows, RequestOK
    <3>2. CASE Pause(th)
      <4>1. \/ task' = task
            \/ /\ task[thr[th].task].status = "RUNNING"
               /\ task' = [task EXCEPT ![thr[th].task].status = "PAUSED"]
        BY <3>2 DEF Pause
      <4>2. thr[th].task \in Tasks
        BY <3>2 DEF Pause, RequestOK
      <4>3. task \in [Tasks -> Objects]
        BY DEF TypeOK
      <4> QED BY <4>1, <4>2, <4>3 DEF Objects, Arrows
    <3>3. CASE Resume(th)
      <4>1. \/ task' = task
            \/ /\ task[thr[th].task].status = "PAUSED"
               /\ task' = [task EXCEPT ![thr[th].task].status = "RUNNING"]
        BY <3>3 DEF Resume
      <4>2. thr[th].task \in Tasks
        BY <3>3 DEF Resume, RequestOK
      <4>3. task \in [Tasks -> Objects]
        BY DEF TypeOK
      <4> QED BY <4>1, <4>2, <4>3 DEF Objects, Arrows
    <3>4. CASE KillReadPid(th) \/ WaitReceive(th) \/ WaitReturn(th)
      BY <3>4 DEF KillReadPid, WaitReceive, WaitReturn
    <3>5. ASSUME NEW sig \in Signals, KillSignal(th, sig)
          PROVE  Legal(u)
      BY <3>5 DEF KillSignal
    <3> QED BY <2>5, <3>1, <3>2, <3>3, <3>4, <3>5 DEF Proceed
  <2>6. CASE UNCHANGED vars
    BY <2>6 DEF vars
  <2> QED BY <2>1, <2>2, <2>3, <2>4, <2>5, <2>6 DEF Next
<1>2. IInv /\ [Next]_vars => [LegalStep]_vars
  BY <1>1 DEF LegalStep
<1> QED BY <1>2, Inductive, PTL DEF Spec, LegalTransitions

-----------------------------------------------------------------------------
(* Whose pid an object names: nobody's, or that of its own process, dead   *)
(* or alive.                                                               *)
PidTied(t) ==
    /\ task[t].status # "unborn" => os[t].pid \in Pids
    /\ task[t].status = "unborn" => os[t].pid = NoPid
    /\ task[t].pid \in {NoPid, os[t].pid}

Frozen(t) ==
    /\ task[t].status = "PAUSED"
    /\ \A u \in Tasks \ {t} : os[u].pid # os[t].pid
    => os[t].state # "alive"

PauseInv == \A t \in Tasks : PidTied(t) /\ Frozen(t)

(* A step in which no process comes to run, no status becomes PAUSED and   *)
(* no pid appears.                                                         *)
LEMMA CalmStep ==
    ASSUME PauseInv,
           \A t \in Tasks :
              /\ os'[t].pid = os[t].pid
              /\ os'[t].state = "alive" => os[t].state = "alive"
              /\ task'[t].pid \in {NoPid, task[t].pid}
              /\ task'[t].status = "unborn" <=> task[t].status = "unborn"
              /\ task'[t].status = "PAUSED" => task[t].status = "PAUSED"
    PROVE  PauseInv'
  BY DEF PauseInv, PidTied, Frozen

LEMMA StillStep ==
    ASSUME PauseInv, UNCHANGED <<task, os>> PROVE PauseInv'
  BY DEF PauseInv, PidTied, Frozen

(* What a signal does to the processes, seen by whether they run.          *)
LEMMA SignalledRuns ==
    ASSUME TypeOK, NEW p, NEW sig, NEW t \in Tasks
    PROVE  /\ Signalled(p, sig)[t].pid = os[t].pid
           /\ Signalled(p, sig)[t].state = "alive" =>
                 \/ os[t].state = "alive" /\ (sig = "SIGSTOP" => os[t].pid # p)
                 \/ sig = "SIGCONT" /\ os[t].pid = p
<1>1. os[t] \in Processes
  BY DEF TypeOK
<1>2. CASE HoldsPid(t, p)
  BY <1>1, <1>2 DEF Signalled, HoldsPid, Processes
<1>3. CASE ~HoldsPid(t, p)
  BY <1>1, <1>3 DEF Signalled, HoldsPid, Processes
<1> QED BY <1>2, <1>3

LEMMA InitPauseInv == Init => PauseInv
  BY DEF Init, PauseInv, PidTied, Frozen, Unborn, NoProcess

LEMMA CreatePauseInv ==
    ASSUME IInv, PauseInv,
           NEW id \in Ids, NEW t \in Tasks, NEW p \in Pids, Create(id, t, p)
    PROVE  PauseInv'
<1>1. /\ task \in [Tasks -> Objects] /\ os \in [Tasks -> Processes]
      /\ task[t].status = "unborn"
  BY DEF IInv, TypeOK, Create, Unborn
<1>2. os[t].pid = NoPid
  BY <1>1 DEF PauseInv, PidTied
<1>3. /\ task'[t].status = "CREATED" /\ task'[t].pid = p /\ os'[t].pid = p
      /\ \A u \in Tasks \ {t} : task'[u] = task[u] /\ os'[u] = os[u]
  BY <1>1 DEF Create
<1>4. ASSUME NEW u \in Tasks PROVE PidTied(u)'
  BY <1>3, <1>4 DEF PauseInv, PidTied
<1>5. ASSUME NEW u \in Tasks PROVE Frozen(u)'
  <2>1. CASE u = t
    BY <1>3, <2>1 DEF Frozen
  <2>2. CASE u # t
    <3> SUFFICES ASSUME task[u].status = "PAUSED",
                        \A v \in Tasks \ {u} : os'[v].pid # os'[u].pid
                 PROVE  os[u].state # "alive"
      BY <1>3, <2>2 DEF Frozen
    <3>1. os[u].pid # NoPid
      BY NoneAssumption DEF PauseInv, PidTied, NoPid
    <3>2. \A v \in Tasks \ {u} : os[v].pid # os[u].pid
      BY <1>2, <1>3, <2>2, <3>1
    <3> QED BY <3>2 DEF PauseInv, Frozen
  <2> QED BY <2>1, <2>2
<1> QED BY <1>4, <1>5 DEF PauseInv

(* SIGSTOP reaches the process the object names, which is the one that     *)
(* runs, if any does.                                                      *)
LEMMA PausePauseInv ==
    ASSUME IInv, PauseInv, NEW th \in Threads, Pause(th)
    PROVE  PauseInv'
<1> DEFINE tk == thr[th].task
<1>1. CASE task[tk].status # "RUNNING"
  BY <1>1, StillStep DEF Pause
<1>2. CASE task[tk].status = "RUNNING"
  <2>1. tk \in Tasks /\ TypeOK /\ ExitProtocol(tk)
    BY DEF IInv, RequestOK, Pause
  <2>2. os' = Signalled(task[tk].pid, "SIGSTOP")
    BY <1>2 DEF Pause
  <2>3. \A u \in Tasks : /\ os'[u].pid = os[u].pid
                         /\ os'[u].state = "alive" =>
                                os[u].state = "alive" /\ os[u].pid # task[tk].pid
    BY <2>1, <2>2, SignalledRuns
  <2>4. task' = [task EXCEPT ![tk] = [task[tk] EXCEPT !.status = "PAUSED"]]
    BY <1>2 DEF Pause
  <2>5. /\ \A u \in Tasks : task'[u].pid = task[u].pid
        /\ \A u \in Tasks \ {tk} : task'[u] = task[u]
        /\ task'[tk].status = "PAUSED"
    BY <2>1, <2>4 DEF TypeOK, Objects
  <2>6. os'[tk].state # "alive"
    <3>1. os[tk].state = "alive" => task[tk].pid = os[tk].pid
      BY <2>1 DEF ExitProtocol, TypeOK
    <3> QED BY <2>1, <2>3, <3>1
  <2> HIDE DEF tk
  <2>7. ASSUME NEW u \in Tasks PROVE PidTied(u)'
    BY <1>2, <2>3, <2>5 DEF PauseInv, PidTied
  <2>8. ASSUME NEW u \in Tasks PROVE Frozen(u)'
    BY <2>3, <2>5, <2>6 DEF PauseInv, Frozen
  <2> QED BY <2>7, <2>8 DEF PauseInv
<1> QED BY <1>1, <1>2

(* SIGCONT reaches the processes that had, one after another, the pid the  *)
(* object names.                                                           *)
LEMMA ResumePauseInv ==
    ASSUME IInv, PauseInv, NEW th \in Threads, Resume(th)
    PROVE  PauseInv'
<1> DEFINE tk == thr[th].task
<1>1. CASE task[tk].status # "PAUSED"
  BY <1>1, StillStep DEF Resume
<1>2. CASE task[tk].status = "PAUSED"
  <2>1. tk \in Tasks /\ TypeOK
    BY DEF IInv, RequestOK, Resume
  <2>2. os' = Signalled(task[tk].pid, "SIGCONT")
    BY <1>2 DEF Resume
  <2>3. \A u \in Tasks : /\ os'[u].pid = os[u].pid
                         /\ os'[u].state = "alive" =>
                                os[u].state = "alive" \/ os[u].pid = task[tk].pid
    BY <2>1, <2>2, SignalledRuns
  <2>4. task' = [task EXCEPT ![tk] = [task[tk] EXCEPT !.status = "RUNNING"]]
    BY <1>2 DEF Resume
  <2>5. /\ \A u \in Tasks : task'[u].pid = task[u].pid
        /\ \A u \in Tasks \ {tk} : task'[u] = task[u]
        /\ task'[tk].status = "RUNNING"
    BY <2>1, <2>4 DEF TypeOK, Objects
  <2>6. task[tk].pid \in {NoPid, os[tk].pid}
    BY <2>1 DEF PauseInv, PidTied
  <2> HIDE DEF tk
  <2>7. ASSUME NEW u \in Tasks PROVE PidTied(u)'
    BY <1>2, <2>3, <2>5 DEF PauseInv, PidTied
  <2>8. ASSUME NEW u \in Tasks PROVE Frozen(u)'
    <3> SUFFICES ASSUME u # tk, task[u].status = "PAUSED",
                        \A v \in Tasks \ {u} : os[v].pid # os[u].pid
                 PROVE  os'[u].state # "alive"
      BY <2>3, <2>5 DEF Frozen
    <3>1. os[u].state # "alive"
      BY DEF PauseInv, Frozen
    <3>2. os[u].pid # NoPid
      BY NoneAssumption DEF PauseInv, PidTied, NoPid
    <3> QED BY <2>1, <2>3, <2>6, <3>1, <3>2
  <2> QED BY <2>7, <2>8 DEF PauseInv
<1> QED BY <1>1, <1>2

LEMMA NextPauseInv == IInv /\ PauseInv /\ [Next]_vars => PauseInv'
<1> SUFFICES ASSUME IInv, PauseInv, [Next]_vars PROVE PauseInv'
  OBVIOUS
<1>0. TypeOK
  BY DEF IInv
<1>1. CASE UNCHANGED vars
  BY <1>1, StillStep DEF vars
<1>2. ASSUME NEW id \in Ids, Delete(id) PROVE PauseInv'
  BY <1>2, StillStep DEF Delete
<1>3. ASSUME NEW t \in Tasks, Monitor(t) \/ ProcessExits(t) PROVE PauseInv'
  <2>1. CASE MonitorReap(t) \/ ProcessExits(t)
    <3>1. \A u \in Tasks : /\ os'[u].pid = os[u].pid
                           /\ os'[u].state = "alive" => os[u].state = "alive"
      BY <1>0, <2>1 DEF TypeOK, Processes, MonitorReap, ProcessExits
    <3> QED BY <2>1, <3>1, CalmStep DEF MonitorReap, ProcessExits
  <2>2. CASE MonitorUpdate(t)
    <3>1. \A u \in Tasks :
              /\ task'[u].pid \in {NoPid, task[u].pid}
              /\ task'[u].status = "unborn" <=> task[u].status = "unborn"
              /\ task'[u].status = "PAUSED" => task[u].status = "PAUSED"
      BY <1>0, <2>2 DEF TypeOK, Objects, MonitorUpdate
    <3> QED BY <2>2, <3>1, CalmStep DEF MonitorUpdate
  <2>3. CASE MonitorSend(t)
    BY <2>3, StillStep DEF MonitorSend
  <2> QED BY <1>3, <2>1, <2>2, <2>3 DEF Monitor
<1>4. ASSUME NEW th \in Threads, NEW id \in Ids, NEW op \in Ops, Lookup(th, id, op)
      PROVE  PauseInv'
  BY <1>4, StillStep DEF Lookup
<1>5. ASSUME NEW th \in Threads, Proceed(th) PROVE PauseInv'
  <2>1. CASE Start(th)
    <3>1. thr[th].task \in Tasks
      BY <2>1 DEF IInv, RequestOK, Start
    <3>2. \A u \in Tasks :
              /\ task'[u].pid = task[u].pid
              /\ task'[u].status = "unborn" <=> task[u].status = "unborn"
              /\ task'[u].status = "PAUSED" => task[u].status = "PAUSED"
      BY <1>0, <2>1, <3>1 DEF TypeOK, Objects, Start
    <3> QED BY <2>1, <3>2, CalmStep DEF Start
  <2>2. CASE KillReadPid(th) \/ WaitReceive(th) \/ WaitReturn(th)
    BY <2>2, StillStep DEF KillReadPid, WaitReceive, WaitReturn
  <2>3. ASSUME NEW sig \in Signals, KillSignal(th, sig) PROVE PauseInv'
    <3>1. sig # "SIGCONT"
      BY DEF Signals
    <3>2. \A u \in Tasks : /\ os'[u].pid = os[u].pid
                           /\ os'[u].state = "alive" => os[u].state = "alive"
      BY <1>0, <2>3, <3>1, SignalledRuns DEF KillSignal
    <3> QED BY <2>3, <3>2, CalmStep DEF KillSignal
  <2> QED BY <1>5, <2>1, <2>2, <2>3, PausePauseInv, ResumePauseInv DEF Proceed
<1> QED BY <1>1, <1>2, <1>3, <1>4, <1>5, CreatePauseInv DEF Next

(* A PAUSED task whose pid no other process ever had does not execute:     *)
(* Pause has stopped the process it names and nobody else can continue it. *)
THEOREM PausedTasksRest == Spec => []PausedIsFrozen
<1>1. PauseInv => PausedIsFrozen
  BY DEF PauseInv, Frozen, PausedIsFrozen
<1> QED BY <1>1, InitPauseInv, NextPauseInv, Inductive, PTL DEF Spec

-----------------------------------------------------------------------------
(* The task manager implements TaskLifecycle.  The mapping forgets the     *)
(* requests, the pids and where the monitor is; that the monitor's three   *)
(* steps are steps of the lifecycle, in its order, rests on ExitProtocol:  *)
(* an object whose monitor has reaped the process has an exit, one whose   *)
(* monitor is not done has an empty channel.                               *)

(* The step leaves everything that the lifecycle shows as it is.           *)
Silent == UNCHANGED <<Phase, Exit, Code, Notice>>

LEMMA InitMaps == Init => Lifecycle!Init
  BY DEF Init, Lifecycle!Init, Phase, Exit, Code, Notice, Unborn, NoProcess

(* A process that changes state without being reaped is not seen.          *)
LEMMA MovedIsSilent ==
    ASSUME TypeOK, Moved(os') PROVE Exit' = Exit
  BY DEF Moved, Exit

(* A step that changes nothing but the status of one task.                 *)
LEMMA StatusMoves ==
    ASSUME IInv, NEW t \in Tasks, NEW new,
           task' = [task EXCEPT ![t].status = new],
           Exit' = Exit, waitCh' = waitCh
    PROVE  Lifecycle!Moves(t, task[t].status, new)
<1>0. \A u \in Tasks : task'[u].status = IF u = t THEN new ELSE task[u].status
  BY DEF IInv, TypeOK, Objects
<1>1. Phase' = [Phase EXCEPT ![t] = new]
  BY <1>0 DEF Phase
<1>2. Code' = Code
  BY DEF IInv, TypeOK, Objects, Processes, Code
<1>3. Notice' = Notice
  BY DEF Notice
<1> QED BY <1>1, <1>2, <1>3 DEF Lifecycle!Moves, Phase

(* Steps that touch neither task objects nor channels nor reap a process.  *)
LEMMA Untouched ==
    ASSUME Exit' = Exit, task' = task, waitCh' = waitCh
    PROVE  Silent
  BY DEF Silent, Phase, Code, Notice

-----------------------------------------------------------------------------
(* Create, Delete and the kernel.                                          *)
LEMMA OwnerStep ==
    ASSUME IInv,
           \/ \E id \in Ids, t \in Tasks, p \in Pids : Create(id, t, p)
           \/ \E id \in Ids : Delete(id)
           \/ \E t \in Tasks : ProcessExits(t)
    PROVE  Lifecycle!Next \/ Silent
<1>1. ASSUME NEW id \in Ids, NEW t \in Tasks, NEW p \in Pids, Create(id, t, p)
      PROVE  Lifecycle!Next
  <2>0. os[t].state = "none" /\ task \in [Tasks -> [status : Status \cup {"unborn"},
                           pid : Pids \cup {NoPid}, code : ExitCodes]]
    BY <1>1 DEF Create, IInv, TypeOK, Objects, Processes, ExitProtocol, Unborn
  <2>1. Phase' = [Phase EXCEPT ![t] = "CREATED"]
    BY <1>1, <2>0 DEF Create, Phase
  <2>2. Code' = Code
    BY <1>1, <2>0 DEF Create, Code, Unborn
  <2>3. Exit' = Exit
    BY <1>1, <2>0 DEF Create, Exit, IInv, TypeOK, Objects, Processes
  <2>4. Notice' = Notice
    BY <1>1 DEF Create, Notice
  <2>5. Phase[t] = "unborn"
    BY <1>1 DEF Create, Phase, Unborn
  <2>6. Lifecycle!Moves(t, "unborn", "CREATED")
    BY <2>1, <2>2, <2>3, <2>4, <2>5 DEF Lifecycle!Moves
  <2> QED BY <2>6 DEF Lifecycle!TaskNext, Lifecycle!Next
<1>2. ASSUME NEW id \in Ids, Delete(id) PROVE Silent
  BY <1>2, Untouched DEF Delete, Exit
<1>3. ASSUME NEW t \in Tasks, ProcessExits(t) PROVE Silent
  <2>1. Exit' = Exit
    BY <1>3 DEF ProcessExits, Exit, IInv, TypeOK, Objects, Processes
  <2> QED BY <1>3, <2>1, Untouched DEF ProcessExits
<1> QED BY <1>1, <1>2, <1>3

(* The monitor: reap is the exit, update the stop of a RUNNING task, send  *)
(* the notice.                                                             *)
LEMMA MonitorStep ==
    ASSUME IInv, NEW t \in Tasks, Monitor(t)
    PROVE  Lifecycle!Next \/ Silent
<1> USE DEF IInv
<1>0. None \notin ExitCodes
  BY NoneAssumption DEF ExitCodes
<1>1. CASE MonitorReap(t)
  <2>1. Exit[t] = None /\ Exit' = [Exit EXCEPT ![t] = os[t].exit]
    BY <1>1 DEF MonitorReap, Exit, TypeOK, Objects, Processes
  <2>2. Phase[t] # "unborn"
    BY <1>1 DEF MonitorReap, Phase, ExitProtocol
  <2>3. UNCHANGED <<Phase, Code, Notice>>
    BY <1>1 DEF MonitorReap, Phase, Code, Notice
  <2>4. os[t].exit \in ExitCodes
    BY DEF TypeOK, Objects, Processes
  <2>5. Lifecycle!Exits(t)
    BY <2>1, <2>2, <2>3, <2>4 DEF Lifecycle!Exits
  <2> QED BY <2>5 DEF Lifecycle!TaskNext, Lifecycle!Next
<1>2. CASE MonitorUpdate(t)
  <2>1. UNCHANGED <<Exit, Notice>>
    BY <1>2 DEF MonitorUpdate, Exit, Notice
  <2>2. Exit[t] = os[t].exit /\ os[t].exit \in ExitCodes
    BY <1>2 DEF MonitorUpdate, Exit, ExitProtocol, TypeOK, Objects, Processes
  <2>3. Notice[t] = "none"
    BY <1>2 DEF MonitorUpdate, Notice, ExitProtocol
  <2>4. CASE task[t].status = "RUNNING"
    <3>1. Phase' = [Phase EXCEPT ![t] = "STOPPED"]
      BY <1>2, <2>4 DEF MonitorUpdate, Phase, TypeOK, Objects, Processes
    <3>2. Code' = [Code EXCEPT ![t] = Exit[t]]
      BY <1>2, <2>2, <2>4 DEF MonitorUpdate, Code, TypeOK, Objects, Processes
    <3>3. Phase[t] = "RUNNING"
      BY <2>4 DEF Phase
    <3>4. Lifecycle!Stops(t)
      BY <1>0, <2>1, <2>2, <2>3, <3>1, <3>2, <3>3 DEF Lifecycle!Stops
    <3> QED BY <3>4 DEF Lifecycle!TaskNext, Lifecycle!Next
  <2>5. CASE task[t].status # "RUNNING"
    <3>1. Phase' = Phase /\ Code' = Code
      BY <1>2, <2>5 DEF MonitorUpdate, Phase, Code, TypeOK, Objects, Processes
    <3> QED BY <2>1, <3>1 DEF Silent
  <2> QED BY <2>4, <2>5
<1>3. CASE MonitorSend(t)
  <2>1. Exit[t] = os[t].exit /\ os[t].exit \in ExitCodes
    BY <1>3 DEF MonitorSend, Exit, ExitProtocol, TypeOK, Objects, Processes
  <2>2. Notice[t] = "none" /\ Notice' = [Notice EXCEPT ![t] = "sent"]
    BY <1>3 DEF MonitorSend, Notice, ExitProtocol, TypeOK, Objects, Processes
  <2>3. UNCHANGED <<Phase, Exit, Code>>
    BY <1>3 DEF MonitorSend, Phase, Exit, Code
  <2>4. Lifecycle!Notifies(t)
    BY <1>0, <2>1, <2>2, <2>3 DEF Lifecycle!Notifies
  <2> QED BY <2>4 DEF Lifecycle!TaskNext, Lifecycle!Next
<1> QED BY <1>1, <1>2, <1>3 DEF Monitor

(* The requests: Start, Pause and Resume move the status, a receive takes  *)
(* the notice, the others are not seen.                                    *)
LEMMA ThreadStep ==
    ASSUME IInv, NEW th \in Threads,
           (\E id \in Ids, op \in Ops : Lookup(th, id, op)) \/ Proceed(th)
    PROVE  Lifecycle!Next \/ Silent
<1> USE DEF IInv
<1> DEFINE t == thr[th].task
<1>0. ASSUME NEW sig PROVE Moved(Signalled(task[t].pid, sig))
                        /\ Moved(Signalled(thr[th].pid, sig))
  BY SignalledProcesses
<1>1. ASSUME thr[th].pc # "idle" PROVE t \in Tasks
  BY <1>1 DEF RequestOK
<1>2. CASE \E id \in Ids, op \in Ops : Lookup(th, id, op)
  BY <1>2, Untouched DEF Lookup, Exit
<1>3. CASE Start(th)
  <2>1. t \in Tasks
    BY <1>1, <1>3 DEF Start
  <2>2. Exit' = Exit /\ waitCh' = waitCh
    BY <1>3 DEF Start, Exit
  <2>3. CASE task[t].status = "CREATED"
    <3>1. Lifecycle!Moves(t, "CREATED", "RUNNING")
      BY <1>3, <2>1, <2>2, <2>3, StatusMoves DEF Start
    <3> QED BY <2>1, <3>1 DEF Lifecycle!TaskNext, Lifecycle!Next
  <2>4. CASE task[t].status # "CREATED"
    BY <1>3, <2>2, <2>4, Untouched DEF Start
  <2> QED BY <2>3, <2>4
<1>4. CASE Pause(th)
  <2>1. t \in Tasks
    BY <1>1, <1>4 DEF Pause
  <2>2. CASE task[t].status = "RUNNING"
    <3>1. Exit' = Exit
      BY <1>0, <1>4, <2>2, MovedIsSilent DEF Pause
    <3>2. Lifecycle!Moves(t, "RUNNING", "PAUSED")
      BY <1>4, <2>1, <2>2, <3>1, StatusMoves DEF Pause
    <3> QED BY <2>1, <3>2 DEF Lifecycle!TaskNext, Lifecycle!Next
  <2>3. CASE task[t].status # "RUNNING"
    BY <1>4, <2>3, Untouched DEF Pause, Exit
  <2> QED BY <2>2, <2>3
<1>5. CASE Resume(th)
  <2>1. t \in Tasks
    BY <1>1, <1>5 DEF Resume
  <2>2. CASE task[t].status = "PAUSED"
    <3>1. Exit' = Exit
      BY <1>0, <1>5, <2>2, MovedIsSilent DEF Resume
    <3>2. Lifecycle!Moves(t, "PAUSED", "RUNNING")
      BY <1>5, <2>1, <2>2, <3>1, StatusMoves DEF Resume
    <3> QED BY <2>1, <3>2 DEF Lifecycle!TaskNext, Lifecycle!Next
  <2>3. CASE task[t].status # "PAUSED"
    BY <1>5, <2>3, Untouched DEF Resume, Exit
  <2> QED BY <2>2, <2>3
<1>6. CASE KillReadPid(th) \/ WaitReturn(th)
  BY <1>6, Untouched DEF KillReadPid, WaitReturn, Exit
<1>7. ASSUME NEW sig \in Signals, KillSignal(th, sig) PROVE Silent
  <2>1. Exit' = Exit
    BY <1>0, <1>7, MovedIsSilent DEF KillSignal
  <2> QED BY <1>7, <2>1, Untouched DEF KillSignal
<1>8. CASE WaitReceive(th)
  <2>1. t \in Tasks
    BY <1>1, <1>8 DEF WaitReceive
  <2>2. Notice[t] = "sent" /\ Notice' = [Notice EXCEPT ![t] = "taken"]
    BY <1>8, <2>1 DEF WaitReceive, Notice, TypeOK, Objects, Processes
  <2>3. UNCHANGED <<Phase, Exit, Code>>
    BY <1>8 DEF WaitReceive, Phase, Exit, Code
  <2>4. Lifecycle!Taken(t)
    BY <2>2, <2>3 DEF Lifecycle!Taken
  <2> QED BY <2>1, <2>4 DEF Lifecycle!TaskNext, Lifecycle!Next
<1> QED BY <1>2, <1>3, <1>4, <1>5, <1>6, <1>7, <1>8 DEF Proceed

-----------------------------------------------------------------------------
(* The task manager implements the lifecycle it promises: whatever         *)
(* requests race, a task's status, exit, exit code and notice to waiters   *)
(* change only as TaskLifecycle says.                                      *)
THEOREM ManagerImplementsLifecycle == Spec => ImplementsLifecycle
<1>1. IInv /\ [Next]_vars => [Lifecycle!Next]_(Lifecycle!vars)
  <2> SUFFICES ASSUME IInv, [Next]_vars PROVE Lifecycle!Next \/ Silent
    BY DEF Silent, Lifecycle!vars
  <2>1. CASE UNCHANGED vars
    BY <2>1, Untouched DEF vars, Exit
  <2> QED BY <2>1, OwnerStep, MonitorStep, ThreadStep DEF Next
<1> QED BY <1>1, InitMaps, Inductive, PTL DEF Spec, ImplementsLifecycle, Lifecycle!Spec
=============================================================================
