------------------------------ MODULE KueueRace ------------------------------
(***************************************************************************)
(* The scheduler of mini-kueue as net/http runs it: every handler on its   *)
(* own goroutine and no lock anywhere.  The steps of KueueScheduler that   *)
(* read a shared field and write it back are split here: the value that    *)
(* was read is kept in `loaded' and written in a later step, so a write of *)
(* another pass in between is lost, two passes can take the same head, and *)
(* a pass can index a slice that another one has emptied meanwhile.  Such  *)
(* a panic ends the handler (net/http recovers it), and what it held is    *)
(* gone.                                                                   *)
(*                                                                         *)
(* Slices are values here: two headers over one backing array are not      *)
(* modelled, and a sort is part of the write it follows.  The handlers of  *)
(* /submit and /finish stay single steps, so the model has fewer races     *)
(* than the program.                                                       *)
(***************************************************************************)
EXTENDS KueueScheduler

VARIABLE loaded   \* what each pass has read of a field it will write

raceVars == <<vars, loaded>>

Nothing == "nothing"

RaceInit == Init /\ loaded = [p \in Passes |-> Nothing]

Goto(p, pc) == [pass EXCEPT ![p].pc = pc]

Load(p, value) == loaded' = [loaded EXCEPT ![p] = value]

(* The handler of p panics.                                                *)
Panic(p) ==
    /\ pass' = [pass EXCEPT ![p] = NoPass]
    /\ Load(p, Nothing)
    /\ UNCHANGED <<queue, active, used, status, flavor, created>>

-----------------------------------------------------------------------------
(* Dequeue: the test of len, the read of the head, and the re-slice, which *)
(* reads the slice again.                                                  *)

CheckLen(p) ==
    /\ pass[p].pc = "dequeue"
    /\ pass' = Goto(p, IF queue[pass[p].cq] = << >> THEN "requeue" ELSE "head")
    /\ UNCHANGED <<queue, active, used, status, flavor, created, loaded>>

ReadHead(p) ==
    LET q == queue[pass[p].cq]
    IN
    /\ pass[p].pc = "head"
    /\ \/ /\ q = << >>
          /\ Panic(p)
       \/ /\ q # << >>
          /\ pass' = [pass EXCEPT ![p].pc = "slice", ![p].cur = Head(q)]
          /\ UNCHANGED <<queue, active, used, status, flavor, created, loaded>>

LoadTail(p) ==
    LET q == queue[pass[p].cq]
    IN
    /\ pass[p].pc = "slice"
    /\ \/ /\ q = << >>
          /\ Panic(p)
       \/ /\ q # << >>
          /\ pass' = Goto(p, "resliced")
          /\ Load(p, Tail(q))
          /\ UNCHANGED <<queue, active, used, status, flavor, created>>

StoreTail(p) ==
    /\ pass[p].pc = "resliced"
    /\ queue' = [queue EXCEPT ![pass[p].cq] = loaded[p]]
    /\ pass' = Goto(p, "fit")
    /\ Load(p, Nothing)
    /\ UNCHANGED <<active, used, status, flavor, created>>

-----------------------------------------------------------------------------
(* AssignFlavor. NoFlavorFits and ChooseFlavor only read.                  *)

Assign(p) ==
    /\ NoFlavorFits(p) \/ ChooseFlavor(p)
    /\ UNCHANGED loaded

(* Reserve: fq.Used.Add(req) makes a new map from the one it reads.        *)
LoadUsed(p) ==
    /\ pass[p].pc = "reserve"
    /\ Load(p, Reserve(pass[p].flavor, pass[p].cur)[pass[p].flavor])
    /\ pass' = Goto(p, "reserved")
    /\ UNCHANGED <<queue, active, used, status, flavor, created>>

(* It is stored in fq.Used, and the workload is marked.                    *)
StoreUsed(p) ==
    /\ pass[p].pc = "reserved"
    /\ used' = [used EXCEPT ![pass[p].flavor] = loaded[p]]
    /\ flavor' = [flavor EXCEPT ![pass[p].cur] = pass[p].flavor]
    /\ status' = [status EXCEPT ![pass[p].cur] = "Admitted"]
    /\ pass' = Goto(p, "list")
    /\ Load(p, Nothing)
    /\ UNCHANGED <<queue, active, created>>

LoadActive(p) ==
    /\ pass[p].pc = "list"
    /\ Load(p, Append(active[pass[p].cq], pass[p].cur))
    /\ pass' = Goto(p, "listed")
    /\ UNCHANGED <<queue, active, used, status, flavor, created>>

StoreActive(p) ==
    /\ pass[p].pc = "listed"
    /\ active' = [active EXCEPT ![pass[p].cq] = loaded[p]]
    /\ pass' = [pass EXCEPT ![p].pc = "dequeue", ![p].cur = None, ![p].flavor = None]
    /\ Load(p, Nothing)
    /\ UNCHANGED <<queue, used, status, flavor, created>>

-----------------------------------------------------------------------------
(* Enqueue of a workload that did not fit.                                 *)

LoadQueue(p) ==
    LET w == Head(pass[p].toRetry)
    IN
    /\ pass[p].pc = "requeue"
    /\ pass[p].toRetry # << >>
    /\ status' = [status EXCEPT ![w] = "Pending"]
    /\ Load(p, Enqueued(created, queue[pass[p].cq], w))
    /\ pass' = Goto(p, "requeued")
    /\ UNCHANGED <<queue, active, used, flavor, created>>

StoreQueue(p) ==
    /\ pass[p].pc = "requeued"
    /\ queue' = [queue EXCEPT ![pass[p].cq] = loaded[p]]
    /\ pass' = [pass EXCEPT ![p].pc = "requeue", ![p].toRetry = Tail(@)]
    /\ Load(p, Nothing)
    /\ UNCHANGED <<active, used, status, flavor, created>>

-----------------------------------------------------------------------------
(* Handlers start whenever they like, also while passes run.               *)
RaceNext ==
    \/ Serve /\ UNCHANGED loaded
    \/ \E p \in Passes :
          \/ (NextQueue(p) \/ QueueDone(p) \/ EndPass(p)) /\ UNCHANGED loaded
          \/ CheckLen(p) \/ ReadHead(p) \/ LoadTail(p) \/ StoreTail(p)
          \/ Assign(p)
          \/ LoadUsed(p) \/ StoreUsed(p) \/ LoadActive(p) \/ StoreActive(p)
          \/ LoadQueue(p) \/ StoreQueue(p)

RaceSpec == RaceInit /\ [][RaceNext]_raceVars

(* The workloads that run in a flavor together ask for no more than its    *)
(* quota, "admit as many pending workloads as quota permits"               *)
(* (internal/scheduler/doc.go:13), also when /schedule requests overlap.   *)
(* That is false: two passes check the quota before either reserves it.    *)
RaceRespectsQuota == QuotaRespected
=============================================================================
