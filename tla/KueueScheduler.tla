--------------------------- MODULE KueueScheduler ---------------------------
(***************************************************************************)
(* The workload scheduler of mini-kueue: pkg/types/types.go (quota         *)
(* arithmetic and queues), pkg/scheduler/scheduler.go (Submit, Schedule,   *)
(* Finish) and the HTTP handlers of cmd/controller/main.go.                *)
(*                                                                         *)
(* There is no lock anywhere, and nothing in this module holds for         *)
(* requests that overlap: here they come one after the other, as in the    *)
(* tests.  KueueRace is the same scheduler on goroutines that interleave.  *)
(* A pass of Schedule is a sequence of steps, one per Dequeue, per quota   *)
(* check, per reservation and per re-enqueued workload.                    *)
(***************************************************************************)
EXTENDS Integers, Sequences, SequencesExt, FiniteSetsExt

CONSTANTS
    ClusterQueues,
    Flavors,      \* ClusterQueue -> its flavors, in list order
    Resources,    \* resource names
    Quota,        \* flavor -> the resources it tracks -> amount
    Workloads,    \* workload objects that clients submit
    Request,      \* workload -> the resources one pod asks for -> amount
    PodCount,     \* workload -> number of pods
    Priority,     \* workload -> priority
    Name,         \* workload -> its namespace and name
    RouteOf,      \* workload -> ClusterQueue, through its LocalQueue
    Passes,       \* the goroutines that serve /schedule
    FinishOnce    \* do clients finish only what is admitted?

None == "none"

FlavorNames == DOMAIN Quota

ASSUME QuotaAssumption ==
    /\ \A f \in FlavorNames : Quota[f] \in [DOMAIN Quota[f] -> Nat]
    /\ \A cq \in ClusterQueues :
          Flavors[cq] \in Seq(FlavorNames)
    /\ \A f \in FlavorNames : DOMAIN Quota[f] \subseteq Resources
    /\ FinishOnce \in BOOLEAN
ASSUME WorkloadAssumption ==
    \A w \in Workloads :
        /\ Request[w] \in [DOMAIN Request[w] -> Nat]
        /\ DOMAIN Request[w] \subseteq Resources
        /\ PodCount[w] \in Nat
        /\ Priority[w] \in Int
        /\ RouteOf[w] \in ClusterQueues
ASSUME NoneAssumption ==
    /\ IsFiniteSet(Workloads)
    /\ None \notin Workloads \cup ClusterQueues \cup FlavorNames

VARIABLES
    queue,      \* cq.Queue: pending workloads
    active,     \* cq.Workloads: workloads that were admitted, in that order
    used,       \* FlavorQuota.Used
    status,     \* Workload.Status, or "new" before it is submitted
    flavor,     \* Workload.FlavorName
    created,    \* Workload.CreatedAt, as the number of its submission
    pass        \* each running Schedule: where it is and what it holds

vars == <<queue, active, used, status, flavor, created, pass>>

-----------------------------------------------------------------------------
(* Quota arithmetic.                                                       *)

TotalRequests(w) ==
    [r \in Resources |->
        IF r \in DOMAIN Request[w] THEN Request[w][r] * PodCount[w] ELSE 0]

Available(f, r) == Quota[f][r] - used[f][r]

(* Mutant: the quota of one pod is checked, not of all.                    *)
CanFitMutant(f, w) ==
    /\ DOMAIN Request[w] \subseteq DOMAIN Quota[f]
    /\ \A r \in DOMAIN Request[w] : Request[w][r] <= Available(f, r)

CanFit(f, w) ==
    /\ DOMAIN Request[w] \subseteq DOMAIN Quota[f]
    /\ \A r \in DOMAIN Request[w] : TotalRequests(w)[r] <= Available(f, r)

Reserve(f, w) == [used EXCEPT ![f] = [r \in Resources |-> @[r] + TotalRequests(w)[r]]]

Release(f, w) ==
    IF f = None THEN used
    ELSE [used EXCEPT ![f] = [r \in Resources |-> @[r] - TotalRequests(w)[r]]]

-----------------------------------------------------------------------------
(* The pending queue.                                                      *)

(* The order of sortQueue: higher priority first, then the older one.      *)
Precedes(age, a, b) ==
    \/ Priority[a] > Priority[b]
    \/ Priority[a] = Priority[b] /\ age[a] < age[b]

(* Mutant: Enqueue appends and does not sort.                              *)
EnqueuedMutant(age, q, w) == Append(q, w)

(* Enqueue: append followed by the stable sortQueue. The queue was sorted  *)
(* before, so w ends up in front of the first workload that it precedes.   *)
Enqueued(age, q, w) ==
    LET after == {i \in DOMAIN q : Precedes(age, w, q[i])}
    IN  IF after = {} THEN Append(q, w) ELSE InsertAt(q, Min(after), w)

-----------------------------------------------------------------------------
PassStates ==
    [pc      : {"idle", "range", "dequeue", "fit", "reserve", "requeue"},
     cq      : ClusterQueues \cup {None},
     left    : SUBSET ClusterQueues,
     cur     : Workloads \cup {None},
     flavor  : FlavorNames \cup {None},
     toRetry : Seq(Workloads)]

NoPass == [pc |-> "idle", cq |-> None, left |-> {}, cur |-> None,
           flavor |-> None, toRetry |-> << >>]

Init ==
    /\ queue = [cq \in ClusterQueues |-> << >>]
    /\ active = [cq \in ClusterQueues |-> << >>]
    /\ used = [f \in FlavorNames |-> [r \in Resources |-> 0]]
    /\ status = [w \in Workloads |-> "new"]
    /\ flavor = [w \in Workloads |-> None]
    /\ created = [w \in Workloads |-> 0]
    /\ pass = [p \in Passes |-> NoPass]

(* No pass of Schedule is running.                                         *)
MayServe == \A p \in Passes : pass[p] = NoPass

(* handleSubmit: NewWorkload stamps the workload, Submit routes it through *)
(* its LocalQueue and enqueues it. (A workload whose LocalQueue does not   *)
(* exist is refused and changes nothing.)                                  *)
Submit(w) ==
    LET cq == RouteOf[w]
        stamped == [created EXCEPT
                       ![w] = 1 + Cardinality({v \in Workloads : status[v] # "new"})]
    IN
    /\ status[w] = "new"
    /\ created' = stamped
    /\ status' = [status EXCEPT ![w] = "Pending"]
    /\ queue' = [queue EXCEPT ![cq] = Enqueued(stamped, @, w)]
    /\ UNCHANGED <<active, used, flavor, pass>>

-----------------------------------------------------------------------------
(* One pass of Schedule over all ClusterQueues, in any order (it ranges    *)
(* over a map).                                                            *)

(* handleSchedule calls Schedule.                                          *)
BeginPass(p) ==
    /\ pass[p] = NoPass
    /\ pass' = [pass EXCEPT ![p] = [NoPass EXCEPT !.pc = "range", !.left = ClusterQueues]]
    /\ UNCHANGED <<queue, active, used, status, flavor, created>>

NextQueue(p) ==
    /\ pass[p].pc = "range"
    /\ \E cq \in pass[p].left :
          pass' = [pass EXCEPT ![p].pc = "dequeue", ![p].cq = cq,
                               ![p].left = @ \ {cq}]
    /\ UNCHANGED <<queue, active, used, status, flavor, created>>

EndPass(p) ==
    /\ pass[p].pc = "range"
    /\ pass[p].left = {}
    /\ pass' = [pass EXCEPT ![p] = NoPass]
    /\ UNCHANGED <<queue, active, used, status, flavor, created>>

(* Dequeue: the head of the queue, or nil, which ends the inner loop.      *)
Dequeue(p) ==
    LET cq == pass[p].cq
    IN
    /\ pass[p].pc = "dequeue"
    /\ \/ /\ queue[cq] # << >>
          /\ pass' = [pass EXCEPT ![p].pc = "fit", ![p].cur = Head(queue[cq])]
          /\ queue' = [queue EXCEPT ![cq] = Tail(@)]
       \/ /\ queue[cq] = << >>
          /\ pass' = [pass EXCEPT ![p].pc = "requeue"]
          /\ UNCHANGED queue
    /\ UNCHANGED <<active, used, status, flavor, created>>

(* Mutant: a workload that does not fit goes straight back to the queue.   *)
NoFlavorFitsMutant(p) ==
    LET cq == pass[p].cq
        w == pass[p].cur
    IN
    /\ pass[p].pc = "fit"
    /\ \A i \in DOMAIN Flavors[cq] : ~CanFit(Flavors[cq][i], w)
    /\ pass' = [pass EXCEPT ![p].pc = "dequeue", ![p].cur = None]
    /\ queue' = [queue EXCEPT ![cq] = Enqueued(created, @, w)]
    /\ UNCHANGED <<active, used, status, flavor, created>>

(* Mutant: a workload that does not fit is dropped.                        *)
NoFlavorFitsDropMutant(p) ==
    /\ pass[p].pc = "fit"
    /\ \A i \in DOMAIN Flavors[pass[p].cq] : ~CanFit(Flavors[pass[p].cq][i], pass[p].cur)
    /\ pass' = [pass EXCEPT ![p].pc = "dequeue", ![p].cur = None]
    /\ UNCHANGED <<queue, active, used, status, flavor, created>>

(* Mutant: the loop over the flavors ends after the first one.             *)
NoFlavorFitsFirstMutant(p) ==
    LET cq == pass[p].cq
        w == pass[p].cur
    IN
    /\ pass[p].pc = "fit"
    /\ ~CanFit(Flavors[cq][1], w)
    /\ pass' = [pass EXCEPT ![p].pc = "dequeue", ![p].cur = None,
                            ![p].toRetry = Append(@, w)]
    /\ UNCHANGED <<queue, active, used, status, flavor, created>>

(* AssignFlavor finds no flavor: the workload is kept in toRetry.          *)
NoFlavorFits(p) ==
    LET cq == pass[p].cq
        w == pass[p].cur
    IN
    /\ pass[p].pc = "fit"
    /\ \A i \in DOMAIN Flavors[cq] : ~CanFit(Flavors[cq][i], w)
    /\ pass' = [pass EXCEPT ![p].pc = "dequeue", ![p].cur = None,
                            ![p].toRetry = Append(@, w)]
    /\ UNCHANGED <<queue, active, used, status, flavor, created>>

(* Mutant: the first flavor of the list is taken when any can fit.         *)
ChooseFlavorMutant(p) ==
    LET cq == pass[p].cq
    IN
    /\ pass[p].pc = "fit"
    /\ \E i \in DOMAIN Flavors[cq] : CanFit(Flavors[cq][i], pass[p].cur)
    /\ pass' = [pass EXCEPT ![p].pc = "reserve", ![p].flavor = Flavors[cq][1]]
    /\ UNCHANGED <<queue, active, used, status, flavor, created>>

(* AssignFlavor takes the first flavor of the list that can fit.           *)
ChooseFlavor(p) ==
    LET cq == pass[p].cq
        fits == {i \in DOMAIN Flavors[cq] : CanFit(Flavors[cq][i], pass[p].cur)}
    IN
    /\ pass[p].pc = "fit"
    /\ fits # {}
    /\ pass' = [pass EXCEPT ![p].pc = "reserve", ![p].flavor = Flavors[cq][Min(fits)]]
    /\ UNCHANGED <<queue, active, used, status, flavor, created>>

(* Mutant: the flavor that was chosen is not recorded in the workload.     *)
AdmitMutant(p) ==
    LET w == pass[p].cur
        f == pass[p].flavor
    IN
    /\ pass[p].pc = "reserve"
    /\ used' = Reserve(f, w)
    /\ status' = [status EXCEPT ![w] = "Admitted"]
    /\ active' = [active EXCEPT ![pass[p].cq] = Append(@, w)]
    /\ pass' = [pass EXCEPT ![p].pc = "dequeue", ![p].cur = None, ![p].flavor = None]
    /\ UNCHANGED <<queue, flavor, created>>

(* AssignFlavor reserves the flavor's quota and admits the workload.       *)
Admit(p) ==
    LET w == pass[p].cur
        f == pass[p].flavor
    IN
    /\ pass[p].pc = "reserve"
    /\ used' = Reserve(f, w)
    /\ flavor' = [flavor EXCEPT ![w] = f]
    /\ status' = [status EXCEPT ![w] = "Admitted"]
    /\ active' = [active EXCEPT ![pass[p].cq] = Append(@, w)]
    /\ pass' = [pass EXCEPT ![p].pc = "dequeue", ![p].cur = None, ![p].flavor = None]
    /\ UNCHANGED <<queue, created>>

(* Workloads that could not be admitted are enqueued again, one by one.    *)
Requeue(p) ==
    LET cq == pass[p].cq
        w == Head(pass[p].toRetry)
    IN
    /\ pass[p].pc = "requeue"
    /\ pass[p].toRetry # << >>
    /\ status' = [status EXCEPT ![w] = "Pending"]
    /\ queue' = [queue EXCEPT ![cq] = Enqueued(created, @, w)]
    /\ pass' = [pass EXCEPT ![p].toRetry = Tail(@)]
    /\ UNCHANGED <<active, used, flavor, created>>

QueueDone(p) ==
    /\ pass[p].pc = "requeue"
    /\ pass[p].toRetry = << >>
    /\ pass' = [pass EXCEPT ![p].pc = "range", ![p].cq = None]
    /\ UNCHANGED <<queue, active, used, status, flavor, created>>

PassStep(p) ==
    \/ NextQueue(p)
    \/ Dequeue(p)
    \/ NoFlavorFits(p)
    \/ ChooseFlavor(p)
    \/ Admit(p)
    \/ Requeue(p)
    \/ QueueDone(p)
    \/ EndPass(p)

-----------------------------------------------------------------------------
(* Finishing a workload. It stays in cq.Workloads, with its flavor.        *)

(* Mutant: the quota is not given back.                                    *)
ReleaseWorkloadMutant(w) ==
    /\ status' = [status EXCEPT ![w] = "Finished"]
    /\ UNCHANGED <<queue, active, used, flavor, created, pass>>

ReleaseWorkload(w) ==
    /\ used' = Release(flavor[w], w)
    /\ status' = [status EXCEPT ![w] = "Finished"]
    /\ UNCHANGED <<queue, active, flavor, created, pass>>

Running(name) == {w \in Workloads : Name[w] = name /\ status[w] = "Admitted"}

(* handleFinish: the first workload of that name in cq.Workloads.          *)
FinishByName(cq, name) ==
    LET named == {i \in DOMAIN active[cq] : Name[active[cq][i]] = name}
    IN
    /\ FinishOnce => Running(name) # {}
    /\ named # {}
    /\ ReleaseWorkload(active[cq][Min(named)])

(* Finish, for a caller that holds the workload itself.                    *)
Finish(w) ==
    /\ status[w] # "new"
    /\ FinishOnce => status[w] = "Admitted"
    /\ ReleaseWorkload(w)

(* A handler begins to serve a request.                                    *)
Serve ==
    \/ \E w \in Workloads : Submit(w) \/ Finish(w)
    \/ \E cq \in ClusterQueues, name \in {Name[w] : w \in Workloads} : FinishByName(cq, name)
    \/ \E p \in Passes : BeginPass(p)

Next == (MayServe /\ Serve) \/ \E p \in Passes : PassStep(p)

Spec == Init /\ [][Next]_vars

(* A handler's goroutine keeps running once it has started.                *)
FairSpec == Spec /\ \A p \in Passes : WF_vars(PassStep(p))

-----------------------------------------------------------------------------
(* Properties.                                                             *)

Held(p) == ToSet(pass[p].toRetry) \cup ({pass[p].cur} \ {None})

(* Every variable has its type, and the lists of a ClusterQueue hold only  *)
(* its own workloads: submitted ones cq.Queue, and cq.Workloads those that *)
(* were given a flavor.                                                    *)
TypeOK ==
    /\ queue \in [ClusterQueues -> Seq(Workloads)]
    /\ active \in [ClusterQueues -> Seq(Workloads)]
    /\ used \in [FlavorNames -> [Resources -> Int]]
    /\ status \in [Workloads -> {"new", "Pending", "Admitted", "Finished"}]
    /\ flavor \in [Workloads -> FlavorNames \cup {None}]
    /\ created \in [Workloads -> 0 .. Cardinality(Workloads)]
    /\ pass \in [Passes -> PassStates]
    /\ \A cq \in ClusterQueues :
          /\ \A w \in ToSet(queue[cq]) : RouteOf[w] = cq /\ created[w] > 0
          /\ \A w \in ToSet(active[cq]) : RouteOf[w] = cq /\ flavor[w] \in FlavorNames

(* What each workload asks for of a resource, for all its pods.            *)
Asked(r) == [w \in Workloads |-> TotalRequests(w)[r]]

Granted(f, r) ==
    SumFunctionOnSet(Asked(r), {w \in Workloads : status[w] = "Admitted" /\ flavor[w] = f})

(* The workloads that run in a flavor together ask for no more than the    *)
(* flavor's quota: admission never overcommits a flavor, when requests do  *)
(* not overlap and clients finish only what runs (FinishOnce).             *)
QuotaRespected ==
    \A f \in FlavorNames : \A r \in DOMAIN Quota[f] : Granted(f, r) <= Quota[f][r]

(* FlavorQuota.Used is what the workloads that run in the flavor ask for,  *)
(* for clients that finish only what runs: ReleaseWorkload looks at no     *)
(* status, and a /finish that is repeated gives the quota back twice.      *)
UsedIsGranted ==
    \A f \in FlavorNames, r \in Resources : used[f][r] = Granted(f, r)

(* A submitted workload is in one place, once: a pending one in its        *)
(* ClusterQueue's queue or in the hands of a pass, an admitted or finished *)
(* one in the list of active workloads. Schedule loses and duplicates none.*)
InOnePlace ==
    \A w \in Workloads :
        LET cq == RouteOf[w]
            places == Cardinality({i \in DOMAIN queue[cq] : queue[cq][i] = w})
                      + Cardinality({p \in Passes : w \in Held(p)})
            runs == Cardinality({i \in DOMAIN active[cq] : active[cq][i] = w})
        IN  /\ places = IF status[w] = "Pending" THEN 1 ELSE 0
            /\ runs = IF status[w] \in {"Admitted", "Finished"} THEN 1 ELSE 0

Fits(w) == \E i \in DOMAIN Flavors[RouteOf[w]] : CanFit(Flavors[RouteOf[w]][i], w)

Waiting(v, w) == status[v] = "Pending" /\ RouteOf[v] = RouteOf[w] /\ v # w

(* A workload is never admitted past one that comes first by priority and  *)
(* age and that would fit.  The code backfills, which the loop in          *)
(* internal/scheduler/doc.go:15-18 would not: it takes only what the       *)
(* workloads in front cannot use.                                          *)
AdmitInOrder ==
    [][\A w \in Workloads :
          status[w] = "Pending" /\ status'[w] = "Admitted" =>
              \A v \in Workloads :
                  Waiting(v, w) /\ Precedes(created, v, w) => ~Fits(v)]_vars

(* When Schedule returns, nothing that is still pending fits: a pass       *)
(* admits "as many pending workloads as quota permits" (doc.go:13).  The   *)
(* loop two lines below that sentence, and the one of the README           *)
(* (mini-kueue/README.md:42-47), stop at the first head that does not fit; *)
(* the code goes on behind it, and on that case this property says what    *)
(* the sentence and the code say, not what the loop says.                  *)
PassIsMaximal ==
    [][\A p \in Passes :
          EndPass(p) =>
              \A w \in Workloads : status[w] = "Pending" => ~Fits(w)]_vars

(* A pass ends: workloads that do not fit are retried in a later pass, not *)
(* over and over in this one.                                              *)
PassEnds == \A p \in Passes : pass[p].pc # "idle" ~> pass[p].pc = "idle"

-----------------------------------------------------------------------------
(* What the scheduler promises about quota.                                *)
Ledger == INSTANCE AdmissionLedger WITH
    Demand   <- [w \in Workloads |->
                    [r \in DOMAIN Request[w] |-> TotalRequests(w)[r]]],
    Capacity <- Quota,
    Offered  <- [w \in Workloads |-> ToSet(Flavors[RouteOf[w]])],
    phase    <- status,
    place    <- flavor

(* With one request at a time, clients that finish only what runs and one  *)
(* workload per name, the counters, queues and passes come to a ledger:    *)
(* although a pass checks the quota in one step and reserves it in a later *)
(* one, and although Used is kept beside the workloads, every admission    *)
(* fits what is really running.                                            *)
ImplementsLedger == Ledger!Spec
=============================================================================
