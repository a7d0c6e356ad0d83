-------------------------- MODULE MCKueueScheduler --------------------------
(* A ClusterQueue with a cpu-only flavor and a gpu flavor, and one with a  *)
(* single flavor. The workloads of the first compete for it: one of two    *)
(* pods and high priority, some that need the only gpu, a small one.       *)
EXTENDS KueueScheduler

MCFlavors == [cq \in ClusterQueues |->
                 IF cq = "dev" THEN <<"standard", "gpu">> ELSE <<"on-demand">>]

MCQuota == [f \in {"standard", "gpu", "on-demand"} |->
               CASE f = "standard"  -> [r \in {"cpu"} |-> 2]
                 [] f = "gpu"       -> [r \in {"cpu", "gpu"} |-> IF r = "cpu" THEN 2 ELSE 1]
                 [] f = "on-demand" -> [r \in {"cpu"} |-> 1]]

MCRequest == [w \in Workloads |->
                 CASE w \in {"ml", "ml2"} -> [r \in {"cpu", "gpu"} |-> 1]
                   [] OTHER -> [r \in {"cpu"} |-> 1]]

MCPodCount == [w \in Workloads |-> IF w = "big" THEN 2 ELSE 1]

MCPriority == [w \in Workloads |-> IF w \in {"big", "ml"} THEN 1 ELSE 0]

MCName == [w \in Workloads |-> w]

MCRouteOf == [w \in Workloads |-> IF w = "web" THEN "prod" ELSE "dev"]
=============================================================================
