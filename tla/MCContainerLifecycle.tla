------------------------ MODULE MCContainerLifecycle ------------------------
(* Three commands on the containers of one daemon.                         *)
EXTENDS ContainerLifecycle, TLC

Symmetry == Permutations(Tasks) \cup Permutations(Pids)

CONSTANTS c1, c2, c3

MCThreads == Clients \X {"call", "wait"}

MCMay ==
    [c \in Clients |->
        CASE c = c1 -> {"run", "run_detached", "docker_create"}
          [] c = c2 -> {"stop", "exec", "docker_start"}
          [] c = c3 -> {"stop", "rm", "rm_force", "docker_stop"}]

(* A container and any other command.                                      *)
MCMayPair ==
    [c \in Clients |->
        IF c = c1 THEN {"run", "run_detached", "docker_create"} ELSE Commands]
=============================================================================
