----------------------------- MODULE MCKueueRace -----------------------------
(* The queues of MCKueueScheduler and two workloads that need its one gpu, *)
(* with two /schedule requests at a time.                                  *)
EXTENDS KueueRace, MCKueueScheduler
=============================================================================
