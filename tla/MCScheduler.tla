----------------------------- MODULE MCScheduler -----------------------------
(***************************************************************************)
(* Scheduler cut down for the search with three CPUs: they come up in the   *)
(* order of their ids, and only boot code spawns threads.                   *)
(***************************************************************************)
EXTENDS Scheduler

StartInOrder == \A c, d \in Cpus : c < d /\ d \in online => c \in online

OnlyBootSpawns == \A t \in Threads : spawning[t] = NULL
=============================================================================
