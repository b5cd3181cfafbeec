------------------------------ MODULE JobQueueMC ------------------------------
(* Small instances of JobQueue. *)
EXTENDS JobQueue

Large == [cpu |-> 2, mem |-> 2]
Small == [cpu |-> 1, mem |-> 1]

\* Sleep jobs on any machine, for the runs about leases.
SleepKind == [j \in Jobs |-> "sleep"]
SmallNeed == [j \in Jobs |-> Small]
AnyTarget == [j \in Jobs |-> AnyWorker]
SleepOffers == {{"sleep"}}
NoEnvelopes == {}

\* A small and a large batch job, for the run about placement.
BatchKind == [j \in Jobs |-> "batch"]
MixedNeed == [j \in Jobs |-> IF j = 1 THEN Small ELSE Large]
BatchOffers == {{"sleep"}, {"sleep", "batch"}}
Envelopes == {Small, Large}
===============================================================================
