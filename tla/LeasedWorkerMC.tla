---------------------------- MODULE LeasedWorkerMC ----------------------------
(* Small instances of LeasedWorker: sleep jobs that any machine may take. *)
EXTENDS LeasedWorker

SleepKind == [j \in Jobs |-> "sleep"]
SmallNeed == [j \in Jobs |-> [cpu |-> 1, mem |-> 1]]
AnyTarget == [j \in Jobs |-> AnyWorker]
SleepOffers == {{"sleep"}}
NoEnvelopes == {}
OneEnvelope == {[cpu |-> 1, mem |-> 1]}
===============================================================================
