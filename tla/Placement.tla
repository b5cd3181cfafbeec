------------------------------ MODULE Placement ------------------------------
(***************************************************************************)
(* Which worker a queued job is offered to.                                *)
(*                                                                         *)
(* The coordinator never pushes work.  A polling worker receives the first *)
(* queued job, in queue order, for which it is itself the deterministic    *)
(* selection among all workers that could take the job at that instant.    *)
(* This module holds the pure part of that decision (app/repository.py,    *)
(* _preferred_worker_id and the selection loop of claim) and the check a   *)
(* submission passes first (app/service.py, _validate_batch_capacity).     *)
(*                                                                         *)
(* Job and worker ids are positive numbers.  The order of job numbers      *)
(* stands for (created_at, task_index, id), the ORDER BY of the queue      *)
(* query; the order of worker numbers stands for the order of worker ids.  *)
(***************************************************************************)
EXTENDS Integers

CONSTANTS
    Jobs,      \* the jobs that may be submitted
    Workers,   \* the machines that may register
    Kind,      \* the type of each job: "sleep", "python_batch" or "batch"
    Need,      \* the envelope a batch job requests: [cpu, mem]
    Target     \* the worker a job asks for, or AnyWorker

NoJob == 0
NoWorker == 0
AnyWorker == 0

\* A worker registers without a capacity.  Requests are positive, so the
\* zero envelope admits no batch job, as the NULL columns do in the code.
NoCapacity == [cpu |-> 0, mem |-> 0]

BatchKinds == {"python_batch", "batch"}

ASSUME PlacementAssumption ==
    /\ Jobs \subseteq Nat \ {NoJob}
    /\ Workers \subseteq Nat \ {NoWorker}
    /\ Kind \in [Jobs -> BatchKinds \cup {"sleep"}]
    /\ Need \in [Jobs -> [cpu : Nat \ {0}, mem : Nat \ {0}]]
    /\ Target \in [Jobs -> Workers \cup {AnyWorker}]

Fits(need, envelope) == need.cpu <= envelope.cpu /\ need.mem <= envelope.mem

Targets(j, w) == Target[j] \in {AnyWorker, w}

\* A submission is refused unless some registered worker (the targeted one,
\* when there is a target) is configured with a large enough envelope.
\* Stale and disabled workers count: the check is about configuration.
CapacityAccepted(j, registered, capacity) ==
    Kind[j] \in BatchKinds =>
        \E w \in registered : Targets(j, w) /\ Fits(Need[j], capacity[w])

(***************************************************************************)
(* An operator named ...Bug is the definition after it with a plausible    *)
(* mistake; nothing uses it but PROJECT.json.                              *)
(***************************************************************************)
EligibleBug(j, row) ==
    {w \in DOMAIN row :
        /\ row[w].fresh
        /\ row[w].current = NoJob
        /\ Targets(j, w)
        /\ Kind[j] \in row[w].supported
        /\ Kind[j] \in BatchKinds => Fits(Need[j], row[w].capacity)}

(***************************************************************************)
(* A worker as the selection sees it: enabled by the operator, seen within *)
(* the staleness window, with no current job, supporting the job's type.   *)
(***************************************************************************)
Eligible(j, row) ==
    {w \in DOMAIN row :
        /\ row[w].enabled
        /\ row[w].fresh
        /\ row[w].current = NoJob
        /\ Targets(j, w)
        /\ Kind[j] \in row[w].supported
        /\ Kind[j] \in BatchKinds => Fits(Need[j], row[w].capacity)}

\* Best fit for batch jobs: the smallest memory envelope, then the smallest
\* CPU envelope, then the id.  Other jobs go to the smallest id.
BeforeBug(j, row, v, w) == v < w

Before(j, row, v, w) ==
    LET a == row[v].capacity
        b == row[w].capacity
    IN  \/ Kind[j] \in BatchKinds /\ a.mem < b.mem
        \/ Kind[j] \in BatchKinds /\ a.mem = b.mem /\ a.cpu < b.cpu
        \/ (Kind[j] \in BatchKinds => a = b) /\ v < w

Preferred(j, row) ==
    LET eligible == Eligible(j, row)
    IN  IF eligible = {}
        THEN NoWorker
        ELSE CHOOSE w \in eligible :
                \A v \in eligible \ {w} : Before(j, row, w, v)

OfferBug(w, queued, row) ==
    LET mine == {j \in queued : Preferred(j, row) = w}
    IN  {j \in mine : \A i \in mine : i <= j}

\* The job a polling worker is offered, if any: the oldest queued one that
\* prefers it.
Offer(w, queued, row) ==
    LET mine == {j \in queued : Preferred(j, row) = w}
    IN  {j \in mine : \A i \in mine : j <= i}
===============================================================================
