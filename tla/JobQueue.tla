------------------------------- MODULE JobQueue -------------------------------
(***************************************************************************)
(* The durable job queue of the coordinator: app/repository.py under       *)
(* app/service.py.  Jobs and workers are rows of one SQLite database, and  *)
(* one action is one transaction.                                          *)
(*                                                                         *)
(* Clients and workers are the environment.  A worker may send any report  *)
(* or renewal for any lease it was ever granted, at any time, any number   *)
(* of times: that covers lost, late and repeated requests, restarts, and   *)
(* workers returning from the dead.  LeasedWorker constrains the worker to *)
(* what the worker program does.                                           *)
(*                                                                         *)
(* Time is kept relative, so that no bound on it is needed: a row holds    *)
(* lease_expires_at minus now, and the age of last_seen.  A handler reads  *)
(* the clock before its transaction waits for the database's write lock,   *)
(* so a transaction works with a stamp that may be up to MaxLag old; the   *)
(* argument d of an action is that age.                                    *)
(*                                                                         *)
(* Python's sqlite3 opens a transaction at the first data-modifying        *)
(* statement, not at the first SELECT.  Where the code selects and then    *)
(* updates, the two are separate actions here: cancel, the failure report, *)
(* and the list of expired workers that the lease sweep reads first.       *)
(* Everything after the first update of a handler is atomic.               *)
(*                                                                         *)
(* An operator named ...Bug is the definition after it with a plausible    *)
(* mistake; the specification never uses one.  PROJECT.json lists which    *)
(* property each of them breaks.                                           *)
(***************************************************************************)
EXTENDS Placement, Sequences, FiniteSets

CONSTANTS
    Lease,       \* lease_seconds
    MaxAttempts, \* max_attempts
    StaleAfter,  \* worker_stale_seconds
    MaxLag,      \* bound on the age of a transaction's stamp
    Offers,      \* the sets of job types a worker may say it supports
    Capacities,  \* the envelopes an operator may configure
    Switchable,  \* the workers whose scheduling switch an operator moves
    MaxCalls     \* bound on cancel calls and failure reports half-way at once

ASSUME QueueAssumption ==
    /\ Lease \in Nat \ {0}
    /\ MaxAttempts \in Nat \ {0}
    /\ StaleAfter \in Nat
    /\ MaxLag \in Nat /\ MaxLag < Lease
    /\ Offers \subseteq SUBSET (BatchKinds \cup {"sleep"})
    /\ Capacities \subseteq [cpu : Nat, mem : Nat]
    /\ Switchable \subseteq Workers
    /\ MaxCalls \in Nat

VARIABLES
    job,         \* the jobs table
    worker,      \* the workers table
    granted,     \* history: every lease ever granted; a token is its index
    cancelling,  \* the status a cancel call has read and not yet acted on
    failing,     \* failure reports between their read and their update
    expiredRead  \* workers a sweep has listed as expired and not yet cleared

vars == <<job, worker, granted, cancelling, failing, expiredRead>>

Unfinished == {"QUEUED", "RUNNING"}
Terminal == {"COMPLETED", "FAILED"}

NoToken == 0

JobRow ==
    [status    : {"absent"} \cup Unfinished \cup Terminal,
     worker    : Workers \cup {NoWorker},
     token     : Nat,     \* lease_token
     ttl       : Int,     \* lease_expires_at - now, when there is a lease
     span      : Int,     \* lease_expires_at - updated_at, likewise
     attempt   : Nat,
     cancelled : BOOLEAN, \* cancellation_requested
     failure   : {"none", "EXECUTION_ERROR", "WORKER_LOST", "CANCELLED_BY_USER"},
     report    : Nat]     \* history: the lease whose report closed the job

WorkerRow ==
    [registered : BOOLEAN,
     enabled    : BOOLEAN,
     supported  : SUBSET (BatchKinds \cup {"sleep"}),
     capacity   : [cpu : Nat, mem : Nat],
     age        : Nat,    \* now - last_seen, saturating at MaxAge
     current    : Jobs \cup {NoJob}]

\* Past this age a worker is stale for every stamp, so the age stops there.
MaxAge == StaleAfter + MaxLag + 1

AbsentJob ==
    [status |-> "absent", worker |-> NoWorker, token |-> NoToken, ttl |-> 0,
     span |-> 0, attempt |-> 0, cancelled |-> FALSE, failure |-> "none",
     report |-> NoToken]

UnknownWorker ==
    [registered |-> FALSE, enabled |-> FALSE, supported |-> {},
     capacity |-> NoCapacity, age |-> 0, current |-> NoJob]

Lags == 0 .. MaxLag

Init ==
    /\ job = [j \in Jobs |-> AbsentJob]
    /\ worker = [w \in Workers |-> UnknownWorker]
    /\ granted = <<>>
    /\ cancelling = [j \in Jobs |-> "none"]
    /\ failing = {}
    /\ expiredRead = {}

-------------------------------------------------------------------------------
(***************************************************************************)
(* Submission: one job, or a group of jobs inserted in one transaction.    *)
(* created_at is stamped before the insert waits for the database, so jobs *)
(* need not be inserted in queue order.  The workers are read before the   *)
(* insert as well, which a change of an envelope right after the insert    *)
(* cannot be told from.                                                    *)
(***************************************************************************)
Registered == {w \in Workers : worker[w].registered}

Create(S) ==
    /\ S # {}
    /\ \A j \in S :
        /\ job[j].status = "absent"
        /\ Target[j] \in Registered \cup {AnyWorker}
        /\ CapacityAccepted(j, Registered, [w \in Workers |-> worker[w].capacity])
    /\ job' = [j \in Jobs |->
                IF j \in S THEN [job[j] EXCEPT !.status = "QUEUED"] ELSE job[j]]
    /\ UNCHANGED <<worker, granted, cancelling, failing, expiredRead>>

-------------------------------------------------------------------------------
(***************************************************************************)
(* The lease sweep, run by a background loop and at the start of every     *)
(* claim.                                                                  *)
(***************************************************************************)
ExpiredBug(d) == {j \in Jobs : job[j].status = "RUNNING" /\ job[j].ttl <= d}

Expired(d) == {j \in Jobs : job[j].status = "RUNNING" /\ job[j].ttl <= -d}

WithoutLease(row) == [row EXCEPT !.token = NoToken, !.ttl = 0, !.span = 0]

Recovered(row) ==
    IF row.cancelled THEN
        [WithoutLease(row) EXCEPT !.status = "FAILED",
                                  !.failure = "CANCELLED_BY_USER"]
    ELSE IF row.attempt >= MaxAttempts THEN
        [WithoutLease(row) EXCEPT !.status = "FAILED", !.failure = "WORKER_LOST"]
    ELSE
        [WithoutLease(row) EXCEPT !.status = "QUEUED", !.worker = NoWorker,
                                  !.failure = "none"]

Swept(d) ==
    [j \in Jobs |-> IF j \in Expired(d) THEN Recovered(job[j]) ELSE job[j]]

Cleared(S) ==
    [w \in Workers |->
        IF w \in S THEN [worker[w] EXCEPT !.current = NoJob] ELSE worker[w]]

ExpiredWorkers(d) == {job[j].worker : j \in Expired(d)} \ {NoWorker}

\* A sweep clears the workers it listed before its transaction began; by then
\* one of them may have renewed its lease or claimed again.  At most one such
\* list is outstanding.  A claim that sweeps with an old list is RecoverExpired
\* with that list and then the claim.
ReadExpired(d) ==
    /\ expiredRead = {}
    /\ expiredRead' = ExpiredWorkers(d)
    /\ UNCHANGED <<job, worker, granted, cancelling, failing>>

RecoverExpired(d) ==
    /\ job' = Swept(d)
    /\ \E late \in {{}, expiredRead} :
        /\ worker' = Cleared(ExpiredWorkers(d) \cup late)
        /\ expiredRead' = expiredRead \ late
    /\ UNCHANGED <<granted, cancelling, failing>>

-------------------------------------------------------------------------------
(***************************************************************************)
(* Claim: sweep, record the worker as seen and idle, then decline, hand    *)
(* back the job the worker already holds, start a queued job, or find      *)
(* nothing.                                                                *)
(***************************************************************************)
Upserted(table, w, kinds, d, j) ==
    [table EXCEPT ![w] = [@ EXCEPT !.registered = TRUE, !.supported = kinds,
                                   !.age = d, !.current = j]]

\* The worker table after the claim's sweep and its own upsert.
Seen(w, kinds, d) == Upserted(Cleared(ExpiredWorkers(d)), w, kinds, d, NoJob)

HeldBug(w, d) ==
    {j \in Jobs : worker[w].current = j /\ job[j].status = "RUNNING"}

Held(w, d) == {j \in Jobs : /\ Swept(d)[j].status = "RUNNING"
                            /\ Swept(d)[j].worker = w
                            /\ Swept(d)[j].ttl > -d}

\* The rows of registered workers as the selection reads them.
Candidates(table, d) ==
    [v \in {v \in Workers : table[v].registered} |->
        [enabled |-> table[v].enabled, fresh |-> table[v].age <= StaleAfter + d,
         current |-> table[v].current, supported |-> table[v].supported,
         capacity |-> table[v].capacity]]

Chosen(w, kinds, d) ==
    Offer(w, {j \in Jobs : Swept(d)[j].status = "QUEUED"},
          Candidates(Seen(w, kinds, d), d))

ClaimDeclined(w, kinds, d) ==
    /\ ~worker[w].enabled     \* also when the worker was not registered
    /\ job' = Swept(d)
    /\ worker' = Seen(w, kinds, d)
    /\ UNCHANGED <<granted, cancelling, failing, expiredRead>>

ClaimHandedBack(w, kinds, d, j) ==
    /\ worker[w].enabled
    /\ j \in Held(w, d)
    /\ job' = Swept(d)
    /\ worker' = [Seen(w, kinds, d) EXCEPT ![w].current = j]
    /\ UNCHANGED <<granted, cancelling, failing, expiredRead>>

StartedLateBug(row, w, t, d) ==
    [row EXCEPT !.status = "RUNNING", !.worker = w, !.token = t,
                !.ttl = Lease + d, !.span = Lease, !.attempt = @ + 1,
                !.failure = "none", !.report = NoToken]

Started(row, w, t, d) ==
    [row EXCEPT !.status = "RUNNING", !.worker = w, !.token = t,
                !.ttl = Lease - d, !.span = Lease, !.attempt = @ + 1,
                !.failure = "none", !.report = NoToken]

ClaimStarted(w, kinds, d, j) ==
    /\ worker[w].enabled
    /\ Held(w, d) = {}
    /\ j \in Chosen(w, kinds, d)
    /\ granted' = Append(granted, [job |-> j, worker |-> w,
                                   attempt |-> job[j].attempt + 1])
    /\ job' = [Swept(d) EXCEPT ![j] = Started(@, w, Len(granted) + 1, d)]
    /\ worker' = [Seen(w, kinds, d) EXCEPT ![w].current = j]
    /\ UNCHANGED <<cancelling, failing, expiredRead>>

ClaimEmpty(w, kinds, d) ==
    /\ worker[w].enabled
    /\ Held(w, d) = {}
    /\ Chosen(w, kinds, d) = {}
    /\ job' = Swept(d)
    /\ worker' = Seen(w, kinds, d)
    /\ UNCHANGED <<granted, cancelling, failing, expiredRead>>

-------------------------------------------------------------------------------
(***************************************************************************)
(* Renewals and reports carry a lease token, and take effect only while    *)
(* that token is the job's current, unexpired lease.                       *)
(***************************************************************************)
Tokens == 1 .. Len(granted)

HoldsBug(t, d) ==
    LET row == job[granted[t].job]
    IN  row.status = "RUNNING" /\ row.worker = granted[t].worker /\ row.ttl > -d

Holds(t, d) ==
    LET row == job[granted[t].job]
    IN  /\ row.status = "RUNNING"
        /\ row.worker = granted[t].worker
        /\ row.token = t
        /\ row.ttl > -d

Heartbeat(t, kinds, d) ==
    LET j == granted[t].job
        w == granted[t].worker
    IN  /\ Holds(t, d)
        /\ job' = [job EXCEPT ![j].ttl = Lease - d, ![j].span = Lease]
        /\ worker' = Upserted(worker, w, kinds, d, j)
        /\ UNCHANGED <<granted, cancelling, failing, expiredRead>>

\* A heartbeat without a job registers the worker and shows it as idle.
IdleHeartbeat(w, kinds, d) ==
    /\ worker' = Upserted(worker, w, kinds, d, NoJob)
    /\ UNCHANGED <<job, granted, cancelling, failing, expiredRead>>

Closed(row, t, status, failure) ==
    [WithoutLease(row) EXCEPT !.status = status, !.failure = failure,
                              !.report = t]

Finish(t, d, status, failure) ==
    /\ Holds(t, d)
    /\ job' = [job EXCEPT ![granted[t].job] = Closed(@, t, status, failure)]
    /\ worker' = Cleared({granted[t].worker})

CompleteBug(t, d) ==
    /\ Finish(t, d, "COMPLETED", "none")
    /\ UNCHANGED <<granted, cancelling, failing, expiredRead>>

Complete(t, d) ==
    /\ ~job[granted[t].job].cancelled
    /\ Finish(t, d, "COMPLETED", "none")
    /\ UNCHANGED <<granted, cancelling, failing, expiredRead>>

HalfWay == Cardinality(failing) + Cardinality({j \in Jobs : cancelling[j] # "none"})

\* A failure report first reads the job, and becomes a cancellation if one
\* was requested by then.  A worker claims to have been cancelled only when a
\* heartbeat told it so, which this read then sees as well.
FailRead(t) ==
    /\ HalfWay < MaxCalls
    /\ failing' = failing \cup
        {[token |-> t,
          kind  |-> IF job[granted[t].job].cancelled THEN "CANCELLED_BY_USER"
                                                     ELSE "EXECUTION_ERROR"]}
    /\ UNCHANGED <<job, worker, granted, cancelling, expiredRead>>

FailWrite(f, d) ==
    /\ \/ Finish(f.token, d, "FAILED", f.kind)
       \/ ~Holds(f.token, d) /\ UNCHANGED <<job, worker>>
    /\ failing' = failing \ {f}
    /\ UNCHANGED <<granted, cancelling, expiredRead>>

-------------------------------------------------------------------------------
(***************************************************************************)
(* Cancellation reads the status and then updates the row only if it still *)
(* has that status; otherwise the call answers that the job does not exist.*)
(***************************************************************************)
CancelRead(j) ==
    /\ job[j].status \in Unfinished
    /\ cancelling[j] = "none"
    /\ HalfWay < MaxCalls
    /\ cancelling' = [cancelling EXCEPT ![j] = job[j].status]
    /\ UNCHANGED <<job, worker, granted, failing, expiredRead>>

Cancelled(row, d) ==
    IF row.status = "QUEUED"
    THEN [row EXCEPT !.status = "FAILED", !.cancelled = TRUE,
                     !.failure = "CANCELLED_BY_USER"]
    ELSE [row EXCEPT !.cancelled = TRUE, !.span = row.ttl + d]

CancelWrite(j, d) ==
    /\ cancelling[j] # "none"
    /\ job' = [job EXCEPT ![j] =
                IF @.status = cancelling[j] THEN Cancelled(@, d) ELSE @]
    /\ cancelling' = [cancelling EXCEPT ![j] = "none"]
    /\ UNCHANGED <<worker, granted, failing, expiredRead>>

-------------------------------------------------------------------------------
(***************************************************************************)
(* The operator's switch and envelope, and the passage of time.            *)
(***************************************************************************)
SetEnabled(w, on) ==
    /\ worker[w].registered
    /\ worker' = [worker EXCEPT ![w].enabled = on]
    /\ UNCHANGED <<job, granted, cancelling, failing, expiredRead>>

SetCapacity(w, envelope) ==
    /\ worker[w].registered
    /\ worker' = [worker EXCEPT ![w].capacity = envelope]
    /\ UNCHANGED <<job, granted, cancelling, failing, expiredRead>>

\* A lease is compared with stamps at most MaxLag old, so -MaxLag is expired
\* for all of them and the countdown stops there.
Aged(row) ==
    IF row.status = "RUNNING" /\ row.ttl > -MaxLag
    THEN [row EXCEPT !.ttl = @ - 1]
    ELSE row

Tick ==
    /\ job' = [j \in Jobs |-> Aged(job[j])]
    /\ worker' = [w \in Workers |->
                    IF worker[w].age < MaxAge
                    THEN [worker[w] EXCEPT !.age = @ + 1]
                    ELSE worker[w]]
    /\ UNCHANGED <<granted, cancelling, failing, expiredRead>>

Claim(w, kinds, d) ==
    \/ ClaimDeclined(w, kinds, d)
    \/ ClaimEmpty(w, kinds, d)
    \/ \E j \in Jobs : \/ ClaimHandedBack(w, kinds, d, j)
                       \/ ClaimStarted(w, kinds, d, j)

Next ==
    \/ \E S \in SUBSET Jobs : Create(S)
    \/ \E w \in Workers, kinds \in Offers, d \in Lags :
        Claim(w, kinds, d) \/ IdleHeartbeat(w, kinds, d)
    \/ \E t \in Tokens, kinds \in Offers, d \in Lags : Heartbeat(t, kinds, d)
    \/ \E t \in Tokens, d \in Lags : Complete(t, d)
    \/ \E t \in Tokens : FailRead(t)
    \/ \E f \in failing, d \in Lags : FailWrite(f, d)
    \/ \E j \in Jobs : CancelRead(j)
    \/ \E j \in Jobs, d \in Lags : CancelWrite(j, d)
    \/ \E d \in Lags : ReadExpired(d) \/ RecoverExpired(d)
    \/ \E w \in Switchable, on \in BOOLEAN : SetEnabled(w, on)
    \/ \E w \in Workers, envelope \in Capacities : SetCapacity(w, envelope)
    \/ Tick

Spec == Init /\ [][Next]_vars

-------------------------------------------------------------------------------
(***************************************************************************)
(* Correctness.                                                            *)
(***************************************************************************)

\* Every row keeps its columns in range, and no stamp goes past the lease.
TypeOK ==
    /\ job \in [Jobs -> JobRow]
    /\ \A j \in Jobs : job[j].ttl \in -MaxLag .. Lease
    /\ worker \in [Workers -> WorkerRow]
    /\ granted \in Seq([job : Jobs, worker : Workers, attempt : Nat])
    /\ cancelling \in [Jobs -> {"none"} \cup Unfinished]
    /\ failing \subseteq [token : Tokens, kind : {"EXECUTION_ERROR", "CANCELLED_BY_USER"}]
    /\ expiredRead \subseteq Workers

\* "Each machine runs at most one job at a time", across re-claims, hand-backs,
\* sweeps, and claims with old stamps: no two leases name the same worker.
OneJobPerWorker ==
    \A i, j \in Jobs :
        /\ job[i].status = "RUNNING" /\ job[j].status = "RUNNING"
        /\ job[i].worker = job[j].worker
        => i = j

\* The workers table never shows a machine busy with a job that is finished,
\* queued again, or leased to another machine.  (The converse fails: a worker
\* that polls while it holds a lease and is disabled is shown as idle.)
CurrentJobIsHeld ==
    \A w \in Workers :
        worker[w].current # NoJob =>
            /\ job[worker[w].current].status = "RUNNING"
            /\ job[worker[w].current].worker = w

\* A running job's lease is the latest one granted for that job, and is in the
\* hands of the worker it was granted to.
LeaseIsLatestGrant ==
    \A j \in Jobs : job[j].status = "RUNNING" =>
        /\ job[j].token \in Tokens
        /\ granted[job[j].token] =
              [job |-> j, worker |-> job[j].worker, attempt |-> job[j].attempt]

\* The report that closed a job came from its latest attempt, whatever stale
\* workers sent before, between and after.
AnswerIsLatestAttempt ==
    \A j \in Jobs : job[j].report # NoToken =>
        /\ job[j].status \in Terminal
        /\ job[j].report \in Tokens
        /\ granted[job[j].report] =
              [job |-> j, worker |-> job[j].worker, attempt |-> job[j].attempt]

Grants(j) == {t \in Tokens : granted[t].job = j}

\* attempt counts the leases granted, never exceeds the limit, and a queued
\* job always has an attempt left, so that no job can be stuck in the queue.
AttemptsAreCounted ==
    \A j \in Jobs :
        /\ job[j].attempt = Cardinality(Grants(j))
        /\ job[j].attempt <= MaxAttempts
        /\ job[j].status = "QUEUED" => job[j].attempt < MaxAttempts

\* A recorded cancellation wins over completion and over a requeue, and a job
\* is written off as lost only when its attempts are used up.
CancellationWins ==
    \A j \in Jobs :
        /\ job[j].cancelled => job[j].status \in {"RUNNING", "FAILED"}
        /\ job[j].failure = "CANCELLED_BY_USER" => job[j].cancelled
        /\ job[j].failure = "WORKER_LOST" =>
              job[j].attempt = MaxAttempts /\ ~job[j].cancelled

\* A finished job never changes again.
TerminalIsFinal ==
    [][\A j \in Jobs : job[j].status \in Terminal => job'[j] = job[j]]_vars

\* A lease that has not expired is never taken away: only its own report ends
\* it, even while sweeps and claims work with old stamps.
LiveLeaseIsKept ==
    [][\A j \in Jobs :
        /\ job[j].status = "RUNNING" /\ job[j].ttl > 0
        /\ job'[j].token # job[j].token
        => job'[j].report = job[j].token]_vars

\* Once a cancellation is recorded no further attempt begins.
CancelledNeverRestarts ==
    [][\A j \in Jobs : job[j].cancelled =>
        job'[j].cancelled /\ job'[j].attempt = job[j].attempt]_vars

-------------------------------------------------------------------------------
(***************************************************************************)
(* Placement.                                                              *)
(***************************************************************************)

\* What the operator configured and what the worker itself declares allow it.
Suits(j, v) ==
    /\ worker'[v].registered /\ worker'[v].enabled
    /\ Target[j] \in {v, AnyWorker}
    /\ Kind[j] \in worker'[v].supported
    /\ Kind[j] \in BatchKinds =>
          /\ Need[j].cpu <= worker'[v].capacity.cpu
          /\ Need[j].mem <= worker'[v].capacity.mem

\* "An automatic job takes the smallest adequate machine, even when a larger
\* one polls first": a job starts only on a machine that suits it, and no
\* machine that was seen within the window, is idle and suits it too has less
\* memory.
StartsOnSmallestAdequate ==
    [][\A j \in Jobs : job'[j].attempt > job[j].attempt =>
        LET w == job'[j].worker
        IN  /\ Suits(j, w)
            /\ \A v \in Workers :
                /\ Suits(j, v) /\ v # w
                /\ worker'[v].current = NoJob /\ worker'[v].age <= StaleAfter
                /\ Kind[j] \in BatchKinds
                => worker'[w].capacity.mem <= worker'[v].capacity.mem]_vars

\* A machine that polls is sent away while a job that suits it waits only if
\* another idle machine that suits that job will be offered it: no choice of
\* the selection strands a job.
WaitingJobHasATaker ==
    [][\A w \in Workers, kinds \in Offers, d \in Lags :
        ClaimEmpty(w, kinds, d) =>
            \A j \in Jobs : job'[j].status = "QUEUED" /\ Suits(j, w) =>
                \E v \in Workers \ {w} :
                    /\ Suits(j, v)
                    /\ worker'[v].current = NoJob
                    /\ worker'[v].age <= StaleAfter + d]_vars

\* A job is never started ahead of an older one that the same machine would be
\* the only one to suit.
OldestFirst ==
    [][\A i, j \in Jobs :
        /\ i < j /\ job'[j].attempt > job[j].attempt
        /\ job'[i].status = "QUEUED" /\ Suits(i, job'[j].worker)
        => \E v \in Workers \ {job'[j].worker} : Suits(i, v)]_vars

-------------------------------------------------------------------------------
Phase == [absent |-> "absent", QUEUED |-> "queued", RUNNING |-> "running",
          COMPLETED |-> "done", FAILED |-> "failed"]

Lifecycle == INSTANCE JobLifecycle WITH
    life <- [j \in Jobs |->
                [phase  |-> Phase[job[j].status],
                 tries  |-> job[j].attempt,
                 asked  |-> job[j].cancelled,
                 answer |-> IF job[j].report = NoToken THEN 0
                            ELSE granted[job[j].report].attempt]]

\* The queue implements the promised life of a job.
ImplementsLifecycle == Lifecycle!Spec
===============================================================================
