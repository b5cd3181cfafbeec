-------------------------- MODULE LeasedWorker_proofs --------------------------
(***************************************************************************)
(* Proofs about JobQueue, for any jobs, workers, lease, attempt limit,     *)
(* staleness window, lag and set of envelopes, and then about the worker   *)
(* program: it never does anything that JobQueue does not allow a worker   *)
(* to do, so every theorem about JobQueue holds of the two together.  No   *)
(* job is recorded as completed before its files are in place, a keeper    *)
(* gives a lease up in bounded time, and without faults it never loses one.*)
(***************************************************************************)
EXTENDS LeasedWorker, Collections

-------------------------------------------------------------------------------
(***************************************************************************)
(* Rows.  Every operator that computes a row keeps it well-formed.         *)
(***************************************************************************)
Row == {r \in JobRow : r.ttl \in -MaxLag .. Lease}

\* A row keeps its type when its lease columns get values of theirs.
LEMMA LeaseColumns ==
    ASSUME NEW r \in JobRow, NEW token \in Nat, NEW ttl \in Int, NEW span \in Int
    PROVE  [r EXCEPT !.token = token, !.ttl = ttl, !.span = span] \in JobRow
BY DEF JobRow

LEMMA WithoutLeaseRow ==
    ASSUME NEW r \in Row PROVE WithoutLease(r) \in Row
<1>1. NoToken \in Nat /\ 0 \in Int /\ 0 \in -MaxLag .. Lease
  BY QueueAssumption DEF NoToken
<1>2. WithoutLease(r) \in JobRow
  BY <1>1, LeaseColumns DEF WithoutLease, Row
<1>3. WithoutLease(r).ttl = 0
  BY DEF Row, JobRow, WithoutLease
<1>4. QED
  BY <1>1, <1>2, <1>3 DEF Row

\* A swept row loses its lease and is either written off or queued again.
LEMMA RecoveredRow ==
    ASSUME NEW r \in Row PROVE Recovered(r) \in Row
<1>1. WithoutLease(r) \in Row
  BY WithoutLeaseRow
<1>2. QED
  BY <1>1 DEF Recovered, Row, JobRow, Terminal, Unfinished

\* The sweep keeps the number of attempts a job has used.
LEMMA RecoveredAttempt ==
    ASSUME NEW r \in Row PROVE Recovered(r).attempt = r.attempt
<1>1. WithoutLease(r) \in Row /\ WithoutLease(r).attempt = r.attempt
  BY WithoutLeaseRow DEF WithoutLease, Row, JobRow
<1>2. QED
  BY <1>1 DEF Recovered, Row, JobRow

LEMMA StartedRow ==
    ASSUME NEW r \in Row, NEW w \in Workers, NEW t \in Nat, NEW d \in Lags
    PROVE  Started(r, w, t, d) \in Row
<1> DEFINE ttl == Lease - d
           attempt == r.attempt + 1
<1>1. /\ ttl \in Int /\ ttl \in -MaxLag .. Lease
      /\ Lease \in Int /\ attempt \in Nat /\ NoToken \in Nat
  BY QueueAssumption DEF Lags, NoToken, Row, JobRow
<1>2. Started(r, w, t, d) =
        [r EXCEPT !.status = "RUNNING", !.worker = w, !.token = t, !.ttl = ttl,
                  !.span = Lease, !.attempt = attempt, !.failure = "none",
                  !.report = NoToken]
  BY DEF Started
<1> HIDE DEF ttl, attempt
<1>3. QED
  BY <1>1, <1>2 DEF Row, JobRow, Unfinished

LEMMA ClosedRow ==
    ASSUME NEW r \in Row, NEW t \in Nat, NEW status \in Terminal,
           NEW failure \in {"none", "EXECUTION_ERROR", "CANCELLED_BY_USER"}
    PROVE  Closed(r, t, status, failure) \in Row
<1>1. WithoutLease(r) \in Row
  BY WithoutLeaseRow
<1>2. QED
  BY <1>1 DEF Closed, Row, JobRow

LEMMA CancelledRow ==
    ASSUME NEW r \in Row, NEW d \in Lags PROVE Cancelled(r, d) \in Row
<1> DEFINE span == r.ttl + d
<1>1. span \in Int
  BY QueueAssumption DEF Row, JobRow, Lags
<1>2. Cancelled(r, d) =
        IF r.status = "QUEUED"
        THEN [r EXCEPT !.status = "FAILED", !.cancelled = TRUE,
                       !.failure = "CANCELLED_BY_USER"]
        ELSE [r EXCEPT !.cancelled = TRUE, !.span = span]
  BY DEF Cancelled
<1> HIDE DEF span
<1>3. CASE r.status = "QUEUED"
  <2>1. Cancelled(r, d) = [r EXCEPT !.status = "FAILED", !.cancelled = TRUE,
                                    !.failure = "CANCELLED_BY_USER"]
    BY <1>2, <1>3
  <2>2. QED
    BY <2>1 DEF Row, JobRow, Terminal
<1>4. CASE r.status # "QUEUED"
  <2>1. Cancelled(r, d) = [r EXCEPT !.cancelled = TRUE, !.span = span]
    BY <1>2, <1>4
  <2>2. QED
    BY <1>1, <2>1 DEF Row, JobRow
<1>5. QED
  BY <1>3, <1>4

\* A renewed row, as Heartbeat writes it.
LEMMA RenewedRow ==
    ASSUME NEW r \in Row, NEW d \in Lags
    PROVE  [r EXCEPT !.ttl = Lease - d, !.span = Lease] \in Row
<1> DEFINE ttl == Lease - d
<1>1. ttl \in Int /\ ttl \in -MaxLag .. Lease /\ Lease \in Int
  BY QueueAssumption DEF Lags
<1> HIDE DEF ttl
<1>2. [r EXCEPT !.ttl = ttl, !.span = Lease] \in Row
  BY <1>1 DEF Row, JobRow
<1>3. QED
  BY <1>2 DEF ttl

LEMMA AgedRow ==
    ASSUME NEW r \in Row PROVE Aged(r) \in Row
BY QueueAssumption DEF Aged, Row, JobRow

LEMMA UpsertedRow ==
    ASSUME NEW table \in [Workers -> WorkerRow], NEW w \in Workers,
           NEW kinds \in Offers, NEW d \in Lags, NEW j \in Jobs \cup {NoJob}
    PROVE  Upserted(table, w, kinds, d, j) \in [Workers -> WorkerRow]
<1>1. d \in Nat /\ kinds \in SUBSET (BatchKinds \cup {"sleep"})
  BY QueueAssumption DEF Lags
<1>2. [table[w] EXCEPT !.registered = TRUE, !.supported = kinds,
                       !.age = d, !.current = j] \in WorkerRow
  BY <1>1 DEF WorkerRow
<1>3. QED
  BY <1>2 DEF Upserted

-------------------------------------------------------------------------------
\* The parts of the state that the sweep and the claim compute.
LEMMA SweptType ==
    ASSUME job \in [Jobs -> Row], NEW d PROVE Swept(d) \in [Jobs -> Row]
BY RecoveredRow DEF Swept

LEMMA ClearedType ==
    ASSUME worker \in [Workers -> WorkerRow], NEW S
    PROVE  Cleared(S) \in [Workers -> WorkerRow]
BY DEF Cleared, WorkerRow

LEMMA SeenType ==
    ASSUME worker \in [Workers -> WorkerRow], NEW w \in Workers,
           NEW kinds \in Offers, NEW d \in Lags
    PROVE  Seen(w, kinds, d) \in [Workers -> WorkerRow]
<1>1. Cleared(ExpiredWorkers(d)) \in [Workers -> WorkerRow]
  BY ClearedType
<1>2. QED
  BY <1>1, UpsertedRow DEF Seen

-------------------------------------------------------------------------------
(***************************************************************************)
(* The type invariant.                                                     *)
(***************************************************************************)
Reports == [token : Tokens, kind : {"EXECUTION_ERROR", "CANCELLED_BY_USER"}]

Grant == [job : Jobs, worker : Workers, attempt : Nat]

LEMMA TypeRows ==
    TypeOK <=>
        /\ job \in [Jobs -> Row]
        /\ worker \in [Workers -> WorkerRow]
        /\ granted \in Seq(Grant)
        /\ cancelling \in [Jobs -> {"none"} \cup Unfinished]
        /\ failing \subseteq Reports
        /\ expiredRead \subseteq Workers
BY DEF TypeOK, Row, Reports, Grant

\* The token of a granted lease names a job and a worker.
LEMMA GrantType ==
    ASSUME granted \in Seq(Grant), NEW t \in Tokens
    PROVE  granted[t] \in Grant /\ t \in Nat /\ t # NoToken
BY DEF Tokens, NoToken

LEMMA InitType == Init => TypeOK
<1> SUFFICES ASSUME Init PROVE TypeOK
  OBVIOUS
<1>1. 0 \in Nat /\ 0 \in Int /\ 0 \in -MaxLag .. Lease /\ NoToken \in Nat
  BY QueueAssumption DEF NoToken
<1>2. AbsentJob \in JobRow /\ AbsentJob.ttl = 0
  BY <1>1 DEF AbsentJob, JobRow
<1>3. UnknownWorker \in WorkerRow
  BY <1>1 DEF UnknownWorker, WorkerRow, NoCapacity, NoJob
<1>4. job \in [Jobs -> Row]
  BY <1>1, <1>2 DEF Init, Row
<1>5. granted \in Seq(Grant)
  BY DEF Init
<1>6. QED
  BY <1>3, <1>4, <1>5, TypeRows DEF Init

\* Every claim leaves well-formed rows, whatever it ends in.
LEMMA ClaimType ==
    ASSUME TypeOK, NEW w \in Workers, NEW kinds \in Offers, NEW d \in Lags,
           Claim(w, kinds, d)
    PROVE  TypeOK'
<1>1. /\ job \in [Jobs -> Row] /\ worker \in [Workers -> WorkerRow]
      /\ granted \in Seq(Grant)
  BY TypeRows
<1>2. Swept(d) \in [Jobs -> Row] /\ Seen(w, kinds, d) \in [Workers -> WorkerRow]
  BY <1>1, SweptType, SeenType
<1>3. ASSUME NEW j \in Jobs \cup {NoJob}
      PROVE  [Seen(w, kinds, d) EXCEPT ![w].current = j] \in [Workers -> WorkerRow]
  BY <1>2 DEF WorkerRow
<1>4. CASE ClaimDeclined(w, kinds, d) \/ ClaimEmpty(w, kinds, d)
  BY <1>2, <1>4, TypeRows
  DEF ClaimDeclined, ClaimEmpty, TypeOK, Row, Reports, Tokens
<1>5. ASSUME NEW j \in Jobs, ClaimHandedBack(w, kinds, d, j) PROVE TypeOK'
  BY <1>2, <1>3, <1>5 DEF ClaimHandedBack, TypeOK, Row, Tokens
<1>6. ASSUME NEW j \in Jobs, ClaimStarted(w, kinds, d, j) PROVE TypeOK'
  <2> DEFINE g == [job |-> j, worker |-> w, attempt |-> job[j].attempt + 1]
             t == Len(granted) + 1
  <2>1. g \in Grant /\ t \in Nat
    BY <1>1 DEF Grant, Row, JobRow
  <2>2. /\ granted' = Append(granted, g)
        /\ job' = [Swept(d) EXCEPT ![j] = Started(@, w, t, d)]
        /\ worker' = [Seen(w, kinds, d) EXCEPT ![w].current = j]
        /\ UNCHANGED <<cancelling, failing, expiredRead>>
    BY <1>6 DEF ClaimStarted
  <2> HIDE DEF g, t
  <2>3. job' \in [Jobs -> Row]
    BY <1>2, <2>1, <2>2, StartedRow
  <2>4. worker' \in [Workers -> WorkerRow]
    BY <1>3, <2>2
  <2>5. granted' \in Seq(Grant) /\ Tokens \subseteq Tokens'
    BY <1>1, <2>1, <2>2 DEF Tokens
  <2>6. QED
    BY <2>2, <2>3, <2>4, <2>5 DEF TypeOK, Row, Grant
<1>7. QED
  BY <1>4, <1>5, <1>6 DEF Claim

\* A renewal or a report changes the row of the job its lease names.
LEMMA LeaseHolderType ==
    ASSUME TypeOK, NEW t \in Tokens, NEW r \in Row,
           job' = [job EXCEPT ![granted[t].job] = r],
           worker' \in [Workers -> WorkerRow],
           granted' = granted, cancelling' = cancelling,
           failing' \subseteq failing, expiredRead' = expiredRead
    PROVE  TypeOK'
BY TypeRows, GrantType DEF TypeOK, Row, Tokens, Grant

LEMMA HeartbeatType ==
    ASSUME TypeOK, NEW t \in Tokens, NEW kinds \in Offers, NEW d \in Lags,
           Heartbeat(t, kinds, d)
    PROVE  TypeOK'
<1>1. granted[t] \in Grant /\ job \in [Jobs -> Row] /\ worker \in [Workers -> WorkerRow]
  BY TypeRows, GrantType
<1> DEFINE j == granted[t].job
           r == [job[j] EXCEPT !.ttl = Lease - d, !.span = Lease]
<1>2. j \in Jobs /\ granted[t].worker \in Workers
  BY <1>1 DEF Grant
<1>3. r \in Row
  BY <1>1, <1>2, RenewedRow
<1>4. job' = [job EXCEPT ![granted[t].job] = r]
  BY <1>1, <1>2 DEF Heartbeat
<1>5. worker' \in [Workers -> WorkerRow]
  BY <1>1, <1>2, UpsertedRow DEF Heartbeat
<1>6. UNCHANGED <<granted, cancelling, failing, expiredRead>>
  BY DEF Heartbeat
<1> HIDE DEF r
<1>7. QED
  BY <1>3, <1>4, <1>5, <1>6, LeaseHolderType

LEMMA FinishType ==
    ASSUME TypeOK, NEW t \in Tokens, NEW d \in Lags, NEW status \in Terminal,
           NEW failure \in {"none", "EXECUTION_ERROR", "CANCELLED_BY_USER"},
           Finish(t, d, status, failure),
           granted' = granted, cancelling' = cancelling,
           failing' \subseteq failing, expiredRead' = expiredRead
    PROVE  TypeOK'
<1>1. granted[t] \in Grant /\ job \in [Jobs -> Row] /\ t \in Nat
  BY TypeRows, GrantType
<1> DEFINE r == Closed(job[granted[t].job], t, status, failure)
<1>2. r \in Row
  BY <1>1, ClosedRow DEF Grant
<1>3. job' = [job EXCEPT ![granted[t].job] = r]
  BY DEF Finish
<1>4. worker' \in [Workers -> WorkerRow]
  BY TypeRows, ClearedType DEF Finish
<1> HIDE DEF r
<1>5. QED
  BY <1>2, <1>3, <1>4, LeaseHolderType

LEMMA NextType == TypeOK /\ [Next]_vars => TypeOK'
<1> SUFFICES ASSUME TypeOK, [Next]_vars PROVE TypeOK'
  OBVIOUS
<1>0. /\ job \in [Jobs -> Row] /\ worker \in [Workers -> WorkerRow]
      /\ granted \in Seq(Grant)
  BY TypeRows
<1>1. ASSUME NEW S \in SUBSET Jobs, Create(S) PROVE TypeOK'
  <2>1. job' \in [Jobs -> Row]
    <3>1. \A r \in Row : [r EXCEPT !.status = "QUEUED"] \in Row
      BY DEF Row, JobRow, Unfinished
    <3>2. QED
      BY <1>0, <1>1, <3>1 DEF Create
  <2>2. QED
    BY <1>1, <2>1 DEF Create, TypeOK, Row, Tokens
<1>2. ASSUME NEW w \in Workers, NEW kinds \in Offers, NEW d \in Lags,
             IdleHeartbeat(w, kinds, d)
      PROVE  TypeOK'
  <2>1. worker' \in [Workers -> WorkerRow]
    BY <1>0, <1>2, UpsertedRow DEF IdleHeartbeat
  <2>2. QED
    BY <1>2, <2>1 DEF IdleHeartbeat, TypeOK, Tokens
<1>3. ASSUME NEW t \in Tokens, NEW d \in Lags, Complete(t, d) PROVE TypeOK'
  BY <1>3, FinishType DEF Complete, Terminal
<1>4. ASSUME NEW t \in Tokens, FailRead(t) PROVE TypeOK'
  BY <1>4 DEF FailRead, TypeOK, Tokens
<1>5. ASSUME NEW f \in failing, NEW d \in Lags, FailWrite(f, d) PROVE TypeOK'
  <2>1. f.token \in Tokens /\ f.kind \in {"EXECUTION_ERROR", "CANCELLED_BY_USER"}
    BY DEF TypeOK
  <2>2. CASE Finish(f.token, d, "FAILED", f.kind)
    BY <1>5, <2>1, <2>2, FinishType DEF FailWrite, Terminal
  <2>3. CASE UNCHANGED <<job, worker>>
    BY <1>5, <2>3 DEF FailWrite, TypeOK, Tokens
  <2>4. QED
    BY <1>5, <2>2, <2>3 DEF FailWrite
<1>6. ASSUME NEW j \in Jobs, CancelRead(j) PROVE TypeOK'
  BY <1>6 DEF CancelRead, TypeOK, Tokens
<1>7. ASSUME NEW j \in Jobs, NEW d \in Lags, CancelWrite(j, d) PROVE TypeOK'
  <2>1. job' \in [Jobs -> Row]
    BY <1>0, <1>7, CancelledRow DEF CancelWrite
  <2>2. QED
    BY <1>7, <2>1 DEF CancelWrite, TypeOK, Row, Tokens
<1>8. ASSUME NEW d \in Lags, ReadExpired(d) PROVE TypeOK'
  <2>1. ExpiredWorkers(d) \subseteq Workers
    BY <1>0 DEF ExpiredWorkers, Expired, Row, JobRow
  <2>2. QED
    BY <1>8, <2>1 DEF ReadExpired, TypeOK, Tokens
<1>9. ASSUME NEW d \in Lags, RecoverExpired(d) PROVE TypeOK'
  <2>1. job' \in [Jobs -> Row]
    BY <1>0, <1>9, SweptType DEF RecoverExpired
  <2>2. worker' \in [Workers -> WorkerRow]
    BY <1>0, <1>9, ClearedType DEF RecoverExpired
  <2>3. QED
    BY <1>9, <2>1, <2>2 DEF RecoverExpired, TypeOK, Row, Tokens
<1>10. ASSUME NEW w \in Switchable, NEW on \in BOOLEAN, SetEnabled(w, on)
       PROVE  TypeOK'
  <2>1. worker' \in [Workers -> WorkerRow]
    <3>1. w \in Workers
      BY QueueAssumption
    <3>2. [worker[w] EXCEPT !.enabled = on] \in WorkerRow
      BY <1>0, <3>1 DEF WorkerRow
    <3>3. QED
      BY <1>0, <1>10, <3>1, <3>2 DEF SetEnabled
  <2>2. QED
    BY <1>10, <2>1 DEF SetEnabled, TypeOK, Tokens
<1>11. ASSUME NEW w \in Workers, NEW envelope \in Capacities, SetCapacity(w, envelope)
       PROVE  TypeOK'
  <2>1. worker' \in [Workers -> WorkerRow]
    <3>1. envelope \in [cpu : Nat, mem : Nat]
      BY QueueAssumption
    <3>2. [worker[w] EXCEPT !.capacity = envelope] \in WorkerRow
      BY <1>0, <3>1 DEF WorkerRow
    <3>3. QED
      BY <1>0, <1>11, <3>2 DEF SetCapacity
  <2>2. QED
    BY <1>11, <2>1 DEF SetCapacity, TypeOK, Tokens
<1>12. ASSUME Tick PROVE TypeOK'
  <2>1. job' \in [Jobs -> Row]
    BY <1>0, <1>12, AgedRow DEF Tick
  <2>2. worker' \in [Workers -> WorkerRow]
    <3>1. \A r \in WorkerRow : [r EXCEPT !.age = @ + 1] \in WorkerRow
      <4>1. SUFFICES ASSUME NEW r \in WorkerRow
                     PROVE  [r EXCEPT !.age = @ + 1] \in WorkerRow
        OBVIOUS
      <4> DEFINE age == r.age + 1
      <4>2. age \in Nat
        BY DEF WorkerRow
      <4> HIDE DEF age
      <4>3. [r EXCEPT !.age = age] \in WorkerRow
        BY <4>2 DEF WorkerRow
      <4>4. QED
        BY <4>3 DEF age
    <3>2. QED
      BY <1>0, <1>12, <3>1 DEF Tick
  <2>3. QED
    BY <1>12, <2>1, <2>2 DEF Tick, TypeOK, Row, Tokens
<1>13. CASE UNCHANGED vars
  BY <1>13 DEF vars, TypeOK, Tokens
<1>14. QED
  BY <1>1, <1>2, <1>3, <1>4, <1>5, <1>6, <1>7, <1>8, <1>9, <1>10, <1>11, <1>12,
     <1>13, ClaimType, HeartbeatType DEF Next

\* Every reachable state is well-typed, for any values of the constants.
THEOREM TypeCorrect == Spec => []TypeOK
<1>1. QED
  BY InitType, NextType, PTL DEF Spec

-------------------------------------------------------------------------------
(***************************************************************************)
(* Leases are exclusive.  The four invariants support each other: a grant  *)
(* is safe because every unexpired lease of the worker was looked for by   *)
(* its row, the worker table is safe because a sweep clears the workers of *)
(* the rows it moves, and an answer is the latest attempt's because only   *)
(* the token of the running row is accepted.                               *)
(***************************************************************************)
ExclusiveInv ==
    /\ TypeOK
    /\ OneJobPerWorker
    /\ CurrentJobIsHeld
    /\ LeaseIsLatestGrant
    /\ AnswerIsLatestAttempt

\* A sweep leaves unexpired leases and answered jobs alone.
LEMMA SweptRows ==
    ASSUME ExclusiveInv, NEW d \in Lags, NEW i \in Jobs
    PROVE  /\ Swept(d)[i].status = "RUNNING" =>
                 /\ Swept(d)[i] = job[i] /\ job[i].status = "RUNNING"
                 /\ job[i].ttl > -d
           /\ Swept(d)[i].report # NoToken => Swept(d)[i] = job[i]
<1>1. job[i] \in JobRow /\ job[i].ttl \in Int /\ d \in Int
  BY QueueAssumption DEF ExclusiveInv, TypeOK, Lags
<1>2. CASE i \in Expired(d)
  <2>1. Swept(d)[i] = Recovered(job[i]) /\ job[i].status = "RUNNING"
    BY <1>2 DEF Swept, Expired
  <2>2. job[i].report = NoToken
    BY <2>1, <1>1 DEF ExclusiveInv, AnswerIsLatestAttempt, Terminal
  <2>3. /\ Recovered(job[i]).status \in {"FAILED", "QUEUED"}
        /\ Recovered(job[i]).report = job[i].report
    BY <1>1 DEF Recovered, WithoutLease, JobRow
  <2>4. QED
    BY <2>1, <2>2, <2>3
<1>3. CASE i \notin Expired(d)
  <2>1. Swept(d)[i] = job[i]
    BY <1>3 DEF Swept
  <2>2. job[i].status = "RUNNING" => job[i].ttl > -d
    BY <1>1, <1>3 DEF Expired
  <2>3. QED
    BY <2>1, <2>2
<1>4. QED
  BY <1>2, <1>3

\* After a sweep, a worker that is shown as busy still holds a lease.
LEMMA SweptWorkers ==
    ASSUME ExclusiveInv, NEW d \in Lags, NEW S, ExpiredWorkers(d) \subseteq S,
           NEW v \in Workers, NEW i, i = Cleared(S)[v].current, i # NoJob
    PROVE  /\ i \in Jobs
           /\ Swept(d)[i].status = "RUNNING" /\ Swept(d)[i].worker = v
<1>1. worker \in [Workers -> WorkerRow] /\ job \in [Jobs -> Row]
  BY TypeRows DEF ExclusiveInv
<1>2. v \notin S /\ worker[v].current = i
  BY <1>1 DEF Cleared, WorkerRow
<1>3. i \in Jobs /\ job[i].status = "RUNNING" /\ job[i].worker = v
  BY <1>1, <1>2 DEF ExclusiveInv, CurrentJobIsHeld, WorkerRow
<1>4. i \notin Expired(d)
  BY <1>2, <1>3, PlacementAssumption DEF ExpiredWorkers
<1>5. QED
  BY <1>3, <1>4 DEF Swept

\* The step of a sweep, possibly with a late list of workers.
LEMMA SweepExclusive ==
    ASSUME ExclusiveInv, TypeOK', NEW d \in Lags, NEW S,
           ExpiredWorkers(d) \subseteq S,
           job' = Swept(d), worker' = Cleared(S), granted' = granted
    PROVE  ExclusiveInv'
<1>1. OneJobPerWorker'
  BY SweptRows DEF OneJobPerWorker, ExclusiveInv
<1>2. CurrentJobIsHeld'
  BY SweptWorkers DEF CurrentJobIsHeld
<1>3. LeaseIsLatestGrant' /\ AnswerIsLatestAttempt'
  BY SweptRows DEF LeaseIsLatestGrant, AnswerIsLatestAttempt, ExclusiveInv, Tokens
<1>4. QED
  BY <1>1, <1>2, <1>3 DEF ExclusiveInv

\* The rows of all workers but the claiming one are those the sweep left.
LEMMA SeenOthers ==
    ASSUME TypeOK, NEW w \in Workers, NEW kinds \in Offers, NEW d \in Lags,
           NEW v \in Workers
    PROVE  /\ v # w => Seen(w, kinds, d)[v] = Cleared(ExpiredWorkers(d))[v]
           /\ Seen(w, kinds, d)[w].current = NoJob
<1>1. Cleared(ExpiredWorkers(d)) \in [Workers -> WorkerRow]
  BY TypeRows, ClearedType
<1>2. QED
  BY <1>1 DEF Seen, Upserted, WorkerRow

\* The step of a claim that grants nothing: it shows the worker as idle, or as
\* holding a job whose unexpired lease it has.
LEMMA NoGrantExclusive ==
    ASSUME ExclusiveInv, TypeOK', NEW w \in Workers, NEW kinds \in Offers,
           NEW d \in Lags, NEW j \in Held(w, d) \cup {NoJob},
           job' = Swept(d), granted' = granted,
           worker' = [Seen(w, kinds, d) EXCEPT ![w].current = j]
    PROVE  ExclusiveInv'
<1>1. OneJobPerWorker'
  BY SweptRows DEF OneJobPerWorker, ExclusiveInv
<1>2. CurrentJobIsHeld'
  <2>1. SUFFICES ASSUME NEW v \in Workers, worker'[v].current # NoJob
                 PROVE  /\ job'[worker'[v].current].status = "RUNNING"
                        /\ job'[worker'[v].current].worker = v
    BY DEF CurrentJobIsHeld
  <2>2. Seen(w, kinds, d) \in [Workers -> WorkerRow]
    BY SeenType, TypeRows DEF ExclusiveInv
  <2>3. CASE v = w
    BY <2>1, <2>2, <2>3 DEF Held, WorkerRow
  <2>4. CASE v # w
    <3>1. worker'[v] = Cleared(ExpiredWorkers(d))[v]
      BY <2>2, <2>4, SeenOthers DEF ExclusiveInv
    <3> DEFINE i == Cleared(ExpiredWorkers(d))[v].current
    <3>2. i # NoJob
      BY <2>1, <3>1
    <3>3. Swept(d)[i].status = "RUNNING" /\ Swept(d)[i].worker = v
      BY <3>2, SweptWorkers
    <3>4. QED
      BY <3>1, <3>3
  <2>5. QED
    BY <2>3, <2>4
<1>3. LeaseIsLatestGrant' /\ AnswerIsLatestAttempt'
  BY SweptRows DEF LeaseIsLatestGrant, AnswerIsLatestAttempt, ExclusiveInv, Tokens
<1>4. QED
  BY <1>1, <1>2, <1>3 DEF ExclusiveInv

\* The step of a claim that starts a queued job.
LEMMA GrantExclusive ==
    ASSUME ExclusiveInv, TypeOK', NEW w \in Workers, NEW kinds \in Offers,
           NEW d \in Lags, NEW j \in Jobs, ClaimStarted(w, kinds, d, j)
    PROVE  ExclusiveInv'
<1> DEFINE t == Len(granted) + 1
           g == [job |-> j, worker |-> w, attempt |-> job[j].attempt + 1]
<1>1. /\ job \in [Jobs -> Row] /\ worker \in [Workers -> WorkerRow]
      /\ granted \in Seq(Grant) /\ Swept(d) \in [Jobs -> Row]
  BY TypeRows, SweptType DEF ExclusiveInv
<1>2. Swept(d)[j].status = "QUEUED"
  BY DEF ClaimStarted, Chosen, Offer
<1>3. Swept(d)[j].attempt = job[j].attempt
  <2>1. Swept(d)[j] = IF j \in Expired(d) THEN Recovered(job[j]) ELSE job[j]
    BY DEF Swept
  <2>2. QED
    BY <1>1, <2>1, RecoveredAttempt
<1>4. /\ g \in Grant /\ granted' = Append(granted, g)
      /\ t \in Tokens' /\ granted'[t] = g /\ Tokens \subseteq Tokens'
      /\ \A u \in Tokens : granted'[u] = granted[u]
  BY <1>1 DEF ClaimStarted, Tokens, Grant, Row, JobRow
<1>5. /\ \A i \in Jobs \ {j} : job'[i] = Swept(d)[i]
      /\ job'[j] = Started(Swept(d)[j], w, t, d)
  BY <1>1 DEF ClaimStarted
<1>6. /\ job'[j].status = "RUNNING" /\ job'[j].worker = w /\ job'[j].token = t
      /\ job'[j].attempt = job[j].attempt + 1 /\ job'[j].report = NoToken
  BY <1>1, <1>3, <1>5 DEF Started, Row, JobRow
<1> HIDE DEF t
<1>7. \A i \in Jobs : Swept(d)[i].status = "RUNNING" => Swept(d)[i].worker # w
  BY <1>1, SweptRows DEF ClaimStarted, Held
<1>8. OneJobPerWorker'
  BY <1>5, <1>6, <1>7, SweptRows DEF OneJobPerWorker, ExclusiveInv
<1>9. CurrentJobIsHeld'
  <2>1. SUFFICES ASSUME NEW v \in Workers, worker'[v].current # NoJob
                 PROVE  /\ job'[worker'[v].current].status = "RUNNING"
                        /\ job'[worker'[v].current].worker = v
    BY DEF CurrentJobIsHeld
  <2>2. /\ Seen(w, kinds, d) \in [Workers -> WorkerRow]
        /\ worker' = [Seen(w, kinds, d) EXCEPT ![w].current = j]
    BY <1>1, SeenType DEF ClaimStarted
  <2>3. CASE v = w
    BY <1>6, <2>2, <2>3 DEF WorkerRow
  <2>4. CASE v # w
    <3> DEFINE i == Cleared(ExpiredWorkers(d))[v].current
    <3>1. worker'[v].current = i
      BY <2>2, <2>4, SeenOthers DEF ExclusiveInv
    <3>2. i \in Jobs /\ Swept(d)[i].status = "RUNNING" /\ Swept(d)[i].worker = v
      BY <2>1, <3>1, SweptWorkers
    <3>3. i # j
      BY <1>2, <3>2
    <3>4. QED
      BY <1>5, <3>1, <3>2, <3>3
  <2>5. QED
    BY <2>3, <2>4
<1>10. LeaseIsLatestGrant'
  <2>1. SUFFICES ASSUME NEW i \in Jobs, job'[i].status = "RUNNING"
                 PROVE  /\ job'[i].token \in Tokens'
                        /\ granted'[job'[i].token] =
                             [job |-> i, worker |-> job'[i].worker,
                              attempt |-> job'[i].attempt]
    BY DEF LeaseIsLatestGrant
  <2>2. CASE i = j
    BY <1>4, <1>6, <2>2
  <2>3. CASE i # j
    <3>1. job'[i] = job[i] /\ job[i].status = "RUNNING"
      BY <1>5, <2>1, <2>3, SweptRows
    <3>2. /\ job[i].token \in Tokens
          /\ granted[job[i].token] =
               [job |-> i, worker |-> job[i].worker, attempt |-> job[i].attempt]
      BY <3>1 DEF ExclusiveInv, LeaseIsLatestGrant
    <3>3. job[i].token \in Tokens' /\ granted'[job[i].token] = granted[job[i].token]
      BY <1>4, <3>2
    <3>4. QED
      BY ONLY <3>1, <3>2, <3>3
  <2>4. QED
    BY <2>2, <2>3
<1>11. AnswerIsLatestAttempt'
  <2>1. SUFFICES ASSUME NEW i \in Jobs, job'[i].report # NoToken
                 PROVE  /\ job'[i].status \in Terminal
                        /\ job'[i].report \in Tokens'
                        /\ granted'[job'[i].report] =
                             [job |-> i, worker |-> job'[i].worker,
                              attempt |-> job'[i].attempt]
    BY DEF AnswerIsLatestAttempt
  <2>2. i # j
    BY <1>6, <2>1
  <2>3. job'[i] = Swept(d)[i]
    BY <1>5, <2>2
  <2>4. job'[i] = job[i]
    BY <2>1, <2>3, SweptRows
  <2>5. /\ job[i].status \in Terminal /\ job[i].report \in Tokens
        /\ granted[job[i].report] =
             [job |-> i, worker |-> job[i].worker, attempt |-> job[i].attempt]
    BY <2>1, <2>4 DEF ExclusiveInv, AnswerIsLatestAttempt
  <2>6. job[i].report \in Tokens' /\ granted'[job[i].report] = granted[job[i].report]
    BY <1>4, <2>5
  <2>7. QED
    BY ONLY <2>4, <2>5, <2>6
<1>12. QED
  BY <1>8, <1>9, <1>10, <1>11 DEF ExclusiveInv

\* A step that grants and ends no lease: every row keeps its lease and its
\* answer, and a worker is shown with the job it had, none, or one it holds.
Kept(a, b) ==
    /\ b.worker = a.worker /\ b.token = a.token
    /\ b.attempt = a.attempt /\ b.report = a.report
    /\ \/ b.status = a.status
       \/ a.status \in {"absent", "QUEUED"} /\ b.status \in {"QUEUED", "FAILED"}

LEMMA KeptExclusive ==
    ASSUME ExclusiveInv, TypeOK', granted' = granted,
           \A i \in Jobs : Kept(job[i], job'[i]),
           \A v \in Workers :
             \/ worker'[v].current \in {worker[v].current, NoJob}
             \/ /\ job[worker'[v].current].status = "RUNNING"
                /\ job[worker'[v].current].worker = v
    PROVE  ExclusiveInv'
<1>1. /\ worker' \in [Workers -> WorkerRow]
      /\ \A i \in Jobs : job[i].report # NoToken => job[i].status \in Terminal
  BY TypeRows DEF ExclusiveInv, AnswerIsLatestAttempt, TypeOK
<1>2. \A i \in Jobs : /\ job'[i].status = "RUNNING" <=> job[i].status = "RUNNING"
                     /\ job'[i].report # NoToken => job'[i].status \in Terminal
  BY <1>1 DEF Kept, Terminal
<1>3. OneJobPerWorker'
  BY <1>2 DEF OneJobPerWorker, ExclusiveInv, Kept
<1>4. CurrentJobIsHeld'
  <2>1. SUFFICES ASSUME NEW v \in Workers, worker'[v].current # NoJob
                 PROVE  /\ job'[worker'[v].current].status = "RUNNING"
                        /\ job'[worker'[v].current].worker = v
    BY DEF CurrentJobIsHeld
  <2>2. worker'[v].current \in Jobs
    BY <1>1, <2>1 DEF WorkerRow
  <2>3. /\ job[worker'[v].current].status = "RUNNING"
        /\ job[worker'[v].current].worker = v
    BY <2>1 DEF ExclusiveInv, CurrentJobIsHeld
  <2>4. QED
    BY <1>2, <2>2, <2>3 DEF Kept
<1>5. LeaseIsLatestGrant'
  BY <1>2 DEF LeaseIsLatestGrant, ExclusiveInv, Kept, Tokens
<1>6. AnswerIsLatestAttempt'
  BY <1>2 DEF AnswerIsLatestAttempt, ExclusiveInv, Kept, Tokens
<1>7. QED
  BY <1>3, <1>4, <1>5, <1>6 DEF ExclusiveInv

\* The row of a lease that is held, and the report that ends it.
LEMMA HeldRow ==
    ASSUME ExclusiveInv, NEW t \in Tokens, NEW d \in Lags, Holds(t, d)
    PROVE  LET j == granted[t].job
           IN  /\ j \in Jobs /\ job[j] \in Row /\ job[j].status = "RUNNING"
               /\ job[j].token = t /\ job[j].worker = granted[t].worker
               /\ job[j].worker \in Workers /\ job[j].report = NoToken
               /\ granted[t] = [job |-> j, worker |-> job[j].worker,
                                attempt |-> job[j].attempt]
<1>1. granted[t] \in Grant /\ job \in [Jobs -> Row]
  BY TypeRows, GrantType DEF ExclusiveInv
<1>2. QED
  BY <1>1 DEF ExclusiveInv, LeaseIsLatestGrant, AnswerIsLatestAttempt, Holds,
              Grant, Terminal

LEMMA FinishExclusive ==
    ASSUME ExclusiveInv, TypeOK', NEW t \in Tokens, NEW d \in Lags,
           NEW status \in Terminal, NEW failure,
           Finish(t, d, status, failure), granted' = granted
    PROVE  ExclusiveInv'
<1> DEFINE j == granted[t].job
<1>1. /\ j \in Jobs /\ job[j] \in Row /\ job[j].status = "RUNNING"
      /\ job[j].token = t /\ job[j].worker = granted[t].worker
      /\ granted[t] = [job |-> j, worker |-> job[j].worker,
                       attempt |-> job[j].attempt]
  BY HeldRow DEF Finish
<1>2. /\ job \in [Jobs -> Row] /\ worker \in [Workers -> WorkerRow]
      /\ worker' \in [Workers -> WorkerRow]
  BY TypeRows DEF ExclusiveInv, TypeOK
<1>3. /\ \A i \in Jobs \ {j} : job'[i] = job[i]
      /\ job'[j] = Closed(job[j], t, status, failure)
  BY <1>1, <1>2 DEF Finish
<1>4. /\ job'[j].status = status /\ job'[j].report = t
      /\ job'[j].worker = job[j].worker /\ job'[j].attempt = job[j].attempt
  BY <1>1, <1>3 DEF Closed, WithoutLease, Row, JobRow
<1>5. status # "RUNNING"
  BY DEF Terminal
<1>6. OneJobPerWorker'
  BY <1>3, <1>4, <1>5 DEF OneJobPerWorker, ExclusiveInv
<1>7. CurrentJobIsHeld'
  <2>1. SUFFICES ASSUME NEW v \in Workers, worker'[v].current # NoJob
                 PROVE  /\ job'[worker'[v].current].status = "RUNNING"
                        /\ job'[worker'[v].current].worker = v
    BY DEF CurrentJobIsHeld
  <2>2. v # granted[t].worker /\ worker'[v] = worker[v]
    BY <1>2, <2>1 DEF Finish, Cleared, WorkerRow
  <2>3. /\ worker[v].current \in Jobs
        /\ job[worker[v].current].status = "RUNNING"
        /\ job[worker[v].current].worker = v
    BY <1>2, <2>1, <2>2 DEF ExclusiveInv, CurrentJobIsHeld, WorkerRow
  <2>4. QED
    BY <1>1, <1>3, <2>2, <2>3
<1>8. LeaseIsLatestGrant'
  BY <1>3, <1>4, <1>5 DEF LeaseIsLatestGrant, ExclusiveInv, Tokens
<1>9. AnswerIsLatestAttempt'
  BY <1>1, <1>3, <1>4 DEF AnswerIsLatestAttempt, ExclusiveInv, Tokens
<1>10. QED
  BY <1>6, <1>7, <1>8, <1>9 DEF ExclusiveInv

LEMMA InitExclusive == Init => ExclusiveInv
BY InitType DEF Init, ExclusiveInv, OneJobPerWorker, CurrentJobIsHeld,
   LeaseIsLatestGrant, AnswerIsLatestAttempt, AbsentJob, UnknownWorker

LEMMA ClaimExclusive ==
    ASSUME ExclusiveInv, TypeOK', NEW w \in Workers, NEW kinds \in Offers,
           NEW d \in Lags, Claim(w, kinds, d)
    PROVE  ExclusiveInv'
<1>1. Seen(w, kinds, d) \in [Workers -> WorkerRow]
  BY SeenType, TypeRows DEF ExclusiveInv
<1>2. CASE ClaimDeclined(w, kinds, d) \/ ClaimEmpty(w, kinds, d)
  <2>1. job' = Swept(d) /\ worker' = Seen(w, kinds, d) /\ granted' = granted
    BY <1>2 DEF ClaimDeclined, ClaimEmpty
  <2>2. [Seen(w, kinds, d) EXCEPT ![w].current = NoJob] = Seen(w, kinds, d)
    BY <1>1, SeenOthers DEF ExclusiveInv, WorkerRow
  <2>3. QED
    BY <2>1, <2>2, NoGrantExclusive
<1>3. ASSUME NEW j \in Jobs, ClaimHandedBack(w, kinds, d, j) PROVE ExclusiveInv'
  BY <1>3, NoGrantExclusive DEF ClaimHandedBack
<1>4. ASSUME NEW j \in Jobs, ClaimStarted(w, kinds, d, j) PROVE ExclusiveInv'
  BY <1>4, GrantExclusive
<1>5. QED
  BY <1>2, <1>3, <1>4 DEF Claim

LEMMA HeartbeatExclusive ==
    ASSUME ExclusiveInv, TypeOK', NEW t \in Tokens, NEW kinds \in Offers,
           NEW d \in Lags, Heartbeat(t, kinds, d)
    PROVE  ExclusiveInv'
<1> DEFINE j == granted[t].job
<1>1. /\ j \in Jobs /\ job[j].status = "RUNNING"
      /\ job[j].worker = granted[t].worker /\ granted[t].worker \in Workers
  BY HeldRow DEF Heartbeat
<1>2. job \in [Jobs -> Row] /\ worker \in [Workers -> WorkerRow]
  BY TypeRows DEF ExclusiveInv
<1>3. \A i \in Jobs : Kept(job[i], job'[i])
  BY <1>1, <1>2 DEF Heartbeat, Kept, Row, JobRow
<1>4. /\ \A v \in Workers \ {granted[t].worker} : worker'[v] = worker[v]
      /\ worker'[granted[t].worker].current = j
  BY <1>1, <1>2 DEF Heartbeat, Upserted, WorkerRow
<1>5. QED
  BY <1>1, <1>3, <1>4, KeptExclusive DEF Heartbeat

LEMMA NextExclusive == ExclusiveInv /\ [Next]_vars => ExclusiveInv'
<1> SUFFICES ASSUME ExclusiveInv, [Next]_vars PROVE ExclusiveInv'
  OBVIOUS
<1>0. /\ TypeOK'
      /\ job \in [Jobs -> Row] /\ worker \in [Workers -> WorkerRow]
  BY NextType, TypeRows DEF ExclusiveInv
<1>a. ASSUME job' = job PROVE \A i \in Jobs : Kept(job[i], job'[i])
  BY <1>a DEF Kept
<1>1. ASSUME NEW S \in SUBSET Jobs, Create(S) PROVE ExclusiveInv'
  <2>1. \A i \in Jobs : Kept(job[i], job'[i])
    BY <1>0, <1>1 DEF Create, Kept, Row, JobRow
  <2>2. QED
    BY <1>0, <1>1, <2>1, KeptExclusive DEF Create
<1>2. ASSUME NEW w \in Workers, NEW kinds \in Offers, NEW d \in Lags,
             IdleHeartbeat(w, kinds, d)
      PROVE  ExclusiveInv'
  <2>1. \A v \in Workers : worker'[v].current \in {worker[v].current, NoJob}
    BY <1>0, <1>2 DEF IdleHeartbeat, Upserted, WorkerRow
  <2>2. QED
    BY <1>0, <1>2, <1>a, <2>1, KeptExclusive DEF IdleHeartbeat
<1>3. ASSUME NEW t \in Tokens, NEW d \in Lags, Complete(t, d) PROVE ExclusiveInv'
  BY <1>0, <1>3, FinishExclusive DEF Complete, Terminal
<1>4. ASSUME NEW t \in Tokens, FailRead(t) PROVE ExclusiveInv'
  BY <1>0, <1>4, <1>a, KeptExclusive DEF FailRead
<1>5. ASSUME NEW f \in failing, NEW d \in Lags, FailWrite(f, d) PROVE ExclusiveInv'
  <2>1. f.token \in Tokens
    BY DEF ExclusiveInv, TypeOK
  <2>2. CASE Finish(f.token, d, "FAILED", f.kind)
    BY <1>0, <1>5, <2>1, <2>2, FinishExclusive DEF FailWrite, Terminal
  <2>3. CASE UNCHANGED <<job, worker>>
    BY <1>0, <1>5, <1>a, <2>3, KeptExclusive DEF FailWrite
  <2>4. QED
    BY <1>5, <2>2, <2>3 DEF FailWrite
<1>6. ASSUME NEW j \in Jobs, CancelRead(j) PROVE ExclusiveInv'
  BY <1>0, <1>6, <1>a, KeptExclusive DEF CancelRead
<1>7. ASSUME NEW j \in Jobs, NEW d \in Lags, CancelWrite(j, d) PROVE ExclusiveInv'
  <2>1. \A i \in Jobs : Kept(job[i], job'[i])
    <3>1. Kept(job[j], Cancelled(job[j], d))
      BY <1>0 DEF Cancelled, Kept, Row, JobRow
    <3>2. Kept(job[j], job[j])
      BY DEF Kept
    <3>3. \A i \in Jobs \ {j} : job'[i] = job[i]
      BY <1>0, <1>7 DEF CancelWrite
    <3>4. job'[j] \in {job[j], Cancelled(job[j], d)}
      BY <1>0, <1>7 DEF CancelWrite
    <3>5. QED
      BY <3>1, <3>2, <3>3, <3>4 DEF Kept
  <2>2. QED
    BY <1>0, <1>7, <2>1, KeptExclusive DEF CancelWrite
<1>8. ASSUME NEW d \in Lags, ReadExpired(d) PROVE ExclusiveInv'
  BY <1>0, <1>8, <1>a, KeptExclusive DEF ReadExpired
<1>9. ASSUME NEW d \in Lags, RecoverExpired(d) PROVE ExclusiveInv'
  <2>1. PICK late \in {{}, expiredRead} :
            worker' = Cleared(ExpiredWorkers(d) \cup late)
    BY <1>9 DEF RecoverExpired
  <2>2. QED
    BY <1>0, <1>9, <2>1, SweepExclusive DEF RecoverExpired
<1>10. ASSUME NEW w \in Switchable, NEW on \in BOOLEAN, SetEnabled(w, on)
       PROVE  ExclusiveInv'
  <2>1. \A v \in Workers : worker'[v].current = worker[v].current
    BY <1>0, <1>10 DEF SetEnabled, WorkerRow
  <2>2. QED
    BY <1>0, <1>10, <1>a, <2>1, KeptExclusive DEF SetEnabled
<1>11. ASSUME NEW w \in Workers, NEW envelope \in Capacities, SetCapacity(w, envelope)
       PROVE  ExclusiveInv'
  <2>1. \A v \in Workers : worker'[v].current = worker[v].current
    BY <1>0, <1>11 DEF SetCapacity, WorkerRow
  <2>2. QED
    BY <1>0, <1>11, <1>a, <2>1, KeptExclusive DEF SetCapacity
<1>12. ASSUME Tick PROVE ExclusiveInv'
  <2>1. \A i \in Jobs : Kept(job[i], job'[i])
    BY <1>0, <1>12 DEF Tick, Aged, Kept, Row, JobRow
  <2>2. \A v \in Workers : worker'[v].current = worker[v].current
    BY <1>0, <1>12 DEF Tick, WorkerRow
  <2>3. QED
    BY <1>0, <1>12, <2>1, <2>2, KeptExclusive DEF Tick
<1>13. CASE UNCHANGED vars
  BY <1>0, <1>13, <1>a, KeptExclusive DEF vars
<1>14. QED
  BY <1>0, <1>1, <1>2, <1>3, <1>4, <1>5, <1>6, <1>7, <1>8, <1>9, <1>10, <1>11,
     <1>12, <1>13, ClaimExclusive, HeartbeatExclusive DEF Next

LEMMA Exclusive == Spec => []ExclusiveInv
<1>1. QED
  BY InitExclusive, NextExclusive, PTL DEF Spec

\* "Each machine runs at most one job at a time": no two unexpired or expired
\* leases are ever in the hands of the same worker, for any number of machines.
THEOREM OneJobPerWorkerHolds == Spec => []OneJobPerWorker
<1>1. ExclusiveInv => OneJobPerWorker
  BY DEF ExclusiveInv
<1>2. QED
  BY <1>1, Exclusive, PTL

\* The machines table never shows a job its machine does not hold a lease of.
THEOREM CurrentJobIsHeldHolds == Spec => []CurrentJobIsHeld
<1>1. ExclusiveInv => CurrentJobIsHeld
  BY DEF ExclusiveInv
<1>2. QED
  BY <1>1, Exclusive, PTL

\* Only the latest grant of a job is a lease, and only the latest attempt
\* answers, whatever old tokens workers send.
THEOREM LatestAttemptOnly == Spec => [](LeaseIsLatestGrant /\ AnswerIsLatestAttempt)
<1>1. ExclusiveInv => LeaseIsLatestGrant /\ AnswerIsLatestAttempt
  BY DEF ExclusiveInv
<1>2. QED
  BY <1>1, Exclusive, PTL

-------------------------------------------------------------------------------
(***************************************************************************)
(* The life of one row.  Whatever a step does to the database, each job    *)
(* goes through at most one of these moves; what is proved of one row, and *)
(* the refinement of JobLifecycle, follows from the list.                  *)
(***************************************************************************)
Same(a, b) ==
    b.attempt = a.attempt /\ b.cancelled = a.cancelled /\ b.report = a.report

Retriable(a) ==
    a.status = "RUNNING" /\ ~a.cancelled /\ a.attempt < MaxAttempts

Created(a, b) ==
    /\ a.status = "absent" /\ b.status = "QUEUED"
    /\ Same(a, b) /\ b.failure = a.failure

Requeued(a, b) ==
    Retriable(a) /\ b.status = "QUEUED" /\ Same(a, b) /\ b.failure = "none"

WrittenOff(a, b) ==
    /\ a.status = "RUNNING" /\ b.status = "FAILED" /\ Same(a, b)
    /\ \/ a.cancelled /\ b.failure = "CANCELLED_BY_USER"
       \/ ~a.cancelled /\ a.attempt >= MaxAttempts /\ b.failure = "WORKER_LOST"

Attempted(a, b) ==
    /\ a.status = "QUEUED" \/ Retriable(a)
    /\ b.status = "RUNNING" /\ b.attempt = a.attempt + 1
    /\ b.cancelled = a.cancelled /\ b.failure = "none" /\ b.report = NoToken

Answered(a, b) ==
    /\ a.status = "RUNNING" /\ b.report = a.token
    /\ b.attempt = a.attempt /\ b.cancelled = a.cancelled
    /\ \/ b.status = "COMPLETED" /\ ~a.cancelled /\ b.failure = "none"
       \/ b.status = "FAILED" /\ b.failure = "EXECUTION_ERROR"
       \/ b.status = "FAILED" /\ b.failure = "CANCELLED_BY_USER" /\ a.cancelled

Renewed(a, b) ==
    /\ a.status = "RUNNING" /\ b.status = "RUNNING"
    /\ Same(a, b) /\ b.failure = a.failure

Withdrawn(a, b) ==
    /\ a.status = "QUEUED" /\ b.status = "FAILED"
    /\ b.cancelled /\ b.failure = "CANCELLED_BY_USER"
    /\ b.attempt = a.attempt /\ b.report = a.report

ToldToStop(a, b) ==
    /\ a.status = "RUNNING" /\ b.status = "RUNNING" /\ b.cancelled
    /\ b.attempt = a.attempt /\ b.failure = a.failure /\ b.report = a.report

Moved(a, b) ==
    \/ Created(a, b) \/ Requeued(a, b) \/ WrittenOff(a, b) \/ Attempted(a, b)
    \/ Answered(a, b) \/ Renewed(a, b) \/ Withdrawn(a, b) \/ ToldToStop(a, b)

\* What a row's columns say together.
RowInv(r) ==
    /\ r.status = "absent" => r.attempt = 0 /\ ~r.cancelled /\ r.failure = "none"
    /\ r.status = "QUEUED" =>
          r.attempt < MaxAttempts /\ ~r.cancelled /\ r.failure = "none"
    /\ r.status = "RUNNING" => r.failure = "none"
    /\ r.status = "COMPLETED" => ~r.cancelled /\ r.failure = "none"
    /\ r.failure = "CANCELLED_BY_USER" => r.cancelled
    /\ r.failure = "WORKER_LOST" => r.attempt = MaxAttempts /\ ~r.cancelled
    /\ r.attempt <= MaxAttempts

\* A failure report that became a cancellation saw the request recorded.
FailingInv ==
    \A f \in failing :
        f.kind = "CANCELLED_BY_USER" => job[granted[f.token].job].cancelled

OutcomeInv ==
    /\ ExclusiveInv
    /\ FailingInv
    /\ \A j \in Jobs : RowInv(job[j])

LEMMA MovedRow ==
    ASSUME NEW a \in Row, NEW b \in Row, RowInv(a), Moved(a, b) PROVE RowInv(b)
<1>1. a.attempt \in Nat /\ b.attempt \in Nat /\ MaxAttempts \in Nat /\ MaxAttempts > 0
  BY QueueAssumption DEF Row, JobRow
<1>2. QED
  BY <1>1 DEF Moved, RowInv, Created, Requeued, WrittenOff, Attempted, Answered,
              Renewed, Withdrawn, ToldToStop, Same, Retriable

LEMMA RecoveredMoves ==
    ASSUME NEW a \in Row, a.status = "RUNNING"
    PROVE  /\ Recovered(a).status \in {"QUEUED", "FAILED"}
           /\ Recovered(a).status = "QUEUED" => Requeued(a, Recovered(a))
           /\ Recovered(a).status = "FAILED" => WrittenOff(a, Recovered(a))
<1>1. a.attempt \in Nat /\ MaxAttempts \in Nat
  BY QueueAssumption DEF Row, JobRow
<1>2. QED
  BY <1>1 DEF Recovered, WithoutLease, Requeued, WrittenOff, Same, Retriable,
              Row, JobRow

LEMMA SweptMoves ==
    ASSUME job \in [Jobs -> Row], NEW d, NEW i \in Jobs
    PROVE  Swept(d)[i] = job[i] \/ Moved(job[i], Swept(d)[i])
BY RecoveredMoves DEF Swept, Expired, Moved

\* The row a claim starts was queued, or its sweep has just queued it again.
LEMMA StartedMoves ==
    ASSUME job \in [Jobs -> Row], NEW d, NEW j \in Jobs, NEW w, NEW t, NEW e,
           Swept(d)[j].status = "QUEUED"
    PROVE  Moved(job[j], Started(Swept(d)[j], w, t, e))
<1> DEFINE s == Swept(d)[j]
           b == Started(s, w, t, e)
<1>1. s \in Row
  BY SweptType
<1>2. /\ b.status = "RUNNING" /\ b.attempt = s.attempt + 1
      /\ b.cancelled = s.cancelled /\ b.failure = "none" /\ b.report = NoToken
  BY <1>1 DEF Started, Row, JobRow
<1>3. /\ s.attempt = job[j].attempt /\ s.cancelled = job[j].cancelled
      /\ job[j].status = "QUEUED" \/ Retriable(job[j])
  BY RecoveredMoves DEF Swept, Expired, Requeued, Same, Retriable
<1> HIDE DEF b, s
<1>4. Attempted(job[j], b)
  BY <1>2, <1>3 DEF Attempted
<1>5. QED
  BY <1>4 DEF Moved, b, s

LEMMA ClosedMoves ==
    ASSUME NEW a \in Row, a.status = "RUNNING", NEW status, NEW failure,
           \/ status = "COMPLETED" /\ ~a.cancelled /\ failure = "none"
           \/ status = "FAILED" /\ failure = "EXECUTION_ERROR"
           \/ status = "FAILED" /\ failure = "CANCELLED_BY_USER" /\ a.cancelled
    PROVE  Moved(a, Closed(a, a.token, status, failure))
<1> DEFINE b == Closed(a, a.token, status, failure)
<1>1. /\ b.status = status /\ b.failure = failure /\ b.report = a.token
      /\ b.attempt = a.attempt /\ b.cancelled = a.cancelled
  BY DEF Closed, WithoutLease, Row, JobRow
<1> HIDE DEF b
<1>2. Answered(a, b)
  BY <1>1 DEF Answered
<1>3. QED
  BY <1>2 DEF Moved, b

LEMMA FinishMoves ==
    ASSUME ExclusiveInv, NEW t \in Tokens, NEW d \in Lags, NEW status, NEW failure,
           Finish(t, d, status, failure),
           LET a == job[granted[t].job]
           IN  \/ status = "COMPLETED" /\ ~a.cancelled /\ failure = "none"
               \/ status = "FAILED" /\ failure = "EXECUTION_ERROR"
               \/ status = "FAILED" /\ failure = "CANCELLED_BY_USER" /\ a.cancelled,
           NEW i \in Jobs
    PROVE  job'[i] = job[i] \/ Moved(job[i], job'[i])
<1> DEFINE j == granted[t].job
<1>1. /\ j \in Jobs /\ job[j] \in Row /\ job[j].status = "RUNNING"
      /\ job[j].token = t
  BY HeldRow DEF Finish
<1>2. job \in [Jobs -> Row]
  BY TypeRows DEF ExclusiveInv
<1>3. /\ i # j => job'[i] = job[i]
      /\ job'[j] = Closed(job[j], job[j].token, status, failure)
  BY <1>1, <1>2 DEF Finish
<1>4. Moved(job[j], Closed(job[j], job[j].token, status, failure))
  BY <1>1, ClosedMoves
<1>5. QED
  BY <1>3, <1>4

\* Every step of the queue moves each job by one of the moves, or not at all.
LEMMA NextMoves ==
    ASSUME OutcomeInv, [Next]_vars, NEW i \in Jobs
    PROVE  job'[i] = job[i] \/ Moved(job[i], job'[i])
<1>0. ExclusiveInv /\ job \in [Jobs -> Row] /\ job[i] \in Row
  BY TypeRows DEF OutcomeInv, ExclusiveInv
<1>1. ASSUME NEW S \in SUBSET Jobs, Create(S)
      PROVE  job'[i] = job[i] \/ Moved(job[i], job'[i])
  <2>1. i \in S => job'[i] = [job[i] EXCEPT !.status = "QUEUED"]
                 /\ job[i].status = "absent"
    BY <1>1 DEF Create
  <2>2. i \in S => Created(job[i], job'[i])
    BY <1>0, <2>1 DEF Created, Same, Row, JobRow
  <2>3. QED
    BY <1>1, <2>2 DEF Create, Moved
<1>2. ASSUME NEW w \in Workers, NEW kinds \in Offers, NEW d \in Lags,
             Claim(w, kinds, d)
      PROVE  job'[i] = job[i] \/ Moved(job[i], job'[i])
  <2>1. CASE job' = Swept(d)
    BY <1>0, <2>1, SweptMoves
  <2>2. ASSUME NEW j \in Jobs, ClaimStarted(w, kinds, d, j)
        PROVE  job'[i] = job[i] \/ Moved(job[i], job'[i])
    <3>1. Swept(d)[j].status = "QUEUED"
      BY <2>2 DEF ClaimStarted, Chosen, Offer
    <3>2. job' = [Swept(d) EXCEPT ![j] = Started(@, w, Len(granted) + 1, d)]
      BY <2>2 DEF ClaimStarted
    <3>3. Swept(d) \in [Jobs -> Row]
      BY <1>0, SweptType
    <3>4. CASE i = j
      BY <1>0, <3>1, <3>2, <3>3, <3>4, StartedMoves
    <3>5. CASE i # j
      BY <1>0, <3>2, <3>3, <3>5, SweptMoves
    <3>6. QED
      BY <3>4, <3>5
  <2>3. QED
    BY <1>2, <2>1, <2>2
    DEF Claim, ClaimDeclined, ClaimEmpty, ClaimHandedBack
<1>3. ASSUME NEW t \in Tokens, NEW kinds \in Offers, NEW d \in Lags,
             Heartbeat(t, kinds, d)
      PROVE  job'[i] = job[i] \/ Moved(job[i], job'[i])
  <2>1. granted[t].job \in Jobs /\ job[granted[t].job].status = "RUNNING"
    BY <1>0, <1>3, HeldRow DEF Heartbeat
  <2>2. i = granted[t].job => Renewed(job[i], job'[i])
    BY <1>0, <1>3, <2>1 DEF Heartbeat, Renewed, Same, Row, JobRow
  <2>3. QED
    BY <1>0, <1>3, <2>1, <2>2 DEF Heartbeat, Moved
<1>4. ASSUME NEW t \in Tokens, NEW d \in Lags, Complete(t, d)
      PROVE  job'[i] = job[i] \/ Moved(job[i], job'[i])
  BY <1>0, <1>4, FinishMoves DEF Complete
<1>5. ASSUME NEW f \in failing, NEW d \in Lags, FailWrite(f, d)
      PROVE  job'[i] = job[i] \/ Moved(job[i], job'[i])
  <2>1. /\ f.token \in Tokens
        /\ f.kind \in {"EXECUTION_ERROR", "CANCELLED_BY_USER"}
        /\ f.kind = "CANCELLED_BY_USER" => job[granted[f.token].job].cancelled
    BY DEF OutcomeInv, FailingInv, ExclusiveInv, TypeOK
  <2>2. CASE Finish(f.token, d, "FAILED", f.kind)
    BY <1>0, <2>1, <2>2, FinishMoves
  <2>3. QED
    BY <1>5, <2>2 DEF FailWrite
<1>6. ASSUME NEW j \in Jobs, NEW d \in Lags, CancelWrite(j, d)
      PROVE  job'[i] = job[i] \/ Moved(job[i], job'[i])
  <2>1. job'[i] = job[i] \/ (job[i].status \in Unfinished
                             /\ job'[i] = Cancelled(job[i], d))
    BY <1>0, <1>6 DEF CancelWrite, ExclusiveInv, TypeOK
  <2>2. ASSUME job[i].status \in Unfinished PROVE Moved(job[i], Cancelled(job[i], d))
    <3>1. CASE job[i].status = "QUEUED"
      BY <1>0, <3>1 DEF Cancelled, Moved, Withdrawn, Row, JobRow
    <3>2. CASE job[i].status = "RUNNING"
      BY <1>0, <3>2 DEF Cancelled, Moved, ToldToStop, Row, JobRow
    <3>3. QED
      BY <2>2, <3>1, <3>2 DEF Unfinished
  <2>3. QED
    BY <2>1, <2>2
<1>7. ASSUME NEW d \in Lags, RecoverExpired(d)
      PROVE  job'[i] = job[i] \/ Moved(job[i], job'[i])
  BY <1>0, <1>7, SweptMoves DEF RecoverExpired
<1>8. ASSUME Tick PROVE job'[i] = job[i] \/ Moved(job[i], job'[i])
  <2>1. job'[i] = Aged(job[i])
    BY <1>8 DEF Tick
  <2>2. Aged(job[i]) = job[i] \/ Renewed(job[i], Aged(job[i]))
    BY <1>0 DEF Aged, Renewed, Same, Row, JobRow
  <2>3. QED
    BY <2>1, <2>2 DEF Moved
<1>9. CASE UNCHANGED job
  BY <1>9
<1>10. QED
  BY <1>1, <1>2, <1>3, <1>4, <1>5, <1>6, <1>7, <1>8, <1>9
  DEF Next, vars, IdleHeartbeat, FailRead, CancelRead, ReadExpired, SetEnabled,
      SetCapacity

\* Leases are only ever added to the history.
LEMMA GrantsGrow ==
    ASSUME ExclusiveInv, [Next]_vars
    PROVE  /\ Tokens \subseteq Tokens'
           /\ \A t \in Tokens : granted'[t] = granted[t]
<1>1. granted \in Seq(Grant)
  BY TypeRows DEF ExclusiveInv
<1>2. ASSUME NEW w \in Workers, NEW kinds \in Offers, NEW d \in Lags,
             NEW j \in Jobs, ClaimStarted(w, kinds, d, j)
      PROVE  \E g \in Grant : granted' = Append(granted, g)
  <2> DEFINE g == [job |-> j, worker |-> w, attempt |-> job[j].attempt + 1]
  <2>1. job[j].attempt + 1 \in Nat
    BY TypeRows DEF ExclusiveInv, Row, JobRow
  <2>2. g \in Grant
    BY <2>1 DEF Grant
  <2>3. granted' = Append(granted, g)
    BY <1>2 DEF ClaimStarted
  <2>4. QED
    BY <2>2, <2>3
<1>3. (\E g \in Grant : granted' = Append(granted, g)) \/ granted' = granted
  <2>1. ASSUME NEW w \in Workers, NEW kinds \in Offers, NEW d \in Lags, Claim(w, kinds, d)
        PROVE  (\E g \in Grant : granted' = Append(granted, g)) \/ granted' = granted
    BY <1>2, <2>1 DEF Claim, ClaimDeclined, ClaimEmpty, ClaimHandedBack
  <2>2. ASSUME \/ \E w \in Workers, kinds \in Offers, d \in Lags : IdleHeartbeat(w, kinds, d)
               \/ \E t \in Tokens, kinds \in Offers, d \in Lags : Heartbeat(t, kinds, d)
               \/ \E t \in Tokens, d \in Lags : Complete(t, d)
               \/ \E t \in Tokens : FailRead(t)
               \/ \E f \in failing, d \in Lags : FailWrite(f, d)
        PROVE  granted' = granted
    BY <2>2 DEF IdleHeartbeat, Heartbeat, Complete, FailRead, FailWrite
  <2>3. ASSUME \/ \E S \in SUBSET Jobs : Create(S)
               \/ \E j \in Jobs : CancelRead(j)
               \/ \E j \in Jobs, d \in Lags : CancelWrite(j, d)
               \/ \E d \in Lags : ReadExpired(d) \/ RecoverExpired(d)
               \/ \E w \in Switchable, on \in BOOLEAN : SetEnabled(w, on)
               \/ \E w \in Workers, envelope \in Capacities : SetCapacity(w, envelope)
               \/ Tick \/ UNCHANGED vars
        PROVE  granted' = granted
    BY <2>3 DEF Create, CancelRead, CancelWrite, ReadExpired, RecoverExpired, SetEnabled,
                SetCapacity, Tick, vars
  <2>4. QED
    BY <2>1, <2>2, <2>3 DEF Next
<1>4. QED
  BY <1>1, <1>3 DEF Tokens

LEMMA InitOutcome == Init => OutcomeInv
<1>1. MaxAttempts \in Nat /\ MaxAttempts > 0
  BY QueueAssumption
<1>2. QED
  BY <1>1, InitExclusive DEF Init, OutcomeInv, FailingInv, RowInv, AbsentJob

LEMMA NextOutcome == OutcomeInv /\ [Next]_vars => OutcomeInv'
<1> SUFFICES ASSUME OutcomeInv, [Next]_vars PROVE OutcomeInv'
  OBVIOUS
<1>1. ExclusiveInv /\ ExclusiveInv'
  BY NextExclusive DEF OutcomeInv
<1>2. job \in [Jobs -> Row] /\ job' \in [Jobs -> Row]
  BY <1>1 DEF ExclusiveInv, TypeOK, Row
<1>3. \A j \in Jobs : RowInv(job'[j])
  BY <1>2, NextMoves, MovedRow DEF OutcomeInv
<1>4. \A j \in Jobs : job[j].cancelled => job'[j].cancelled
  BY NextMoves DEF Moved, Created, Requeued, WrittenOff, Attempted, Answered,
     Renewed, Withdrawn, ToldToStop, Same
<1>5. \A f \in failing' \ failing : f.kind = "CANCELLED_BY_USER" =>
        f.token \in Tokens /\ job[granted[f.token].job].cancelled
  <2>1. ASSUME NEW t \in Tokens, FailRead(t), NEW f \in failing' \ failing,
               f.kind = "CANCELLED_BY_USER"
        PROVE  f.token \in Tokens /\ job[granted[f.token].job].cancelled
    BY <2>1 DEF FailRead
  <2>2. (\E t \in Tokens : FailRead(t)) \/ failing' \subseteq failing
    <3>1. ASSUME NEW w \in Workers, NEW kinds \in Offers, NEW d \in Lags,
                 Claim(w, kinds, d) \/ IdleHeartbeat(w, kinds, d)
          PROVE  failing' = failing
      BY <3>1 DEF Claim, ClaimDeclined, ClaimEmpty, ClaimHandedBack, ClaimStarted,
         IdleHeartbeat
    <3>2. ASSUME NEW f \in failing, NEW d \in Lags, FailWrite(f, d)
          PROVE  failing' \subseteq failing
      BY <3>2 DEF FailWrite
    <3>3. ASSUME NEW t \in Tokens, NEW kinds \in Offers, NEW d \in Lags,
                 Heartbeat(t, kinds, d)
          PROVE  failing' = failing
      BY <3>3 DEF Heartbeat
    <3>4. ASSUME NEW j \in Jobs, CancelRead(j) PROVE failing' = failing
      BY <3>4 DEF CancelRead
    <3>5. ASSUME NEW j \in Jobs, NEW d \in Lags, CancelWrite(j, d)
          PROVE  failing' = failing
      BY <3>5 DEF CancelWrite
    <3>6. ASSUME NEW d \in Lags, ReadExpired(d) \/ RecoverExpired(d)
          PROVE  failing' = failing
      BY <3>6 DEF ReadExpired, RecoverExpired
    <3>7. ASSUME NEW w \in Switchable, NEW on \in BOOLEAN, SetEnabled(w, on)
          PROVE  failing' = failing
      BY <3>7 DEF SetEnabled
    <3>8. ASSUME NEW w \in Workers, NEW envelope \in Capacities,
                 SetCapacity(w, envelope)
          PROVE  failing' = failing
      BY <3>8 DEF SetCapacity
    <3>9. ASSUME NEW S \in SUBSET Jobs, Create(S) PROVE failing' = failing
      BY <3>9 DEF Create
    <3>10. ASSUME Tick \/ UNCHANGED vars PROVE failing' = failing
      BY <3>10 DEF Tick, vars
    <3>11. ASSUME NEW t \in Tokens, NEW d \in Lags, Complete(t, d)
           PROVE  failing' = failing
      BY <3>11 DEF Complete
    <3>12. \/ \E t \in Tokens : FailRead(t)
           \/ \E f \in failing, d \in Lags : FailWrite(f, d)
           \/ failing' = failing
      BY <3>1, <3>3, <3>4, <3>5, <3>6, <3>7, <3>8, <3>9, <3>10, <3>11
      DEF Next
    <3>13. QED
      BY <3>2, <3>12
  <2>3. QED
    BY <2>1, <2>2
<1>6. FailingInv'
  <2>1. SUFFICES ASSUME NEW f \in failing', f.kind = "CANCELLED_BY_USER"
                 PROVE  job'[granted'[f.token].job].cancelled
    BY DEF FailingInv
  <2>2. f.token \in Tokens /\ job[granted[f.token].job].cancelled
    BY <1>1, <1>5, <2>1 DEF OutcomeInv, FailingInv, ExclusiveInv, TypeOK
  <2>3. granted'[f.token] = granted[f.token] /\ granted[f.token].job \in Jobs
    BY <1>1, <2>2, GrantsGrow, GrantType, TypeRows DEF ExclusiveInv, Grant
  <2>4. QED
    BY <1>4, <2>2, <2>3
<1>7. QED
  BY <1>1, <1>3, <1>6 DEF OutcomeInv

LEMMA Outcome == Spec => []OutcomeInv
<1>1. QED
  BY InitOutcome, NextOutcome, PTL DEF Spec

\* A recorded cancellation is never overtaken by a completion or a requeue, and
\* only a job out of attempts is written off as lost.
THEOREM CancellationWinsHolds == Spec => []CancellationWins
<1>1. OutcomeInv => CancellationWins
  <2>1. SUFFICES ASSUME OutcomeInv, NEW j \in Jobs
                 PROVE  /\ job[j].cancelled => job[j].status \in {"RUNNING", "FAILED"}
                        /\ job[j].failure = "CANCELLED_BY_USER" => job[j].cancelled
                        /\ job[j].failure = "WORKER_LOST" =>
                              job[j].attempt = MaxAttempts /\ ~job[j].cancelled
    BY DEF CancellationWins
  <2>2. job[j] \in JobRow /\ RowInv(job[j])
    BY <2>1 DEF OutcomeInv, ExclusiveInv, TypeOK
  <2>3. QED
    BY <2>2 DEF RowInv, JobRow, Unfinished, Terminal
<1>2. QED
  BY <1>1, Outcome, PTL

\* No request, sweep or late report changes a finished job.
THEOREM TerminalIsFinalHolds == Spec => TerminalIsFinal
<1>1. OutcomeInv /\ [Next]_vars =>
        [\A j \in Jobs : job[j].status \in Terminal => job'[j] = job[j]]_vars
  <2>1. SUFFICES ASSUME OutcomeInv, [Next]_vars, NEW j \in Jobs,
                        job[j].status \in Terminal
                 PROVE  job'[j] = job[j]
    OBVIOUS
  <2>2. QED
    BY <2>1, NextMoves DEF Moved, Created, Requeued, WrittenOff, Attempted,
       Answered, Renewed, Withdrawn, ToldToStop, Retriable, Terminal
<1>2. QED
  BY <1>1, Outcome, PTL DEF Spec, TerminalIsFinal

\* A job that was told to stop is never attempted again.
THEOREM CancelledNeverRestartsHolds == Spec => CancelledNeverRestarts
<1>1. OutcomeInv /\ [Next]_vars =>
        [\A j \in Jobs : job[j].cancelled =>
            job'[j].cancelled /\ job'[j].attempt = job[j].attempt]_vars
  <2>1. SUFFICES ASSUME OutcomeInv, [Next]_vars, NEW j \in Jobs, job[j].cancelled
                 PROVE  job'[j].cancelled /\ job'[j].attempt = job[j].attempt
    OBVIOUS
  <2>2. RowInv(job[j])
    BY <2>1 DEF OutcomeInv
  <2>3. QED
    BY <2>1, <2>2, NextMoves DEF Moved, Created, Requeued, WrittenOff, Attempted,
       Answered, Renewed, Withdrawn, ToldToStop, Retriable, Same, RowInv
<1>2. QED
  BY <1>1, Outcome, PTL DEF Spec, CancelledNeverRestarts

-------------------------------------------------------------------------------
(***************************************************************************)
(* Attempts are counted: a job's attempt number is the number of leases    *)
(* ever granted for it.                                                    *)
(***************************************************************************)

\* A step grants one lease and counts it, or grants none and counts nothing.
LEMMA AttemptStep ==
    ASSUME ExclusiveInv, [Next]_vars
    PROVE  \/ /\ granted' = granted
              /\ \A i \in Jobs : job'[i].attempt = job[i].attempt
           \/ \E j \in Jobs, g \in Grant :
              /\ granted' = Append(granted, g) /\ g.job = j
              /\ job'[j].attempt = job[j].attempt + 1
              /\ \A i \in Jobs \ {j} : job'[i].attempt = job[i].attempt
<1>1. job \in [Jobs -> Row]
  BY TypeRows DEF ExclusiveInv
<1>2. \A d : \A i \in Jobs : Swept(d)[i].attempt = job[i].attempt
  BY <1>1 DEF Swept, Recovered, WithoutLease, Row, JobRow
<1>3. ASSUME NEW w \in Workers, NEW kinds \in Offers, NEW d \in Lags,
             NEW j \in Jobs, ClaimStarted(w, kinds, d, j)
      PROVE  \E g \in Grant :
              /\ granted' = Append(granted, g) /\ g.job = j
              /\ job'[j].attempt = job[j].attempt + 1
              /\ \A i \in Jobs \ {j} : job'[i].attempt = job[i].attempt
  <2> DEFINE g == [job |-> j, worker |-> w, attempt |-> job[j].attempt + 1]
  <2>1. g \in Grant /\ g.job = j /\ granted' = Append(granted, g)
    BY <1>1, <1>3 DEF ClaimStarted, Grant, Row, JobRow
  <2>2. Swept(d) \in [Jobs -> Row] /\ Swept(d)[j] \in JobRow
    BY <1>1, SweptType DEF Row
  <2>3. \A t : Started(Swept(d)[j], w, t, d).attempt = Swept(d)[j].attempt + 1
    BY <2>2 DEF Started, JobRow
  <2>4. /\ job'[j].attempt = job[j].attempt + 1
        /\ \A i \in Jobs \ {j} : job'[i].attempt = job[i].attempt
    BY <1>2, <1>3, <2>2, <2>3 DEF ClaimStarted
  <2>5. QED
    BY <2>1, <2>4
<1>4. ASSUME NEW t \in Tokens, NEW d \in Lags, NEW status, NEW failure,
             Finish(t, d, status, failure)
      PROVE  \A i \in Jobs : job'[i].attempt = job[i].attempt
  BY <1>1, <1>4 DEF Finish, Closed, WithoutLease, Row, JobRow
<1>5. ASSUME NEW f \in failing, NEW d \in Lags, FailWrite(f, d)
      PROVE  \A i \in Jobs : job'[i].attempt = job[i].attempt
  <2>1. f.token \in Tokens
    BY DEF ExclusiveInv, TypeOK
  <2>2. QED
    BY <1>4, <1>5, <2>1 DEF FailWrite
<1>6. ASSUME NEW S \in SUBSET Jobs, Create(S)
      PROVE  \A i \in Jobs : job'[i].attempt = job[i].attempt
  BY <1>1, <1>6 DEF Create, Row, JobRow
<1>7. ASSUME NEW t \in Tokens, NEW kinds \in Offers, NEW d \in Lags,
             Heartbeat(t, kinds, d)
      PROVE  \A i \in Jobs : job'[i].attempt = job[i].attempt
  BY <1>1, <1>7 DEF Heartbeat, Row, JobRow
<1>8. ASSUME NEW j \in Jobs, NEW d \in Lags, CancelWrite(j, d)
      PROVE  \A i \in Jobs : job'[i].attempt = job[i].attempt
  BY <1>1, <1>8 DEF CancelWrite, Cancelled, Row, JobRow
<1>9. ASSUME Tick PROVE \A i \in Jobs : job'[i].attempt = job[i].attempt
  BY <1>1, <1>9 DEF Tick, Aged, Row, JobRow
<1>10. ASSUME NEW w \in Workers, NEW kinds \in Offers, NEW d \in Lags,
              Claim(w, kinds, d),
              ~ \E j \in Jobs : ClaimStarted(w, kinds, d, j)
       PROVE  granted' = granted /\ \A i \in Jobs : job'[i].attempt = job[i].attempt
  BY <1>2, <1>10 DEF Claim, ClaimDeclined, ClaimEmpty, ClaimHandedBack
<1>11. ASSUME NEW t \in Tokens, NEW d \in Lags, Complete(t, d)
       PROVE  \A i \in Jobs : job'[i].attempt = job[i].attempt
  BY <1>4, <1>11 DEF Complete
<1>12. ASSUME NEW d \in Lags, RecoverExpired(d)
       PROVE  \A i \in Jobs : job'[i].attempt = job[i].attempt
  BY <1>2, <1>12 DEF RecoverExpired
<1>13. CASE \E w \in Workers, kinds \in Offers, d \in Lags : Claim(w, kinds, d)
  BY <1>3, <1>10, <1>13
<1>14. CASE granted' = granted /\ \A i \in Jobs : job'[i].attempt = job[i].attempt
  BY <1>14
<1>15. QED
  BY <1>5, <1>6, <1>7, <1>8, <1>9, <1>11, <1>12, <1>13, <1>14
  DEF Next, vars, Create, Heartbeat, Complete, FailWrite, CancelWrite, Tick,
      RecoverExpired, IdleHeartbeat, FailRead, CancelRead, ReadExpired,
      SetEnabled, SetCapacity

CountInv ==
    \A j \in Jobs : IsFiniteSet(Grants(j)) /\ job[j].attempt = Cardinality(Grants(j))

LEMMA InitCount == Init => CountInv
<1> SUFFICES ASSUME Init, NEW j \in Jobs
             PROVE  IsFiniteSet(Grants(j)) /\ job[j].attempt = Cardinality(Grants(j))
  BY DEF CountInv
<1>1. Grants(j) = {} /\ job[j].attempt = 0
  BY DEF Init, Grants, Tokens, AbsentJob
<1>2. QED
  BY <1>1, FS_EmptySet

LEMMA NextCount ==
    ExclusiveInv /\ CountInv /\ [Next]_vars => CountInv'
<1> SUFFICES ASSUME ExclusiveInv, CountInv, [Next]_vars PROVE CountInv'
  OBVIOUS
<1>1. CASE /\ granted' = granted
           /\ \A i \in Jobs : job'[i].attempt = job[i].attempt
  BY <1>1 DEF CountInv, Grants, Tokens
<1>2. ASSUME NEW j \in Jobs, NEW g \in Grant,
             granted' = Append(granted, g), g.job = j,
             job'[j].attempt = job[j].attempt + 1,
             \A i \in Jobs \ {j} : job'[i].attempt = job[i].attempt
      PROVE  CountInv'
  <2> DEFINE n == Len(granted) + 1
  <2>1. granted \in Seq(Grant)
    BY TypeRows DEF ExclusiveInv
  <2>2. /\ Tokens' = Tokens \cup {n} /\ n \notin Tokens
        /\ granted'[n] = g /\ \A t \in Tokens : granted'[t] = granted[t]
    BY <1>2, <2>1 DEF Tokens
  <2> HIDE DEF n
  <2>3. \A i \in Jobs \ {j} : Grants(i)' = Grants(i)
    BY <1>2, <2>2 DEF Grants
  <2>4. Grants(j)' = Grants(j) \cup {n} /\ n \notin Grants(j)
    BY <1>2, <2>2 DEF Grants
  <2>5. IsFiniteSet(Grants(j)') /\ Cardinality(Grants(j)') = Cardinality(Grants(j)) + 1
    BY <2>4, FS_AddElement DEF CountInv
  <2>6. QED
    BY <1>2, <2>3, <2>5 DEF CountInv
<1>3. QED
  BY <1>1, <1>2, AttemptStep

\* A job is attempted at most MaxAttempts times, counted by the leases granted,
\* and never waits in the queue without an attempt left.
THEOREM AttemptsAreCountedHolds == Spec => []AttemptsAreCounted
<1>1. Init => OutcomeInv /\ CountInv
  BY InitOutcome, InitCount
<1>2. OutcomeInv /\ CountInv /\ [Next]_vars => OutcomeInv' /\ CountInv'
  BY NextOutcome, NextCount DEF OutcomeInv
<1>3. OutcomeInv /\ CountInv => AttemptsAreCounted
  BY DEF OutcomeInv, RowInv, CountInv, AttemptsAreCounted
<1>4. QED
  BY <1>1, <1>2, <1>3, PTL DEF Spec

-------------------------------------------------------------------------------
(***************************************************************************)
(* The queue implements JobLifecycle: each move of a row is a step of the  *)
(* abstract life of its job, or no step.                                   *)
(***************************************************************************)
AnswerOf(j) == IF job[j].report = NoToken THEN 0 ELSE granted[job[j].report].attempt

LifeOf(j) == [phase |-> Phase[job[j].status], tries |-> job[j].attempt,
              asked |-> job[j].cancelled, answer |-> AnswerOf(j)]

LEMMA AnswerAttempt ==
    ASSUME ExclusiveInv, NEW j \in Jobs, job[j].report # NoToken
    PROVE  granted[job[j].report].attempt = job[j].attempt
<1>1. granted[job[j].report] =
        [job |-> j, worker |-> job[j].worker, attempt |-> job[j].attempt]
  BY DEF ExclusiveInv, AnswerIsLatestAttempt
<1>2. QED
  BY <1>1

LEMMA LeaseAttempt ==
    ASSUME ExclusiveInv, NEW j \in Jobs, job[j].status = "RUNNING"
    PROVE  job[j].token \in Tokens /\ granted[job[j].token].attempt = job[j].attempt
<1>1. /\ job[j].token \in Tokens
      /\ granted[job[j].token] =
           [job |-> j, worker |-> job[j].worker, attempt |-> job[j].attempt]
  BY DEF ExclusiveInv, LeaseIsLatestGrant
<1>2. QED
  BY <1>1

LifeInv == \A j \in Jobs : LifeOf(j) \in Lifecycle!Life

LEMMA LifeType == OutcomeInv => LifeInv
<1> SUFFICES ASSUME OutcomeInv, NEW j \in Jobs PROVE LifeOf(j) \in Lifecycle!Life
  BY DEF LifeInv
<1>1. /\ job[j] \in JobRow /\ RowInv(job[j])
      /\ job[j].report # NoToken => granted[job[j].report].attempt = job[j].attempt
  <2>1. ExclusiveInv /\ TypeOK /\ RowInv(job[j])
    BY DEF OutcomeInv, ExclusiveInv
  <2>2. job[j] \in JobRow
    BY <2>1 DEF TypeOK
  <2>3. QED
    BY <2>1, <2>2, AnswerAttempt
<1>2. Phase[job[j].status] \in Lifecycle!Phases
  BY <1>1 DEF Phase, JobRow, Unfinished, Terminal, Lifecycle!Phases
<1>3. job[j].attempt \in 0 .. MaxAttempts /\ 0 \in 0 .. MaxAttempts
  BY <1>1, QueueAssumption DEF RowInv, JobRow
<1>4. AnswerOf(j) \in 0 .. MaxAttempts
  BY <1>1, <1>3 DEF AnswerOf
<1>5. QED
  BY <1>1, <1>2, <1>3, <1>4 DEF LifeOf, Lifecycle!Life, JobRow

\* Two lives are the same, or differ in two fields, when their fields say so.
LEMMA LifeFields ==
    ASSUME NEW x \in Lifecycle!Life, NEW y \in Lifecycle!Life
    PROVE  /\ /\ y.phase = x.phase /\ y.tries = x.tries
              /\ y.asked = x.asked /\ y.answer = x.answer
              => y = x
           /\ y.tries = x.tries /\ y.asked = x.asked /\ y.answer = x.answer
              => y = [x EXCEPT !.phase = y.phase]
           /\ y.asked = x.asked /\ y.answer = x.answer
              => y = [x EXCEPT !.phase = y.phase, !.tries = y.tries]
           /\ y.phase = x.phase /\ y.asked = x.asked /\ y.answer = x.answer
              => y = [x EXCEPT !.tries = y.tries]
           /\ y.tries = x.tries /\ y.asked = x.asked
              => y = [x EXCEPT !.phase = y.phase, !.answer = y.answer]
           /\ y.tries = x.tries /\ y.answer = x.answer
              => y = [x EXCEPT !.phase = y.phase, !.asked = y.asked]
           /\ y.phase = x.phase /\ y.tries = x.tries /\ y.answer = x.answer
              => y = [x EXCEPT !.asked = y.asked]
<1>1. /\ x = [phase |-> x.phase, tries |-> x.tries, asked |-> x.asked, answer |-> x.answer]
      /\ y = [phase |-> y.phase, tries |-> y.tries, asked |-> y.asked, answer |-> y.answer]
  BY DEF Lifecycle!Life
<1>2. [x EXCEPT !.phase = y.phase] =
        [phase |-> y.phase, tries |-> x.tries, asked |-> x.asked, answer |-> x.answer]
  BY DEF Lifecycle!Life
<1>3. [x EXCEPT !.asked = y.asked] =
        [phase |-> x.phase, tries |-> x.tries, asked |-> y.asked, answer |-> x.answer]
  BY DEF Lifecycle!Life
<1>4. [x EXCEPT !.tries = y.tries] =
        [phase |-> x.phase, tries |-> y.tries, asked |-> x.asked, answer |-> x.answer]
  BY DEF Lifecycle!Life
<1>5. [x EXCEPT !.phase = y.phase, !.tries = y.tries] =
        [phase |-> y.phase, tries |-> y.tries, asked |-> x.asked, answer |-> x.answer]
  <2>1. [x EXCEPT !.phase = y.phase, !.tries = y.tries] =
          [[x EXCEPT !.phase = y.phase] EXCEPT !.tries = y.tries]
    OBVIOUS
  <2>2. [[phase |-> y.phase, tries |-> x.tries, asked |-> x.asked, answer |-> x.answer]
           EXCEPT !.tries = y.tries] =
          [phase |-> y.phase, tries |-> y.tries, asked |-> x.asked, answer |-> x.answer]
    OBVIOUS
  <2>3. QED
    BY <1>2, <2>1, <2>2
<1>6. [x EXCEPT !.phase = y.phase, !.answer = y.answer] =
        [phase |-> y.phase, tries |-> x.tries, asked |-> x.asked, answer |-> y.answer]
  <2>1. [x EXCEPT !.phase = y.phase, !.answer = y.answer] =
          [[x EXCEPT !.phase = y.phase] EXCEPT !.answer = y.answer]
    OBVIOUS
  <2>2. [[phase |-> y.phase, tries |-> x.tries, asked |-> x.asked, answer |-> x.answer]
           EXCEPT !.answer = y.answer] =
          [phase |-> y.phase, tries |-> x.tries, asked |-> x.asked, answer |-> y.answer]
    OBVIOUS
  <2>3. QED
    BY <1>2, <2>1, <2>2
<1>7. [x EXCEPT !.phase = y.phase, !.asked = y.asked] =
        [phase |-> y.phase, tries |-> x.tries, asked |-> y.asked, answer |-> x.answer]
  <2>1. [x EXCEPT !.phase = y.phase, !.asked = y.asked] =
          [[x EXCEPT !.phase = y.phase] EXCEPT !.asked = y.asked]
    OBVIOUS
  <2>2. [[phase |-> y.phase, tries |-> x.tries, asked |-> x.asked, answer |-> x.answer]
           EXCEPT !.asked = y.asked] =
          [phase |-> y.phase, tries |-> x.tries, asked |-> y.asked, answer |-> x.answer]
    OBVIOUS
  <2>3. QED
    BY <1>2, <2>1, <2>2
<1>8. QED
  BY <1>1, <1>2, <1>3, <1>4, <1>5, <1>6, <1>7

LEMMA LifeMoves ==
    ASSUME OutcomeInv, [Next]_vars, NEW j \in Jobs,
           NEW x, x = LifeOf(j), NEW y, y = LifeOf(j)'
    PROVE  y = x \/ Lifecycle!Move(x, y)
<1> DEFINE a == job[j]
           b == job'[j]
<1>0. OutcomeInv' /\ x \in Lifecycle!Life /\ y \in Lifecycle!Life
  <2>1. OutcomeInv'
    BY NextOutcome
  <2>2. LifeInv /\ LifeInv'
    BY <2>1, LifeType, PTL
  <2>3. QED
    BY <2>1, <2>2 DEF LifeInv
<1>17. x \in Lifecycle!Life /\ y \in Lifecycle!Life
  BY <1>0
<1>1. /\ a \in JobRow /\ b \in JobRow /\ RowInv(a) /\ RowInv(b)
      /\ a.report # NoToken => a.status \in Terminal /\ a.report \in Tokens
      /\ a.status = "RUNNING" => /\ a.token \in Tokens
                                /\ granted[a.token].attempt = a.attempt
  <2>1. /\ ExclusiveInv /\ TypeOK /\ AnswerIsLatestAttempt
        /\ RowInv(a) /\ RowInv(b) /\ TypeOK'
    BY <1>0 DEF OutcomeInv, ExclusiveInv
  <2>2. a \in JobRow /\ b \in JobRow
    BY <2>1 DEF TypeOK
  <2>3. a.report # NoToken => a.status \in Terminal /\ a.report \in Tokens
    BY <2>1 DEF AnswerIsLatestAttempt
  <2>4. QED
    BY <2>1, <2>2, <2>3, LeaseAttempt
<1>2. \A t \in Tokens : granted'[t] = granted[t] /\ t # NoToken
  BY GrantsGrow DEF OutcomeInv, Tokens, NoToken
<1>3. /\ b.report = a.report => AnswerOf(j)' = AnswerOf(j)
      /\ a.status \notin Terminal => AnswerOf(j) = 0
      /\ b.report = NoToken => AnswerOf(j)' = 0
      /\ a.status = "RUNNING" /\ b.report = a.token => AnswerOf(j)' = a.attempt
  BY <1>1, <1>2 DEF AnswerOf
<1>4. /\ x.phase = Phase[a.status] /\ x.tries = a.attempt
      /\ x.asked = a.cancelled /\ x.answer = AnswerOf(j)
      /\ y.phase = Phase[b.status] /\ y.tries = b.attempt
      /\ y.asked = b.cancelled /\ y.answer = AnswerOf(j)'
  BY DEF LifeOf, Phase
<1>5. /\ Phase["absent"] = "absent" /\ Phase["QUEUED"] = "queued"
      /\ Phase["RUNNING"] = "running" /\ Phase["COMPLETED"] = "done"
      /\ Phase["FAILED"] = "failed"
  BY DEF Phase
<1>6. /\ b = a \/ Moved(a, b)
      /\ a.cancelled \in BOOLEAN /\ b.cancelled \in BOOLEAN
  BY <1>1, NextMoves DEF JobRow
<1> HIDE DEF a, b
<1>7. CASE b = a
  <2>1. /\ y.phase = x.phase /\ y.tries = x.tries
        /\ y.asked = x.asked /\ y.answer = x.answer
    BY <1>3, <1>4, <1>7
  <2>2. y = x
    BY <1>17, <2>1, LifeFields
  <2>3. QED
    BY <2>2
<1>8. CASE Created(a, b)
  <2>1. /\ x.phase = "absent" /\ y.phase = "queued"
        /\ y.tries = x.tries /\ y.asked = x.asked /\ y.answer = x.answer
    BY <1>3, <1>4, <1>5, <1>8 DEF Created, Same
  <2>2. y = [x EXCEPT !.phase = "queued"]
    <3>1. y = [x EXCEPT !.phase = y.phase]
      BY <1>17, <2>1, LifeFields
    <3>2. QED
      BY <2>1, <3>1
  <2>3. QED
    BY <2>1, <2>2 DEF Lifecycle!Move, Lifecycle!Submit
<1>9. CASE Requeued(a, b)
  <2>1. /\ x.phase = "running" /\ y.phase = "queued"
        /\ ~x.asked /\ x.tries < MaxAttempts
        /\ y.tries = x.tries /\ y.asked = x.asked /\ y.answer = x.answer
    BY <1>3, <1>4, <1>5, <1>9 DEF Requeued, Retriable, Same
  <2>2. y = [x EXCEPT !.phase = "queued"]
    <3>1. y = [x EXCEPT !.phase = y.phase]
      BY <1>17, <2>1, LifeFields
    <3>2. QED
      BY <2>1, <3>1
  <2>3. QED
    BY <2>1, <2>2 DEF Lifecycle!Move, Lifecycle!Abandon
<1>10. CASE WrittenOff(a, b)
  <2>1. /\ x.phase = "running" /\ y.phase = "failed"
        /\ y.tries = x.tries /\ y.asked = x.asked /\ y.answer = x.answer
    BY <1>3, <1>4, <1>5, <1>10 DEF WrittenOff, Same
  <2>2. x.asked \/ x.tries = MaxAttempts
    BY <1>1, <1>4, <1>10, QueueAssumption DEF WrittenOff, RowInv, JobRow
  <2>3. y = [x EXCEPT !.phase = "failed"]
    <3>1. y = [x EXCEPT !.phase = y.phase]
      BY <1>17, <2>1, LifeFields
    <3>2. QED
      BY <2>1, <3>1
  <2>4. QED
    BY <2>1, <2>2, <2>3 DEF Lifecycle!Move, Lifecycle!Fail
<1>11. CASE Attempted(a, b)
  <2>1. /\ y.phase = "running" /\ y.tries = x.tries + 1
        /\ y.asked = x.asked /\ y.answer = x.answer
        /\ \/ x.phase = "queued"
           \/ x.phase = "running" /\ ~x.asked /\ x.tries < MaxAttempts
    BY <1>3, <1>4, <1>5, <1>11 DEF Attempted, Retriable, Terminal
  <2>2. CASE x.phase = "queued"
    <3>1. y = [x EXCEPT !.phase = "running", !.tries = x.tries + 1]
      <4>1. y = [x EXCEPT !.phase = y.phase, !.tries = y.tries]
        BY <1>17, <2>1, LifeFields
      <4>2. QED
        BY <2>1, <4>1
    <3>2. QED
      BY <2>2, <3>1 DEF Lifecycle!Move, Lifecycle!Start
  <2>3. CASE x.phase = "running" /\ ~x.asked /\ x.tries < MaxAttempts
    <3>1. y = [x EXCEPT !.tries = x.tries + 1]
      <4>1. y.phase = x.phase
        BY <2>1, <2>3
      <4>2. y = [x EXCEPT !.tries = y.tries]
        BY <1>17, <2>1, <4>1, LifeFields
      <4>3. QED
        BY <2>1, <4>2
    <3>2. QED
      BY <2>3, <3>1 DEF Lifecycle!Move, Lifecycle!Retry
  <2>4. QED
    BY <2>1, <2>2, <2>3
<1>12. CASE Answered(a, b)
  <2>1. /\ x.phase = "running" /\ y.answer = x.tries
        /\ y.tries = x.tries /\ y.asked = x.asked
        /\ (y.phase = "done" /\ ~x.asked) \/ y.phase = "failed"
    BY <1>3, <1>4, <1>5, <1>12 DEF Answered
  <2>2. y = [x EXCEPT !.phase = y.phase, !.answer = x.tries]
    <3>1. y = [x EXCEPT !.phase = y.phase, !.answer = y.answer]
      BY <1>17, <2>1, LifeFields
    <3>2. QED
      BY <2>1, <3>1
  <2>3. CASE y.phase = "done" /\ ~x.asked
    <3>1. y = [x EXCEPT !.phase = "done", !.answer = x.tries]
      BY <2>2, <2>3
    <3>2. QED
      BY <2>1, <2>3, <3>1 DEF Lifecycle!Move, Lifecycle!Finish
  <2>4. CASE y.phase = "failed"
    <3>1. y = [x EXCEPT !.phase = "failed", !.answer = x.tries]
      BY <2>2, <2>4
    <3>2. QED
      BY <2>1, <3>1 DEF Lifecycle!Move, Lifecycle!Fail
  <2>5. QED
    BY <2>1, <2>3, <2>4
<1>13. CASE Renewed(a, b)
  <2>1. /\ y.phase = x.phase /\ y.tries = x.tries
        /\ y.asked = x.asked /\ y.answer = x.answer
    BY <1>3, <1>4, <1>13 DEF Renewed, Same
  <2>2. QED
    BY <1>17, <2>1, LifeFields
<1>14. CASE Withdrawn(a, b)
  <2>1. /\ x.phase = "queued" /\ y.phase = "failed" /\ y.asked = TRUE
        /\ y.tries = x.tries /\ y.answer = x.answer
    BY <1>3, <1>4, <1>5, <1>6, <1>14 DEF Withdrawn
  <2>2. y = [x EXCEPT !.phase = "failed", !.asked = TRUE]
    <3>1. y = [x EXCEPT !.phase = y.phase, !.asked = y.asked]
      BY <1>17, <2>1, LifeFields
    <3>2. QED
      BY <2>1, <3>1
  <2>3. QED
    BY <2>1, <2>2 DEF Lifecycle!Move, Lifecycle!Ask
<1>15. CASE ToldToStop(a, b)
  <2>1. /\ x.phase = "running" /\ y.phase = x.phase /\ y.asked = TRUE
        /\ y.tries = x.tries /\ y.answer = x.answer
    BY <1>3, <1>4, <1>5, <1>6, <1>15 DEF ToldToStop
  <2>2. y = [x EXCEPT !.asked = TRUE]
    <3>1. y = [x EXCEPT !.asked = y.asked]
      BY <1>17, <2>1, LifeFields
    <3>2. QED
      BY <2>1, <3>1
  <2>3. QED
    BY <2>1, <2>2 DEF Lifecycle!Move, Lifecycle!Ask
<1>16. QED
  BY <1>6, <1>7, <1>8, <1>9, <1>10, <1>11, <1>12, <1>13, <1>14, <1>15 DEF Moved

\* The durable queue, with its leases, sweeps, tokens and half-way calls, keeps
\* every promise of the abstract life of a job.
THEOREM QueueImplementsLifecycle == Spec => ImplementsLifecycle
<1> DEFINE life == [j \in Jobs |-> LifeOf(j)]
<1>1. life = [j \in Jobs |->
                [phase  |-> Phase[job[j].status],
                 tries  |-> job[j].attempt,
                 asked  |-> job[j].cancelled,
                 answer |-> IF job[j].report = NoToken THEN 0
                            ELSE granted[job[j].report].attempt]]
  BY DEF LifeOf, AnswerOf
<1>2. Init => Lifecycle!Init
  <2>1. SUFFICES ASSUME Init PROVE life = [j \in Jobs |-> Lifecycle!Unborn]
    BY <1>1 DEF Lifecycle!Init
  <2>2. \A j \in Jobs : LifeOf(j) = Lifecycle!Unborn
    BY <2>1 DEF Init, AbsentJob, LifeOf, AnswerOf, Phase, Lifecycle!Unborn
  <2>3. QED
    BY <2>2
<1>3. OutcomeInv /\ [Next]_vars => [Lifecycle!Next]_life
  <2>1. SUFFICES ASSUME OutcomeInv, [Next]_vars PROVE Lifecycle!Next
    OBVIOUS
  <2>2. life' \in [Jobs -> Lifecycle!Life]
    <3>1. OutcomeInv'
      BY <2>1, NextOutcome
    <3>2. LifeInv'
      BY <3>1, LifeType, PTL
    <3>3. QED
      BY <3>2 DEF LifeInv
  <2>3. ASSUME NEW j \in Jobs
        PROVE  life'[j] = life[j] \/ Lifecycle!Move(life[j], life'[j])
    <3>1. life[j] = LifeOf(j) /\ life'[j] = LifeOf(j)'
      OBVIOUS
    <3>2. LifeOf(j)' = LifeOf(j) \/ Lifecycle!Move(LifeOf(j), LifeOf(j)')
      BY <2>1, LifeMoves
    <3>3. QED
      BY <3>1, <3>2
  <2>4. /\ life' \in [Jobs -> Lifecycle!Life]
        /\ \A j \in Jobs : life'[j] = life[j] \/ Lifecycle!Move(life[j], life'[j])
    BY <2>2, <2>3
  <2>5. QED
    BY <1>1, <2>4 DEF Lifecycle!Next, LifeOf, AnswerOf
<1>4. QED
  BY <1>2, <1>3, Outcome, PTL
  DEF Spec, ImplementsLifecycle, Lifecycle!Spec, LifeOf, AnswerOf

-------------------------------------------------------------------------------
(***************************************************************************)
(* A lease that has not expired goes on, or ends with its own report.      *)
(***************************************************************************)
ReportedNow(i) ==
    job'[i].report = job[i].token /\ job'[i].status \in Terminal

GoesOn(i) ==
    /\ job'[i].status = "RUNNING" /\ job'[i].worker = job[i].worker
    /\ job'[i].token = job[i].token /\ job'[i].attempt = job[i].attempt

\* The lease of i goes on with the time it had, or renewed.
GoesOnInTime(i) ==
    GoesOn(i) /\ (job'[i].ttl = job[i].ttl \/ job'[i].ttl >= Lease - MaxLag)

\* A step that is not the passage of time.
Operation ==
    \/ \E S \in SUBSET Jobs : Create(S)
    \/ \E w \in Workers, kinds \in Offers, d \in Lags :
        Claim(w, kinds, d) \/ IdleHeartbeat(w, kinds, d)
    \/ \E t \in Tokens, kinds \in Offers, d \in Lags : Heartbeat(t, kinds, d)
    \/ \E t \in Tokens, d \in Lags : Complete(t, d)
    \/ \E t \in Tokens : FailRead(t)
    \/ \E f \in failing, d \in Lags : FailWrite(f, d)
    \/ \E j \in Jobs : CancelRead(j)
    \/ \E j \in Jobs, d \in Lags : CancelWrite(j, d)
    \/ \E d \in Lags : ReadExpired(d) \/ RecoverExpired(d)
    \/ \E w \in Switchable, on \in BOOLEAN : SetEnabled(w, on)
    \/ \E w \in Workers, envelope \in Capacities : SetCapacity(w, envelope)

LEMMA NextIsOperationOrTick == Next <=> Operation \/ Tick
BY DEF Next, Operation

LEMMA SweptLive ==
    ASSUME job \in [Jobs -> Row], NEW d \in Lags, NEW i \in Jobs,
           job[i].status = "RUNNING", job[i].ttl > 0
    PROVE  Swept(d)[i] = job[i]
<1>1. job[i].ttl \in Int /\ d \in Nat
  BY QueueAssumption DEF Row, JobRow, Lags
<1>2. ~(job[i].ttl <= -d)
  BY <1>1
<1>3. QED
  BY <1>2 DEF Swept, Expired

LEMMA LiveOperation ==
    ASSUME ExclusiveInv, Operation \/ UNCHANGED vars, NEW i \in Jobs,
           job[i].status = "RUNNING", job[i].ttl > 0
    PROVE  ReportedNow(i) \/ GoesOnInTime(i)
<1>0. job \in [Jobs -> Row] /\ job[i] \in Row
  BY TypeRows DEF ExclusiveInv
<1>1. CASE UNCHANGED job
  BY <1>1 DEF GoesOnInTime, GoesOn
<1>2. ASSUME NEW S \in SUBSET Jobs, Create(S) PROVE GoesOnInTime(i)
  <2>1. job'[i] = job[i]
    BY <1>2 DEF Create
  <2>2. QED
    BY <2>1 DEF GoesOnInTime, GoesOn
<1>3. ASSUME NEW w \in Workers, NEW kinds \in Offers, NEW d \in Lags, Claim(w, kinds, d)
      PROVE  GoesOnInTime(i)
  <2>1. Swept(d)[i] = job[i]
    BY <1>0, SweptLive
  <2>2. ASSUME NEW j \in Jobs, ClaimStarted(w, kinds, d, j) PROVE job'[i] = job[i]
    <3>1. Swept(d)[j].status = "QUEUED"
      BY <2>2 DEF ClaimStarted, Chosen, Offer
    <3>2. Swept(d) \in [Jobs -> Row] /\ i # j
      BY <1>0, <2>1, <3>1, SweptType
    <3>3. QED
      BY <2>1, <2>2, <3>2 DEF ClaimStarted
  <2>3. job'[i] = job[i]
    BY <1>3, <2>1, <2>2 DEF Claim, ClaimDeclined, ClaimEmpty, ClaimHandedBack
  <2>4. QED
    BY <2>3 DEF GoesOnInTime, GoesOn
<1>4. ASSUME NEW t \in Tokens, NEW kinds \in Offers, NEW d \in Lags, Heartbeat(t, kinds, d)
      PROVE  GoesOnInTime(i)
  <2> DEFINE ttl == Lease - d
  <2>1. ttl \in Int /\ ttl >= Lease - MaxLag
    BY QueueAssumption DEF Lags
  <2>2. granted[t].job \in Jobs
    BY <1>4, HeldRow DEF Heartbeat
  <2>3. job' = [job EXCEPT ![granted[t].job].ttl = ttl, ![granted[t].job].span = Lease]
    BY <1>4 DEF Heartbeat
  <2> HIDE DEF ttl
  <2>4. job'[i] = job[i] \/ job'[i] = [job[i] EXCEPT !.ttl = ttl, !.span = Lease]
    BY <1>0, <2>2, <2>3
  <2>5. QED
    BY <1>0, <2>1, <2>4 DEF GoesOnInTime, GoesOn, Row, JobRow
<1>5. ASSUME NEW t \in Tokens, NEW d \in Lags, NEW status \in Terminal, NEW failure,
             Finish(t, d, status, failure)
      PROVE  ReportedNow(i) \/ GoesOnInTime(i)
  <2>1. granted[t].job \in Jobs /\ job[granted[t].job].token = t
    BY <1>5, HeldRow DEF Finish
  <2>2. CASE i = granted[t].job
    <3>1. job'[i] = Closed(job[i], t, status, failure)
      BY <1>0, <1>5, <2>1, <2>2 DEF Finish
    <3>2. QED
      BY <1>0, <2>1, <2>2, <3>1 DEF ReportedNow, Closed, WithoutLease, Row, JobRow
  <2>3. CASE i # granted[t].job
    BY <1>0, <1>5, <2>1, <2>3 DEF Finish, GoesOnInTime, GoesOn
  <2>4. QED
    BY <2>2, <2>3
<1>6. ASSUME NEW t \in Tokens, NEW d \in Lags, Complete(t, d)
      PROVE  ReportedNow(i) \/ GoesOnInTime(i)
  BY <1>5, <1>6 DEF Complete, Terminal
<1>7. ASSUME NEW f \in failing, NEW d \in Lags, FailWrite(f, d)
      PROVE  ReportedNow(i) \/ GoesOnInTime(i)
  <2>1. f.token \in Tokens
    BY DEF ExclusiveInv, TypeOK
  <2>2. QED
    BY <1>1, <1>5, <1>7, <2>1 DEF FailWrite, Terminal
<1>8. ASSUME NEW j \in Jobs, NEW d \in Lags, CancelWrite(j, d)
      PROVE  GoesOnInTime(i)
  <2>1. job'[i] = job[i] \/ job'[i] = Cancelled(job[i], d)
    BY <1>0, <1>8 DEF CancelWrite
  <2>2. QED
    BY <1>0, <2>1 DEF GoesOnInTime, GoesOn, Cancelled, Row, JobRow
<1>9. ASSUME NEW d \in Lags, RecoverExpired(d) PROVE GoesOnInTime(i)
  BY <1>0, <1>9, SweptLive DEF RecoverExpired, GoesOnInTime, GoesOn
<1>10. QED
  BY <1>1, <1>2, <1>3, <1>4, <1>6, <1>7, <1>8, <1>9
  DEF Operation, vars, IdleHeartbeat, FailRead, CancelRead, ReadExpired, SetEnabled,
      SetCapacity

LEMMA LiveTick ==
    ASSUME job \in [Jobs -> Row], Tick, NEW i \in Jobs,
           job[i].status = "RUNNING", job[i].ttl > 0
    PROVE  GoesOn(i) /\ job'[i].ttl = job[i].ttl - 1
<1>1. job'[i] = Aged(job[i]) /\ job[i].ttl \in Int /\ MaxLag \in Nat
  BY QueueAssumption DEF Tick, Row, JobRow
<1>2. job'[i] = [job[i] EXCEPT !.ttl = @ - 1]
  BY <1>1 DEF Aged
<1>3. QED
  BY <1>2 DEF GoesOn, Row, JobRow

LEMMA LiveLease ==
    ASSUME ExclusiveInv, [Next]_vars, NEW i \in Jobs,
           job[i].status = "RUNNING", job[i].ttl > 0
    PROVE  ReportedNow(i) \/ GoesOn(i)
<1>1. job \in [Jobs -> Row]
  BY TypeRows DEF ExclusiveInv
<1>2. QED
  BY <1>1, LiveOperation, LiveTick, NextIsOperationOrTick DEF GoesOnInTime

\* A job comes to run only by a claim that starts it.
LEMMA RunsByClaim ==
    ASSUME ExclusiveInv, [Next]_vars, NEW i \in Jobs,
           job[i].status # "RUNNING", job'[i].status = "RUNNING"
    PROVE  \E w \in Workers, kinds \in Offers, d \in Lags : ClaimStarted(w, kinds, d, i)
<1>0. job \in [Jobs -> Row] /\ job[i] \in Row
  BY TypeRows DEF ExclusiveInv
<1>1. \A d \in Lags : Swept(d)[i].status # "RUNNING"
  BY SweptRows
<1>2. ASSUME NEW w \in Workers, NEW kinds \in Offers, NEW d \in Lags, Claim(w, kinds, d)
      PROVE  ClaimStarted(w, kinds, d, i)
  <2>1. PICK j \in Jobs : ClaimStarted(w, kinds, d, j)
    BY <1>1, <1>2 DEF Claim, ClaimDeclined, ClaimEmpty, ClaimHandedBack
  <2>2. Swept(d) \in [Jobs -> Row]
    BY <1>0, SweptType
  <2>3. i # j => job'[i] = Swept(d)[i]
    BY <2>1, <2>2 DEF ClaimStarted
  <2>4. QED
    BY <1>1, <2>1, <2>3
<1>3. ASSUME NEW t \in Tokens, NEW d \in Lags, NEW status \in Terminal, NEW failure,
             Finish(t, d, status, failure)
      PROVE  FALSE
  <2>1. granted[t].job \in Jobs /\ job[granted[t].job].status = "RUNNING"
    BY <1>3, HeldRow DEF Finish
  <2>2. QED
    BY <1>0, <1>3, <2>1 DEF Finish
<1>4. ASSUME NEW f \in failing, NEW d \in Lags, FailWrite(f, d) PROVE FALSE
  <2>1. f.token \in Tokens
    BY DEF ExclusiveInv, TypeOK
  <2>2. QED
    BY <1>3, <1>4, <2>1 DEF FailWrite, Terminal
<1>5. ASSUME NEW t \in Tokens, NEW d \in Lags, Complete(t, d) PROVE FALSE
  BY <1>3, <1>5 DEF Complete, Terminal
<1>6. ASSUME NEW t \in Tokens, NEW kinds \in Offers, NEW d \in Lags, Heartbeat(t, kinds, d)
      PROVE  FALSE
  BY <1>0, <1>6, HeldRow DEF Heartbeat
<1>7. ASSUME NEW j \in Jobs, NEW d \in Lags, CancelWrite(j, d) PROVE FALSE
  <2>1. job'[i] = job[i] \/ job'[i] = Cancelled(job[i], d)
    BY <1>0, <1>7 DEF CancelWrite
  <2>2. QED
    BY <1>0, <2>1 DEF Cancelled, Row, JobRow
<1>8. ASSUME NEW S \in SUBSET Jobs, Create(S) PROVE FALSE
  BY <1>0, <1>8 DEF Create, Row, JobRow
<1>9. CASE Tick
  BY <1>0, <1>9 DEF Tick, Aged
<1>10. CASE UNCHANGED job
  BY <1>10
<1>11. ASSUME NEW d \in Lags, RecoverExpired(d) PROVE FALSE
  BY <1>1, <1>11 DEF RecoverExpired
<1>12. QED
  BY <1>2, <1>4, <1>5, <1>6, <1>7, <1>8, <1>9, <1>10, <1>11
  DEF Next, vars, IdleHeartbeat, FailRead, CancelRead, ReadExpired, SetEnabled,
      SetCapacity

\* Only a job's own report takes an unexpired lease away from it, whatever old
\* stamps the sweeps and claims of others work with (JobRepository.claim,
\* recover_expired).
THEOREM LiveLeaseIsKeptHolds == Spec => LiveLeaseIsKept
<1>1. ExclusiveInv /\ [Next]_vars =>
        [\A j \in Jobs :
            /\ job[j].status = "RUNNING" /\ job[j].ttl > 0
            /\ job'[j].token # job[j].token
            => job'[j].report = job[j].token]_vars
  BY LiveLease DEF ReportedNow, GoesOn
<1>2. QED
  BY <1>1, Exclusive, PTL DEF Spec, LiveLeaseIsKept
-------------------------------------------------------------------------------
(***************************************************************************)
(* Placement.  Before is a total order of the eligible machines, so the    *)
(* selection is defined and is the least of them.  A claim selects by the  *)
(* table it leaves behind, but for the current job of its own row, so what *)
(* the selection knew is what the properties say of the next state.        *)
(***************************************************************************)

\* Of the machines a set holds, one comes before all others.
LEMMA HasFirst ==
    ASSUME NEW j \in Jobs, NEW row, NEW E, E \subseteq Nat, E # {},
           \A v \in E : row[v].capacity \in [cpu : Nat, mem : Nat]
    PROVE  \E w \in E : \A v \in E \ {w} : Before(j, row, w, v)
<1> DEFINE mem == {row[v].capacity.mem : v \in E}
           Least(m) == {v \in E : row[v].capacity.mem = m}
           cpu(m) == {row[v].capacity.cpu : v \in Least(m)}
           Both(m, c) == {v \in Least(m) : row[v].capacity.cpu = c}
<1>1. CASE Kind[j] \notin BatchKinds
  <2>1. PICK w \in E : \A v \in E : w <= v
    BY HasLeast
  <2>2. ASSUME NEW v \in E \ {w} PROVE w < v
    BY <2>1
  <2>3. QED
    BY <1>1, <2>2 DEF Before
<1>2. CASE Kind[j] \in BatchKinds
  <2>1. mem \subseteq Nat /\ mem # {}
    OBVIOUS
  <2>2. PICK m \in mem : \A n \in mem : m <= n
    BY <2>1, HasLeast
  <2>3. Least(m) # {} /\ Least(m) \subseteq E
    BY <2>2
  <2>4. cpu(m) \subseteq Nat /\ cpu(m) # {}
    BY <2>3
  <2>5. PICK c \in cpu(m) : \A n \in cpu(m) : c <= n
    BY <2>4, HasLeast
  <2>6. Both(m, c) # {} /\ Both(m, c) \subseteq Nat
    BY <2>3, <2>5
  <2>7. PICK w \in Both(m, c) : \A v \in Both(m, c) : w <= v
    BY <2>6, HasLeast
  <2>8. /\ w \in E /\ row[w].capacity.mem = m /\ row[w].capacity.cpu = c
        /\ w \in Nat /\ m \in Nat /\ c \in Nat
    BY <2>1, <2>4, <2>7
  <2>9. ASSUME NEW v \in E \ {w} PROVE Before(j, row, w, v)
    <3>1. row[v].capacity \in [cpu : Nat, mem : Nat] /\ v \in Nat
      OBVIOUS
    <3>2. m <= row[v].capacity.mem
      BY <2>2
    <3>3. row[v].capacity.mem = m => c <= row[v].capacity.cpu
      BY <2>5
    <3>4. row[v].capacity.mem = m /\ row[v].capacity.cpu = c => w <= v
      BY <2>7
    <3>5. row[v].capacity.mem = m /\ row[v].capacity.cpu = c
            => row[v].capacity = row[w].capacity
      BY <2>8, <3>1
    <3> HIDE DEF mem, Least, cpu, Both
    <3>6. QED
      BY <1>2, <2>8, <3>1, <3>2, <3>3, <3>4, <3>5 DEF Before
  <2>10. QED
    BY <2>8, <2>9
<1>3. QED
  BY <1>1, <1>2

\* The selection names the first of the eligible machines.
LEMMA PreferredIsFirst ==
    ASSUME NEW j \in Jobs, NEW row, DOMAIN row \subseteq Workers,
           \A v \in DOMAIN row : row[v].capacity \in [cpu : Nat, mem : Nat],
           Eligible(j, row) # {}
    PROVE  /\ Preferred(j, row) \in Eligible(j, row)
           /\ \A v \in Eligible(j, row) \ {Preferred(j, row)} :
                Before(j, row, Preferred(j, row), v)
<1>1. Eligible(j, row) \subseteq DOMAIN row
  BY DEF Eligible
<1> DEFINE E == Eligible(j, row)
<1>2. E \subseteq Nat /\ E # {}
  BY <1>1, PlacementAssumption
<1>3. \A v \in E : row[v].capacity \in [cpu : Nat, mem : Nat]
  BY <1>1
<1>4. Preferred(j, row) = CHOOSE w \in E : \A v \in E \ {w} : Before(j, row, w, v)
  BY DEF Preferred
<1> HIDE DEF E
<1>5. \E w \in E : \A v \in E \ {w} : Before(j, row, w, v)
  BY <1>2, <1>3, HasFirst
<1>6. Preferred(j, row) \in E
      /\ \A v \in E \ {Preferred(j, row)} : Before(j, row, Preferred(j, row), v)
  BY <1>4, <1>5
<1>7. QED
  BY <1>6 DEF E

\* The rows a claim selects by, and what makes a machine eligible in them.
LEMMA CandidateRows ==
    ASSUME NEW table \in [Workers -> WorkerRow], NEW d \in Lags
    PROVE  /\ DOMAIN Candidates(table, d) \subseteq Workers
           /\ \A v \in DOMAIN Candidates(table, d) :
                Candidates(table, d)[v].capacity \in [cpu : Nat, mem : Nat]
BY DEF Candidates, WorkerRow

\* Suits, for the worker table as a parameter.
Fit(j, r, v) ==
    /\ r.registered /\ r.enabled
    /\ Target[j] \in {v, AnyWorker}
    /\ Kind[j] \in r.supported
    /\ Kind[j] \in BatchKinds =>
          Need[j].cpu <= r.capacity.cpu /\ Need[j].mem <= r.capacity.mem

LEMMA EligibleRows ==
    ASSUME NEW table, NEW d, NEW j, NEW v
    PROVE  v \in Eligible(j, Candidates(table, d)) <=>
              /\ v \in Workers /\ Fit(j, table[v], v)
              /\ table[v].age <= StaleAfter + d
              /\ table[v].current = NoJob
<1> DEFINE row == Candidates(table, d)
<1>1. DOMAIN row = {u \in Workers : table[u].registered}
  BY DEF Candidates
<1>2. ASSUME v \in DOMAIN row
      PROVE  /\ row[v].enabled = table[v].enabled
             /\ row[v].fresh <=> table[v].age <= StaleAfter + d
             /\ row[v].current = table[v].current
             /\ row[v].supported = table[v].supported
             /\ row[v].capacity = table[v].capacity
  BY <1>1, <1>2 DEF Candidates
<1> HIDE DEF row
<1>3. v \in DOMAIN row =>
        (v \in Eligible(j, row) <=>
            /\ table[v].enabled /\ table[v].age <= StaleAfter + d
            /\ table[v].current = NoJob /\ Target[j] \in {AnyWorker, v}
            /\ Kind[j] \in table[v].supported
            /\ Kind[j] \in BatchKinds => Fits(Need[j], table[v].capacity))
  BY <1>2 DEF Eligible, Targets
<1>4. v \in Eligible(j, row) => v \in DOMAIN row
  BY DEF Eligible
<1>5. v \in Eligible(j, row) <=>
              /\ v \in Workers /\ Fit(j, table[v], v)
              /\ table[v].age <= StaleAfter + d
              /\ table[v].current = NoJob
  BY <1>1, <1>3, <1>4 DEF Fit, Fits
<1>6. QED
  BY <1>5 DEF row

\* The offer is the oldest of the jobs that prefer the machine.
LEMMA OfferIsOldest ==
    ASSUME NEW w, NEW queued, queued \subseteq Jobs, NEW row
    PROVE  /\ \A j \in Offer(w, queued, row) :
                /\ j \in queued /\ Preferred(j, row) = w
                /\ \A i \in queued : Preferred(i, row) = w => j <= i
           /\ Offer(w, queued, row) = {} => \A i \in queued : Preferred(i, row) # w
<1> DEFINE mine == {j \in queued : Preferred(j, row) = w}
<1>1. Offer(w, queued, row) = {j \in mine : \A i \in mine : j <= i}
  BY DEF Offer
<1>2. mine \subseteq Nat
  BY PlacementAssumption
<1>3. mine # {} => \E j \in mine : \A i \in mine : j <= i
  BY <1>2, HasLeast
<1>4. QED
  BY <1>1, <1>3

\* A job that an idle machine may take but does not prefer has another taker.
LEMMA PrefersAnother ==
    ASSUME NEW table \in [Workers -> WorkerRow], NEW d \in Lags, NEW i \in Jobs,
           NEW w \in Workers, Fit(i, table[w], w), table[w].current = NoJob,
           table[w].age <= StaleAfter + d,
           Preferred(i, Candidates(table, d)) # w
    PROVE  \E v \in Workers \ {w} :
              /\ Fit(i, table[v], v) /\ table[v].current = NoJob
              /\ table[v].age <= StaleAfter + d
<1> DEFINE row == Candidates(table, d)
<1>1. w \in Eligible(i, row)
  BY EligibleRows
<1>2. Preferred(i, row) \in Eligible(i, row)
  BY <1>1, CandidateRows, PreferredIsFirst
<1>3. QED
  BY <1>2, EligibleRows

LEMMA SuitsFits ==
    ASSUME NEW j, NEW v PROVE Suits(j, v) <=> Fit(j, worker'[v], v)
BY DEF Suits, Fit

\* The claiming machine's own row is fresh and idle when it selects.
LEMMA SeenSelf ==
    ASSUME TypeOK, NEW w \in Workers, NEW kinds \in Offers, NEW d \in Lags
    PROVE  /\ Seen(w, kinds, d) \in [Workers -> WorkerRow]
           /\ Seen(w, kinds, d)[w].current = NoJob
           /\ Seen(w, kinds, d)[w].age <= StaleAfter + d
<1>1. Seen(w, kinds, d) \in [Workers -> WorkerRow]
  BY TypeRows, SeenType
<1>2. Cleared(ExpiredWorkers(d)) \in [Workers -> WorkerRow]
  BY TypeRows, ClearedType
<1>3. Seen(w, kinds, d)[w].age = d
  BY <1>2 DEF Seen, Upserted, WorkerRow
<1>4. StaleAfter \in Nat /\ d \in Int
  BY QueueAssumption DEF Lags
<1>5. QED
  BY <1>1, <1>3, <1>4, SeenOthers

\* The step of a claim that starts a job: the job prefers the machine, no older
\* one does, and the table the machine was selected by is the next one but for
\* the machine's current job.
LEMMA StartStep ==
    ASSUME TypeOK, NEW w \in Workers, NEW kinds \in Offers, NEW d \in Lags,
           NEW j \in Jobs, ClaimStarted(w, kinds, d, j)
    PROVE  /\ job'[j].worker = w
           /\ Preferred(j, Candidates(Seen(w, kinds, d), d)) = w
           /\ \A i \in Jobs :
                /\ i < j /\ job'[i].status = "QUEUED"
                => Preferred(i, Candidates(Seen(w, kinds, d), d)) # w
           /\ \A v \in Workers \ {w} : worker'[v] = Seen(w, kinds, d)[v]
           /\ \A i \in Jobs, v \in Workers :
                Suits(i, v) <=> Fit(i, Seen(w, kinds, d)[v], v)
<1> DEFINE table == Seen(w, kinds, d)
           row == Candidates(table, d)
           queued == {i \in Jobs : Swept(d)[i].status = "QUEUED"}
<1>1. j \in Offer(w, queued, row)
  BY DEF ClaimStarted, Chosen
<1>2. Swept(d) \in [Jobs -> Row] /\ Swept(d)[j] \in JobRow
  BY TypeRows, SweptType DEF Row
<1>3. job' = [Swept(d) EXCEPT ![j] = Started(@, w, Len(granted) + 1, d)]
      /\ worker' = [table EXCEPT ![w].current = j]
  BY DEF ClaimStarted
<1>4. table \in [Workers -> WorkerRow]
  BY SeenSelf
<1> HIDE DEF table, row
<1>5. job'[j].worker = w
  <2>1. \A t : Started(Swept(d)[j], w, t, d).worker = w
    BY <1>2 DEF Started, JobRow
  <2>2. job'[j] = Started(Swept(d)[j], w, Len(granted) + 1, d)
    BY <1>2, <1>3
  <2>3. QED
    BY <2>1, <2>2
<1>6. \A i \in Jobs \ {j} : job'[i] = Swept(d)[i]
  BY <1>2, <1>3
<1>7. \A i \in Jobs : i < j => i # j /\ ~(j <= i)
  BY PlacementAssumption
<1>8. /\ Preferred(j, row) = w
      /\ \A i \in Jobs : i < j /\ job'[i].status = "QUEUED" => Preferred(i, row) # w
  <2>1. queued \subseteq Jobs
    OBVIOUS
  <2>2. Preferred(j, row) = w /\ \A i \in queued : Preferred(i, row) = w => j <= i
    BY <1>1, <2>1, OfferIsOldest
  <2>3. QED
    BY <1>6, <1>7, <2>2
<1>9. \A v \in Workers \ {w} : worker'[v] = table[v]
  BY <1>3, <1>4
<1>10. /\ worker'[w].registered = table[w].registered
       /\ worker'[w].enabled = table[w].enabled
       /\ worker'[w].supported = table[w].supported
       /\ worker'[w].capacity = table[w].capacity
  BY <1>3, <1>4 DEF WorkerRow
<1>11. ASSUME NEW i \in Jobs, NEW v \in Workers
       PROVE  Suits(i, v) <=> Fit(i, table[v], v)
  BY <1>9, <1>10 DEF Suits, Fit
<1>12. QED
  BY <1>5, <1>8, <1>9, <1>11 DEF table, row

\* Only a claim begins an attempt.
LEMMA StartsByClaim ==
    ASSUME ExclusiveInv, [Next]_vars, NEW j \in Jobs, job'[j].attempt > job[j].attempt
    PROVE  \E w \in Workers, kinds \in Offers, d \in Lags : ClaimStarted(w, kinds, d, j)
<1>1. job \in [Jobs -> Row] /\ job[j].attempt \in Nat
  BY TypeRows DEF ExclusiveInv, Row, JobRow
<1>2. granted \in Seq(Grant)
  BY TypeRows DEF ExclusiveInv
<1>3. PICK i \in Jobs, g \in Grant :
        /\ granted' = Append(granted, g)
        /\ \A k \in Jobs \ {i} : job'[k].attempt = job[k].attempt
  BY <1>1, AttemptStep
<1>4. i = j
  BY <1>1, <1>3
<1>5. granted' # granted
  BY <1>2, <1>3
<1>6. PICK w \in Workers, kinds \in Offers, d \in Lags : Claim(w, kinds, d)
  BY <1>5
  DEF Next, vars, Create, Heartbeat, Complete, Finish, FailWrite, CancelWrite, Tick,
      RecoverExpired, IdleHeartbeat, FailRead, CancelRead, ReadExpired,
      SetEnabled, SetCapacity
<1>7. PICK k \in Jobs : ClaimStarted(w, kinds, d, k)
  BY <1>5, <1>6 DEF Claim, ClaimDeclined, ClaimEmpty, ClaimHandedBack
<1>8. k = j
  <2>1. Swept(d) \in [Jobs -> Row]
    BY <1>1, SweptType
  <2>2. k # j => job'[j] = Swept(d)[j]
    BY <1>7, <2>1 DEF ClaimStarted
  <2>3. Swept(d)[j].attempt = job[j].attempt
    BY <1>1 DEF Swept, Recovered, WithoutLease, Row, JobRow
  <2>4. QED
    BY <1>1, <2>2, <2>3
<1>9. QED
  BY <1>7, <1>8

\* A job starts only on a machine that suits it, and an automatic batch job on
\* the smallest of the idle ones (_preferred_worker_id).
THEOREM StartsOnSmallestAdequateHolds == Spec => StartsOnSmallestAdequate
<1>1. ASSUME ExclusiveInv, [Next]_vars, NEW j \in Jobs,
             job'[j].attempt > job[j].attempt
      PROVE  /\ Suits(j, job'[j].worker)
             /\ \A v \in Workers :
                 /\ Suits(j, v) /\ v # job'[j].worker
                 /\ worker'[v].current = NoJob /\ worker'[v].age <= StaleAfter
                 /\ Kind[j] \in BatchKinds
                 => worker'[job'[j].worker].capacity.mem <= worker'[v].capacity.mem
  <2>1. PICK w \in Workers, kinds \in Offers, d \in Lags : ClaimStarted(w, kinds, d, j)
    BY <1>1, StartsByClaim
  <2>2. TypeOK
    BY <1>1 DEF ExclusiveInv
  <2> DEFINE table == Seen(w, kinds, d)
             row == Candidates(table, d)
  <2>3. /\ job'[j].worker = w /\ Preferred(j, row) = w
        /\ \A v \in Workers \ {w} : worker'[v] = table[v]
        /\ \A v \in Workers : Suits(j, v) <=> Fit(j, table[v], v)
    BY <2>1, <2>2, StartStep
  <2>4. table \in [Workers -> WorkerRow]
    BY <2>2, SeenSelf
  <2>5. worker'[w].capacity = table[w].capacity
    BY <2>1, <2>4 DEF ClaimStarted, WorkerRow
  <2>6. w # NoWorker
    BY PlacementAssumption
  <2>7. Eligible(j, row) # {}
    BY <2>3, <2>6 DEF Preferred
  <2>8. w \in Eligible(j, row) /\ \A v \in Eligible(j, row) \ {w} : Before(j, row, w, v)
    BY <2>3, <2>4, <2>7, CandidateRows, PreferredIsFirst
  <2>9. Suits(j, w)
    BY <2>3, <2>8, EligibleRows
  <2>10. ASSUME NEW v \in Workers, Suits(j, v), v # w, worker'[v].current = NoJob,
                worker'[v].age <= StaleAfter, Kind[j] \in BatchKinds
         PROVE  worker'[w].capacity.mem <= worker'[v].capacity.mem
    <3>1. worker'[v] = table[v] /\ table[v].age \in Nat
      BY <2>3, <2>4, <2>10 DEF WorkerRow
    <3>2. table[v].age <= StaleAfter + d
      BY <2>10, <3>1, QueueAssumption DEF Lags
    <3>3. v \in Eligible(j, row)
      BY <2>3, <2>10, <3>1, <3>2, EligibleRows
    <3>4. Before(j, row, w, v)
      BY <2>8, <2>10, <3>3
    <3>5. /\ w \in DOMAIN row /\ v \in DOMAIN row
      BY <2>8, <3>3 DEF Eligible
    <3>6. row[w].capacity = table[w].capacity /\ row[v].capacity = table[v].capacity
      BY <3>5 DEF Candidates
    <3>7. table[w].capacity.mem \in Nat /\ table[v].capacity.mem \in Nat
      BY <2>4 DEF WorkerRow
    <3> HIDE DEF table, row
    <3>8. table[w].capacity.mem <= table[v].capacity.mem
      BY <2>10, <3>4, <3>6, <3>7 DEF Before
    <3>9. QED
      BY <2>5, <3>1, <3>8
  <2>11. QED
    BY <2>3, <2>9, <2>10
<1>2. ExclusiveInv /\ [Next]_vars =>
        [\A j \in Jobs : job'[j].attempt > job[j].attempt =>
            LET w == job'[j].worker
            IN  /\ Suits(j, w)
                /\ \A v \in Workers :
                    /\ Suits(j, v) /\ v # w
                    /\ worker'[v].current = NoJob /\ worker'[v].age <= StaleAfter
                    /\ Kind[j] \in BatchKinds
                    => worker'[w].capacity.mem <= worker'[v].capacity.mem]_vars
  BY <1>1
<1>3. QED
  BY <1>2, Exclusive, PTL DEF Spec, StartsOnSmallestAdequate

\* A machine that is sent away leaves no job behind that nobody else will be
\* offered (JobRepository.claim).
THEOREM WaitingJobHasATakerHolds == Spec => WaitingJobHasATaker
<1>1. ASSUME ExclusiveInv, NEW w \in Workers, NEW kinds \in Offers, NEW d \in Lags,
             ClaimEmpty(w, kinds, d), NEW j \in Jobs,
             job'[j].status = "QUEUED", Suits(j, w)
      PROVE  \E v \in Workers \ {w} :
                /\ Suits(j, v)
                /\ worker'[v].current = NoJob
                /\ worker'[v].age <= StaleAfter + d
  <2>1. TypeOK
    BY <1>1 DEF ExclusiveInv
  <2> DEFINE queued == {i \in Jobs : Swept(d)[i].status = "QUEUED"}
  <2>2. /\ job' = Swept(d) /\ worker' = Seen(w, kinds, d)
        /\ Offer(w, queued, Candidates(Seen(w, kinds, d), d)) = {}
    BY <1>1 DEF ClaimEmpty, Chosen
  <2>3. worker' \in [Workers -> WorkerRow] /\ worker'[w].current = NoJob
        /\ worker'[w].age <= StaleAfter + d
    BY <2>1, <2>2, SeenSelf
  <2>4. j \in queued /\ queued \subseteq Jobs
    BY <1>1, <2>2
  <2>5. Preferred(j, Candidates(worker', d)) # w
    <3> DEFINE row == Candidates(Seen(w, kinds, d), d)
    <3> HIDE DEF queued, row
    <3>1. Preferred(j, row) # w
      BY <2>2, <2>4, OfferIsOldest DEF row
    <3>2. QED
      BY <2>2, <3>1 DEF row
  <2>6. Fit(j, worker'[w], w)
    BY <1>1, SuitsFits
  <2>7. \E v \in Workers \ {w} :
            /\ Fit(j, worker'[v], v) /\ worker'[v].current = NoJob
            /\ worker'[v].age <= StaleAfter + d
    BY <2>3, <2>5, <2>6, PrefersAnother
  <2>8. QED
    BY <2>7, SuitsFits
<1>2. ExclusiveInv /\ [Next]_vars =>
        [\A w \in Workers, kinds \in Offers, d \in Lags :
            ClaimEmpty(w, kinds, d) =>
                \A j \in Jobs : job'[j].status = "QUEUED" /\ Suits(j, w) =>
                    \E v \in Workers \ {w} :
                        /\ Suits(j, v)
                        /\ worker'[v].current = NoJob
                        /\ worker'[v].age <= StaleAfter + d]_vars
  BY <1>1
<1>3. QED
  BY <1>2, Exclusive, PTL DEF Spec, WaitingJobHasATaker

\* No job overtakes an older one that only its own machine could run
\* (the selection loop of JobRepository.claim).
THEOREM OldestFirstHolds == Spec => OldestFirst
<1>1. ASSUME ExclusiveInv, [Next]_vars, NEW i \in Jobs, NEW j \in Jobs,
             i < j, job'[j].attempt > job[j].attempt,
             job'[i].status = "QUEUED", Suits(i, job'[j].worker)
      PROVE  \E v \in Workers \ {job'[j].worker} : Suits(i, v)
  <2>1. PICK w \in Workers, kinds \in Offers, d \in Lags : ClaimStarted(w, kinds, d, j)
    BY <1>1, StartsByClaim
  <2>2. TypeOK
    BY <1>1 DEF ExclusiveInv
  <2> DEFINE table == Seen(w, kinds, d)
  <2>3. /\ job'[j].worker = w
        /\ Preferred(i, Candidates(table, d)) # w
        /\ \A v \in Workers : Suits(i, v) <=> Fit(i, table[v], v)
    BY <1>1, <2>1, <2>2, StartStep
  <2>4. /\ table \in [Workers -> WorkerRow] /\ table[w].current = NoJob
        /\ table[w].age <= StaleAfter + d
    BY <2>2, SeenSelf
  <2> HIDE DEF table
  <2>5. \E v \in Workers \ {w} : Fit(i, table[v], v)
    BY <1>1, <2>3, <2>4, PrefersAnother
  <2>6. QED
    BY <2>3, <2>5
<1>2. ExclusiveInv /\ [Next]_vars =>
        [\A i, j \in Jobs :
            /\ i < j /\ job'[j].attempt > job[j].attempt
            /\ job'[i].status = "QUEUED" /\ Suits(i, job'[j].worker)
            => \E v \in Workers \ {job'[j].worker} : Suits(i, v)]_vars
  BY <1>1
<1>3. QED
  BY <1>2, Exclusive, PTL DEF Spec, OldestFirst

-------------------------------------------------------------------------------
(***************************************************************************)
(* The worker program.  What a process w in the state a may rely on, when  *)
(* g is the history of leases and p the set of leases whose files were put *)
(* in place.                                                               *)
(***************************************************************************)
Sound(w, a, g, p) ==
    /\ a \in AgentRow
    /\ a.mode \in Busy =>
        /\ a.token \in 1 .. Len(g)
        /\ g[a.token].worker = w
        /\ a.tries < IF a.mode = "publishing" THEN UploadTries ELSE ReportTries
    /\ a.mode = "failing" => a.outcome = "error"
    /\ a.mode = "reporting" /\ a.outcome = "result" =>
        (g[a.token].job \in Publishes => a.token \in p)

Agents ==
    /\ agent \in [Workers -> AgentRow]
    /\ \A w \in Workers : Sound(w, agent[w], granted, published)

Files ==
    /\ link \in [Workers -> {"up", "cut", "asleep"}]
    /\ faults \in 0 .. MaxFaults
    /\ uploads \subseteq Tokens
    /\ artifact \in [Jobs -> {NoToken} \cup Tokens]
    /\ published \subseteq Tokens

HandInv == OutcomeInv /\ Agents /\ Files /\ CompletedIsPublished

LEMMA HandType == HandInv => TypeOKWorkers
BY DEF HandInv, Agents, Files, Sound, TypeOKWorkers, Tokens

-------------------------------------------------------------------------------
(***************************************************************************)
(* The states a process moves through.                                     *)
(***************************************************************************)
LEMMA IdleSound ==
    ASSUME NEW w, NEW g, NEW p
    PROVE  Sound(w, IdleAgent, g, p) /\ Sound(w, DownAgent, g, p)
<1>1. NoToken \in Nat /\ 0 \in Nat /\ 0 \in Int
  BY DEF NoToken
<1>2. IdleAgent \in AgentRow /\ IdleAgent.mode = "idle"
  BY <1>1 DEF IdleAgent, AgentRow
<1>3. DownAgent \in AgentRow /\ DownAgent.mode = "down"
  BY <1>2 DEF DownAgent, AgentRow
<1>4. QED
  BY <1>2, <1>3 DEF Sound, Busy

LEMMA SoundGrows ==
    ASSUME NEW w, NEW a, NEW g, NEW p, NEW h, NEW q, Sound(w, a, g, p),
           1 .. Len(g) \subseteq 1 .. Len(h), p \subseteq q,
           \A t \in 1 .. Len(g) : h[t] = g[t]
    PROVE  Sound(w, a, h, q)
BY DEF Sound, Busy

\* Any change of the keeper's own fields is harmless.
LEMMA KeeperSound ==
    ASSUME NEW w, NEW a, NEW g, NEW p, Sound(w, a, g, p),
           NEW beat \in Int, NEW quiet \in Nat, NEW event \in BOOLEAN
    PROVE  /\ Sound(w, [a EXCEPT !.beat = beat], g, p)
           /\ Sound(w, [a EXCEPT !.beat = beat, !.quiet = quiet], g, p)
           /\ Sound(w, [a EXCEPT !.beat = beat, !.quiet = quiet, !.event = event], g, p)
           /\ Sound(w, [a EXCEPT !.lost = TRUE, !.event = event], g, p)
<1> DEFINE kept(b) == /\ b \in AgentRow /\ b.mode = a.mode /\ b.token = a.token
                      /\ b.outcome = a.outcome /\ b.tries = a.tries
<1>0. a \in AgentRow
  BY DEF Sound
<1>1. kept([a EXCEPT !.beat = beat])
  BY <1>0 DEF AgentRow
<1>2. kept([a EXCEPT !.beat = beat, !.quiet = quiet])
  BY <1>0 DEF AgentRow
<1>3. kept([a EXCEPT !.beat = beat, !.quiet = quiet, !.event = event])
  BY <1>0 DEF AgentRow
<1>4. kept([a EXCEPT !.lost = TRUE, !.event = event])
  BY <1>0 DEF AgentRow
<1>5. \A b : kept(b) => Sound(w, b, g, p)
  BY DEF Sound
<1> HIDE DEF kept
<1>6. QED
  BY <1>1, <1>2, <1>3, <1>4, <1>5

LEMMA UnansweredSound ==
    ASSUME NEW w, NEW a, NEW g, NEW p, Sound(w, a, g, p)
    PROVE  Sound(w, Unanswered(a), g, p) /\ Sound(w, Refused(a), g, p)
<1>1. Beat \in Int /\ TRUE \in BOOLEAN
  BY WorkerAssumption
<1>2. QED
  BY <1>1, KeeperSound DEF Unanswered, Refused, Lost

LEMMA OlderSound ==
    ASSUME NEW w, NEW a, NEW g, NEW p, Sound(w, a, g, p)
    PROVE  Sound(w, Older(a), g, p)
<1> DEFINE beat == a.beat - 1
           quiet == a.quiet + 1
<1>1. beat \in Int /\ quiet \in Nat
  BY DEF Sound, AgentRow
<1>2. Older(a) = [a EXCEPT !.beat = beat, !.quiet = quiet]
  BY DEF Older
<1> HIDE DEF beat, quiet
<1>3. Sound(w, [a EXCEPT !.beat = beat, !.quiet = quiet], g, p)
  <2>1. TRUE \in BOOLEAN
    OBVIOUS
  <2>2. QED
    BY <1>1, <2>1, KeeperSound
<1>4. QED
  BY <1>2, <1>3

\* A result is only reported for a job without files, or with its files stored.
LEMMA ReportingSound ==
    ASSUME NEW w, NEW a, NEW g, NEW p, Sound(w, a, g, p), a.mode \in Busy,
           NEW outcome \in {"result", "error"},
           outcome = "result" => (g[a.token].job \in Publishes => a.token \in p)
    PROVE  Sound(w, Reporting(a, outcome), g, p)
<1> DEFINE b == [a EXCEPT !.mode = "reporting", !.outcome = outcome, !.tries = 0]
<1>1. /\ b \in AgentRow /\ b.mode = "reporting" /\ b.outcome = outcome
      /\ b.tries = 0 /\ b.token = a.token
  BY DEF Sound, AgentRow, Busy
<1>2. 0 < ReportTries
  BY WorkerAssumption
<1>3. a.token \in 1 .. Len(g) /\ g[a.token].worker = w
  BY DEF Sound
<1> HIDE DEF b
<1>4. Sound(w, b, g, p)
  BY <1>1, <1>2, <1>3 DEF Sound
<1>5. QED
  BY <1>4, IdleSound DEF Reporting, b

LEMMA TryAgainSound ==
    ASSUME NEW w, NEW a, NEW g, NEW p, Sound(w, a, g, p), a.mode \in Busy,
           NEW mode \in {"publishing", "reporting"}, NEW n \in Nat,
           n < IF mode = "publishing" THEN UploadTries ELSE ReportTries,
           mode = "reporting" => a.mode \in {"reporting", "failing"}
    PROVE  Sound(w, [a EXCEPT !.mode = mode, !.tries = n], g, p)
<1> DEFINE b == [a EXCEPT !.mode = mode, !.tries = n]
<1>1. /\ b \in AgentRow /\ b.mode = mode /\ b.outcome = a.outcome
      /\ b.tries = n /\ b.token = a.token
  BY DEF Sound, AgentRow, Busy
<1>2. a.token \in 1 .. Len(g) /\ g[a.token].worker = w
  BY DEF Sound
<1>3. mode = "reporting" /\ a.outcome = "result" => a.mode = "reporting"
  BY DEF Sound
<1>4. a.mode = "reporting" /\ a.outcome = "result" =>
        (g[a.token].job \in Publishes => a.token \in p)
  BY DEF Sound
<1> HIDE DEF b
<1>5. QED
  BY <1>1, <1>2, <1>3, <1>4 DEF Sound, b

LEMMA UploadFailedSound ==
    ASSUME NEW w, NEW a, NEW g, NEW p, Sound(w, a, g, p), a.mode = "publishing"
    PROVE  Sound(w, UploadFailed(a), g, p)
<1>1. a.mode \in Busy
  BY DEF Busy
<1>2. CASE a.tries + 1 < UploadTries
  <2> DEFINE n == a.tries + 1
  <2>1. n \in Nat
    BY DEF Sound, AgentRow
  <2>2. [a EXCEPT !.tries = n] = [a EXCEPT !.mode = "publishing", !.tries = n]
    BY DEF Sound, AgentRow
  <2>3. Sound(w, [a EXCEPT !.mode = "publishing", !.tries = n], g, p)
    BY <1>1, <1>2, <2>1, TryAgainSound
  <2>4. QED
    BY <1>2, <2>2, <2>3 DEF UploadFailed
<1>3. CASE ~(a.tries + 1 < UploadTries)
  <2>1. Sound(w, Reporting(a, "error"), g, p)
    BY <1>1, ReportingSound
  <2>2. QED
    BY <1>3, <2>1 DEF UploadFailed
<1>4. QED
  BY <1>2, <1>3

LEMMA ReportFailedSound ==
    ASSUME NEW w, NEW a, NEW g, NEW p, Sound(w, a, g, p),
           a.mode \in {"reporting", "failing"}
    PROVE  Sound(w, ReportFailed(a), g, p)
<1>1. a.mode \in Busy
  BY DEF Busy
<1>2. CASE a.tries + 1 < ReportTries
  <2> DEFINE n == a.tries + 1
  <2>1. n \in Nat
    BY DEF Sound, AgentRow
  <2>2. Sound(w, [a EXCEPT !.mode = "reporting", !.tries = n], g, p)
    BY <1>1, <1>2, <2>1, TryAgainSound
  <2>3. QED
    BY <1>2, <2>2 DEF ReportFailed
<1>3. QED
  BY <1>2, IdleSound DEF ReportFailed

-------------------------------------------------------------------------------
(***************************************************************************)
(* Every step is a step of the queue, or leaves the queue alone.           *)
(***************************************************************************)
LEMMA BusyToken ==
    ASSUME HandInv, NEW w \in Workers, agent[w].mode \in Busy
    PROVE  /\ agent[w].token \in Tokens
           /\ granted[agent[w].token] \in Grant
           /\ granted[agent[w].token].worker = w
<1>1. agent[w].token \in Tokens /\ granted[agent[w].token].worker = w
  BY DEF HandInv, Agents, Sound, Tokens
<1>2. granted \in Seq(Grant)
  BY TypeRows DEF HandInv, OutcomeInv, ExclusiveInv
<1>3. QED
  BY <1>1, <1>2, GrantType

LEMMA WorkerStepIsOperation ==
    HandInv /\ [NextWorkers]_workerVars => Operation \/ UNCHANGED vars \/ Pass
<1> SUFFICES ASSUME HandInv, [NextWorkers]_workerVars
             PROVE  Operation \/ UNCHANGED vars \/ Pass
  OBVIOUS
<1>1. CASE Coordinator
  BY <1>1, WorkerAssumption, QueueAssumption DEF Coordinator, Operation
<1>2. ASSUME NEW w \in Workers, NEW kinds \in Offers, NEW d \in Lags, Poll(w, kinds, d)
      PROVE  Operation
  <2>1. Claim(w, kinds, d)
    BY <1>2 DEF Poll, Claim
  <2>2. QED
    BY <2>1 DEF Operation
<1>3. ASSUME NEW w \in Workers, NEW kinds \in Offers, NEW d \in Lags, Renew(w, kinds, d)
      PROVE  Operation \/ UNCHANGED vars
  <2>1. agent[w].token \in Tokens
    BY <1>3, BusyToken DEF Renew, Keeping
  <2>2. Heartbeat(agent[w].token, kinds, d) \/ UNCHANGED vars
    BY <1>3 DEF Renew, Quiet
  <2>3. QED
    BY <2>1, <2>2 DEF Operation
<1>4. ASSUME NEW w \in Workers, NEW d \in Lags, ReportResult(w, d)
      PROVE  Operation \/ UNCHANGED vars
  <2>1. agent[w].token \in Tokens
    BY <1>4, BusyToken DEF ReportResult, Busy
  <2>2. Complete(agent[w].token, d) \/ UNCHANGED vars
    BY <1>4 DEF ReportResult, Quiet
  <2>3. QED
    BY <2>1, <2>2 DEF Operation
<1>5. ASSUME NEW w \in Workers, ReportError(w) PROVE Operation \/ UNCHANGED vars
  <2>1. agent[w].token \in Tokens
    BY <1>5, BusyToken DEF ReportError, Busy
  <2>2. FailRead(agent[w].token) \/ UNCHANGED vars
    BY <1>5 DEF ReportError, Quiet
  <2>3. QED
    BY <2>1, <2>2 DEF Operation
<1>6. ASSUME NEW f \in failing, NEW d \in Lags, FailHandled(f, d) PROVE Operation
  BY <1>6 DEF FailHandled, Operation
<1>7. CASE Pass
  BY <1>7
<1>8. CASE UNCHANGED vars
  BY <1>8
<1>9. QED
  BY <1>1, <1>2, <1>3, <1>4, <1>5, <1>6, <1>7, <1>8
  DEF NextWorkers, workerVars, Upload, EndRun, UploadTimedOut, ReportTimedOut,
      Heal, Crash, Restart, Disturb, Store

LEMMA WorkerStepIsQueueStep ==
    HandInv /\ [NextWorkers]_workerVars => [Next]_vars
BY WorkerStepIsOperation, NextIsOperationOrTick DEF Pass

-------------------------------------------------------------------------------
(***************************************************************************)
(* Only the report of a result makes a job COMPLETED.                      *)
(***************************************************************************)
Steady == \A j \in Jobs : job'[j].status = "COMPLETED" => job'[j] = job[j]

LEMMA SweptSteady ==
    ASSUME job \in [Jobs -> Row], NEW d \in Lags, NEW j \in Jobs,
           Swept(d)[j].status = "COMPLETED"
    PROVE  Swept(d)[j] = job[j]
<1>1. j \in Expired(d) => Recovered(job[j]).status \in {"QUEUED", "FAILED"}
  BY RecoveredMoves DEF Expired
<1>2. QED
  BY <1>1 DEF Swept

LEMMA ClaimSteady ==
    ASSUME OutcomeInv, NEW w \in Workers, NEW kinds \in Offers, NEW d \in Lags,
           Claim(w, kinds, d)
    PROVE  Steady
<1>0. job \in [Jobs -> Row] /\ Swept(d) \in [Jobs -> Row]
  BY TypeRows, SweptType DEF OutcomeInv, ExclusiveInv
<1>1. CASE job' = Swept(d)
  BY <1>0, <1>1, SweptSteady DEF Steady
<1>2. ASSUME NEW j \in Jobs, ClaimStarted(w, kinds, d, j) PROVE Steady
  <2> DEFINE t == Len(granted) + 1
  <2>1. job' = [Swept(d) EXCEPT ![j] = Started(Swept(d)[j], w, t, d)]
    BY <1>2 DEF ClaimStarted
  <2>2. Started(Swept(d)[j], w, t, d).status = "RUNNING"
    BY <1>0 DEF Started, Row, JobRow
  <2> HIDE DEF t
  <2>3. QED
    BY <1>0, <2>1, <2>2, SweptSteady DEF Steady
<1>3. QED
  BY <1>1, <1>2 DEF Claim, ClaimDeclined, ClaimEmpty, ClaimHandedBack

LEMMA HeartbeatSteady ==
    ASSUME OutcomeInv, NEW t \in Tokens, NEW kinds \in Offers, NEW d \in Lags,
           Heartbeat(t, kinds, d)
    PROVE  Steady
<1>0. job \in [Jobs -> Row] /\ granted[t].job \in Jobs
  BY TypeRows, GrantType DEF OutcomeInv, ExclusiveInv, Grant
<1>1. job'[granted[t].job].status = "RUNNING"
  BY <1>0 DEF Heartbeat, Holds, Row, JobRow
<1>2. QED
  BY <1>0, <1>1 DEF Heartbeat, Steady

LEMMA FailSteady ==
    ASSUME OutcomeInv, NEW f \in failing, NEW d \in Lags, FailWrite(f, d)
    PROVE  Steady
<1>0. job \in [Jobs -> Row] /\ f.token \in Tokens
  BY TypeRows DEF OutcomeInv, ExclusiveInv, TypeOK
<1>1. granted[f.token].job \in Jobs
  BY <1>0, TypeRows, GrantType DEF OutcomeInv, ExclusiveInv, Grant
<1>2. \A r \in Row : Closed(r, f.token, "FAILED", f.kind).status = "FAILED"
  BY DEF Closed, WithoutLease, Row, JobRow
<1>3. CASE Finish(f.token, d, "FAILED", f.kind)
  BY <1>0, <1>1, <1>2, <1>3 DEF Finish, Steady
<1>4. QED
  BY <1>3 DEF FailWrite, Steady

LEMMA CoordinatorSteady ==
    ASSUME OutcomeInv, Coordinator PROVE Steady
<1>0. job \in [Jobs -> Row] /\ cancelling \in [Jobs -> {"none"} \cup Unfinished]
  BY TypeRows DEF OutcomeInv, ExclusiveInv
<1>1. ASSUME NEW S \in SUBSET Jobs, Create(S) PROVE Steady
  <2>1. \A r \in Row : [r EXCEPT !.status = "QUEUED"].status = "QUEUED"
    BY DEF Row, JobRow
  <2>2. QED
    BY <1>0, <1>1, <2>1 DEF Create, Steady
<1>2. ASSUME NEW j \in Jobs, NEW d \in Lags, CancelWrite(j, d) PROVE Steady
  <2>1. job[j].status \in Unfinished => Cancelled(job[j], d).status # "COMPLETED"
    BY <1>0 DEF Cancelled, Unfinished, Row, JobRow
  <2>2. job[j].status = cancelling[j] => job[j].status \in Unfinished
    BY <1>0, <1>2 DEF CancelWrite
  <2>3. QED
    BY <1>0, <1>2, <2>1, <2>2 DEF CancelWrite, Steady
<1>3. ASSUME NEW d \in Lags, RecoverExpired(d) PROVE Steady
  BY <1>0, <1>3, SweptSteady DEF RecoverExpired, Steady
<1>4. CASE job' = job
  BY <1>4 DEF Steady
<1>5. QED
  BY <1>1, <1>2, <1>3, <1>4
  DEF Coordinator, CancelRead, ReadExpired, SetEnabled, SetCapacity

LEMMA TickSteady == ASSUME OutcomeInv, Tick PROVE Steady
<1>1. job \in [Jobs -> Row]
  BY TypeRows DEF OutcomeInv, ExclusiveInv
<1>2. \A r \in Row : Aged(r).status = "COMPLETED" => Aged(r) = r
  BY DEF Aged, Row, JobRow
<1>3. QED
  BY <1>1, <1>2 DEF Tick, Steady

\* The lease that completes a job has its files in place, if there are any.
LEMMA CompletedStep ==
    ASSUME HandInv, [NextWorkers]_workerVars, published \subseteq published'
    PROVE  CompletedIsPublished'
<1>0. OutcomeInv
  BY DEF HandInv
<1>1. ASSUME Steady PROVE CompletedIsPublished'
  BY <1>1, WorkerAssumption DEF Steady, HandInv, CompletedIsPublished
<1>2. ASSUME NEW w \in Workers, NEW d \in Lags, Complete(agent[w].token, d),
             agent[w].mode = "reporting", agent[w].outcome = "result"
      PROVE  CompletedIsPublished'
  <2> DEFINE t == agent[w].token
             j == granted[t].job
  <2>1. t \in Tokens /\ j \in Jobs
    BY <1>2, BusyToken DEF Busy, Grant
  <2>2. j \in Publishes => t \in published
    BY <1>2 DEF HandInv, Agents, Sound
  <2>3. job \in [Jobs -> Row]
    BY <1>0, TypeRows DEF OutcomeInv, ExclusiveInv
  <2>4. Closed(job[j], t, "COMPLETED", "none").report = t
    BY <2>1, <2>3 DEF Closed, WithoutLease, Row, JobRow
  <2>5. job' = [job EXCEPT ![j] = Closed(job[j], t, "COMPLETED", "none")]
    BY <1>2 DEF Complete, Finish
  <2> HIDE DEF t, j
  <2>6. QED
    BY <2>1, <2>2, <2>3, <2>4, <2>5, WorkerAssumption
    DEF HandInv, CompletedIsPublished
<1>3. CASE UNCHANGED vars
  BY <1>1, <1>3 DEF Steady, vars
<1>4. CASE Coordinator
  BY <1>0, <1>1, <1>4, CoordinatorSteady
<1>5. ASSUME NEW w \in Workers, NEW kinds \in Offers, NEW d \in Lags, Poll(w, kinds, d)
      PROVE  CompletedIsPublished'
  <2>1. Claim(w, kinds, d)
    BY <1>5 DEF Poll, Claim
  <2>2. QED
    BY <1>0, <1>1, <2>1, ClaimSteady
<1>6. ASSUME NEW w \in Workers, NEW kinds \in Offers, NEW d \in Lags, Renew(w, kinds, d)
      PROVE  CompletedIsPublished'
  <2>1. agent[w].token \in Tokens
    BY <1>6, BusyToken DEF Renew, Keeping
  <2>2. Heartbeat(agent[w].token, kinds, d) \/ UNCHANGED vars
    BY <1>6 DEF Renew, Quiet
  <2>3. QED
    BY <1>0, <1>1, <1>3, <2>1, <2>2, HeartbeatSteady
<1>7. ASSUME NEW w \in Workers, NEW d \in Lags, ReportResult(w, d)
      PROVE  CompletedIsPublished'
  BY <1>2, <1>3, <1>7 DEF ReportResult, Quiet
<1>8. ASSUME NEW w \in Workers, ReportError(w) PROVE CompletedIsPublished'
  BY <1>1, <1>3, <1>8 DEF ReportError, FailRead, Quiet, Steady
<1>9. ASSUME NEW f \in failing, NEW d \in Lags, FailHandled(f, d)
      PROVE  CompletedIsPublished'
  BY <1>0, <1>1, <1>9, FailSteady DEF FailHandled
<1>10. CASE Pass
  BY <1>0, <1>1, <1>10, TickSteady DEF Pass
<1>11. QED
  BY <1>3, <1>4, <1>5, <1>6, <1>7, <1>8, <1>9, <1>10
  DEF NextWorkers, workerVars, Upload, EndRun, UploadTimedOut, ReportTimedOut,
      Heal, Crash, Restart, Disturb, Store

-------------------------------------------------------------------------------
(***************************************************************************)
(* The processes and files stay in order.                                  *)
(***************************************************************************)
LEMMA KeptSound ==
    ASSUME HandInv, [Next]_vars, published \subseteq published', NEW w \in Workers
    PROVE  Sound(w, agent[w], granted', published')
<1>1. Sound(w, agent[w], granted, published)
  BY DEF HandInv, Agents
<1>2. /\ 1 .. Len(granted) \subseteq 1 .. Len(granted')
      /\ \A t \in 1 .. Len(granted) : granted'[t] = granted[t]
  BY GrantsGrow DEF HandInv, OutcomeInv, Tokens
<1>3. QED
  BY <1>1, <1>2, SoundGrows

LEMMA BecomesSound ==
    ASSUME HandInv, [Next]_vars, published \subseteq published', NEW w \in Workers,
           NEW a, Becomes(w, a), Sound(w, a, granted', published')
    PROVE  Agents'
<1>1. agent \in [Workers -> AgentRow] /\ a \in AgentRow
  BY DEF HandInv, Agents, Sound
<1>2. \A v \in Workers : Sound(v, agent[v], granted', published')
  BY KeptSound
<1>3. agent' = [agent EXCEPT ![w] = a]
  BY DEF Becomes
<1>4. QED
  BY <1>1, <1>2, <1>3 DEF Agents

LEMMA UnchangedSound ==
    ASSUME HandInv, [Next]_vars, published \subseteq published', UNCHANGED agent
    PROVE  Agents'
BY KeptSound DEF HandInv, Agents

LEMMA WorkingSound ==
    ASSUME NEW w, NEW row \in Row, NEW g, NEW p, row.token \in 1 .. Len(g),
           g[row.token].worker = w
    PROVE  Sound(w, Working(row), g, p)
<1> DEFINE token == row.token
           length == row.span
           a == [IdleAgent EXCEPT !.mode = "running", !.token = token,
                                  !.length = length, !.beat = Beat]
<1>1. token \in Nat /\ length \in Int /\ Beat \in Int /\ ReportTries \in Nat \ {0}
  BY WorkerAssumption DEF Row, JobRow
<1> HIDE DEF token, length
<1>2. /\ a \in AgentRow /\ a.mode = "running" /\ a.token = token /\ a.tries = 0
  BY <1>1 DEF IdleAgent, AgentRow, Busy
<1>3. a = Working(row)
  BY DEF Working, token, length
<1> HIDE DEF a
<1>4. token \in 1 .. Len(g) /\ g[token].worker = w
  BY DEF token
<1>5. Sound(w, a, g, p)
  BY <1>1, <1>2, <1>4 DEF Sound
<1>6. QED
  BY <1>3, <1>5

\* A worker that is answered with a job has that job's lease.
LEMMA ClaimedLease ==
    ASSUME OutcomeInv, OutcomeInv', NEW w \in Workers, NEW kinds \in Offers,
           NEW d \in Lags, NEW j \in Jobs,
           ClaimHandedBack(w, kinds, d, j) \/ ClaimStarted(w, kinds, d, j)
    PROVE  /\ job'[j] \in Row
           /\ job'[j].token \in 1 .. Len(granted')
           /\ granted'[job'[j].token].worker = w
<1>0. Swept(d) \in [Jobs -> Row]
  BY SweptType, TypeRows DEF OutcomeInv, ExclusiveInv
<1>1. job'[j].status = "RUNNING" /\ job'[j].worker = w
  <2>1. CASE ClaimHandedBack(w, kinds, d, j)
    BY <2>1 DEF ClaimHandedBack, Held
  <2>2. CASE ClaimStarted(w, kinds, d, j)
    <3> DEFINE t == Len(granted) + 1
    <3>1. job' = [Swept(d) EXCEPT ![j] = Started(Swept(d)[j], w, t, d)]
      BY <2>2 DEF ClaimStarted
    <3>2. Started(Swept(d)[j], w, t, d).status = "RUNNING"
          /\ Started(Swept(d)[j], w, t, d).worker = w
      BY <1>0 DEF Started, Row, JobRow
    <3> HIDE DEF t
    <3>3. QED
      BY <1>0, <3>1, <3>2
  <2>3. QED
    BY <2>1, <2>2
<1>2. job' \in [Jobs -> Row]
  BY DEF OutcomeInv, ExclusiveInv, TypeOK, Row
<1>3. /\ job'[j].token \in Tokens'
      /\ granted'[job'[j].token] =
            [job |-> j, worker |-> job'[j].worker, attempt |-> job'[j].attempt]
  BY <1>1 DEF OutcomeInv, ExclusiveInv, LeaseIsLatestGrant
<1>4. QED
  BY <1>1, <1>2, <1>3 DEF Tokens

LEMMA PollAgents ==
    ASSUME HandInv, OutcomeInv', [Next]_vars, NEW w \in Workers, NEW kinds \in Offers,
           NEW d \in Lags, Poll(w, kinds, d)
    PROVE  Agents'
<1>0. published \subseteq published'
  BY DEF Poll, fileVars
<1>1. ASSUME NEW j \in Jobs,
             ClaimHandedBack(w, kinds, d, j) \/ ClaimStarted(w, kinds, d, j),
             Becomes(w, Working(job'[j]))
      PROVE  Agents'
  <2>1. Sound(w, Working(job'[j]), granted', published')
    BY <1>1, ClaimedLease, WorkingSound DEF HandInv
  <2>2. QED
    BY <1>0, <1>1, <2>1, BecomesSound
<1>2. CASE UNCHANGED agent
  BY <1>0, <1>2, UnchangedSound
<1>3. QED
  BY <1>1, <1>2 DEF Poll

LEMMA RenewAgents ==
    ASSUME HandInv, [Next]_vars, NEW w \in Workers, NEW kinds \in Offers,
           NEW d \in Lags, Renew(w, kinds, d)
    PROVE  Agents'
<1> DEFINE a == agent[w]
           b(event) == [a EXCEPT !.beat = Beat, !.quiet = 0, !.event = event]
<1>0. published \subseteq published'
  BY DEF Renew, fileVars
<1>1. Sound(w, a, granted', published')
  BY <1>0, KeptSound
<1>2. Sound(w, Refused(a), granted', published') /\ Sound(w, Unanswered(a), granted', published')
  BY <1>1, UnansweredSound
<1>3. \A event \in BOOLEAN : Sound(w, b(event), granted', published')
  <2>1. Beat \in Int /\ 0 \in Nat
    BY WorkerAssumption
  <2>2. SUFFICES ASSUME NEW event \in BOOLEAN
                 PROVE  Sound(w, [a EXCEPT !.beat = Beat, !.quiet = 0, !.event = event],
                              granted', published')
    OBVIOUS
  <2> HIDE DEF a
  <2>3. QED
    BY ONLY <1>1, <2>1, <2>2, KeeperSound
<1>4. a.event \in BOOLEAN /\ job[JobOf(w)].cancelled \in BOOLEAN
  <2>1. a \in AgentRow
    BY DEF HandInv, Agents, Sound
  <2>2. granted[a.token].job \in Jobs
    BY BusyToken DEF Renew, Keeping, Grant
  <2>3. job \in [Jobs -> JobRow]
    BY DEF HandInv, OutcomeInv, ExclusiveInv, TypeOK
  <2>4. QED
    BY <2>1, <2>2, <2>3 DEF JobOf, AgentRow, JobRow
<1>5. Becomes(w, b(a.event \/ job[JobOf(w)].cancelled))
        \/ Becomes(w, Refused(a)) \/ Becomes(w, Unanswered(a))
  BY DEF Renew
<1> HIDE DEF a, b
<1>6. Sound(w, b(a.event \/ job[JobOf(w)].cancelled), granted', published')
  BY <1>3, <1>4
<1>7. QED
  BY <1>0, <1>2, <1>5, <1>6, BecomesSound

LEMMA RunAgents ==
    ASSUME HandInv, [Next]_vars, NEW w \in Workers, EndRun(w)
    PROVE  Agents'
<1> DEFINE a == agent[w]
           b == [a EXCEPT !.mode = "publishing", !.tries = 0]
<1>0. published \subseteq published'
  BY DEF EndRun, fileVars
<1>1. Sound(w, a, granted', published') /\ a.mode = "running" /\ a.mode \in Busy
  BY <1>0, KeptSound DEF EndRun, Busy
<1>2. granted'[a.token].job = JobOf(w)
  BY DEF EndRun, vars, JobOf
<1>3. Sound(w, Reporting(a, "error"), granted', published')
  BY <1>1, ReportingSound
<1>4. JobOf(w) \notin Publishes => Sound(w, Reporting(a, "result"), granted', published')
  BY <1>1, <1>2, ReportingSound
<1>5. Sound(w, b, granted', published')
  <2>1. 0 \in Nat /\ 0 < UploadTries
    BY WorkerAssumption
  <2>2. Sound(w, [a EXCEPT !.mode = "publishing", !.tries = 0], granted', published')
    BY ONLY <1>1, <2>1, TryAgainSound
  <2>3. QED
    BY <2>2
<1>6. \/ Becomes(w, Reporting(a, "error"))
      \/ JobOf(w) \notin Publishes /\ Becomes(w, Reporting(a, "result"))
      \/ Becomes(w, b)
  BY DEF EndRun
<1> HIDE DEF a, b
<1>7. QED
  BY <1>0, <1>3, <1>4, <1>5, <1>6, BecomesSound

LEMMA UploadAgents ==
    ASSUME HandInv, [Next]_vars, published \subseteq published', NEW w \in Workers,
           agent[w].mode = "publishing",
           UNCHANGED agent \/ Becomes(w, UploadFailed(agent[w]))
    PROVE  Agents'
<1>1. Sound(w, UploadFailed(agent[w]), granted', published')
  BY KeptSound, UploadFailedSound
<1>2. QED
  BY <1>1, BecomesSound, UnchangedSound

LEMMA StoreAgents ==
    ASSUME HandInv, [Next]_vars, NEW t \in uploads, Store(t)
    PROVE  Agents'
<1> DEFINE w == granted[t].worker
           a == agent[w]
<1>0. published \subseteq published' /\ t \in published'
  BY DEF Store
<1>1. w \in Workers
  <2>1. t \in Tokens /\ granted \in Seq(Grant)
    BY TypeRows DEF HandInv, Files, OutcomeInv, ExclusiveInv
  <2>2. QED
    BY <2>1, GrantType DEF Grant
<1>2. CASE a.mode = "publishing" /\ a.token = t
  <2>1. Sound(w, a, granted', published')
    BY <1>0, <1>1, KeptSound
  <2>2. a.mode \in Busy /\ (granted'[a.token].job \in Publishes => a.token \in published')
    BY <1>0, <1>2 DEF Busy
  <2>3. Sound(w, Reporting(a, "result"), granted', published')
    BY ONLY <2>1, <2>2, ReportingSound
  <2>4. Sound(w, UploadFailed(a), granted', published')
    BY ONLY <1>2, <2>1, UploadFailedSound
  <2>5. Becomes(w, Reporting(a, "result")) \/ Becomes(w, UploadFailed(a))
    BY <1>2 DEF Store
  <2> HIDE DEF w, a
  <2>6. QED
    BY <1>0, <1>1, <2>3, <2>4, <2>5, BecomesSound
<1>3. CASE ~(a.mode = "publishing" /\ a.token = t)
  BY <1>0, <1>3, UnchangedSound DEF Store
<1>4. QED
  BY <1>2, <1>3

LEMMA ReportAgents ==
    ASSUME HandInv, [Next]_vars, published \subseteq published', NEW w \in Workers,
           agent[w].mode \in {"reporting", "failing"},
           \/ Becomes(w, IdleAgent)
           \/ Becomes(w, ReportFailed(agent[w]))
    PROVE  Agents'
<1>1. Sound(w, ReportFailed(agent[w]), granted', published')
  BY KeptSound, ReportFailedSound
<1>2. Sound(w, IdleAgent, granted', published')
  BY IdleSound
<1>3. QED
  BY <1>1, <1>2, BecomesSound

LEMMA ReportErrorAgents ==
    ASSUME HandInv, [Next]_vars, NEW w \in Workers, ReportError(w)
    PROVE  Agents'
<1> DEFINE a == agent[w]
           b == [a EXCEPT !.mode = "failing"]
<1>0. published \subseteq published'
  BY DEF ReportError, fileVars
<1>1. Sound(w, a, granted', published') /\ a.mode = "reporting" /\ a.outcome = "error"
  BY <1>0, KeptSound DEF ReportError
<1> HIDE DEF a
<1>2. /\ b \in AgentRow /\ b.mode = "failing" /\ b.outcome = "error"
      /\ b.token = a.token /\ b.tries = a.tries
  BY <1>1 DEF Sound, AgentRow, Busy
<1>3. Sound(w, b, granted', published')
  <2> HIDE DEF b
  <2>1. QED
    BY <1>1, <1>2 DEF Sound, Busy
<1>4. Becomes(w, b) \/ Becomes(w, ReportFailed(a))
  BY DEF ReportError, a
<1> HIDE DEF b
<1>5. CASE Becomes(w, b)
  BY <1>0, <1>3, <1>5, BecomesSound
<1>6. CASE Becomes(w, ReportFailed(a))
  BY <1>0, <1>1, <1>6, ReportAgents DEF a
<1>7. QED
  BY <1>4, <1>5, <1>6

LEMMA FailAgents ==
    ASSUME HandInv, [Next]_vars, NEW f \in failing, NEW d \in Lags, FailHandled(f, d)
    PROVE  Agents'
<1> DEFINE w == granted[f.token].worker
<1>0. published \subseteq published'
  BY DEF FailHandled, fileVars
<1>1. w \in Workers
  <2>1. f.token \in Tokens /\ granted \in Seq(Grant)
    BY TypeRows DEF HandInv, OutcomeInv, ExclusiveInv, TypeOK
  <2>2. QED
    BY <2>1, GrantType DEF Grant
<1>2. UNCHANGED agent \/ (agent[w].mode = "failing" /\ Becomes(w, IdleAgent))
  BY DEF FailHandled
<1> HIDE DEF w
<1>3. QED
  BY <1>0, <1>1, <1>2, ReportAgents, UnchangedSound

LEMMA PassAgents ==
    ASSUME HandInv, [Next]_vars, Pass
    PROVE  Agents'
<1>0. published \subseteq published'
  BY DEF Pass, fileVars
<1>1. \A w \in Workers : /\ Sound(w, agent[w], granted', published')
                         /\ Sound(w, Older(agent[w]), granted', published')
  BY <1>0, KeptSound, OlderSound
<1>2. \A w \in Workers : agent'[w] = agent[w] \/ agent'[w] = Older(agent[w])
  BY DEF Pass
<1>3. \A w \in Workers : Sound(w, agent'[w], granted', published')
  BY <1>1, <1>2
<1>4. agent' \in [Workers -> AgentRow]
  BY <1>3 DEF Pass, Sound
<1>5. QED
  BY <1>3, <1>4 DEF Agents

LEMMA NextAgents ==
    ASSUME HandInv, OutcomeInv', [NextWorkers]_workerVars
    PROVE  Agents'
<1>0. [Next]_vars
  BY WorkerStepIsQueueStep
<1>1. ASSUME UNCHANGED <<agent, fileVars>> PROVE Agents'
  BY <1>0, <1>1, UnchangedSound DEF fileVars
<1>2. ASSUME NEW w \in Workers, NEW kinds \in Offers, NEW d \in Lags,
             Poll(w, kinds, d) \/ Renew(w, kinds, d)
      PROVE  Agents'
  BY <1>0, <1>2, PollAgents, RenewAgents
<1>3. ASSUME NEW w \in Workers, NEW d \in Lags, Upload(w, d) \/ UploadTimedOut(w)
      PROVE  Agents'
  BY <1>0, <1>3, UploadAgents DEF Upload, UploadTimedOut, fileVars
<1>4. ASSUME NEW w \in Workers, NEW d \in Lags, ReportResult(w, d) \/ ReportTimedOut(w)
      PROVE  Agents'
  BY <1>0, <1>4, ReportAgents DEF ReportResult, ReportTimedOut, fileVars
<1>5. ASSUME NEW w \in Workers, Crash(w) \/ Restart(w) PROVE Agents'
  <2>1. Becomes(w, DownAgent) \/ Becomes(w, IdleAgent)
    BY <1>5 DEF Crash, Restart
  <2>2. published \subseteq published'
    BY <1>5 DEF Crash, Restart, fileVars
  <2>3. QED
    BY <1>0, <2>1, <2>2, IdleSound, BecomesSound
<1>6. ASSUME NEW w \in Workers, EndRun(w) \/ ReportError(w) PROVE Agents'
  BY <1>0, <1>6, RunAgents, ReportErrorAgents
<1>7. ASSUME NEW t \in uploads, Store(t) PROVE Agents'
  BY <1>0, <1>7, StoreAgents
<1>8. ASSUME NEW f \in failing, NEW d \in Lags, FailHandled(f, d) PROVE Agents'
  BY <1>0, <1>8, FailAgents
<1>9. CASE Pass
  BY <1>0, <1>9, PassAgents
<1>10. ASSUME NEW w \in Workers, UploadTimedOut(w) \/ ReportTimedOut(w) PROVE Agents'
  <2>1. 0 \in Lags
    BY QueueAssumption DEF Lags
  <2>2. QED
    BY <1>3, <1>4, <1>10, <2>1
<1>11. CASE Coordinator \/ UNCHANGED workerVars
  BY <1>1, <1>11 DEF Coordinator, agentVars, workerVars
<1>12. ASSUME NEW w \in Workers, Heal(w) \/ (\E how \in {"cut", "asleep"} : Disturb(w, how))
      PROVE  Agents'
  BY <1>1, <1>12 DEF Heal, Disturb
<1>13. QED
  BY <1>2, <1>3, <1>4, <1>5, <1>6, <1>7, <1>8, <1>9, <1>10, <1>11, <1>12
  DEF NextWorkers

LEMMA NextFiles ==
    ASSUME HandInv, [NextWorkers]_workerVars
    PROVE  Files' /\ published \subseteq published'
<1>0. [Next]_vars /\ Tokens \subseteq Tokens'
  BY WorkerStepIsQueueStep, GrantsGrow DEF HandInv, OutcomeInv
<1>1. Files
  BY DEF HandInv
<1>2. ASSUME UNCHANGED <<link, faults, fileVars>> PROVE Files' /\ published \subseteq published'
  BY <1>0, <1>1, <1>2 DEF Files, fileVars
<1>3. ASSUME NEW w \in Workers, NEW d \in Lags, Upload(w, d)
      PROVE  Files' /\ published \subseteq published'
  <2>1. agent[w].token \in Tokens
    BY <1>3, BusyToken DEF Upload, Busy
  <2>2. QED
    BY <1>0, <1>1, <1>3, <2>1 DEF Files, Upload
<1>4. ASSUME NEW t \in uploads, Store(t) PROVE Files' /\ published \subseteq published'
  BY <1>0, <1>1, <1>4 DEF Files, Store
<1>5. ASSUME NEW w \in Workers, Heal(w) PROVE Files' /\ published \subseteq published'
  BY <1>0, <1>1, <1>5 DEF Files, Heal, fileVars
<1>6. ASSUME NEW w \in Workers, NEW how \in {"cut", "asleep"}, Disturb(w, how)
      PROVE  Files' /\ published \subseteq published'
  BY <1>0, <1>1, <1>6, WorkerAssumption DEF Files, Disturb, fileVars
<1>7. ASSUME NEW w \in Workers, Crash(w) PROVE Files' /\ published \subseteq published'
  BY <1>0, <1>1, <1>7, WorkerAssumption DEF Files, Crash, fileVars
<1>8. QED
  BY <1>2, <1>3, <1>4, <1>5, <1>6, <1>7
  DEF NextWorkers, workerVars, agentVars, Coordinator, Poll, Renew, EndRun,
      UploadTimedOut, ReportResult, ReportError, FailHandled, ReportTimedOut,
      Restart, Pass

LEMMA InitHand == InitWorkers => HandInv
<1> SUFFICES ASSUME InitWorkers PROVE HandInv
  OBVIOUS
<1>1. OutcomeInv
  BY InitOutcome DEF InitWorkers
<1>2. IdleAgent \in AgentRow /\ \A w \in Workers : Sound(w, IdleAgent, granted, published)
  BY IdleSound DEF Sound
<1>3. Agents
  BY <1>2 DEF InitWorkers, Agents
<1>4. Files
  BY WorkerAssumption DEF InitWorkers, Files, NoToken
<1>5. CompletedIsPublished
  <2>1. AbsentJob.status # "COMPLETED"
    BY DEF AbsentJob
  <2>2. QED
    BY <2>1, WorkerAssumption DEF InitWorkers, Init, CompletedIsPublished
<1>6. QED
  BY <1>1, <1>3, <1>4, <1>5 DEF HandInv

LEMMA NextHand == HandInv /\ [NextWorkers]_workerVars => HandInv'
<1> SUFFICES ASSUME HandInv, [NextWorkers]_workerVars PROVE HandInv'
  OBVIOUS
<1>1. OutcomeInv'
  BY WorkerStepIsQueueStep, NextOutcome DEF HandInv
<1>2. QED
  BY <1>1, NextAgents, NextFiles, CompletedStep DEF HandInv

LEMMA Hand == SpecWorkers => []HandInv
BY InitHand, NextHand, PTL DEF SpecWorkers

-------------------------------------------------------------------------------
(***************************************************************************)
(* The theorems.                                                           *)
(***************************************************************************)

\* The worker program, with every crash, cut and sleep, only ever does what the
\* queue allows its environment: all that is proved of the queue holds of both.
THEOREM WorkersImplementQueue == SpecWorkers => Spec
<1>1. InitWorkers => Init
  BY DEF InitWorkers
<1>2. QED
  BY <1>1, Hand, WorkerStepIsQueueStep, PTL DEF SpecWorkers, Spec

\* Every process, link and file stays in a state the program can be in.
THEOREM TypeCorrectWorkers == SpecWorkers => []TypeOKWorkers
BY Hand, HandType, PTL

\* No job with output files is recorded as completed before the lease that
\* completed it has put its files in place, for any number of jobs, workers,
\* retries and faults.
THEOREM CompletedIsPublishedHolds == SpecWorkers => []CompletedIsPublished
<1>1. HandInv => CompletedIsPublished
  BY DEF HandInv
<1>2. QED
  BY <1>1, Hand, PTL

\* With the worker program in the loop, no machine is given two jobs and every
\* answer is that of the latest attempt.
THEOREM WorkersKeepTheQueueSafe ==
    SpecWorkers => [](OneJobPerWorker /\ LeaseIsLatestGrant /\ AnswerIsLatestAttempt)
BY WorkersImplementQueue, OneJobPerWorkerHolds, LatestAttemptOnly, PTL

-------------------------------------------------------------------------------
(***************************************************************************)
(* The lease keeper's clock.                                               *)
(***************************************************************************)
SameClock(a, b) == b.quiet = a.quiet /\ b.beat = a.beat /\ b.length = a.length

\* What a step does to the clock of a process: nothing, a new life, an
\* answered renewal, an unanswered one, or a tick before the keeper is due.
ClockMoves(a, b) ==
    \/ SameClock(a, b)
    \/ b.quiet = 0 /\ b.beat = 0
    \/ b.quiet = 0 /\ b.beat = Beat
    \/ b.quiet = a.quiet /\ b.beat = Beat /\ b.length = a.length /\ a.quiet <= a.length
    \/ b.quiet = a.quiet + 1 /\ b.beat = a.beat - 1 /\ b.length = a.length /\ a.beat > -Probe

LEMMA NewLifeClock ==
    /\ IdleAgent.quiet = 0 /\ IdleAgent.beat = 0 /\ DownAgent.quiet = 0 /\ DownAgent.beat = 0
    /\ \A row : Working(row).quiet = 0 /\ Working(row).beat = Beat
BY DEF IdleAgent, DownAgent, Working

LEMMA EndedClock ==
    ASSUME NEW a \in AgentRow, NEW outcome
    PROVE  /\ ClockMoves(a, Reporting(a, outcome))
           /\ ClockMoves(a, UploadFailed(a)) /\ ClockMoves(a, ReportFailed(a))
<1>1. ClockMoves(a, IdleAgent)
  BY NewLifeClock DEF ClockMoves
<1>2. \A o : SameClock(a, [a EXCEPT !.mode = "reporting", !.outcome = o, !.tries = 0])
  BY DEF SameClock, AgentRow
<1>3. \A o : ClockMoves(a, Reporting(a, o))
  BY <1>1, <1>2 DEF Reporting, ClockMoves
<1>4. \A n : SameClock(a, [a EXCEPT !.tries = n])
  BY DEF SameClock, AgentRow
<1>5. \A n : SameClock(a, [a EXCEPT !.mode = "reporting", !.tries = n])
  BY DEF SameClock, AgentRow
<1>6. ClockMoves(a, UploadFailed(a))
  BY <1>3, <1>4 DEF UploadFailed, ClockMoves
<1>7. ClockMoves(a, ReportFailed(a))
  BY <1>1, <1>5 DEF ReportFailed, ClockMoves
<1>8. QED
  BY <1>3, <1>6, <1>7

LEMMA RenewedClock ==
    ASSUME NEW a \in AgentRow
    PROVE  /\ ClockMoves(a, Lost(a)) /\ ClockMoves(a, Refused(a))
           /\ ClockMoves(a, Unanswered(a))
           /\ \A event : ClockMoves(a, [a EXCEPT !.beat = Beat, !.quiet = 0, !.event = event])
<1>1. SameClock(a, Lost(a))
  BY DEF SameClock, Lost, AgentRow
<1>2. a.quiet <= a.length => ClockMoves(a, [a EXCEPT !.beat = Beat])
  BY DEF ClockMoves, AgentRow
<1>3. ClockMoves(a, Unanswered(a))
  <2>1. a.quiet \in Nat /\ a.length \in Int
    BY DEF AgentRow
  <2>2. a.quiet > a.length \/ a.quiet <= a.length
    BY <2>1
  <2>3. QED
    BY <1>1, <1>2, <2>2 DEF Unanswered, ClockMoves
<1>4. \A event : ClockMoves(a, [a EXCEPT !.beat = Beat, !.quiet = 0, !.event = event])
  BY DEF ClockMoves, AgentRow
<1>5. QED
  BY <1>1, <1>3, <1>4 DEF ClockMoves, Refused

LEMMA AgentClock ==
    ASSUME HandInv, [NextWorkers]_workerVars, NEW v \in Workers
    PROVE  ClockMoves(agent[v], agent'[v])
<1> DEFINE good(w, a) == Becomes(w, a) => ClockMoves(agent[v], agent'[v])
<1>0. agent \in [Workers -> AgentRow] /\ agent[v] \in AgentRow
  BY DEF HandInv, Agents
<1>1. ASSUME NEW w \in Workers, NEW a, ClockMoves(agent[w], a) \/ (a.quiet = 0 /\ a.beat \in {0, Beat})
      PROVE  good(w, a)
  <2>1. SUFFICES ASSUME Becomes(w, a) PROVE ClockMoves(agent[v], agent'[v])
    OBVIOUS
  <2>2. CASE v = w
    BY <1>0, <1>1, <2>1, <2>2 DEF Becomes, ClockMoves
  <2>3. CASE v # w
    BY <1>0, <2>1, <2>3 DEF Becomes, ClockMoves, SameClock
  <2>4. QED
    BY <2>2, <2>3
<1> HIDE DEF good
<1>2. \A w \in Workers : good(w, IdleAgent) /\ good(w, DownAgent) /\ \A row : good(w, Working(row))
  BY <1>1, NewLifeClock
<1>3. ASSUME NEW w \in Workers
      PROVE  /\ \A o : good(w, Reporting(agent[w], o))
             /\ good(w, UploadFailed(agent[w])) /\ good(w, ReportFailed(agent[w]))
  <2>1. \A o : ClockMoves(agent[w], Reporting(agent[w], o))
    BY <1>0, <1>3, EndedClock
  <2>2. ClockMoves(agent[w], UploadFailed(agent[w])) /\ ClockMoves(agent[w], ReportFailed(agent[w]))
    BY <1>0, <1>3, EndedClock
  <2>3. QED
    BY <1>1, <1>3, <2>1, <2>2
<1>4. ASSUME NEW w \in Workers
      PROVE  /\ good(w, Refused(agent[w])) /\ good(w, Unanswered(agent[w]))
             /\ \A event : good(w, [agent[w] EXCEPT !.beat = Beat, !.quiet = 0, !.event = event])
  <2> DEFINE a == agent[w]
             b(event) == [a EXCEPT !.beat = Beat, !.quiet = 0, !.event = event]
  <2>1. ClockMoves(a, Refused(a)) /\ ClockMoves(a, Unanswered(a))
    BY <1>0, <1>4, RenewedClock
  <2>2. \A event : ClockMoves(a, b(event))
    <3>1. a \in AgentRow
      BY <1>0, <1>4
    <3> HIDE DEF a
    <3>2. QED
      BY ONLY <3>1, RenewedClock
  <2> HIDE DEF b
  <2>3. \A event : good(w, b(event))
    BY <1>1, <1>4, <2>2
  <2>4. good(w, Refused(a)) /\ good(w, Unanswered(a))
    BY <1>1, <1>4, <2>1
  <2>5. QED
    BY <2>3, <2>4 DEF b
<1>5. ASSUME NEW w \in Workers
      PROVE  /\ good(w, [agent[w] EXCEPT !.mode = "publishing", !.tries = 0])
             /\ good(w, [agent[w] EXCEPT !.mode = "failing"])
  <2> DEFINE b == [agent[w] EXCEPT !.mode = "publishing", !.tries = 0]
             c == [agent[w] EXCEPT !.mode = "failing"]
  <2>1. SameClock(agent[w], b) /\ SameClock(agent[w], c)
    BY <1>0, <1>5 DEF SameClock, AgentRow
  <2> HIDE DEF b, c
  <2>2. good(w, b) /\ good(w, c)
    BY <1>1, <1>5, <2>1 DEF ClockMoves
  <2>3. QED
    BY <2>2 DEF b, c
<1>6. ASSUME UNCHANGED agent PROVE ClockMoves(agent[v], agent'[v])
  BY <1>6 DEF ClockMoves, SameClock
<1>7. CASE Pass
  <2>1. agent'[v] = IF Keeping(agent[v]) /\ link[v] # "asleep" THEN Older(agent[v]) ELSE agent[v]
    BY <1>7 DEF Pass
  <2>2. Keeping(agent[v]) /\ link[v] # "asleep" => agent[v].beat > -Probe
    BY <1>7 DEF Pass
  <2>3. Older(agent[v]).quiet = agent[v].quiet + 1 /\ Older(agent[v]).beat = agent[v].beat - 1
        /\ Older(agent[v]).length = agent[v].length
    BY <1>0 DEF Older, AgentRow
  <2>4. QED
    BY <2>1, <2>2, <2>3 DEF ClockMoves, SameClock
<1>8. ASSUME NEW w \in Workers, NEW kinds \in Offers, NEW d \in Lags, Poll(w, kinds, d)
      PROVE  ClockMoves(agent[v], agent'[v])
  BY <1>2, <1>6, <1>8 DEF Poll, good
<1>9. ASSUME NEW w \in Workers, NEW kinds \in Offers, NEW d \in Lags, Renew(w, kinds, d)
      PROVE  ClockMoves(agent[v], agent'[v])
  <2>1. \/ Becomes(w, Refused(agent[w])) \/ Becomes(w, Unanswered(agent[w]))
        \/ \E event : Becomes(w, [agent[w] EXCEPT !.beat = Beat, !.quiet = 0, !.event = event])
    <3>1. \/ Becomes(w, Refused(agent[w])) \/ Becomes(w, Unanswered(agent[w]))
          \/ Becomes(w, [agent[w] EXCEPT !.beat = Beat, !.quiet = 0,
                                 !.event = agent[w].event \/ job[JobOf(w)].cancelled])
      BY <1>9 DEF Renew
    <3>2. QED
      BY <3>1
  <2>2. QED
    BY <1>4, <2>1 DEF good
<1>10. ASSUME NEW w \in Workers, NEW d \in Lags, Upload(w, d) \/ ReportResult(w, d)
       PROVE  ClockMoves(agent[v], agent'[v])
  BY <1>2, <1>3, <1>6, <1>10 DEF Upload, ReportResult, good
<1>11. ASSUME NEW w \in Workers, EndRun(w) PROVE ClockMoves(agent[v], agent'[v])
  BY <1>3, <1>5, <1>11 DEF EndRun, good
<1>12. ASSUME NEW w \in Workers, UploadTimedOut(w) \/ ReportTimedOut(w) \/ Crash(w) \/ Restart(w)
       PROVE  ClockMoves(agent[v], agent'[v])
  BY <1>2, <1>3, <1>12 DEF UploadTimedOut, ReportTimedOut, Crash, Restart, good
<1>13. ASSUME NEW w \in Workers, ReportError(w) PROVE ClockMoves(agent[v], agent'[v])
  BY <1>3, <1>5, <1>13 DEF ReportError, good
<1>14. ASSUME NEW t \in uploads, Store(t) PROVE ClockMoves(agent[v], agent'[v])
  <2>1. granted[t].worker \in Workers
    BY GrantType, TypeRows DEF HandInv, Files, OutcomeInv, ExclusiveInv, Grant
  <2>2. QED
    BY <1>3, <1>6, <1>14, <2>1 DEF Store, good
<1>15. ASSUME NEW f \in failing, NEW d \in Lags, FailHandled(f, d)
       PROVE  ClockMoves(agent[v], agent'[v])
  <2>1. granted[f.token].worker \in Workers
    BY GrantType, TypeRows DEF HandInv, OutcomeInv, ExclusiveInv, TypeOK, Grant
  <2>2. QED
    BY <1>2, <1>6, <1>15, <2>1 DEF FailHandled, good
<1>16. QED
  BY <1>6, <1>7, <1>8, <1>9, <1>10, <1>11, <1>12, <1>13, <1>14, <1>15
  DEF NextWorkers, Coordinator, agentVars, workerVars, Heal, Disturb

\* The time since the last answer, and the time to the next attempt, make up
\* one interval of the keeper, past the lease at most.
BeatInv ==
    \A w \in Workers :
        /\ agent[w].beat >= -Probe
        /\ \/ agent[w].quiet + agent[w].beat <= Beat
           \/ agent[w].quiet + agent[w].beat <= agent[w].length + Beat

LEMMA InitBeat == InitWorkers => BeatInv
BY NewLifeClock, WorkerAssumption DEF InitWorkers, BeatInv

LEMMA NextBeat ==
    ASSUME HandInv, HandInv', BeatInv, [NextWorkers]_workerVars
    PROVE  BeatInv'
<1> SUFFICES ASSUME NEW w \in Workers
             PROVE  /\ agent'[w].beat >= -Probe
                    /\ \/ agent'[w].quiet + agent'[w].beat <= Beat
                       \/ agent'[w].quiet + agent'[w].beat <= agent'[w].length + Beat
  BY DEF BeatInv
<1> DEFINE a == agent[w]
           b == agent'[w]
<1>1. a \in AgentRow /\ b \in AgentRow
  BY DEF HandInv, Agents
<1>2. /\ a.quiet \in Nat /\ a.beat \in Int /\ a.length \in Int
      /\ b.quiet \in Nat /\ b.beat \in Int /\ b.length \in Int
  BY <1>1 DEF AgentRow
<1>3. ClockMoves(a, b)
  BY AgentClock
<1>4. a.beat >= -Probe /\ (a.quiet + a.beat <= Beat \/ a.quiet + a.beat <= a.length + Beat)
  BY DEF BeatInv
<1>5. Beat \in Nat /\ Probe \in Nat
  BY WorkerAssumption
<1> HIDE DEF a, b
<1>6. b.beat >= -Probe /\ (b.quiet + b.beat <= Beat \/ b.quiet + b.beat <= b.length + Beat)
  BY <1>2, <1>3, <1>4, <1>5 DEF ClockMoves, SameClock
<1>7. QED
  BY <1>6 DEF b

\* However long it is cut off, no process goes on under a lease it has not
\* renewed for more than the lease and one interval of its keeper
\* (LeaseKeeper._run).
THEOREM OverrunIsBoundedHolds == SpecWorkers => []OverrunIsBounded
<1>1. HandInv /\ BeatInv => OverrunIsBounded
  <2> SUFFICES ASSUME HandInv, BeatInv, NEW w \in Workers
               PROVE  \/ agent[w].quiet <= Beat + Probe
                      \/ agent[w].quiet <= agent[w].length + Beat + Probe
    BY DEF OverrunIsBounded
  <2>1. agent[w].quiet \in Nat /\ agent[w].beat \in Int /\ agent[w].length \in Int
    BY DEF HandInv, Agents, AgentRow
  <2>2. QED
    BY <2>1, WorkerAssumption DEF BeatInv
<1>2. InitWorkers => BeatInv
  BY InitBeat
<1>3. HandInv /\ HandInv' /\ BeatInv /\ [NextWorkers]_workerVars => BeatInv'
  BY NextBeat
<1>4. QED
  BY <1>1, <1>2, <1>3, Hand, PTL DEF SpecWorkers

-------------------------------------------------------------------------------
(***************************************************************************)
(* While nothing goes wrong, a keeper that is due within the lease keeps   *)
(* its job.                                                                *)
(***************************************************************************)

\* The process that runs j holds its lease and renews it in time.
Minds(j) ==
    LET a == agent[job[j].worker]
    IN  /\ a.mode \in Busy /\ ~a.lost /\ a.token = job[j].token
        /\ a.beat + a.quiet = Beat /\ a.beat >= -Probe
        /\ job[j].ttl + a.quiet >= Lease - MaxLag

Wanted(j) == job[j].status = "RUNNING" /\ ~job[j].cancelled

Calm ==
    /\ faults = 0
    /\ \A w \in Workers : link[w] = "up"
    /\ \A w \in Workers : agent[w].mode = "failing" =>
          \E f \in failing : f.token = agent[w].token
    /\ \A j \in Jobs : Wanted(j) => Minds(j)
    /\ \A j \in Jobs : /\ job[j].status \in {"absent", "QUEUED"} => job[j].attempt = 0
                       /\ job[j].attempt <= 1

CalmInv == faults = 0 => Calm

\* A renewal is due before the oldest stamp could find the lease expired.
InTime == Beat + Probe + MaxLag < Lease

\* The lease of a job that is minded is live for every stamp.
LEMMA MindedLease ==
    ASSUME InTime, HandInv, NEW j \in Jobs, Wanted(j), Minds(j)
    PROVE  /\ job[j].worker \in Workers /\ job[j].ttl > 0
           /\ job[j].token \in Tokens /\ granted[job[j].token].job = j
           /\ granted[job[j].token].worker = job[j].worker
           /\ JobOf(job[j].worker) = j
           /\ \A d \in Lags : Holds(job[j].token, d) /\ Authorised(job[j].token, d)
<1> DEFINE w == job[j].worker
           a == agent[w]
<1>1. job[j].token \in Tokens
      /\ granted[job[j].token] =
           [job |-> j, worker |-> job[j].worker, attempt |-> job[j].attempt]
  BY DEF HandInv, OutcomeInv, ExclusiveInv, LeaseIsLatestGrant, Wanted
<1>2. w \in Workers
  <2>1. granted[job[j].token] \in Grant
    BY <1>1, GrantType, TypeRows DEF HandInv, OutcomeInv, ExclusiveInv
  <2>2. QED
    BY <1>1, <2>1 DEF Grant
<1>3. a.quiet \in Nat /\ a.beat \in Int /\ job[j].ttl \in Int
  BY <1>2 DEF HandInv, Agents, AgentRow, OutcomeInv, ExclusiveInv, TypeOK, JobRow
<1>4. job[j].ttl > 0
  <2>1. a.beat + a.quiet = Beat /\ a.beat >= -Probe /\ job[j].ttl + a.quiet >= Lease - MaxLag
    BY DEF Minds
  <2> HIDE DEF a
  <2>2. QED
    BY <1>3, <2>1, WorkerAssumption, QueueAssumption DEF InTime
<1>5. \A d \in Lags : job[j].ttl > -d
  BY <1>3, <1>4, QueueAssumption DEF Lags
<1>6. JobOf(w) = j
  BY <1>1 DEF JobOf, Minds
<1>7. QED
  BY <1>1, <1>2, <1>4, <1>5, <1>6 DEF Holds, Authorised, Wanted

\* What the step of another process, or of no process, leaves as it was.
LEMMA OwnToken ==
    ASSUME HandInv, NEW v \in Workers, NEW w \in Workers,
           agent[v].mode \in Busy, agent[w].mode \in Busy, agent[v].token = agent[w].token
    PROVE  v = w
BY BusyToken

\* The states through which a process that is not lost takes its lease.
LEMMA StaysBusy ==
    ASSUME NEW a \in AgentRow, ~a.lost, a.mode \in Busy, NEW o
    PROVE  LET same(b) == /\ b.mode \in Busy /\ ~b.lost /\ b.token = a.token
                          /\ SameClock(a, b) /\ b.mode # "failing"
           IN  /\ same(Reporting(a, o))
               /\ same([a EXCEPT !.mode = "publishing", !.tries = 0])
BY DEF Reporting, SameClock, AgentRow, Busy

\* A process that minds a job still minds it after a step that leaves the job
\* wanted, unless the step is one of the clock.
LEMMA KeepsBusy ==
    ASSUME InTime, HandInv, Calm, [NextWorkers]_workerVars, faults' = 0, ~Pass,
           NEW j \in Jobs, Wanted(j), Minds(j), Wanted(j)'
    PROVE  LET a == agent[job[j].worker]
               b == agent'[job[j].worker]
           IN  /\ b.mode \in Busy /\ ~b.lost /\ b.token = a.token
               /\ \/ SameClock(a, b)
                  \/ b.quiet = 0 /\ b.beat = Beat /\ job'[j].ttl >= Lease - MaxLag
<1> DEFINE w == job[j].worker
           a == agent[w]
           b == agent'[w]
           kept == /\ b.mode \in Busy /\ ~b.lost /\ b.token = a.token
                   /\ \/ SameClock(a, b)
                      \/ b.quiet = 0 /\ b.beat = Beat /\ job'[j].ttl >= Lease - MaxLag
<1>0. /\ agent \in [Workers -> AgentRow] /\ w \in Workers /\ a \in AgentRow
      /\ link[w] = "up" /\ a.mode \in Busy /\ ~a.lost /\ a.token = job[j].token
      /\ granted[a.token].worker = w /\ granted[a.token].job = j /\ JobOf(w) = j
      /\ \A d \in Lags : Holds(a.token, d) /\ Authorised(a.token, d)
      /\ ~job[j].cancelled /\ job'[j].status = "RUNNING"
      /\ job \in [Jobs -> Row]
  BY MindedLease, TypeRows DEF HandInv, Agents, Calm, Minds, Wanted, OutcomeInv, ExclusiveInv
<1>1. ASSUME b = a PROVE kept
  BY <1>0, <1>1 DEF SameClock
<1>2. ASSUME NEW x, Becomes(w, x) PROVE b = x
  BY <1>0, <1>2 DEF Becomes
<1>3. ASSUME NEW v \in Workers, NEW x, Becomes(v, x), v # w PROVE kept
  BY <1>0, <1>1, <1>3 DEF Becomes
<1>4. ASSUME NEW t \in Tokens, NEW d, NEW status \in Terminal, NEW failure, t = a.token,
             Finish(t, d, status, failure)
      PROVE  FALSE
  <2>1. job'[j] = Closed(job[j], t, status, failure)
    BY <1>0, <1>4 DEF Finish
  <2>2. job'[j].status = status
    BY <1>0, <2>1 DEF Closed, WithoutLease, Row, JobRow
  <2>3. QED
    BY <1>0, <2>2 DEF Terminal
<1>5. ASSUME UNCHANGED agent PROVE kept
  BY <1>1, <1>5
<1>6. \A o : b = Reporting(a, o) => kept
  <2> SUFFICES ASSUME NEW o, b = Reporting(a, o) PROVE kept
    OBVIOUS
  <2>1. a \in AgentRow /\ ~a.lost /\ a.mode \in Busy
    BY <1>0
  <2> HIDE DEF a
  <2>2. /\ Reporting(a, o).mode \in Busy /\ ~Reporting(a, o).lost
        /\ Reporting(a, o).token = a.token /\ SameClock(a, Reporting(a, o))
    BY ONLY <2>1, StaysBusy
  <2>3. QED
    BY <2>2
<1>7. ASSUME NEW v \in Workers, NEW kinds \in Offers, NEW d \in Lags, Poll(v, kinds, d)
      PROVE  kept
  <2>1. v # w
    BY <1>0, <1>7 DEF Poll, Busy
  <2>2. UNCHANGED agent \/ \E x : Becomes(v, x)
    BY <1>7 DEF Poll
  <2>3. QED
    BY <1>3, <1>5, <2>1, <2>2
<1>8. ASSUME NEW v \in Workers, NEW kinds \in Offers, NEW d \in Lags, Renew(v, kinds, d)
      PROVE  kept
  <2>1. CASE v # w
    BY <1>3, <1>8, <2>1 DEF Renew
  <2>2. CASE v = w
    <3>1. b = [a EXCEPT !.beat = Beat, !.quiet = 0, !.event = a.event \/ job[JobOf(w)].cancelled]
      BY <1>0, <1>2, <1>8, <2>2 DEF Renew
    <3>2. Heartbeat(a.token, kinds, d)
      BY <1>0, <1>8, <2>2 DEF Renew
    <3>3. job'[j].ttl = Lease - d
      BY <1>0, <3>2 DEF Heartbeat, Row, JobRow
    <3>4. Lease - d >= Lease - MaxLag
      BY QueueAssumption DEF Lags
    <3>5. QED
      BY <1>0, <3>1, <3>3, <3>4 DEF AgentRow
  <2>3. QED
    BY <2>1, <2>2
<1>9. ASSUME NEW v \in Workers, EndRun(v) PROVE kept
  <2>1. CASE v # w
    BY <1>3, <1>9, <2>1 DEF EndRun
  <2>2. CASE v = w
    <3>1. (\E o : b = Reporting(a, o)) \/ b = [a EXCEPT !.mode = "publishing", !.tries = 0]
      BY <1>2, <1>9, <2>2 DEF EndRun
    <3>2. QED
      BY <1>0, <1>6, <3>1, StaysBusy
  <2>3. QED
    BY <2>1, <2>2
<1>10. ASSUME NEW v \in Workers, NEW d \in Lags, Upload(v, d) PROVE kept
  <2>1. CASE v # w
    BY <1>3, <1>5, <1>10, <2>1 DEF Upload
  <2>2. CASE v = w
    BY <1>0, <1>5, <1>10, <2>2 DEF Upload
  <2>3. QED
    BY <2>1, <2>2
<1>11. ASSUME NEW t \in uploads, Store(t) PROVE kept
  <2> DEFINE v == granted[t].worker
  <2>1. v \in Workers
    BY GrantType, TypeRows DEF HandInv, Files, OutcomeInv, ExclusiveInv, Grant
  <2>2. link[v] = "up"
    BY <2>1 DEF Calm
  <2>3. UNCHANGED agent \/ Becomes(v, Reporting(agent[v], "result"))
    BY <1>11, <2>2 DEF Store
  <2> HIDE DEF v
  <2>4. CASE v = w
    BY <1>2, <1>5, <1>6, <2>3, <2>4
  <2>5. CASE v # w
    BY <1>3, <1>5, <2>1, <2>3, <2>5
  <2>6. QED
    BY <2>4, <2>5
<1>12. ASSUME NEW v \in Workers, NEW d \in Lags, ReportResult(v, d) PROVE kept
  <2>1. CASE v # w
    BY <1>3, <1>12, <2>1 DEF ReportResult
  <2>2. CASE v = w
    <3>1. Complete(a.token, d)
      BY <1>0, <1>12, <2>2 DEF ReportResult
    <3>2. a.token \in Tokens
      BY <1>0, BusyToken
    <3>3. QED
      BY <1>4, <3>1, <3>2 DEF Complete, Terminal
  <2>3. QED
    BY <2>1, <2>2
<1>13. ASSUME NEW v \in Workers, ReportError(v) PROVE kept
  <2>1. CASE v # w
    BY <1>3, <1>13, <2>1 DEF ReportError
  <2>2. CASE v = w
    <3>1. b = [a EXCEPT !.mode = "failing"]
      BY <1>0, <1>2, <1>13, <2>2 DEF ReportError
    <3>2. QED
      BY <1>0, <3>1 DEF AgentRow, SameClock, Busy
  <2>3. QED
    BY <2>1, <2>2
<1>14. ASSUME NEW f \in failing, NEW d \in Lags, FailHandled(f, d) PROVE kept
  <2> DEFINE v == granted[f.token].worker
  <2>1. f.token \in Tokens /\ v \in Workers
    BY GrantType, TypeRows DEF HandInv, OutcomeInv, ExclusiveInv, TypeOK, Grant
  <2>2. CASE f.token = a.token
    <3>1. Finish(f.token, d, "FAILED", f.kind)
      BY <1>0, <1>14, <2>2 DEF FailHandled, FailWrite
    <3>2. QED
      BY <1>4, <2>1, <2>2, <3>1 DEF Terminal
  <2>3. CASE f.token # a.token
    <3>1. UNCHANGED agent \/ (Becomes(v, IdleAgent) /\ agent[v].token = f.token)
      BY <1>14 DEF FailHandled
    <3> HIDE DEF v
    <3>2. QED
      BY <1>3, <1>5, <2>1, <2>3, <3>1
  <2>4. QED
    BY <2>2, <2>3
<1>15. ASSUME NEW v \in Workers, UploadTimedOut(v) \/ ReportTimedOut(v) PROVE kept
  <2>1. CASE v # w
    BY <1>3, <1>15, <2>1 DEF UploadTimedOut, ReportTimedOut
  <2>2. CASE v = w
    <3>1. agent[w].mode = "failing" => \E f \in failing : f.token = agent[w].token
      BY <1>0 DEF Calm
    <3>2. QED
      BY <1>0, <1>15, <2>2, <3>1 DEF UploadTimedOut, ReportTimedOut
  <2>3. QED
    BY <2>1, <2>2
<1>16. ASSUME NEW v \in Workers, Crash(v) PROVE kept
  BY <1>16 DEF Crash, Calm
<1>17. ASSUME NEW v \in Workers, Restart(v) PROVE kept
  BY <1>0, <1>3, <1>17 DEF Restart, Busy
<1> HIDE DEF kept, w, a, b
<1>18. kept
  <2>1. CASE \E v \in Workers, kinds \in Offers, d \in Lags : Poll(v, kinds, d) \/ Renew(v, kinds, d)
    BY <1>7, <1>8, <2>1
  <2>2. CASE \E v \in Workers, d \in Lags : Upload(v, d) \/ ReportResult(v, d)
    BY <1>10, <1>12, <2>2
  <2>3. CASE \E v \in Workers : EndRun(v) \/ UploadTimedOut(v) \/ ReportError(v) \/ ReportTimedOut(v)
                                \/ Crash(v) \/ Restart(v)
    BY <1>9, <1>13, <1>15, <1>16, <1>17, <2>3
  <2>4. CASE \E t \in uploads : Store(t)
    BY <1>11, <2>4
  <2>5. CASE \E f \in failing, d \in Lags : FailHandled(f, d)
    BY <1>14, <2>5
  <2>6. CASE UNCHANGED agent
    BY <1>5, <2>6
  <2>7. \/ \E v \in Workers, kinds \in Offers, d \in Lags : Poll(v, kinds, d) \/ Renew(v, kinds, d)
        \/ \E v \in Workers, d \in Lags : Upload(v, d) \/ ReportResult(v, d)
        \/ \E v \in Workers : EndRun(v) \/ UploadTimedOut(v) \/ ReportError(v) \/ ReportTimedOut(v)
                              \/ Crash(v) \/ Restart(v)
        \/ \E t \in uploads : Store(t)
        \/ \E f \in failing, d \in Lags : FailHandled(f, d)
        \/ UNCHANGED agent
    BY DEF NextWorkers, Coordinator, agentVars, workerVars, Heal, Disturb
  <2>8. QED
    BY <2>1, <2>2, <2>3, <2>4, <2>5, <2>6, <2>7
<1>19. QED
  BY <1>18 DEF kept, w, a, b

LEMMA PassKeepsBusy ==
    ASSUME HandInv, Calm, Pass, NEW j \in Jobs, Minds(j), job[j].worker \in Workers
    PROVE  LET a == agent[job[j].worker]
               b == agent'[job[j].worker]
           IN  /\ b.mode \in Busy /\ ~b.lost /\ b.token = a.token
               /\ b.quiet = a.quiet + 1 /\ b.beat = a.beat - 1 /\ a.beat > -Probe
<1> DEFINE w == job[j].worker
           a == agent[w]
<1>1. a \in AgentRow /\ Keeping(a) /\ link[w] # "asleep"
  BY DEF HandInv, Agents, Calm, Minds, Keeping
<1>2. agent'[w] = Older(a) /\ a.beat > -Probe
  BY <1>1 DEF Pass
<1> HIDE DEF a
<1>3. /\ Older(a).mode = a.mode /\ Older(a).lost = a.lost /\ Older(a).token = a.token
      /\ Older(a).quiet = a.quiet + 1 /\ Older(a).beat = a.beat - 1
  BY <1>1 DEF Older, AgentRow
<1>4. QED
  BY <1>1, <1>2, <1>3 DEF Keeping, a

\* A process that waits for the answer to its failure report gets one: the
\* handler is still at work.
LEMMA FailingKept ==
    ASSUME HandInv, Calm, [NextWorkers]_workerVars, faults' = 0, NEW w \in Workers,
           agent'[w].mode = "failing"
    PROVE  \E f \in failing' : f.token = agent'[w].token
<1> DEFINE a == agent[w]
           b == agent'[w]
           asBefore == a.mode = "failing" /\ b.token = a.token
<1>0. /\ agent \in [Workers -> AgentRow] /\ a \in AgentRow /\ link[w] = "up"
      /\ a.mode = "failing" => \E f \in failing : f.token = a.token
  BY DEF HandInv, Agents, Calm
<1>1. ASSUME asBefore, failing \subseteq failing'
      PROVE  \E f \in failing' : f.token = b.token
  BY <1>0, <1>1
<1>2. ASSUME NEW v \in Workers, NEW x, Becomes(v, x), x.mode # "failing" PROVE asBefore
  BY <1>0, <1>2 DEF Becomes
<1>3. ASSUME UNCHANGED agent PROVE asBefore
  BY <1>3
<1>4. ASSUME NEW x \in AgentRow
      PROVE  /\ x.mode # "failing" => Reporting(x, "result").mode # "failing"
             /\ Reporting(x, "error").mode # "failing"
             /\ Reporting(x, "result").mode # "failing"
             /\ x.mode # "failing" => UploadFailed(x).mode # "failing"
             /\ ReportFailed(x).mode # "failing"
             /\ IdleAgent.mode # "failing" /\ DownAgent.mode # "failing"
             /\ \A row : Working(row).mode # "failing"
  BY DEF Reporting, UploadFailed, ReportFailed, IdleAgent, DownAgent, Working, AgentRow
<1>5. ASSUME NEW v \in Workers, NEW kinds \in Offers, NEW d \in Lags, Renew(v, kinds, d)
      PROVE  asBefore
  <2>1. /\ Refused(agent[v]).mode = agent[v].mode /\ Refused(agent[v]).token = agent[v].token
        /\ Unanswered(agent[v]).mode = agent[v].mode
        /\ Unanswered(agent[v]).token = agent[v].token
    BY <1>0 DEF Refused, Unanswered, Lost, AgentRow
  <2>2. agent[v] \in AgentRow
    BY <1>0
  <2>3. \A e : LET x == [agent[v] EXCEPT !.beat = Beat, !.quiet = 0, !.event = e]
               IN  x.mode = agent[v].mode /\ x.token = agent[v].token
    BY <2>2 DEF AgentRow
  <2>4. \/ \E e : Becomes(v, [agent[v] EXCEPT !.beat = Beat, !.quiet = 0, !.event = e])
        \/ Becomes(v, Refused(agent[v])) \/ Becomes(v, Unanswered(agent[v]))
    BY <1>5 DEF Renew
  <2>5. \E x : Becomes(v, x) /\ x.mode = agent[v].mode /\ x.token = agent[v].token
    BY <2>1, <2>3, <2>4
  <2>6. QED
    BY <1>0, <2>5 DEF Becomes
<1>6. ASSUME NEW v \in Workers, NEW kinds \in Offers, NEW d \in Lags, Poll(v, kinds, d)
      PROVE  asBefore
  BY <1>0, <1>2, <1>3, <1>4, <1>6 DEF Poll
<1>7. ASSUME NEW v \in Workers,
             \/ EndRun(v) \/ UploadTimedOut(v) \/ ReportTimedOut(v) \/ Crash(v) \/ Restart(v)
             \/ \E d \in Lags : Upload(v, d) \/ ReportResult(v, d)
      PROVE  asBefore
  <2>1. agent[v] \in AgentRow
    BY <1>0
  <2>2. [agent[v] EXCEPT !.mode = "publishing", !.tries = 0].mode # "failing"
    BY <2>1 DEF AgentRow
  <2>3. UNCHANGED agent \/ \E x : Becomes(v, x) /\ x.mode # "failing"
    <3>1. CASE EndRun(v) \/ UploadTimedOut(v) \/ ReportTimedOut(v)
      BY <1>4, <2>1, <2>2, <3>1 DEF EndRun, UploadTimedOut, ReportTimedOut
    <3>2. CASE Crash(v) \/ Restart(v)
      BY <1>4, <2>1, <3>2 DEF Crash, Restart
    <3>3. CASE \E d \in Lags : Upload(v, d)
      BY <1>4, <2>1, <3>3 DEF Upload
    <3>4. CASE \E d \in Lags : ReportResult(v, d)
      BY <1>4, <2>1, <3>4 DEF ReportResult
    <3>5. QED
      BY <1>7, <3>1, <3>2, <3>3, <3>4
  <2>4. QED
    BY <1>2, <1>3, <2>3
<1>8. ASSUME NEW t \in uploads, Store(t) PROVE asBefore
  <2> DEFINE v == granted[t].worker
  <2>1. v \in Workers
    BY GrantType, TypeRows DEF HandInv, Files, OutcomeInv, ExclusiveInv, Grant
  <2>2. agent[v] \in AgentRow
    BY <1>0, <2>1
  <2>3. \/ UNCHANGED agent
        \/ agent[v].mode # "failing" /\ (\/ Becomes(v, Reporting(agent[v], "result"))
                                        \/ Becomes(v, UploadFailed(agent[v])))
    BY <1>8 DEF Store
  <2> HIDE DEF v
  <2>4. QED
    BY <1>2, <1>3, <1>4, <2>1, <2>2, <2>3
<1>9. ASSUME Pass PROVE asBefore
  <2>1. Older(a).mode = a.mode /\ Older(a).token = a.token
    BY <1>0 DEF Older, AgentRow
  <2>2. QED
    BY <1>9, <2>1 DEF Pass
<1>10. ASSUME NEW v \in Workers, ReportError(v)
       PROVE  \E f \in failing' : f.token = b.token
  <2>1. failing \subseteq failing'
    BY <1>10 DEF ReportError, FailRead, Quiet, vars
  <2>2. CASE v = w /\ FailRead(a.token) /\ Becomes(w, [a EXCEPT !.mode = "failing"])
    <3>1. b.token = a.token
      BY <1>0, <2>2 DEF Becomes, AgentRow
    <3>2. PICK kind : failing' = failing \cup {[token |-> a.token, kind |-> kind]}
      BY <2>2 DEF FailRead
    <3> DEFINE f == [token |-> a.token, kind |-> kind]
    <3>3. f \in failing' /\ f.token = a.token
      BY <3>2
    <3> HIDE DEF f
    <3>4. QED
      BY <3>1, <3>3
  <2>3. CASE v # w
    BY <1>0, <1>1, <1>10, <2>1, <2>3 DEF ReportError, Becomes
  <2>4. CASE Becomes(v, ReportFailed(agent[v]))
    <3>1. ReportFailed(agent[v]).mode # "failing"
      BY <1>0, <1>4
    <3>2. QED
      BY <1>1, <1>2, <2>1, <2>4, <3>1
  <2>5. QED
    BY <1>10, <2>2, <2>3, <2>4 DEF ReportError
<1>11. ASSUME NEW f \in failing, NEW d \in Lags, FailHandled(f, d)
       PROVE  \E g \in failing' : g.token = b.token
  <2> DEFINE v == granted[f.token].worker
  <2>1. f.token \in Tokens /\ v \in Workers
    BY GrantType, TypeRows DEF HandInv, OutcomeInv, ExclusiveInv, TypeOK, Grant
  <2>2. CASE a.mode = "failing" /\ a.token = f.token
    <3>1. v = w
      BY <2>2, BusyToken DEF Busy
    <3>2. Becomes(w, IdleAgent)
      BY <1>0, <1>11, <2>2, <3>1 DEF FailHandled
    <3>3. QED
      BY <1>0, <3>2 DEF Becomes, IdleAgent
  <2>3. CASE ~(a.mode = "failing" /\ a.token = f.token)
    <3>1. failing' = failing \ {f}
      BY <1>11 DEF FailHandled, FailWrite
    <3>2. UNCHANGED agent \/ Becomes(v, IdleAgent)
      BY <1>11 DEF FailHandled
    <3> HIDE DEF v
    <3>3. asBefore
      BY <1>0, <1>2, <1>3, <1>4, <2>1, <3>2
    <3>4. QED
      BY <1>0, <2>3, <3>1, <3>3
  <2>4. QED
    BY <2>2, <2>3
<1> HIDE DEF asBefore
<1>12. ASSUME NEW v \in Workers, NEW kinds \in Offers, NEW d \in Lags,
              Poll(v, kinds, d) \/ Renew(v, kinds, d)
       PROVE  asBefore /\ failing' = failing
  BY <1>5, <1>6, <1>12
  DEF Poll, Claim, ClaimDeclined, ClaimEmpty, ClaimHandedBack, ClaimStarted, Renew,
      Heartbeat, Quiet, vars
<1>13. ASSUME NEW v \in Workers,
              \/ EndRun(v) \/ UploadTimedOut(v) \/ ReportTimedOut(v) \/ Crash(v) \/ Restart(v)
              \/ \E d \in Lags : Upload(v, d) \/ ReportResult(v, d)
       PROVE  asBefore /\ failing' = failing
  <2>1. failing' = failing
    BY <1>13 DEF EndRun, UploadTimedOut, ReportTimedOut, Crash, Restart, Upload, ReportResult,
                 Complete, Quiet, vars
  <2>2. QED
    BY <1>7, <1>13, <2>1
<1>14. ASSUME NEW t \in uploads, Store(t) PROVE asBefore /\ failing' = failing
  BY <1>8, <1>14 DEF Store, vars
<1>15. CASE Pass
  BY <1>1, <1>9, <1>15 DEF Pass, Tick
<1>16. ASSUME \/ Coordinator \/ UNCHANGED workerVars
              \/ \E v \in Workers : Heal(v) \/ \E how \in {"cut", "asleep"} : Disturb(v, how)
       PROVE  asBefore /\ failing' = failing
  <2>1. UNCHANGED agent
    BY <1>16 DEF Coordinator, agentVars, workerVars, Heal, Disturb
  <2>2. failing' = failing
    BY <1>16 DEF Coordinator, Create, CancelRead, CancelWrite, ReadExpired, RecoverExpired,
                 SetEnabled, SetCapacity, workerVars, vars, Heal, Disturb
  <2>3. QED
    BY <1>3, <2>1, <2>2
<1>17. QED
  BY <1>1, <1>10, <1>11, <1>12, <1>13, <1>14, <1>15, <1>16 DEF NextWorkers

\* Nothing but a claim adds a lease.
LEMMA GrantsByPoll ==
    ASSUME [NextWorkers]_workerVars, granted' # granted
    PROVE  \E w \in Workers, kinds \in Offers, d \in Lags : Poll(w, kinds, d)
<1>1. Coordinator => granted' = granted
  BY DEF Coordinator, Create, CancelRead, CancelWrite, ReadExpired, RecoverExpired, SetEnabled,
         SetCapacity
<1>2. \A w \in Workers, kinds \in Offers, d \in Lags : Renew(w, kinds, d) => granted' = granted
  <2>1. \A t, kinds, d : Heartbeat(t, kinds, d) => granted' = granted
    BY DEF Heartbeat
  <2>2. Quiet => granted' = granted
    BY DEF Quiet, vars
  <2>3. QED
    BY <2>1, <2>2 DEF Renew
<1>3. \A w \in Workers, d \in Lags : ReportResult(w, d) => granted' = granted
  BY DEF ReportResult, Complete, Quiet, vars
<1>4. \A w \in Workers : ReportError(w) => granted' = granted
  BY DEF ReportError, FailRead, Quiet, vars
<1>5. \A f \in failing, d \in Lags : FailHandled(f, d) => granted' = granted
  BY DEF FailHandled, FailWrite
<1>6. Pass => granted' = granted
  BY DEF Pass, Tick
<1>7. QED
  BY <1>1, <1>2, <1>3, <1>4, <1>5, <1>6
  DEF NextWorkers, workerVars, vars, Upload, EndRun, UploadTimedOut, ReportTimedOut, Heal, Crash,
      Restart, Disturb, Store

LEMMA StartedLease ==
    ASSUME HandInv, NEW w \in Workers, NEW kinds \in Offers, NEW d \in Lags, NEW j \in Jobs,
           ClaimStarted(w, kinds, d, j)
    PROVE  /\ job'[j] \in Row /\ job'[j].worker = w /\ job'[j].ttl = Lease - d
           /\ granted' # granted
           /\ Len(granted') = Len(granted) + 1
           /\ granted'[Len(granted')].job = j
<1> DEFINE t == Len(granted) + 1
           s == Swept(d)[j]
<1>0. /\ Swept(d) \in [Jobs -> Row] /\ granted \in Seq(Grant) /\ Len(granted) \in Nat
      /\ job[j].attempt + 1 \in Nat
  BY SweptType, TypeRows DEF HandInv, OutcomeInv, ExclusiveInv, Row, JobRow
<1>1. job'[j] = Started(s, w, t, d)
  BY <1>0 DEF ClaimStarted
<1>2. t \in Nat /\ s \in Row /\ Lease - d \in Int /\ Lease - d \in -MaxLag .. Lease /\ Lease \in Int
  BY <1>0, QueueAssumption DEF Lags
<1>3. granted' = Append(granted, [job |-> j, worker |-> w, attempt |-> job[j].attempt + 1])
  BY DEF ClaimStarted
<1> HIDE DEF t, s
<1>4. Started(s, w, t, d).worker = w /\ Started(s, w, t, d).ttl = Lease - d
  BY <1>2 DEF Started, Row, JobRow
<1>5. Started(s, w, t, d) \in Row
  <2> DEFINE n == s.attempt + 1
             l == Lease - d
  <2>1. n \in Nat /\ l \in Int /\ l \in -MaxLag .. Lease /\ NoToken \in Nat
    BY <1>2 DEF Row, JobRow, NoToken
  <2>2. Started(s, w, t, d) =
          [s EXCEPT !.status = "RUNNING", !.worker = w, !.token = t, !.ttl = l, !.span = Lease,
                    !.attempt = n, !.failure = "none", !.report = NoToken]
    BY <1>2 DEF Started, Row, JobRow
  <2> HIDE DEF n, l
  <2>3. QED
    BY <1>2, <2>1, <2>2 DEF Row, JobRow, Unfinished
<1>6. /\ Len(granted') = Len(granted) + 1
      /\ granted'[Len(granted')] = [job |-> j, worker |-> w, attempt |-> job[j].attempt + 1]
  <2>1. [job |-> j, worker |-> w, attempt |-> job[j].attempt + 1] \in Grant
    BY <1>0 DEF Grant
  <2>2. QED
    BY <1>0, <1>3, <2>1
<1>7. QED
  BY <1>0, <1>1, <1>4, <1>5, <1>6

\* A job comes to run in the hands of a process that minds it.
LEMMA NewLease ==
    ASSUME HandInv, HandInv', Calm, [NextWorkers]_workerVars, NEW j \in Jobs,
           job[j].status # "RUNNING", job'[j].status = "RUNNING"
    PROVE  Minds(j)'
<1>1. PICK w \in Workers, kinds \in Offers, d \in Lags : ClaimStarted(w, kinds, d, j)
  BY WorkerStepIsQueueStep, RunsByClaim DEF HandInv, OutcomeInv
<1>2. /\ job'[j] \in Row /\ job'[j].worker = w /\ job'[j].ttl = Lease - d
      /\ granted' # granted /\ Len(granted') = Len(granted) + 1
      /\ granted'[Len(granted')].job = j
  BY <1>1, StartedLease
<1>3. PICK v \in Workers, k \in Offers, e \in Lags : Poll(v, k, e)
  BY <1>2, GrantsByPoll
<1>4. PICK i \in Jobs : /\ ClaimStarted(v, k, e, i) /\ Becomes(v, Working(job'[i]))
  BY <1>2, <1>3 DEF Poll, Calm, ClaimHandedBack, ClaimDeclined, ClaimEmpty
<1>5. job'[i].worker = v /\ granted'[Len(granted')].job = i
  BY <1>4, StartedLease
<1>6. i = j /\ v = w
  BY <1>2, <1>5
<1>7. agent'[w] = Working(job'[j])
  BY <1>4, <1>6 DEF Becomes, HandInv, Agents
<1>8. LET b == Working(job'[j])
      IN  /\ b.mode = "running" /\ ~b.lost /\ b.token = job'[j].token
          /\ b.beat = Beat /\ b.quiet = 0
  BY DEF Working, IdleAgent
<1>9. Beat + 0 = Beat /\ Beat >= -Probe /\ (Lease - d) + 0 >= Lease - MaxLag
  BY WorkerAssumption, QueueAssumption DEF Lags
<1>10. Minds(j)' <=> LET a == agent'[job'[j].worker]
                     IN  /\ a.mode \in Busy /\ ~a.lost /\ a.token = job'[j].token
                         /\ a.beat + a.quiet = Beat /\ a.beat >= -Probe
                         /\ job'[j].ttl + a.quiet >= Lease - MaxLag
  BY DEF Minds
<1>11. QED
  BY <1>2, <1>7, <1>8, <1>9, <1>10 DEF Busy

\* Whoever minded a job goes on minding it.
LEMMA KeptLease ==
    ASSUME InTime, HandInv, Calm, [NextWorkers]_workerVars, faults' = 0,
           NEW j \in Jobs, Wanted(j), Wanted(j)'
    PROVE  Minds(j)'
<1> DEFINE w == job[j].worker
           a == agent[w]
           b == agent'[w]
<1>1. Minds(j) /\ w \in Workers /\ job[j].ttl > 0
  BY MindedLease DEF Calm
<1>2. GoesOn(j)
  BY <1>1, WorkerStepIsQueueStep, LiveLease
  DEF Wanted, ReportedNow, Terminal, HandInv, OutcomeInv
<1>3. /\ a.token = job[j].token /\ a.beat + a.quiet = Beat /\ a.beat >= -Probe
      /\ job[j].ttl + a.quiet >= Lease - MaxLag
  BY <1>1 DEF Minds
<1>4. /\ a.beat \in Int /\ a.quiet \in Nat /\ job[j].ttl \in Int /\ Beat \in Nat /\ Probe \in Nat
      /\ Lease \in Nat /\ MaxLag \in Nat /\ job \in [Jobs -> Row]
  BY <1>1, TypeRows, QueueAssumption, WorkerAssumption
  DEF HandInv, Agents, AgentRow, OutcomeInv, ExclusiveInv, Row, JobRow
<1>5. /\ b.mode \in Busy /\ ~b.lost /\ b.token = a.token
      /\ b.beat + b.quiet = Beat /\ b.beat >= -Probe
      /\ job'[j].ttl + b.quiet >= Lease - MaxLag
  <2>1. CASE Pass
    <3>1. /\ b.mode \in Busy /\ ~b.lost /\ b.token = a.token
          /\ b.quiet = a.quiet + 1 /\ b.beat = a.beat - 1 /\ a.beat > -Probe
      BY <1>1, <2>1, PassKeepsBusy
    <3>2. job'[j].ttl = job[j].ttl - 1
      BY <1>1, <1>4, <2>1, LiveTick DEF Pass, Wanted
    <3> HIDE DEF a, b, w
    <3>3. QED
      BY <1>3, <1>4, <3>1, <3>2
  <2>2. CASE ~Pass
    <3>1. /\ b.mode \in Busy /\ ~b.lost /\ b.token = a.token
          /\ \/ SameClock(a, b)
             \/ b.quiet = 0 /\ b.beat = Beat /\ job'[j].ttl >= Lease - MaxLag
      BY <1>1, <2>2, KeepsBusy
    <3>2. job'[j].ttl = job[j].ttl \/ job'[j].ttl >= Lease - MaxLag
      BY <1>1, <1>2, <2>2, WorkerStepIsOperation, LiveOperation
      DEF GoesOnInTime, GoesOn, ReportedNow, Terminal, Wanted, HandInv, OutcomeInv
    <3>3. job'[j].ttl \in Int
      BY <1>2, <1>4, <3>2, WorkerStepIsQueueStep, NextOutcome
      DEF HandInv, OutcomeInv, ExclusiveInv, TypeOK, JobRow
    <3> HIDE DEF a, b, w
    <3>4. QED
      BY <1>3, <1>4, <3>1, <3>2, <3>3 DEF SameClock
  <2>3. QED
    BY <2>1, <2>2
<1>6. job'[j].worker = w /\ job'[j].token = a.token
  BY <1>2, <1>3 DEF GoesOn
<1>7. QED
  BY <1>5, <1>6 DEF Minds

\* Only a queued job is attempted, and only once.
LEMMA CalmAttempt ==
    ASSUME InTime, HandInv, Calm, [NextWorkers]_workerVars, NEW j \in Jobs
    PROVE  /\ job'[j].status \in {"absent", "QUEUED"} => job'[j].attempt = 0
           /\ job'[j].attempt <= 1
<1> DEFINE a == job[j]
           b == job'[j]
<1>1. b = a \/ Moved(a, b)
  BY WorkerStepIsQueueStep, NextMoves DEF HandInv
<1>2. Wanted(j) => b.status \in {"RUNNING"} \cup Terminal /\ ~Attempted(a, b)
  <2>1. SUFFICES ASSUME Wanted(j) PROVE b.status \in {"RUNNING"} \cup Terminal /\ ~Attempted(a, b)
    OBVIOUS
  <2>2. ReportedNow(j) \/ GoesOn(j)
    BY <2>1, MindedLease, WorkerStepIsQueueStep, LiveLease
    DEF Calm, Wanted, HandInv, OutcomeInv
  <2>3. a.attempt \in Nat
    BY TypeRows DEF HandInv, OutcomeInv, ExclusiveInv, Row, JobRow
  <2>4. QED
    BY <2>2, <2>3 DEF ReportedNow, GoesOn, Attempted, Terminal
<1>3. /\ a.status \in {"absent", "QUEUED"} => a.attempt = 0
      /\ a.attempt <= 1
  BY DEF Calm
<1>4. a.attempt \in Nat
  BY TypeRows DEF HandInv, OutcomeInv, ExclusiveInv, Row, JobRow
<1> HIDE DEF b
<1>5. (b.status \in {"absent", "QUEUED"} => b.attempt = 0) /\ b.attempt <= 1
  BY <1>1, <1>2, <1>3, <1>4
  DEF Moved, Created, Requeued, WrittenOff, Attempted, Answered, Renewed, Withdrawn,
      ToldToStop, Same, Retriable, Wanted, Terminal
<1>6. QED
  BY <1>5 DEF b

LEMMA InitCalm == InitWorkers => CalmInv
<1>1. AbsentJob.status = "absent" /\ AbsentJob.attempt = 0
  BY DEF AbsentJob
<1>2. IdleAgent.mode # "failing"
  BY DEF IdleAgent
<1>3. QED
  BY <1>1, <1>2 DEF InitWorkers, Init, CalmInv, Calm, Wanted

LEMMA NextCalm ==
    ASSUME InTime, HandInv, HandInv', CalmInv, [NextWorkers]_workerVars
    PROVE  CalmInv'
<1>1. SUFFICES ASSUME faults' = 0 PROVE Calm'
  BY DEF CalmInv
<1>2. faults = 0 /\ \A w \in Workers : link[w] = "up" => link'[w] = "up"
  <2>1. faults \in Nat
    BY WorkerAssumption DEF HandInv, Files
  <2>2. ~\E w \in Workers, how \in {"cut", "asleep"} : Disturb(w, how)
    BY <1>1, <2>1 DEF Disturb
  <2>3. ~\E w \in Workers : Crash(w)
    BY <1>1, <2>1 DEF Crash
  <2>4. CASE \E w \in Workers : Heal(w)
    BY <1>1, <2>4 DEF Heal, HandInv, Files
  <2>5. UNCHANGED <<link, faults>> \/ \E w \in Workers : Heal(w)
    BY <2>2, <2>3
    DEF NextWorkers, Coordinator, Poll, Renew, Upload, ReportResult, EndRun, UploadTimedOut,
        ReportError, ReportTimedOut, Restart, Store, FailHandled, Pass, workerVars, agentVars
  <2>6. QED
    BY <1>1, <2>4, <2>5
<1>3. Calm
  BY <1>2 DEF CalmInv
<1>4. \A w \in Workers : link'[w] = "up"
  BY <1>2, <1>3 DEF Calm
<1>5. \A w \in Workers : agent'[w].mode = "failing" =>
        \E f \in failing' : f.token = agent'[w].token
  BY <1>1, <1>3, FailingKept
<1>6. ASSUME NEW j \in Jobs, Wanted(j)' PROVE Minds(j)'
  <2>1. CASE Wanted(j)
    BY <1>1, <1>3, <1>6, <2>1, KeptLease
  <2>2. CASE ~Wanted(j)
    <3>1. job[j].status # "RUNNING"
      <4>1. job'[j] = job[j] \/ Moved(job[j], job'[j])
        BY WorkerStepIsQueueStep, NextMoves DEF HandInv
      <4>2. QED
        BY <1>6, <2>2, <4>1
        DEF Wanted, Moved, Created, Requeued, WrittenOff, Attempted, Answered, Renewed,
            Withdrawn, ToldToStop, Same, Retriable
    <3>2. QED
      BY <1>3, <1>6, <3>1, NewLease DEF Wanted
  <2>3. QED
    BY <2>1, <2>2
<1>7. \A j \in Jobs : /\ job'[j].status \in {"absent", "QUEUED"} => job'[j].attempt = 0
                      /\ job'[j].attempt <= 1
  BY <1>3, CalmAttempt
<1>8. QED
  BY <1>1, <1>4, <1>5, <1>6, <1>7 DEF Calm

\* Where a renewal falls due before the oldest stamp in use can find the lease
\* expired, a system without cuts, sleeps and crashes attempts no job twice.
THEOREM NoFaultNoRetryHolds ==
    ASSUME InTime PROVE SpecWorkers => []NoFaultNoRetry
<1>1. HandInv /\ HandInv' /\ CalmInv /\ [NextWorkers]_workerVars => CalmInv'
  BY NextCalm
<1>2. CalmInv => NoFaultNoRetry
  BY DEF CalmInv, Calm, NoFaultNoRetry
<1>3. QED
  BY <1>1, <1>2, InitCalm, Hand, PTL DEF SpecWorkers
===============================================================================
