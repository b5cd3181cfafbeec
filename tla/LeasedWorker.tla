----------------------------- MODULE LeasedWorker -----------------------------
(***************************************************************************)
(* The worker program (worker/main.py) running against the job queue: poll,*)
(* execute under a lease keeper, publish, report.  JobQueue lets a worker  *)
(* send anything at any time; here a worker sends what its program sends,  *)
(* over a connection that may be cut, on a machine that may sleep or crash.*)
(*                                                                         *)
(* A request and its handler are one step, except where the handler is two *)
(* (a failure report, an artifact upload).  While the connection is cut a  *)
(* request may reach the coordinator or not, and no answer comes back.     *)
(*                                                                         *)
(* Every step is a step of JobQueue or leaves its variables alone, so all  *)
(* that JobQueue guarantees holds here too.                                *)
(***************************************************************************)
EXTENDS JobQueue

CONSTANTS
    Beat,          \* heartbeat_seconds, the interval of the lease keeper
    Probe,         \* longest time the keeper spends before it sends: the
                   \* container probe and the metrics sample come first
    UploadTries,   \* publish_artifacts' attempts
    ReportTries,   \* report_outcome's attempts
    MaxFaults,     \* bound on cuts, sleeps and crashes
    Cancels,       \* the jobs a client may cancel
    Publishes      \* the jobs that leave output files

ASSUME WorkerAssumption ==
    /\ Beat \in Nat \ {0} /\ Probe \in Nat
    /\ UploadTries \in Nat \ {0} /\ ReportTries \in Nat \ {0}
    /\ MaxFaults \in Nat
    /\ Cancels \subseteq Jobs /\ Publishes \subseteq Jobs

VARIABLES
    agent,      \* what each worker process is doing
    link,       \* whether a worker can talk: up, cut, or its machine asleep
    faults,     \* cuts, sleeps and crashes so far
    uploads,    \* leases whose upload was authorised and is not yet in place
    artifact,   \* the lease whose files are in a job's directory, or NoToken
    published   \* history: leases whose files were ever put in place

agentVars == <<agent, link, faults>>
fileVars == <<uploads, artifact, published>>
workerVars == <<vars, agentVars, fileVars>>

Busy == {"running", "publishing", "reporting", "failing"}

AgentRow ==
    [mode    : {"down", "idle"} \cup Busy,
     token   : Nat,       \* the lease of the job in hand
     length  : Int,       \* lease_seconds of the keeper
     beat    : Int,       \* time to the next renewal; negative while it probes
     quiet   : Nat,       \* time since the last answered renewal
     event   : BOOLEAN,   \* cancellation_event
     lost    : BOOLEAN,
     outcome : {"none", "result", "error"},
     tries   : Nat]       \* failed uploads or reports

IdleAgent ==
    [mode |-> "idle", token |-> NoToken, length |-> 0, beat |-> 0, quiet |-> 0,
     event |-> FALSE, lost |-> FALSE, outcome |-> "none", tries |-> 0]

DownAgent == [IdleAgent EXCEPT !.mode = "down"]

InitWorkers ==
    /\ Init
    /\ agent = [w \in Workers |-> IdleAgent]
    /\ link = [w \in Workers |-> "up"]
    /\ faults = 0
    /\ uploads = {}
    /\ artifact = [j \in Jobs |-> NoToken]
    /\ published = {}

JobOf(w) == granted[agent[w].token].job

\* The worker process w moves to the row a.
Becomes(w, a) == agent' = [agent EXCEPT ![w] = a]

Quiet == UNCHANGED vars

-------------------------------------------------------------------------------
(***************************************************************************)
(* Claiming.  A worker whose answer is lost polls again.                   *)
(***************************************************************************)
Working(row) ==
    [IdleAgent EXCEPT !.mode = "running", !.token = row.token,
                      !.length = row.span, !.beat = Beat]

Poll(w, kinds, d) ==
    /\ agent[w].mode = "idle" /\ link[w] # "asleep"
    /\ \/ link[w] = "up" /\ \E j \in Jobs :
            /\ ClaimHandedBack(w, kinds, d, j) \/ ClaimStarted(w, kinds, d, j)
            /\ Becomes(w, Working(job'[j]))
       \/ /\ link[w] = "up"
          /\ ClaimDeclined(w, kinds, d) \/ ClaimEmpty(w, kinds, d)
          /\ UNCHANGED agent
       \/ link[w] = "cut" /\ Claim(w, kinds, d) /\ UNCHANGED agent
    /\ UNCHANGED <<link, faults, fileVars>>

-------------------------------------------------------------------------------
(***************************************************************************)
(* The lease keeper, which runs from the claim until the report is over.   *)
(***************************************************************************)
KeepingBug(a) == a.mode = "running" /\ ~a.lost

Keeping(a) == a.mode \in Busy /\ ~a.lost

Lost(a) == [a EXCEPT !.lost = TRUE, !.event = TRUE]

UnansweredBug(a) == [a EXCEPT !.beat = Beat]

\* A renewal that gets no answer: given up once the lease must have expired.
Unanswered(a) ==
    IF a.quiet > a.length THEN Lost(a) ELSE [a EXCEPT !.beat = Beat]

RefusedBug(a) == [a EXCEPT !.beat = Beat, !.quiet = 0]

Refused(a) == Lost(a)

Renew(w, kinds, d) ==
    LET a == agent[w]
    IN  /\ Keeping(a) /\ a.beat <= 0 /\ link[w] # "asleep"
        /\ \/ /\ link[w] = "up" /\ Heartbeat(a.token, kinds, d)
              /\ Becomes(w, [a EXCEPT !.beat = Beat, !.quiet = 0,
                                !.event = @ \/ job[JobOf(w)].cancelled])
           \/ /\ link[w] = "up" /\ ~Holds(a.token, d) /\ Quiet
              /\ Becomes(w, Refused(a))
           \/ /\ link[w] = "cut"
              /\ Heartbeat(a.token, kinds, d) \/ Quiet
              /\ Becomes(w, Unanswered(a))
        /\ UNCHANGED <<link, faults, fileVars>>

-------------------------------------------------------------------------------
(***************************************************************************)
(* Execution ends with a result, with an error, or by the cancellation     *)
(* event, which counts as an error; a lost lease discards either.          *)
(***************************************************************************)
Reporting(a, outcome) ==
    IF a.lost THEN IdleAgent
    ELSE [a EXCEPT !.mode = "reporting", !.outcome = outcome, !.tries = 0]

EndRun(w) ==
    LET a == agent[w]
    IN  /\ a.mode = "running" /\ link[w] # "asleep"
        /\ \/ Becomes(w, Reporting(a, "error"))
           \/ ~a.event /\ JobOf(w) \notin Publishes /\ Becomes(w, Reporting(a, "result"))
           \/ ~a.event /\ JobOf(w) \in Publishes
              /\ Becomes(w, [a EXCEPT !.mode = "publishing", !.tries = 0])
        /\ UNCHANGED <<vars, link, faults, fileVars>>

-------------------------------------------------------------------------------
(***************************************************************************)
(* Publication.  The coordinator checks the lease once, then writes the    *)
(* file and renames it into place; the worker waits for the answer.        *)
(***************************************************************************)
UploadFailedBug(a) ==
    IF a.tries + 1 < UploadTries THEN [a EXCEPT !.tries = @ + 1]
    ELSE Reporting(a, "result")

UploadFailed(a) ==
    IF a.tries + 1 < UploadTries THEN [a EXCEPT !.tries = @ + 1]
    ELSE Reporting(a, "error")

AuthorisedBug(t, d) == Holds(t, d)

Authorised(t, d) == Holds(t, d) /\ ~job[granted[t].job].cancelled

Upload(w, d) ==
    LET a == agent[w]
    IN  /\ a.mode = "publishing" /\ link[w] # "asleep" /\ a.token \notin uploads
        /\ \/ Authorised(a.token, d) /\ uploads' = uploads \cup {a.token} /\ UNCHANGED agent
           \/ /\ ~Authorised(a.token, d) \/ link[w] = "cut"
              /\ Becomes(w, UploadFailed(a)) /\ UNCHANGED uploads
        /\ UNCHANGED <<vars, link, faults, artifact, published>>

Store(t) ==
    LET w == granted[t].worker
    IN  /\ t \in uploads
        /\ uploads' = uploads \ {t}
        /\ artifact' = [artifact EXCEPT ![granted[t].job] = t]
        /\ published' = published \cup {t}
        /\ IF agent[w].mode = "publishing" /\ agent[w].token = t
           THEN Becomes(w, IF link[w] = "up" THEN Reporting(agent[w], "result")
                                             ELSE UploadFailed(agent[w]))
           ELSE UNCHANGED agent
        /\ UNCHANGED <<vars, link, faults>>

\* The answer to an upload that is still being written does not arrive.
UploadTimedOut(w) ==
    /\ agent[w].mode = "publishing" /\ link[w] = "cut" /\ agent[w].token \in uploads
    /\ Becomes(w, UploadFailed(agent[w]))
    /\ UNCHANGED <<vars, link, faults, fileVars>>

-------------------------------------------------------------------------------
(***************************************************************************)
(* The report.  Transport errors are retried; a 409 ends it, for the lease *)
(* is no longer ours or the job is cancelled.                              *)
(***************************************************************************)
ReportFailed(a) ==
    IF a.tries + 1 < ReportTries
    THEN [a EXCEPT !.mode = "reporting", !.tries = @ + 1]
    ELSE IdleAgent

ReportResult(w, d) ==
    LET a == agent[w]
        t == a.token
    IN  /\ a.mode = "reporting" /\ a.outcome = "result" /\ link[w] # "asleep"
        /\ \/ /\ Complete(t, d)
              /\ Becomes(w, IF link[w] = "up" THEN IdleAgent ELSE ReportFailed(a))
           \/ /\ link[w] = "up" /\ Quiet
              /\ ~Holds(t, d) \/ job[JobOf(w)].cancelled
              /\ Becomes(w, IdleAgent)
           \/ link[w] = "cut" /\ Quiet /\ Becomes(w, ReportFailed(a))
        /\ UNCHANGED <<link, faults, fileVars>>

ReportError(w) ==
    LET a == agent[w]
    IN  /\ a.mode = "reporting" /\ a.outcome = "error" /\ link[w] # "asleep"
        /\ \/ FailRead(a.token) /\ Becomes(w, [a EXCEPT !.mode = "failing"])
           \/ link[w] = "cut" /\ Quiet /\ Becomes(w, ReportFailed(a))
        /\ UNCHANGED <<link, faults, fileVars>>

\* The second half of the handler, for whoever still waits for its answer.
FailHandled(f, d) ==
    LET w == granted[f.token].worker
    IN  /\ FailWrite(f, d)
        /\ IF agent[w].mode = "failing" /\ agent[w].token = f.token /\ link[w] = "up"
           THEN Becomes(w, IdleAgent)
           ELSE UNCHANGED agent
        /\ UNCHANGED <<link, faults, fileVars>>

\* No answer came: the connection broke while the handler ran.
ReportTimedOut(w) ==
    /\ agent[w].mode = "failing" /\ link[w] # "asleep"
    /\ link[w] = "cut" \/ agent[w].token \notin {f.token : f \in failing}
    /\ Becomes(w, ReportFailed(agent[w]))
    /\ UNCHANGED <<vars, link, faults, fileVars>>

-------------------------------------------------------------------------------
(***************************************************************************)
(* What goes wrong, and the passage of time.  A keeper that can run renews *)
(* within Beat and its probe: time does not pass it by.                    *)
(***************************************************************************)
Disturb(w, how) ==
    /\ faults < MaxFaults /\ link[w] = "up" /\ how \in {"cut", "asleep"}
    /\ faults' = faults + 1
    /\ link' = [link EXCEPT ![w] = how]
    /\ UNCHANGED <<vars, agent, fileVars>>

Heal(w) ==
    /\ link[w] # "up"
    /\ link' = [link EXCEPT ![w] = "up"]
    /\ UNCHANGED <<vars, agent, faults, fileVars>>

Crash(w) ==
    /\ agent[w].mode # "down"
    /\ faults < MaxFaults /\ faults' = faults + 1
    /\ Becomes(w, DownAgent)
    /\ UNCHANGED <<vars, link, fileVars>>

Restart(w) ==
    /\ agent[w].mode = "down"
    /\ Becomes(w, IdleAgent)
    /\ UNCHANGED <<vars, link, faults, fileVars>>

Older(a) == [a EXCEPT !.beat = @ - 1, !.quiet = @ + 1]

Pass ==
    /\ \A w \in Workers :
        Keeping(agent[w]) /\ link[w] # "asleep" => agent[w].beat > -Probe
    /\ Tick
    /\ agent' = [w \in Workers |-> IF Keeping(agent[w]) /\ link[w] # "asleep"
                                   THEN Older(agent[w]) ELSE agent[w]]
    /\ UNCHANGED <<link, faults, fileVars>>

\* Clients, the operator and the coordinator's own sweep.
Coordinator ==
    /\ \/ \E S \in SUBSET Jobs : Create(S)
       \/ \E j \in Cancels : CancelRead(j)
       \/ \E j \in Jobs, d \in Lags : CancelWrite(j, d)
       \/ \E d \in Lags : ReadExpired(d) \/ RecoverExpired(d)
       \/ \E w \in Switchable, on \in BOOLEAN : SetEnabled(w, on)
       \/ \E w \in Switchable, envelope \in Capacities : SetCapacity(w, envelope)
    /\ UNCHANGED <<agentVars, fileVars>>

NextWorkers ==
    \/ Coordinator
    \/ \E w \in Workers, kinds \in Offers, d \in Lags :
        Poll(w, kinds, d) \/ Renew(w, kinds, d)
    \/ \E w \in Workers, d \in Lags : Upload(w, d) \/ ReportResult(w, d)
    \/ \E w \in Workers :
        \/ EndRun(w) \/ UploadTimedOut(w) \/ ReportError(w) \/ ReportTimedOut(w)
        \/ Heal(w) \/ Crash(w) \/ Restart(w)
    \/ \E w \in Workers, how \in {"cut", "asleep"} : Disturb(w, how)
    \/ \E t \in uploads : Store(t)
    \/ \E f \in failing, d \in Lags : FailHandled(f, d)
    \/ Pass

SpecWorkers == InitWorkers /\ [][NextWorkers]_workerVars

-------------------------------------------------------------------------------
(***************************************************************************)
(* Fairness.  A worker's main thread and its keeper thread each go on, the *)
(* coordinator's handlers and its sweep go on, time passes, and a cut      *)
(* connection or a sleeping machine comes back.  Nobody has to submit,     *)
(* cancel or switch anything, and a crashed worker may stay down.          *)
(***************************************************************************)
MainThread(w) ==
    \/ \E kinds \in Offers, d \in Lags : Poll(w, kinds, d)
    \/ \E d \in Lags : Upload(w, d) \/ ReportResult(w, d)
    \/ UploadTimedOut(w) \/ ReportError(w) \/ ReportTimedOut(w)

KeeperThread(w) == \E kinds \in Offers, d \in Lags : Renew(w, kinds, d)

\* The cancellation event stops the container.
StopRun(w) == agent[w].event /\ EndRun(w)

Handlers ==
    /\ WF_workerVars(\E t \in uploads : Store(t))
    /\ WF_workerVars(\E f \in failing, d \in Lags : FailHandled(f, d))
    /\ WF_workerVars(\E j \in Jobs, d \in Lags :
                        CancelWrite(j, d) /\ UNCHANGED <<agentVars, fileVars>>)
    /\ WF_workerVars(\E d \in Lags :
                        RecoverExpired(d) /\ UNCHANGED <<agentVars, fileVars>>)

Going ==
    /\ Handlers
    /\ WF_workerVars(Pass)
    /\ \A w \in Workers :
        /\ WF_workerVars(MainThread(w)) /\ WF_workerVars(KeeperThread(w))
        /\ WF_workerVars(StopRun(w)) /\ WF_workerVars(Heal(w))

\* Programs may run for ever.
FairWorkers == SpecWorkers /\ Going

-------------------------------------------------------------------------------
(***************************************************************************)
(* Correctness.                                                            *)
(***************************************************************************)

\* Every process, link and file is in a state the program can be in.
TypeOKWorkers ==
    /\ agent \in [Workers -> AgentRow]
    /\ \A w \in Workers : agent[w].mode \in Busy =>
        /\ agent[w].token \in Tokens
        /\ granted[agent[w].token].worker = w
        /\ agent[w].tries < IF agent[w].mode = "publishing" THEN UploadTries
                                                            ELSE ReportTries
    /\ link \in [Workers -> {"up", "cut", "asleep"}]
    /\ faults \in 0 .. MaxFaults
    /\ uploads \subseteq Tokens
    /\ artifact \in [Jobs -> {NoToken} \cup Tokens]
    /\ published \subseteq Tokens

\* While no connection is cut and no machine sleeps or crashes, no job is
\* attempted twice: the keeper renews in time through execution, publication
\* and report, whatever sweeps, switches and cancellations happen meanwhile.
NoFaultNoRetry ==
    faults = 0 => \A j \in Jobs : job[j].attempt <= 1

\* "A COMPLETED job whose results silently went nowhere" does not exist: the
\* lease that completed the job had put its files in place.
CompletedIsPublished ==
    \A j \in Publishes : job[j].status = "COMPLETED" => job[j].report \in published

\* A worker that cannot reach the coordinator gives its job up: no process
\* goes on under a lease it has not renewed for much longer than the lease.
OverrunIsBounded ==
    \A w \in Workers :
        \/ agent[w].quiet <= Beat + Probe
        \/ agent[w].quiet <= agent[w].length + Beat + Probe

Stale(w) ==
    /\ agent[w].mode = "running"
    /\ job[JobOf(w)].status # "RUNNING" \/ job[JobOf(w)].token # agent[w].token

\* A worker that runs a job it no longer holds stops it, even if the program
\* would never end by itself.
StaleWorkerStops == \A w \in Workers : Stale(w) ~> ~Stale(w)

Settled == \A w \in Switchable : <>[]worker[w].enabled \/ <>[]~worker[w].enabled

Able(w) == worker[w].enabled /\ agent[w].mode # "down"

\* Every batch job has a wall-clock limit: no program runs for ever.
ProgramsEnd == \A w \in Workers : []<>(agent[w].mode # "running")

\* Every submitted job comes to an end, however workers crash, if at last the
\* operator leaves the switches alone and one enabled worker stays up, and if
\* programs end.  Left out: a job without files that is cancelled during its
\* report, whose worker is refused, keeps its lease and takes the job up again.
SubmittedJobsEnd ==
    Settled /\ ProgramsEnd /\ (\E w \in Workers : <>[]Able(w)) =>
        \A j \in Jobs :
            job[j].status = "QUEUED" ~>
                \/ job[j].status \in Terminal
                \/ job[j].cancelled /\ j \notin Publishes

-------------------------------------------------------------------------------
(***************************************************************************)
(* What the repository says and the code does not do.                      *)
(***************************************************************************)

\* "A worker whose lease expired cannot overwrite its replacement's results":
\* files of an earlier lease never replace those of a later one.
StaleFilesNeverWin == [][\A j \in Jobs : artifact[j] <= artifact'[j]]_workerVars
===============================================================================
