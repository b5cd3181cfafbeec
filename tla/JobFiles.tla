------------------------------ MODULE JobFiles ------------------------------
(***************************************************************************)
(* The files jobs need, and who deletes them.                              *)
(*                                                                         *)
(* Members stage uploads and submit jobs that name them; applications      *)
(* retain inputs under a quota and submit runs, for which the coordinator  *)
(* stages private copies.  Both kinds of staged file live in the upload    *)
(* directory and are deleted by whoever reports a job's end                *)
(* (src/app/job_http.py, src/app/app_compute.py).  Tables and directories  *)
(* change separately, each request runs in a thread of its own, and the    *)
(* process may die between any two steps.                                  *)
(*                                                                         *)
(* Staged files are numbered in the order they are made.  A group of jobs  *)
(* carries the files its tasks share; the lease protocol of a task is      *)
(* JobQueue's, reduced here to its effect on the status.                   *)
(*                                                                         *)
(* An operator named ...Bug is the definition after it with a mistake in   *)
(* it; nothing here uses one.                                              *)
(***************************************************************************)
EXTENDS Naturals, FiniteSets, Sequences, FiniteSetsExt

CONSTANTS
    Handlers,       \* request threads
    Owners,         \* the users an application acts for
    Keys,           \* idempotency keys
    Inputs,         \* input ids, chosen by uuid4
    InputLimit,     \* MAX_INPUT_BYTES, what an upload in progress reserves
    OwnerQuota,     \* MAX_OWNER_INPUT_BYTES
    TotalQuota,     \* MAX_TOTAL_INPUT_BYTES
    OwnerRuns,      \* MAX_OWNER_OUTSTANDING_RUNS
    TotalRuns,      \* MAX_OUTSTANDING_RUNS
    Mixes,          \* requests explored together, and a bound on the staged files
    MaxTasks,       \* bound: tasks in the tables, and so groups
    MaxRestarts     \* bound: restarts of the process

\* An owner may retain one input at least.
ASSUME JobFilesAssumption ==
    /\ {InputLimit, OwnerQuota, TotalQuota, OwnerRuns, TotalRuns} \subseteq Nat
    /\ 0 < InputLimit /\ InputLimit <= OwnerQuota /\ OwnerQuota <= TotalQuota
    /\ IsFiniteSet(Inputs)
    /\ {MaxTasks, MaxRestarts} \subseteq Nat

VARIABLES
    db,        \* the tables: uploads, groups, inputs, holds
    files,     \* staged files in the upload directory
    objects,   \* files of app-compute/inputs
    outputs,   \* the version of each group's artifacts on disk
    hand,      \* each request thread: its step and what it has read
    made,      \* the staged files made so far, by whom
    restarts,
    cut,       \* tasks whose report or cancellation a restart left unanswered
    told,      \* the result manifests applications have been given
    mix        \* the requests this behaviour explores, and its staged files

vars == <<db, files, objects, outputs, hand, made, restarts, cut, told, mix>>

None == [none |-> TRUE]
Idle == [pc |-> "idle"]
Groups == 1..MaxTasks
Live == {"QUEUED", "RUNNING"}
-----------------------------------------------------------------------------
(* What the tables say; d is a value of db.                                *)

Tasks(d) == UNION {{<<g, t>> : t \in DOMAIN d.groups[g].tasks} : g \in DOMAIN d.groups}
Status(d, j) == d.groups[j[1]].tasks[j[2]].status
Refs(d, j) == d.groups[j[1]].refs
\* release_job_uploads: what an ended task no longer shares with an unfinished one.
StillNeeded(d, j) == UNION {Refs(d, k) : k \in {k \in Tasks(d) \ {j} : Status(d, k) \in Live}}
\* Every file of an ended task.
ReleasableBug(d, j) == Refs(d, j)
Releasable(d, j) == Refs(d, j) \ StillNeeded(d, j)
GroupIsLive(d, g) == \E t \in DOMAIN d.groups[g].tasks : d.groups[g].tasks[t].status \in Live
AppGroups(d) == {g \in DOMAIN d.groups : d.groups[g].app}
Replayed(d, owner, key) ==
    {g \in AppGroups(d) : d.groups[g].owner = owner /\ d.groups[g].key = key}

Outstanding(d) ==
    Cardinality(d.holds) + Cardinality({g \in AppGroups(d) : GroupIsLive(d, g)})

Owned(d, owner) ==
    Cardinality({x \in d.holds : x.owner = owner})
      + Cardinality({g \in AppGroups(d) : d.groups[g].owner = owner /\ GroupIsLive(d, g)})

\* Holds do not count.
RunsAdmittedBug(d, owner) == Outstanding(d) < TotalRuns + Cardinality(d.holds)

RunsAdmitted(d, owner) == Outstanding(d) < TotalRuns /\ Owned(d, owner) < OwnerRuns
\* The bytes a set of input rows counts: an upload in progress counts its limit.
Retained(d) == {i \in Inputs : d.inputs[i].state \in {"reserved", "saved"}}
Bytes(d, S) == MapThenSumSet(LAMBDA i : d.inputs[i].size, S)
OwnedInputs(d, owner) == {i \in Retained(d) : d.inputs[i].owner = owner}
InputAdmitted(d, owner) ==
    /\ Bytes(d, OwnedInputs(d, owner)) + InputLimit <= OwnerQuota
    /\ Bytes(d, Retained(d)) + InputLimit <= TotalQuota

\* run_view: what an application sees of its run.
RunView(d, g) ==
    LET seen == {IF d.groups[g].tasks[t].cancelled /\ d.groups[g].tasks[t].status = "FAILED"
                 THEN "CANCELLED" ELSE d.groups[g].tasks[t].status :
                 t \in DOMAIN d.groups[g].tasks}
    IN CASE seen = {"QUEUED"} -> "QUEUED"
         [] seen = {"COMPLETED"} -> "COMPLETED"
         [] seen # {"QUEUED"} /\ seen \cap Live # {} -> "RUNNING"
         [] seen \cap Live = {} /\ "FAILED" \in seen -> "FAILED"
         [] OTHER -> "CANCELLED"
-----------------------------------------------------------------------------
\* A behaviour without uploads of inputs starts with one retained.
Init ==
    /\ mix \in Mixes
    /\ \E i \in Inputs : objects = IF {"run", "input"} \cap mix.requests = {"run"} THEN {i} ELSE {}
    /\ \E owner \in Owners :
        db = [uploads |-> {}, groups |-> <<>>, holds |-> {},
              inputs |-> [i \in Inputs |-> IF i \notin objects THEN [state |-> "none"]
                            ELSE [state |-> "saved", owner |-> owner, size |-> 1]]]
    /\ files = {} /\ outputs = [g \in Groups |-> 0]
    /\ hand = [h \in Handlers |-> Idle]
    /\ made = <<>> /\ restarts = 0 /\ cut = {} /\ told = [g \in Groups |-> {}]

\* A transaction.
Commit(d) == db' = d
Step(h, r) == hand' = [hand EXCEPT ![h] = r]
At(h, pc) == hand[h].pc = pc
Begins(h, op) == At(h, "idle") /\ op \in mix.requests
KeepTables == UNCHANGED db
KeepFiles == UNCHANGED <<files, objects, outputs>>
KeepRest == UNCHANGED <<made, restarts, cut, told, mix>>
-----------------------------------------------------------------------------
(* Members: staged uploads and jobs.                                       *)

\* stage_upload publishes the file under a fresh id ...
Stage(h) ==
    /\ Begins(h, "stage") /\ Len(made) < mix.files
    /\ made' = Append(made, "member") /\ files' = files \cup {Len(made) + 1}
    /\ Step(h, [pc |-> "record", file |-> Len(made) + 1])
    /\ KeepTables /\ UNCHANGED <<objects, outputs, restarts, cut, told, mix>>

\* ... and member_upload records whose it is.
RecordUpload(h) ==
    /\ At(h, "record")
    /\ Commit([db EXCEPT !.uploads = @ \cup {hand[h].file}])
    /\ Step(h, Idle) /\ KeepFiles /\ KeepRest

\* Two submissions name the same file only when one is a retry of the other.
Alone(refs, key) ==
    /\ \A g \in DOMAIN db.groups : db.groups[g].refs \cap refs # {} =>
        db.groups[g].key = key /\ db.groups[g].refs = refs
    /\ \A k \in Handlers : hand[k].pc = "insert" /\ hand[k].refs \cap refs # {} =>
        hand[k].key = key /\ hand[k].refs = refs

\* authorize_member_sources: every named upload belongs to the member; the
\* archive among them is read to compile the tasks.
Submit(h) ==
    /\ Begins(h, "submit")
    /\ \E refs \in SUBSET db.uploads, key \in Keys :
        /\ refs \cap files # {} /\ Alone(refs, key)
        /\ Step(h, [pc |-> "insert", refs |-> refs, key |-> key])
    /\ KeepTables /\ KeepFiles /\ KeepRest

NewTasks(n) == [t \in 1..n |-> [status |-> "QUEUED", cancelled |-> FALSE, end |-> "none"]]
NewGroup(app, owner, key, body, refs, n) ==
    [app |-> app, owner |-> owner, key |-> key, body |-> body, refs |-> refs,
     manifest |-> 0, tasks |-> NewTasks(n)]

NewSizes == 1..(MaxTasks - Cardinality(Tasks(db)))
SameKey(d, key) == {g \in DOMAIN d.groups : ~d.groups[g].app /\ d.groups[g].key = key}
\* add_group: ON CONFLICT DO NOTHING answers with the stored group, or a conflict.
AddGroup(h) ==
    /\ At(h, "insert")
    /\ IF SameKey(db, hand[h].key) # {} THEN KeepTables
       ELSE \E n \in NewSizes :
            Commit([db EXCEPT !.groups = Append(@,
                NewGroup(FALSE, None, hand[h].key, hand[h].refs, hand[h].refs, n))])
    /\ Step(h, Idle) /\ KeepFiles /\ KeepRest
-----------------------------------------------------------------------------
(* A task's status, as the queue moves it.                                 *)

SetTask(d, j, f) == [d EXCEPT !.groups[j[1]].tasks[j[2]] = f]
Task(j) == db.groups[j[1]].tasks[j[2]]
Claim(j) ==
    /\ Status(db, j) = "QUEUED"
    /\ Commit(SetTask(db, j, [Task(j) EXCEPT !.status = "RUNNING"]))
    /\ UNCHANGED hand /\ KeepFiles /\ KeepRest

\* The worker publishes its outputs before it reports.
Publish(j) ==
    /\ Status(db, j) = "RUNNING" /\ outputs[j[1]] = 0
    /\ outputs' = [outputs EXCEPT ![j[1]] = 1]
    /\ KeepTables /\ UNCHANGED <<hand, files, objects>> /\ KeepRest

\* The sweep requeues a task whose lease has expired, or ends it: cancelled, or
\* out of attempts.  Nothing is released.
Sweep(j) ==
    /\ Status(db, j) = "RUNNING"
    /\ \/ ~Task(j).cancelled /\ Commit(SetTask(db, j, [Task(j) EXCEPT !.status = "QUEUED"]))
       \/ Commit(SetTask(db, j, [Task(j) EXCEPT !.status = "FAILED", !.end = "sweep"]))
    /\ UNCHANGED hand /\ KeepFiles /\ KeepRest

\* Only a success releases.
ReportBug(h, j) ==
    /\ Begins(h, "report") /\ Status(db, j) = "RUNNING"
    /\ \E end \in {"COMPLETED", "FAILED"} :
        /\ Commit(SetTask(db, j, [Task(j) EXCEPT !.status = end, !.end = "report"]))
        /\ Step(h, IF end = "FAILED" THEN Idle ELSE [pc |-> "list", jobs |-> {j}])
    /\ KeepFiles /\ KeepRest

\* A worker's report ends the task (a cancellation wins), or repeats one whose
\* answer was lost; then the request releases the task's files.
Report(h, j) ==
    /\ Begins(h, "report")
    /\ \/ /\ Status(db, j) = "RUNNING"
          /\ \E end \in IF Task(j).cancelled THEN {"FAILED"} ELSE {"COMPLETED", "FAILED"} :
                Commit(SetTask(db, j, [Task(j) EXCEPT !.status = end, !.end = "report"]))
       \/ Task(j).end = "report" /\ KeepTables
    /\ Step(h, [pc |-> "list", jobs |-> {j}])
    /\ KeepFiles /\ KeepRest

\* A cancellation ends a waiting task and marks a running one.  An
\* application's covers every unfinished task of its run, one transaction each.
Cancel(h, S) ==
    /\ Begins(h, "cancel") /\ S # {} /\ \A j \in S : Status(db, j) \in Live
    /\ Step(h, [pc |-> "cancel", left |-> S, jobs |-> S])
    /\ KeepTables /\ KeepFiles /\ KeepRest

CancelTask(h) ==
    /\ At(h, "cancel") /\ hand[h].left # {}
    /\ LET j == CHOOSE j \in hand[h].left : TRUE IN
        /\ CASE Status(db, j) = "QUEUED" ->
                    Commit(SetTask(db, j, [Task(j) EXCEPT
                        !.status = "FAILED", !.cancelled = TRUE, !.end = "cancel"]))
             [] Status(db, j) = "RUNNING" ->
                    Commit(SetTask(db, j, [Task(j) EXCEPT !.cancelled = TRUE]))
             [] OTHER -> KeepTables
        /\ Step(h, [hand[h] EXCEPT !.left = @ \ {j}])
    /\ KeepFiles /\ KeepRest

\* The tasks that have ended by then are released, an application's all of them.
CancelDone(h) ==
    /\ At(h, "cancel") /\ hand[h].left = {}
    /\ LET asked == {j[1] : j \in hand[h].jobs}
           ended == {j \in Tasks(db) : Status(db, j) \notin Live
                        /\ (j \in hand[h].jobs \/ (j[1] \in asked /\ db.groups[j[1]].app))}
       IN Step(h, IF ended = {} THEN Idle ELSE [pc |-> "list", jobs |-> ended])
    /\ KeepTables /\ KeepFiles /\ KeepRest

\* release_job_uploads, for each ended task: list the unfinished jobs ...
List(h) ==
    /\ At(h, "list")
    /\ LET j == CHOOSE j \in hand[h].jobs : TRUE IN
        Step(h, [pc |-> "unlink", jobs |-> hand[h].jobs, job |-> j, drop |-> Releasable(db, j)])
    /\ KeepTables /\ KeepFiles /\ KeepRest

\* ... delete what they do not need ...
Unlink(h) ==
    /\ At(h, "unlink")
    /\ files' = files \ hand[h].drop
    /\ Step(h, [hand[h] EXCEPT !.pc = "forget"])
    /\ KeepTables /\ UNCHANGED <<objects, outputs>> /\ KeepRest

\* ... forget whose it was, and answer.
Forget(h) ==
    /\ At(h, "forget")
    /\ Commit([db EXCEPT !.uploads = @ \ hand[h].drop])
    /\ cut' = cut \ {hand[h].job}
    /\ LET left == hand[h].jobs \ {hand[h].job} IN
        Step(h, IF left = {} THEN Idle ELSE [pc |-> "list", jobs |-> left])
    /\ KeepFiles /\ UNCHANGED <<made, restarts, told, mix>>
-----------------------------------------------------------------------------
(* Applications: retained inputs.                                          *)

SetInput(d, i, f) == [d EXCEPT !.inputs[i] = f]
\* reserve_input holds the limit against both quotas before a byte is read.
ReserveInput(h) ==
    /\ Begins(h, "input")
    /\ \E i \in Inputs, owner \in Owners :
        /\ db.inputs[i].state = "none" /\ i \notin objects /\ InputAdmitted(db, owner)
        /\ \A k \in Handlers : hand[k].pc \in {"write", "save", "abort", "discard"} =>
            hand[k].input # i
        /\ Commit(SetInput(db, i, [state |-> "reserved", owner |-> owner, size |-> InputLimit]))
        /\ Step(h, [pc |-> "write", input |-> i])
    /\ KeepFiles /\ KeepRest

\* The body arrives; it may be empty, too long or cut off.
WriteInput(h) ==
    /\ At(h, "write")
    /\ objects' = objects \cup {hand[h].input}
    /\ \E pc \in {"save", "abort"} : Step(h, [hand[h] EXCEPT !.pc = pc])
    /\ KeepTables /\ UNCHANGED <<files, outputs>> /\ KeepRest

\* save_input turns the reservation into a row of the actual size.
SaveInput(h) ==
    /\ At(h, "save")
    /\ db.inputs[hand[h].input].state = "reserved"
    /\ \E size \in 1..InputLimit :
        Commit(SetInput(db, hand[h].input,
            [db.inputs[hand[h].input] EXCEPT !.state = "saved", !.size = size]))
    /\ Step(h, Idle) /\ KeepFiles /\ KeepRest

\* The file stays.
AbortInputBug(h) ==
    /\ At(h, "abort")
    /\ Step(h, [hand[h] EXCEPT !.pc = "discard"])
    /\ KeepTables /\ KeepFiles /\ KeepRest

\* A failed upload removes the file, then the reservation.
AbortInput(h) ==
    /\ At(h, "abort")
    /\ objects' = objects \ {hand[h].input}
    /\ Step(h, [hand[h] EXCEPT !.pc = "discard"])
    /\ KeepTables /\ UNCHANGED <<files, outputs>> /\ KeepRest

DiscardReservation(h) ==
    /\ At(h, "discard")
    /\ Commit(SetInput(db, hand[h].input, [state |-> "none"]))
    /\ Step(h, Idle) /\ KeepFiles /\ KeepRest

\* delete_input commits the tombstone, then removes the bytes.
DeleteInput(h) ==
    /\ Begins(h, "delete")
    /\ \E i \in Inputs :
        /\ db.inputs[i].state \in {"saved", "deleted"}
        /\ Commit(SetInput(db, i, [db.inputs[i] EXCEPT !.state = "deleted"]))
        /\ Step(h, [pc |-> "erase", input |-> i])
    /\ KeepFiles /\ KeepRest

EraseInput(h) ==
    /\ At(h, "erase")
    /\ objects' = objects \ {hand[h].input}
    /\ Step(h, Idle) /\ KeepTables /\ UNCHANGED <<files, outputs>> /\ KeepRest
-----------------------------------------------------------------------------
(* Applications: runs.                                                     *)

\* submit reads the replay row and the selected input, each in its own query.
SubmitRun(h) ==
    /\ Begins(h, "run")
    /\ \E owner \in Owners, key \in Keys, i \in Inputs :
        /\ Replayed(db, owner, key) = {}
        /\ db.inputs[i].state = "saved" /\ db.inputs[i].owner = owner
        /\ Step(h, [pc |-> "hold", owner |-> owner, key |-> key, input |-> i])
    /\ KeepTables /\ KeepFiles /\ KeepRest

\* One transaction looks again for a replay, counts the slots and holds one,
\* naming the files that will be made.
HoldRun(h) ==
    /\ At(h, "hold") /\ Len(made) + 2 <= mix.files
    /\ IF Replayed(db, hand[h].owner, hand[h].key) # {} \/ ~RunsAdmitted(db, hand[h].owner)
       THEN Step(h, Idle) /\ KeepTables /\ UNCHANGED made
       ELSE LET x == [owner |-> hand[h].owner, paths |-> {Len(made) + 1, Len(made) + 2}] IN
            /\ Commit([db EXCEPT !.holds = @ \cup {x}])
            /\ Step(h, [pc |-> "project", owner |-> hand[h].owner, key |-> hand[h].key,
                        input |-> hand[h].input, hold |-> x])
            /\ made' = made \o <<"app", "app">>
    /\ KeepFiles /\ UNCHANGED <<restarts, cut, told, mix>>

\* copy_project, then the input; either may fail, the input because it is gone.
StageProject(h) ==
    /\ At(h, "project")
    /\ files' = files \cup {Min(hand[h].hold.paths)}
    /\ \E pc \in {"copy", "clean"} : Step(h, [hand[h] EXCEPT !.pc = pc])
    /\ KeepTables /\ UNCHANGED <<objects, outputs>> /\ KeepRest

StageInput(h) ==
    /\ At(h, "copy")
    /\ IF hand[h].input \in objects
       THEN files' = files \cup {Max(hand[h].hold.paths)} /\ Step(h, [hand[h] EXCEPT !.pc = "create"])
       ELSE UNCHANGED files /\ Step(h, [hand[h] EXCEPT !.pc = "clean"])
    /\ KeepTables /\ UNCHANGED <<objects, outputs>> /\ KeepRest

\* No second look for a replay.
CreateRunBug(h) ==
    LET x == hand[h].hold IN
    /\ At(h, "create")
    /\ x \in db.holds
    /\ \E n \in NewSizes :
        Commit([db EXCEPT !.holds = @ \ {x},
            !.groups = Append(@, NewGroup(TRUE, x.owner, hand[h].key, hand[h].input, x.paths, n))])
    /\ Step(h, Idle) /\ UNCHANGED <<files, objects, outputs>> /\ KeepRest

\* add_group with an application origin: the first submission under a key uses
\* its hold up; a later one answers with the first, its own files removed.
CreateRun(h) ==
    LET x == hand[h].hold IN
    /\ At(h, "create")
    /\ IF Replayed(db, x.owner, hand[h].key) # {}
       THEN /\ files' = files \ x.paths
            /\ Commit([db EXCEPT !.holds = @ \ {x}])
            /\ Step(h, [hand[h] EXCEPT !.pc = "clean"])
       ELSE /\ x \in db.holds
            /\ \E n \in NewSizes :
                Commit([db EXCEPT !.holds = @ \ {x},
                    !.groups = Append(@, NewGroup(TRUE, x.owner, hand[h].key, hand[h].input, x.paths, n))])
            /\ Step(h, Idle) /\ UNCHANGED files
    /\ UNCHANGED <<objects, outputs>> /\ KeepRest

\* No room for the workload: nothing is inserted.
RefuseRun(h) ==
    /\ At(h, "create") /\ Step(h, [hand[h] EXCEPT !.pc = "clean"])
    /\ KeepTables /\ KeepFiles /\ KeepRest

\* The files stay.
CleanRunBug(h) ==
    /\ At(h, "clean")
    /\ Step(h, [hand[h] EXCEPT !.pc = "free"])
    /\ KeepTables /\ KeepFiles /\ KeepRest

\* The finally clause removes the files, then the hold.
CleanRun(h) ==
    /\ At(h, "clean")
    /\ files' = files \ hand[h].hold.paths
    /\ Step(h, [hand[h] EXCEPT !.pc = "free"])
    /\ KeepTables /\ UNCHANGED <<objects, outputs>> /\ KeepRest

FreeRun(h) ==
    /\ At(h, "free")
    /\ Commit([db EXCEPT !.holds = @ \ {hand[h].hold}])
    /\ Step(h, Idle) /\ KeepFiles /\ KeepRest
-----------------------------------------------------------------------------
(* Applications: results.                                                  *)

Complete(g) == RunView(db, g) = "COMPLETED"
\* published: without a recorded manifest, digest what is on disk now ...
ReadResults(h, g) ==
    /\ Begins(h, "results") /\ db.groups[g].app /\ Complete(g) /\ outputs[g] # 0
    /\ IF db.groups[g].manifest # 0
       THEN told' = [told EXCEPT ![g] = @ \cup {db.groups[g].manifest}] /\ UNCHANGED hand
       ELSE Step(h, [pc |-> "insert results", run |-> g, read |-> outputs[g]]) /\ UNCHANGED told
    /\ KeepTables /\ KeepFiles /\ UNCHANGED <<made, restarts, cut, mix>>

\* ... INSERT OR IGNORE it, and answer with the row, whoever wrote it.
KeepResults(h) ==
    /\ At(h, "insert results")
    /\ LET g == hand[h].run
           kept == IF db.groups[g].manifest = 0 THEN hand[h].read ELSE db.groups[g].manifest
       IN /\ Commit([db EXCEPT !.groups[g].manifest = kept])
          /\ told' = [told EXCEPT ![g] = @ \cup {kept}]
    /\ Step(h, Idle) /\ KeepFiles /\ UNCHANGED <<made, restarts, cut, mix>>

\* Artifacts are evicted over the cap, or replaced by an upload that was
\* authorised before the job ended (see LeasedWorker).
ChangeOutputs(g) ==
    /\ "results" \in mix.requests /\ outputs[g] # 0
    /\ outputs' = [outputs EXCEPT ![g] = IF @ = 1 THEN 2 ELSE 0]
    /\ KeepTables /\ UNCHANGED <<hand, files, objects>> /\ KeepRest
-----------------------------------------------------------------------------
\* The process dies, and reconcile_app_inputs tidies the tables and directories
\* before any request.
Active == {h \in Handlers : hand[h].pc \in {"cancel", "list", "unlink", "forget"}}
Restart ==
    /\ restarts < MaxRestarts /\ restarts' = restarts + 1
    /\ files' = files \ UNION {x.paths : x \in db.holds}
    /\ objects' = {i \in objects : db.inputs[i].state = "saved"}
    /\ db' = [db EXCEPT !.holds = {},
                !.inputs = [i \in Inputs |->
                    IF db.inputs[i].state = "reserved" THEN [state |-> "none"] ELSE db.inputs[i]]]
    /\ hand' = [h \in Handlers |-> Idle]
    /\ cut' = cut \cup UNION {hand[h].jobs : h \in Active}
    /\ UNCHANGED <<outputs, made, told, mix>>

Next ==
    \/ \E h \in Handlers :
        \/ Stage(h) \/ RecordUpload(h) \/ Submit(h) \/ AddGroup(h)
        \/ CancelTask(h) \/ CancelDone(h) \/ List(h) \/ Unlink(h) \/ Forget(h)
        \/ ReserveInput(h) \/ WriteInput(h) \/ SaveInput(h) \/ AbortInput(h)
        \/ DiscardReservation(h) \/ DeleteInput(h) \/ EraseInput(h)
        \/ SubmitRun(h) \/ HoldRun(h) \/ StageProject(h) \/ StageInput(h)
        \/ CreateRun(h) \/ RefuseRun(h) \/ CleanRun(h) \/ FreeRun(h) \/ KeepResults(h)
        \/ \E g \in DOMAIN db.groups :
            \/ ReadResults(h, g)
            \/ Cancel(h, {j \in Tasks(db) : j[1] = g /\ Status(db, j) \in Live})
        \/ \E j \in Tasks(db) : Report(h, j) \/ (~db.groups[j[1]].app /\ Cancel(h, {j}))
    \/ \E j \in Tasks(db) : Claim(j) \/ Publish(j) \/ Sweep(j)
    \/ \E g \in DOMAIN db.groups : ChangeOutputs(g)
    \/ Restart

Spec == Init /\ [][Next]_vars
-----------------------------------------------------------------------------
(* Properties.                                                             *)

\* A task that is waiting or running has every file it will download: a release
\* lists the unfinished tasks first and keeps what they share (job_http.py:98).
UnfinishedJobsHaveInputs ==
    \A j \in Tasks(db) : Status(db, j) \in Live => Refs(db, j) \subseteq files

\* Once the reports and cancellations that ended a group's tasks have all been
\* answered, its files are gone, however the requests interleaved.  Groups with
\* a task that the sweep ended are left out: nobody releases those.
Answered(g) ==
    /\ \A t \in DOMAIN db.groups[g].tasks :
        db.groups[g].tasks[t].end \in {"report", "cancel"} /\ <<g, t>> \notin cut
    /\ \A h \in Active : \A j \in hand[h].jobs : j[1] # g

AnsweredGroupsAreReleased ==
    \A g \in DOMAIN db.groups : Answered(g) => db.groups[g].refs \cap files = {}

\* A file an application's submission staged is named by a hold, which the next
\* start cleans up, or by a run, whose end releases it: no interleaving of two
\* submissions, failure or restart leaves one that nothing will ever delete.
StagedFilesHaveAnOwner ==
    \A u \in files : made[u] = "app" =>
        \/ \E x \in db.holds : u \in x.paths
        \/ \E g \in DOMAIN db.groups : u \in db.groups[g].refs

\* Two submissions of one user under one key never become two runs, though each
\* looks for the other before its own row exists (compute-api.md, "Repeating the
\* same app, user, key, and body returns 200 with the existing run").
OneRunPerKey ==
    \A f, g \in AppGroups(db) :
        db.groups[f].owner = db.groups[g].owner /\ db.groups[f].key = db.groups[g].key => f = g

\* Runs that stage, wait or run never exceed the slots, a user's never the
\* user's, though a hold becomes a run in a later transaction.
RunsFitTheSlots ==
    Outstanding(db) <= TotalRuns /\ \A o \in Owners : Owned(db, o) <= OwnerRuns

\* What applications retain, uploads in progress included, stays in both quotas.
InputsFitTheQuota ==
    /\ Bytes(db, Retained(db)) <= TotalQuota
    /\ \A o \in Owners : Bytes(db, OwnedInputs(db, o)) <= OwnerQuota

\* Every retained file is counted by a row, or a request is about to remove it:
\* the quota bounds the directory and not only the table.  And a saved input
\* has its bytes, which a later submission copies.
ObjectsAreCounted ==
    /\ \A i \in objects :
        \/ db.inputs[i].state \in {"reserved", "saved"}
        \/ \E h \in Handlers : hand[h].pc = "erase" /\ hand[h].input = i
    /\ \A i \in Inputs : db.inputs[i].state = "saved" => i \in objects

\* An application sees its run as ended exactly when it no longer holds a slot.
EndedRunsHoldNoSlot ==
    \A g \in AppGroups(db) :
        RunView(db, g) \in {"COMPLETED", "FAILED", "CANCELLED"} <=> ~GroupIsLive(db, g)

\* Every reader of a run's results is given the same manifest, however the
\* first readers overlap and whatever happens to the files in between.
OneManifestPerRun == \A g \in Groups : Cardinality(told[g]) <= 1

\* A repeated request meets what the first one made: one run for a key, one
\* manifest for a run (AppCompute.submit, RunResults.published).
RepeatsAgree == OneRunPerKey /\ OneManifestPerRun

\* Slots are bounded, and a run holds one exactly until its user sees it end.
SlotsAreExact == RunsFitTheSlots /\ EndedRunsHoldNoSlot

\* What is on disk is counted, and what is counted fits the quotas.
RetainedBytesAreBounded == InputsFitTheQuota /\ ObjectsAreCounted

=============================================================================
