------------------------------ MODULE Workspace ------------------------------
(***************************************************************************)
(* The disk and the containers of one worker: the cache of immutable       *)
(* inputs, the run directory that links into it, the outputs that wait to  *)
(* be published, and what a worker that died leaves of each                *)
(* (src/worker/data_plane.py, container_runner.py, main.py).               *)
(*                                                                         *)
(* The worker runs one job at a time in one thread; the lease thread only  *)
(* sets the flags it reads (LeasedWorker models the lease itself).  What   *)
(* makes it hard is that every step may be the last one of the process,    *)
(* and that the next process starts from what is on disk.                  *)
(*                                                                         *)
(* A file stands for a digest in its cache directory; cache and outputs    *)
(* are ordered by modification time, oldest first.                         *)
(*                                                                         *)
(* An operator named ...Bug is the definition after it with a mistake in   *)
(* it; nothing here uses one.                                              *)
(***************************************************************************)
EXTENDS Naturals, FiniteSets, FiniteSetsExt, SequencesExt, Directories

CONSTANTS
    Jobs,           \* jobs the coordinator may hand to this worker
    Files,          \* digests
    Needs,          \* [Jobs -> Seq(Files)]: archive then inputs, or dataset then script
    Batches,        \* the jobs of type batch; the others are Python batches
    Bytes,          \* [Files -> Nat]
    MaxCacheBytes,  \* HOME_PLATFORM_MAX_CACHE_BYTES
    MaxUnpublished, \* MAX_UNPUBLISHED_OUTPUTS
    MaxClaims,      \* bound: jobs taken
    MaxCrashes      \* bound: deaths of the process

ASSUME WorkspaceAssumption ==
    /\ Batches \subseteq Jobs
    /\ Needs \in [Jobs -> Seq(Files)] /\ \A j \in Jobs : Needs[j] # <<>>
    /\ \A j \in Jobs \ Batches : Len(Needs[j]) = 2
    /\ Bytes \in [Files -> Nat \ {0}]
    /\ {MaxCacheBytes, MaxUnpublished, MaxClaims, MaxCrashes} \subseteq Nat

VARIABLES
    pc,         \* what the worker process is doing, "down" when it is dead
    job,        \* the job in hand, None between jobs
    need,       \* the next of its files to prepare
    lease,      \* what the lease thread found: "held", "cancelled" or "lost"
    keep,       \* JobScratch.keep_outputs
    cache,      \* cached files, least recently used first
    damaged,    \* cached files whose content a power loss spoiled
    partial,    \* ages of the .part files no download owns: "fresh", "stale"
    linked,     \* runs/<job>/input: the cached files linked there
    outputs,    \* artifacts/: the jobs with a directory there, oldest first
    unpublished,\* ghost: jobs whose successful results could not be published here
    containers, \* containers with the job label, by the claim that started them
    starting,   \* containers docker has been asked for and not made
    late,       \* ghost: those it made when nobody waited for them any more
    refused,    \* ghost: jobs the cache refused
    claims, crashes

process  == <<pc, job, need, lease, keep>>
disk     == <<cache, damaged, partial, linked, outputs>>
docker   == <<containers, starting, late>>
counters == <<unpublished, refused, claims, crashes>>
vars == <<process, disk, docker, counters>>

None == "none"
Busy == {"prepare", "download", "stage", "launch", "running", "ended", "publish", "report"}

Init ==
    /\ pc = "down" /\ job = None /\ need = 0 /\ lease = "held" /\ keep = FALSE
    /\ cache = <<>> /\ damaged = {} /\ partial = {} /\ outputs = <<>>
    /\ linked = [j \in Jobs |-> {}]
    /\ unpublished = {} /\ containers = {} /\ starting = {} /\ late = {} /\ refused = {}
    /\ claims = 0 /\ crashes = 0

Total(files) == SumOf(Bytes, files)

(***************************************************************************)
(* prune_cache: what is left of the given entries when the least recently  *)
(* used ones that are neither protected nor linked into a run have made    *)
(* room for the required bytes, and whether they could.                    *)
(***************************************************************************)
Prune(entries, required, protected) ==
    LET old == Sublist(entries, Files \ (protected \cup UNION Range(linked)))
        After(k) == ToSet(entries) \ {old[i] : i \in 1..k}
        enough == {k \in 0..Len(old) : Total(After(k)) + required <= MaxCacheBytes}
    IN  IF required > MaxCacheBytes THEN [kept |-> entries, fits |-> FALSE]
        ELSE IF enough = {} THEN [kept |-> Sublist(entries, After(Len(old))), fits |-> FALSE]
        ELSE [kept |-> Sublist(entries, After(Min(enough))), fits |-> TRUE]

ProtectedBug == {}

\* materialize_script protects the dataset that is prepared but not yet linked;
\* a batch job links each input before it fetches the next.
Protected == IF job \in Batches \/ need = 1 THEN {} ELSE {Needs[job][1]}
File == Needs[job][need]
AllPrepared == need = Len(Needs[job])

\* A cache hit is an entry whose size and digest match the reference.
Hit(f) == f \in ToSet(cache) /\ f \notin damaged

(***************************************************************************)
(* The next step of a job once a file is in the cache: a batch job links   *)
(* its inputs one by one (its archive is extracted, not linked), a Python  *)
(* batch links both files when it has both.                                *)
(***************************************************************************)
Prepared ==
    /\ linked' = IF job \in Batches /\ need > 1
                 THEN [linked EXCEPT ![job] = @ \cup {File}] ELSE linked
    /\ pc' = IF ~AllPrepared THEN "prepare" ELSE IF job \in Batches THEN "launch" ELSE "stage"
    /\ need' = IF AllPrepared THEN need ELSE need + 1

TrimBug(list) ==
    IF Len(list) <= MaxUnpublished THEN list ELSE SubSeq(list, 1, MaxUnpublished)

\* Reconcile at startup: containers of a dead worker (docker ps -a finds stopped
\* ones too), its run directories, and outputs beyond the newest MaxUnpublished.
Trim(list) ==
    IF Len(list) <= MaxUnpublished THEN list
    ELSE SubSeq(list, Len(list) - MaxUnpublished + 1, Len(list))
StartWorkerBug ==
    /\ pc = "down" /\ pc' = "idle" /\ containers' = {}
    /\ outputs' = Trim(outputs)
    /\ UNCHANGED <<job, need, lease, keep, cache, damaged, partial, linked, starting, late, counters>>

StartWorker ==
    /\ pc = "down" /\ pc' = "idle"
    /\ containers' = {}
    /\ linked' = [j \in Jobs |-> {}]
    /\ outputs' = Trim(outputs)
    /\ UNCHANGED <<job, need, lease, keep, cache, damaged, partial, starting, late, counters>>

(***************************************************************************)
(* run_once claims a job.  A batch job clears the directories of an        *)
(* earlier attempt and makes its output directory before it prepares       *)
(* anything; a Python batch does so when its files are there (Stage).      *)
(***************************************************************************)
Claim(j) ==
    /\ pc = "idle" /\ claims < MaxClaims
    /\ claims' = claims + 1
    /\ pc' = "prepare" /\ job' = j /\ need' = 1 /\ lease' = "held" /\ keep' = FALSE
    /\ IF j \in Batches
       THEN /\ linked' = [linked EXCEPT ![j] = {}]
            /\ outputs' = Append(Without(outputs, j), j)
       ELSE UNCHANGED <<linked, outputs>>
    /\ unpublished' = unpublished \ {j}
    /\ UNCHANGED <<cache, damaged, partial, docker, refused, crashes>>

\* record_cache_use makes the file the newest entry; os.replace never leaves two.
Used(f) == Append(Without(cache, f), f)
CacheHit ==
    /\ pc = "prepare" /\ Hit(File)
    /\ cache' = Used(File)
    /\ Prepared
    /\ UNCHANGED <<job, lease, keep, damaged, partial, outputs, docker, counters>>

\* A miss drops an entry that does not match, prunes, which also deletes partial
\* downloads old enough to have no writer, and opens the download.
CacheMiss ==
    /\ pc = "prepare" /\ ~Hit(File)
    /\ LET pruned == Prune(Without(cache, File), Bytes[File], Protected) IN
         /\ cache' = pruned.kept
         /\ damaged' = damaged \cap ToSet(pruned.kept)
         /\ partial' = IF Bytes[File] > MaxCacheBytes THEN partial ELSE partial \ {"stale"}
         /\ pc' = IF pruned.fits THEN "download" ELSE "report"
         /\ refused' = IF pruned.fits THEN refused ELSE refused \cup {job}
    /\ UNCHANGED <<job, need, lease, keep, linked, outputs, docker, unpublished, claims, crashes>>

\* os.replace makes the file an entry once its size and digest are verified.
Download ==
    /\ pc = "download"
    /\ cache' = Used(File)
    /\ Prepared
    /\ UNCHANGED <<job, lease, keep, damaged, partial, outputs, docker, counters>>

\* Transport errors, a wrong size or digest, a bad archive, or the flag seen
\* between two chunks: the finally clause removes the partial file.
PrepareFails ==
    /\ pc \in {"prepare", "download", "stage", "launch"}
    /\ pc' = "report"
    /\ UNCHANGED <<job, need, lease, keep, disk, docker, counters>>

Stage ==
    /\ pc = "stage" /\ ToSet(Needs[job]) \subseteq ToSet(cache)
    /\ linked' = [linked EXCEPT ![job] = ToSet(Needs[job])]
    /\ outputs' = Append(Without(outputs, job), job)
    /\ pc' = "launch"
    /\ UNCHANGED <<job, need, lease, keep, cache, damaged, partial, docker, counters>>

\* docker run: the CLI is started, and the daemon makes the container.
Launch ==
    /\ pc = "launch" /\ pc' = "running"
    /\ starting' = starting \cup {claims}
    /\ UNCHANGED <<job, need, lease, keep, disk, containers, late, counters>>

DockerCreates(c) ==
    /\ c \in starting
    /\ starting' = starting \ {c} /\ containers' = containers \cup {c}
    /\ late' = IF pc = "running" /\ c = claims THEN late ELSE late \cup {c}
    /\ UNCHANGED <<process, disk, counters>>

\* The container ends, well (need is 0 from here on) or badly, having written its outputs.
ContainerExits ==
    /\ pc = "running" /\ claims \in containers
    /\ pc' = "ended" /\ need' \in {0, need}
    /\ outputs' = Append(Without(outputs, job), job)
    /\ UNCHANGED <<job, lease, keep, cache, damaged, partial, linked, docker, counters>>

\* The time limit passes: the container is removed and the CLI killed.
Deadline ==
    /\ pc = "running" /\ pc' = "ended"
    /\ containers' = containers \ {claims}
    /\ UNCHANGED <<job, need, lease, keep, disk, starting, late, counters>>

\* The flag is seen: removed once, the CLI killed, and nothing looks again.
Cancelled ==
    /\ pc = "running" /\ lease # "held" /\ pc' = "report"
    /\ containers' = containers \ {claims}
    /\ UNCHANGED <<job, need, lease, keep, disk, starting, late, counters>>

RemoveContainerBug ==
    /\ pc = "ended"
    /\ containers' = IF need = 0 THEN containers \ {claims} ELSE containers
    /\ pc' = IF need = 0 /\ lease = "held" THEN "publish" ELSE "report"
    /\ UNCHANGED <<job, need, lease, keep, disk, starting, late, counters>>

\* The finally clause removes the container; a success is published unless the
\* flag was set meanwhile.
RemoveContainer ==
    /\ pc = "ended"
    /\ containers' = containers \ {claims}
    /\ pc' = IF need = 0 /\ lease = "held" THEN "publish" ELSE "report"
    /\ UNCHANGED <<job, need, lease, keep, disk, starting, late, counters>>

Publish ==
    /\ pc = "publish" /\ pc' = "report"
    /\ UNCHANGED <<job, need, lease, keep, disk, docker, counters>>

PublishFails ==
    /\ pc = "publish" /\ pc' = "report"
    /\ keep' = TRUE
    /\ UNCHANGED <<job, need, lease, disk, docker, counters>>

\* The report, told or not, and JobScratch.__exit__: results of a lost lease are
\* another worker's to make again, so their copy is not the only one.
Finish ==
    /\ pc = "report" /\ pc' = "idle" /\ job' = None /\ need' = 0
    /\ keep' = (keep /\ lease # "lost") /\ lease' = "held"
    /\ linked' = [linked EXCEPT ![job] = {}]
    /\ outputs' = IF keep' THEN Trim(outputs) ELSE Without(outputs, job)
    /\ unpublished' = IF keep' THEN unpublished \cup {job} ELSE unpublished
    /\ UNCHANGED <<cache, damaged, partial, docker, refused, claims, crashes>>

\* The lease thread: a heartbeat answers that the job is cancelled, or refuses it.
LeaseEnds(how) ==
    /\ pc \in Busy /\ lease = "held"
    /\ lease' = how
    /\ UNCHANGED <<pc, job, need, keep, disk, docker, counters>>

\* Ten minutes pass while no process of this worker writes.
PartialsAge ==
    /\ pc # "download" /\ "fresh" \in partial
    /\ partial' = {"stale"}
    /\ UNCHANGED <<process, cache, damaged, linked, outputs, docker, counters>>

(***************************************************************************)
(* The process dies, alone or with its machine.  Directories and           *)
(* containers stay; a container whose worker died runs on until the next   *)
(* start.  A power loss may also spoil entries written since the last      *)
(* flush: os.replace is not preceded by fsync.                             *)
(***************************************************************************)
Dies(spoiled) ==
    /\ pc # "down" /\ crashes < MaxCrashes
    /\ crashes' = crashes + 1
    /\ pc' = "down" /\ job' = None /\ need' = 0 /\ lease' = "held" /\ keep' = FALSE
    /\ partial' = IF pc = "download" THEN partial \cup {"fresh"} ELSE partial
    /\ damaged' = damaged \cup spoiled
    /\ UNCHANGED <<cache, linked, outputs, docker, unpublished, refused, claims>>

WorkerStep ==
    \/ StartWorker
    \/ \E j \in Jobs : Claim(j)
    \/ CacheHit \/ CacheMiss \/ Download \/ PrepareFails \/ Stage
    \/ Launch \/ ContainerExits \/ Deadline \/ Cancelled \/ RemoveContainer
    \/ Publish \/ PublishFails \/ Finish

Next ==
    \/ WorkerStep
    \/ \E c \in starting : DockerCreates(c)
    \/ \E how \in {"cancelled", "lost"} : LeaseEnds(how)
    \/ PartialsAge
    \/ \E spoiled \in SUBSET ToSet(cache) : Dies(spoiled)

Spec == Init /\ [][Next]_vars

-----------------------------------------------------------------------------

\* The entries of the four cache directories together never take more than the
\* configured ceiling, whatever was pinned when room was made (prune_cache counts
\* the bytes the download is about to add).
CacheFitsItsCeiling == Total(ToSet(cache)) <= MaxCacheBytes

\* What a job has prepared stays in the cache, undamaged, until it is linked and
\* until its run is over: making room for its other files never takes it back.
PreparedFilesStay ==
    pc \in Busy \ {"report"} =>
        LET prepared == IF job \in Batches THEN linked[job]
                        ELSE IF pc \in {"prepare", "download"}
                        THEN {Needs[job][i] : i \in 1..(need - 1)} ELSE ToSet(Needs[job])
        IN  prepared \subseteq ToSet(cache) \ damaged

\* The cache refuses no job whose files fit the ceiling together: nothing an
\* earlier job or process left pins an entry.
FittingJobsAreNotRefused ==
    \A j \in refused : Total(ToSet(Needs[j])) > MaxCacheBytes

\* No container outlives the job that started it, except one whose worker died,
\* which does not outlive the next start, and one docker makes only after the
\* worker removed what was there and killed the CLI that asked for it.
ContainersBelongToTheJob ==
    pc # "down" =>
        containers \ late \subseteq (IF pc \in {"running", "ended"} THEN {claims} ELSE {})

\* Between two jobs at most MaxUnpublished output directories are on disk.
OutputsAreBounded == pc = "idle" => Len(outputs) <= MaxUnpublished

\* A successful run that could not be published keeps its outputs, the only copy,
\* until this worker takes the job again or MaxUnpublished newer directories
\* have taken their place.
UnpublishedIsKept ==
    [][\A j \in unpublished' :
         LET newer == {outputs[k] : k \in
                 {i \in 1..Len(outputs) : \E h \in 1..(i-1) : outputs[h] = j}} IN
           j \in ToSet(outputs) /\ j \notin ToSet(outputs') =>
             Cardinality(newer \cap ToSet(outputs')) >= MaxUnpublished]_vars

\* Making room obeys both: the ceiling, and the job whose files it makes room for.
EvictionIsSafe == CacheFitsItsCeiling /\ PreparedFilesStay

\* Outputs on disk are bounded, and no output that is the only copy pays for an
\* older one (JobScratch, _trim_unpublished_outputs).
NewestOutputsAreKept == []OutputsAreBounded /\ UnpublishedIsKept

=============================================================================
