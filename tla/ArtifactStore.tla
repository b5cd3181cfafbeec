----------------------------- MODULE ArtifactStore -----------------------------
(***************************************************************************)
(* The published results on the coordinator: app/dashboard_artifacts.py,   *)
(* with the deletion of results in app/dashboard_files.py.                 *)
(*                                                                         *)
(* A run is one directory below the root: the directory of a single job,   *)
(* or that of an array, with one directory for each child.  Uploads and    *)
(* the eviction that follows each run on the event loop; deletions run on  *)
(* threads.  An upload is three steps: the checks up to the opening of its *)
(* part, the arrival of its bytes, and the promotion of the part together  *)
(* with the eviction.  A removal lists the directory and then removes what *)
(* it listed.                                                              *)
(*                                                                         *)
(* An operator named ...Bug is the definition after it with a mistake in   *)
(* it; nothing here uses one.                                              *)
(***************************************************************************)
EXTENDS Naturals, FiniteSets, SequencesExt, Directories

CONSTANTS
    Jobs,
    RunOf,        \* job -> run directory
    Single,       \* the jobs that are alone in their run, and are that directory
    Files,        \* file names
    Bytes,        \* file -> size
    MaxStore,     \* max_artifact_store_bytes
    MaxJob,       \* max_job_artifact_bytes
    MaxDeeds      \* bound on uploads and deletions

ASSUME StoreAssumption ==
    /\ IsFiniteSet(Jobs) /\ IsFiniteSet(Files)
    /\ RunOf \in [Jobs -> STRING]
    /\ Single \subseteq Jobs /\ \A j \in Single, k \in Jobs : RunOf[k] = RunOf[j] => k = j
    /\ Bytes \in [Files -> Nat]
    /\ {MaxStore, MaxJob, MaxDeeds} \subseteq Nat

VARIABLES
    running,    \* the jobs that run, under a current lease
    files,      \* job -> published files in its directory
    recent,     \* the run directories, least recently modified first
    uploads,    \* uploads in progress
    deletions,  \* removals in progress
    deeds,      \* number of uploads and deletions so far
    answer,     \* history: the upload just acknowledged
    cutShort    \* history: the last eviction met a removal and was given up

storeVars == <<running, files, recent, uploads, deletions, deeds, answer, cutShort>>

NoAnswer == [job |-> "none", file |-> "none", fits |-> FALSE]

Runs == {RunOf[j] : j \in Jobs}
JobsOf(run) == {j \in Jobs : RunOf[j] = run}

InitStore ==
    /\ running \in SUBSET Jobs
    /\ files = [j \in Jobs |-> {}]
    /\ recent = <<>>
    /\ uploads = {}
    /\ deletions = {}
    /\ deeds = 0
    /\ answer = NoAnswer
    /\ cutShort = FALSE

-------------------------------------------------------------------------------
\* Claims, and the ends of jobs.
StartOrEnd(j) ==
    /\ running' = IF j \in running THEN running \ {j} ELSE running \cup {j}
    /\ answer' = NoAnswer
    /\ UNCHANGED <<files, recent, uploads, deletions, deeds, cutShort>>

-------------------------------------------------------------------------------
(***************************************************************************)
(* Sizes and the order of modification.                                    *)
(***************************************************************************)
Weight(names) == SumOf(Bytes, names)

\* The bytes of the parts in a job's directory.
PartBytes(j) ==
    SumOf([u \in uploads |-> Bytes[u.file]], {u \in uploads : u.job = j /\ u.whole /\ ~u.lost})

DirectorySize(held, j) == Weight(held[j]) + PartBytes(j)

RunSize(held, run) == SumOf([j \in Jobs |-> DirectorySize(held, j)], JobsOf(run))

Touched(order, run) == Append(Without(order, run), run)

\* A directory is modified when an entry of its own comes or goes: what goes on
\* in a child's directory does not touch that of the array.
TouchedBy(order, j) ==
    IF j \in Single \/ RunOf[j] \notin ToSet(order) THEN Touched(order, RunOf[j])
                                                    ELSE order

IsBare(j) == files[j] = {} /\ \A u \in uploads : u.job = j => u.lost

-------------------------------------------------------------------------------
(***************************************************************************)
(* Uploads.                                                                *)
(***************************************************************************)
BeginUpload(j, f) ==
    /\ deeds < MaxDeeds
    /\ j \in running
    /\ deeds' = deeds + 1
    /\ uploads' = uploads \cup
        {[id |-> deeds', job |-> j, file |-> f, used |-> DirectorySize(files, j),
          whole |-> FALSE, lost |-> FALSE]}
    /\ recent' \in {TouchedBy(recent, j)} \cup      \* a child's directory may be new
                    IF IsBare(j) THEN {Touched(recent, RunOf[j])} ELSE {}
    /\ answer' = NoAnswer
    /\ UNCHANGED <<running, files, deletions, cutShort>>

\* The bytes arrive, or are more than the job may publish.
Receive(u) ==
    /\ ~u.whole
    /\ IF u.used + Bytes[u.file] <= MaxJob
       THEN /\ uploads' = (uploads \ {u}) \cup {[u EXCEPT !.whole = TRUE]}
            /\ UNCHANGED recent
       ELSE /\ uploads' = uploads \ {u}
            /\ recent' = IF u.lost THEN recent ELSE TouchedBy(recent, u.job)
    /\ answer' = NoAnswer
    /\ UNCHANGED <<running, files, deletions, deeds, cutShort>>

\* The bytes left in the store once the first k runs of the order are gone.
Left(held, order, k) ==
    SumOf([run \in Runs |-> RunSize(held, run)], {order[i] : i \in k + 1 .. Len(order)})

EvictedBug(held, order) ==
    CHOOSE k \in 0 .. Len(order) :
        /\ k = Len(order) \/ Left(held, order, k + 1) <= MaxStore
        /\ \A i \in 0 .. k - 1 : Left(held, order, i + 1) > MaxStore

\* How many runs go: as few of the least recently modified as suffice.
Evicted(held, order) ==
    CHOOSE k \in 0 .. Len(order) :
        /\ k = Len(order) \/ Left(held, order, k) <= MaxStore
        /\ \A i \in 0 .. k - 1 : Left(held, order, i) > MaxStore

\* A part is gone with its directory.
LoseParts(S) == {IF u.job \in S THEN [u EXCEPT !.lost = TRUE] ELSE u : u \in uploads}

Promoted(u) == [files EXCEPT ![u.job] = @ \cup {u.file}]

\* The part counts as the file it becomes.
PromoteAndEvict(u) ==
    LET order == TouchedBy(recent, u.job)
        others == [files EXCEPT ![u.job] = @ \ {u.file}]
        k == Evicted(others, order)
        victims == {j \in Jobs : RunOf[j] \in {order[i] : i \in 1 .. k}}
    IN  /\ u.whole /\ ~u.lost
        /\ files' = [j \in Jobs |-> IF j \in victims THEN {} ELSE Promoted(u)[j]]
        /\ recent' = SubSeq(order, k + 1, Len(order))
        /\ uploads' = LoseParts(victims) \ {u, [u EXCEPT !.lost = TRUE]}
        /\ answer' = [job |-> u.job, file |-> u.file,
                      fits |-> RunSize(others, RunOf[u.job]) <= MaxStore]
        /\ cutShort' = FALSE
        /\ UNCHANGED <<running, deletions, deeds>>

\* The eviction measures entries that a removal takes away, and fails.
PromoteOnly(u) ==
    /\ u.whole /\ ~u.lost
    /\ \E d \in deletions : d.step = "listed"
    /\ files' = Promoted(u)
    /\ recent' = TouchedBy(recent, u.job)
    /\ uploads' = uploads \ {u}
    /\ answer' = NoAnswer
    /\ cutShort' = TRUE
    /\ UNCHANGED <<running, deletions, deeds>>

\* The directory went away under the part.
PromoteFails(u) ==
    /\ u.whole /\ u.lost
    /\ uploads' = uploads \ {u}
    /\ answer' = NoAnswer
    /\ UNCHANGED <<running, files, recent, deletions, deeds, cutShort>>

-------------------------------------------------------------------------------
(***************************************************************************)
(* Deletions: of a run from the Files page, which first makes sure that    *)
(* none of the member's jobs runs; of a job's directory and of one file by *)
(* the operator, whom running jobs do not stop.                            *)
(***************************************************************************)
AskDeletion(run, S) ==
    /\ deeds < MaxDeeds
    /\ run \in ToSet(recent)
    /\ deeds' = deeds + 1
    /\ deletions' = deletions \cup
        {[id |-> deeds', run |-> run, jobs |-> S, step |-> "asked", listed |-> {}, hidden |-> {}]}
    /\ answer' = NoAnswer
    /\ UNCHANGED <<running, files, recent, uploads, cutShort>>

DeleteRun(run) == running = {} /\ AskDeletion(run, JobsOf(run))

DeleteArtifacts(j) == AskDeletion(RunOf[j], {j})

ListForRemoval(d) ==
    /\ d.step = "asked"
    /\ deletions' = (deletions \ {d}) \cup
        {[d EXCEPT !.step = "listed",
                   !.listed = {x \in d.jobs \X Files : x[2] \in files[x[1]]},
                   !.hidden = {u.id : u \in {v \in uploads : v.job \in d.jobs /\ ~v.lost}}]}
    /\ answer' = NoAnswer
    /\ UNCHANGED <<running, files, recent, uploads, deeds, cutShort>>

\* The directory goes if nothing has come into it since.  A removal from the
\* Files page stops at an entry that somebody else has removed.
RemoveListed(d) ==
    /\ d.step = "listed"
    /\ \E gone \in IF \E x \in d.listed : x[2] \notin files[x[1]]
                   THEN SUBSET d.listed ELSE {d.listed} :
            files' = [j \in Jobs |-> {f \in files[j] : <<j, f>> \notin gone}]
    /\ uploads' = {IF u.id \in d.hidden THEN [u EXCEPT !.lost = TRUE] ELSE u : u \in uploads}
    /\ recent' = IF d.run \notin ToSet(recent) THEN recent
                 ELSE IF d.jobs \subseteq Single \/ d.jobs = JobsOf(d.run)
                 THEN IF \A j \in JobsOf(d.run) : IsBare(j)'
                      THEN Without(recent, d.run)
                      ELSE Touched(recent, d.run)
                 ELSE Touched(recent, d.run)
    /\ deletions' = deletions \ {d}
    /\ answer' = NoAnswer
    /\ UNCHANGED <<running, deeds, cutShort>>

DeleteArtifact(j, f) ==
    /\ deeds < MaxDeeds
    /\ f \in files[j]
    /\ deeds' = deeds + 1
    /\ files' = [files EXCEPT ![j] = @ \ {f}]
    /\ recent' = TouchedBy(recent, j)
    /\ answer' = NoAnswer
    /\ UNCHANGED <<running, uploads, deletions, cutShort>>

NextStore ==
    \/ \E j \in Jobs : StartOrEnd(j) \/ DeleteArtifacts(j)
    \/ \E j \in Jobs, f \in Files : BeginUpload(j, f) \/ DeleteArtifact(j, f)
    \/ \E u \in uploads :
        Receive(u) \/ PromoteAndEvict(u) \/ PromoteOnly(u) \/ PromoteFails(u)
    \/ \E run \in Runs : DeleteRun(run)
    \/ \E d \in deletions : ListForRemoval(d) \/ RemoveListed(d)

SpecStore == InitStore /\ [][NextStore]_storeVars

-------------------------------------------------------------------------------
(***************************************************************************)
(* Correctness.                                                            *)
(***************************************************************************)

\* Every published file and every part that is not lost lies in a run
\* directory that exists.
TypeOKStore ==
    /\ files \in [Jobs -> SUBSET Files]
    /\ recent \in Seq(Runs) /\ IsInjective(recent)
    /\ \A j \in Jobs : files[j] # {} => RunOf[j] \in ToSet(recent)
    /\ \A u \in uploads : ~u.lost => RunOf[u.job] \in ToSet(recent)

\* The store is within its cap after every upload, except after one whose
\* eviction met a removal; the next upload makes up for it.
StoreFitsItsCap ==
    cutShort \/ SumOf([j \in Jobs |-> Weight(files[j])], Jobs) <= MaxStore

\* An upload that was acknowledged is there, if its run fits the store at all:
\* eviction takes the runs that were not written to.  An array's directory is
\* not touched by its children's files, so this is about single jobs.
JustPublishedIsKept ==
    answer.fits /\ answer.job \in Single => answer.file \in files[answer.job]

\* Eviction makes the store fit, at the expense of the runs that were not
\* written to, and leaves no file without its directory.
EvictionIsRight == TypeOKStore /\ StoreFitsItsCap /\ JustPublishedIsKept

===============================================================================
