--------------------------- MODULE Workspace_proofs ---------------------------
(***************************************************************************)
(* Proofs about Workspace, for any jobs, files, sizes and limits.          *)
(***************************************************************************)
EXTENDS Workspace, Collections

-------------------------------------------------------------------------------
(***************************************************************************)
(* Sizes.                                                                  *)
(***************************************************************************)

LEMMA ListsAreFinite ==
    ASSUME NEW T, NEW list \in Seq(T)
    PROVE  /\ IsFiniteSet(ToSet(list)) /\ ToSet(list) \subseteq T
           /\ IsInjective(list) => Cardinality(ToSet(list)) = Len(list)
<1>1. /\ Len(list) \in Nat /\ DOMAIN list = 1 .. Len(list)
      /\ list \in [1 .. Len(list) -> T]
  OBVIOUS
<1>2. IsFiniteSet(1 .. Len(list)) /\ Cardinality(1 .. Len(list)) = Len(list)
  BY <1>1, FS_Interval
<1>3. list \in Surjection(1 .. Len(list), ToSet(list))
  BY <1>1 DEF Surjection, ToSet
<1>4. IsFiniteSet(ToSet(list))
  BY <1>2, <1>3, FS_Surjection
<1>5. ASSUME IsInjective(list)
      PROVE  Cardinality(ToSet(list)) = Len(list)
  <2>1. list \in Bijection(1 .. Len(list), ToSet(list))
    BY <1>1, <1>3, <1>5 DEF Bijection, Injection, Surjection, IsInjective
  <2>2. QED
    BY <1>2, <2>1, FS_Bijection DEF ExistsBijection
<1>6. ToSet(list) \subseteq T
  BY <1>1 DEF ToSet
<1>7. QED
  BY <1>4, <1>5, <1>6

LEMMA TotalIsSum == \A X : Total(X) = SumOf(Bytes, X)
BY DEF Total

LEMMA TotalGrows ==
    ASSUME NEW T, T \subseteq Files, IsFiniteSet(T), NEW S, S \subseteq T
    PROVE  /\ Total(S) \in Nat /\ Total(T) \in Nat /\ Total(S) <= Total(T)
           /\ \A f \in T \ S : Total(S) + Bytes[f] <= Total(T)
           /\ \A f \in T : Total(T) = Bytes[f] + Total(T \ {f}) /\ Bytes[f] \in Nat
<1>1. \A f \in T : Bytes[f] \in Nat
  BY WorkspaceAssumption
<1>2. \A X : Total(X) = SumOf(Bytes, X)
  BY TotalIsSum
<1>3. IsFiniteSet(S)
  BY FS_Subset
<1>4. SumOf(Bytes, S) \in Nat /\ SumOf(Bytes, T) \in Nat
  BY <1>1, <1>3, SumSplits
<1>5. \A f \in T : SumOf(Bytes, T) = Bytes[f] + SumOf(Bytes, T \ {f})
  BY <1>1, SumSplits
<1>6. ASSUME NEW X \in SUBSET T, NEW Y \in SUBSET X
      PROVE  SumOf(Bytes, Y) <= SumOf(Bytes, X)
  <2>1. IsFiniteSet(X)
    BY FS_Subset
  <2>2. /\ \A f \in X : Bytes[f] \in Nat
        /\ \A f \in Y : Bytes[f] \in Nat /\ Bytes[f] <= Bytes[f]
    BY <1>1
  <2>3. QED
    BY <2>1, <2>2, SumGrows
<1>7. ASSUME NEW f \in T \ S
      PROVE  SumOf(Bytes, S) + Bytes[f] <= SumOf(Bytes, T)
  <2>1. S \in SUBSET (T \ {f}) /\ T \ {f} \in SUBSET T
    OBVIOUS
  <2>2. SumOf(Bytes, S) <= SumOf(Bytes, T \ {f})
    BY <1>6, <2>1
  <2>3. SumOf(Bytes, T \ {f}) \in Nat
    <3>1. IsFiniteSet(T \ {f}) /\ \A g \in T \ {f} : Bytes[g] \in Nat
      BY <1>1, FS_RemoveElement
    <3>2. QED
      BY <3>1, SumSplits
  <2>4. Bytes[f] \in Nat
    BY <1>1
  <2>5. SumOf(Bytes, T) = Bytes[f] + SumOf(Bytes, T \ {f})
    BY <1>5
  <2>6. QED
    BY <1>4, <2>2, <2>3, <2>4, <2>5
<1>8. SumOf(Bytes, S) <= SumOf(Bytes, T)
  BY <1>6
<1>9. QED
  BY <1>1, <1>2, <1>4, <1>5, <1>7, <1>8

-------------------------------------------------------------------------------
(***************************************************************************)
(* Making room.                                                            *)
(***************************************************************************)
Pinned(protected) == protected \cup UNION Range(linked)

\* Pruning takes entries away, but no pinned ones; either the required bytes
\* fit then, or they do not fit beside the pinned entries.
LEMMA PruneMakesRoom ==
    ASSUME NEW entries \in Seq(Files), NEW required \in Nat, NEW protected,
           NEW pruned, pruned = Prune(entries, required, protected)
    PROVE  /\ pruned.kept \in Seq(Files)
           /\ ToSet(pruned.kept) \subseteq ToSet(entries)
           /\ ToSet(entries) \cap Pinned(protected) \subseteq ToSet(pruned.kept)
           /\ pruned.fits \in BOOLEAN
           /\ pruned.fits => Total(ToSet(pruned.kept)) + required <= MaxCacheBytes
           /\ ~pruned.fits =>
                \/ required > MaxCacheBytes
                \/ Total(ToSet(entries) \cap Pinned(protected)) + required > MaxCacheBytes
<1> DEFINE old == Sublist(entries, Files \ Pinned(protected))
           After(k) == ToSet(entries) \ {old[i] : i \in 1 .. k}
           enough == {k \in 0 .. Len(old) : Total(After(k)) + required <= MaxCacheBytes}
<1>1. pruned =
        IF required > MaxCacheBytes THEN [kept |-> entries, fits |-> FALSE]
        ELSE IF enough = {} THEN [kept |-> Sublist(entries, After(Len(old))), fits |-> FALSE]
        ELSE [kept |-> Sublist(entries, After(Min(enough))), fits |-> TRUE]
  BY DEF Prune, Pinned
<1>2. old \in Seq(Files) /\ ToSet(old) = ToSet(entries) \cap (Files \ Pinned(protected))
  BY SublistHas
<1>3. Len(old) \in Nat /\ DOMAIN old = 1 .. Len(old)
  BY <1>2
<1> HIDE DEF old
<1>4. ToSet(entries) \subseteq Files
  BY ListsAreFinite
<1>5. ASSUME NEW k \in 0 .. Len(old)
      PROVE  ToSet(entries) \cap Pinned(protected) \subseteq After(k)
  BY <1>2, <1>3 DEF ToSet
<1>6. After(Len(old)) = ToSet(entries) \cap Pinned(protected)
  <2>1. {old[i] : i \in 1 .. Len(old)} = ToSet(old)
    BY <1>3 DEF ToSet
  <2>2. QED
    BY <1>2, <1>4, <2>1
<1>7. ASSUME NEW k \in 0 .. Len(old)
      PROVE  /\ Sublist(entries, After(k)) \in Seq(Files)
             /\ ToSet(Sublist(entries, After(k))) = After(k)
             /\ After(k) \subseteq ToSet(entries)
  BY SublistHas
<1>8. enough # {} => Min(enough) \in enough
  <2>1. enough \subseteq Nat
    OBVIOUS
  <2> HIDE DEF enough
  <2>2. enough # {} => \E a \in enough : \A b \in enough : a <= b
    BY <2>1, HasLeast
  <2>3. QED
    BY <2>2 DEF Min
<1>9. CASE required > MaxCacheBytes
  <2>1. pruned.kept = entries /\ pruned.fits = FALSE
    <3>1. pruned = [kept |-> entries, fits |-> FALSE]
      BY <1>1, <1>9
    <3> HIDE DEF After, enough
    <3>2. QED
      BY <3>1
  <2> HIDE DEF After, enough
  <2>2. QED
    BY <1>9, <2>1
<1>10. CASE ~(required > MaxCacheBytes) /\ enough = {}
  <2>1. pruned.kept = Sublist(entries, After(Len(old))) /\ pruned.fits = FALSE
    <3>1. pruned = [kept |-> Sublist(entries, After(Len(old))), fits |-> FALSE]
      BY <1>1, <1>10
    <3> HIDE DEF After, enough
    <3>2. QED
      BY <3>1
  <2>2. Len(old) \in 0 .. Len(old)
    BY <1>3
  <2>3. ~(Total(After(Len(old))) + required <= MaxCacheBytes)
    BY <1>10, <2>2
  <2> HIDE DEF After, enough
  <2>4. Total(ToSet(entries) \cap Pinned(protected)) + required > MaxCacheBytes
    <3>1. Total(After(Len(old))) \in Nat
      <4>1. IsFiniteSet(ToSet(entries))
        BY ListsAreFinite
      <4>2. QED
        BY <1>4, <1>7, <2>2, <4>1, TotalGrows
    <3>2. MaxCacheBytes \in Nat
      BY WorkspaceAssumption
    <3>3. QED
      BY <1>6, <2>3, <3>1, <3>2
  <2>5. QED
    BY <1>6, <1>7, <2>1, <2>2, <2>4
<1>11. CASE ~(required > MaxCacheBytes) /\ enough # {}
  <2> DEFINE k == Min(enough)
  <2>1. k \in 0 .. Len(old) /\ Total(After(k)) + required <= MaxCacheBytes
    BY <1>8, <1>11
  <2>2. pruned.kept = Sublist(entries, After(k)) /\ pruned.fits = TRUE
    <3>1. pruned = [kept |-> Sublist(entries, After(k)), fits |-> TRUE]
      BY <1>1, <1>11
    <3> HIDE DEF After, enough, k
    <3>2. QED
      BY <3>1
  <2> HIDE DEF k, After, enough
  <2>3. QED
    BY <1>5, <1>7, <2>1, <2>2
<1>12. QED
  BY <1>9, <1>10, <1>11

-------------------------------------------------------------------------------
(***************************************************************************)
(* The inductive invariant.                                                *)
(***************************************************************************)
Preparing == {"prepare", "download"}

StateInv ==
    /\ pc \in Busy \cup {"down", "idle"} /\ need \in Nat
    /\ lease \in {"held", "cancelled", "lost"} /\ keep \in BOOLEAN
    /\ pc \in Busy => job \in Jobs
    /\ pc \in Preparing => need \in 1 .. Len(Needs[job])
    /\ pc = "stage" => job \notin Batches
    /\ cache \in Seq(Files) /\ outputs \in Seq(Jobs) /\ IsInjective(outputs)
    /\ linked \in [Jobs -> SUBSET Files]

\* While a file is fetched there is room for it, and no spoiled copy is left.
RoomInv ==
    /\ Total(ToSet(cache)) <= MaxCacheBytes
    /\ pc = "download" =>
        /\ File \notin damaged
        /\ Total(ToSet(cache) \ {File}) + Bytes[File] <= MaxCacheBytes

\* Only the job in hand has links, and only to files of its own; a Python batch
\* has none while its files are prepared.
LinkInv ==
    /\ pc = "idle" => \A j \in Jobs : linked[j] = {}
    /\ pc \in Busy =>
        /\ \A j \in Jobs \ {job} : linked[j] = {}
        /\ linked[job] \subseteq ToSet(Needs[job])
        /\ job \notin Batches /\ pc \in Preparing => linked[job] = {}

\* Beside the directory of the job in hand no more than the limit are left, and
\* its results are nobody's only copy yet.
OutputInv ==
    /\ OutputsAreBounded
    /\ pc \in Busy =>
        /\ Cardinality(ToSet(outputs) \ {job}) <= MaxUnpublished
        /\ job \notin unpublished

Inv ==
    /\ StateInv /\ RoomInv /\ LinkInv /\ OutputInv
    /\ PreparedFilesStay /\ FittingJobsAreNotRefused /\ ContainersBelongToTheJob

LEMMA InitInv == Init => Inv
<1> SUFFICES ASSUME Init PROVE Inv
  OBVIOUS
<1>1. ToSet(cache) = {} /\ cache \in Seq(Files) /\ outputs \in Seq(Jobs) /\ IsInjective(outputs)
  BY DEF Init, ToSet, IsInjective
<1>2. Total(ToSet(cache)) = 0
  BY <1>1, SumOfNone, TotalIsSum
<1>3. StateInv
  BY <1>1 DEF Init, StateInv, Busy, Preparing
<1>4. RoomInv
  BY <1>2, WorkspaceAssumption DEF Init, RoomInv
<1>5. LinkInv /\ OutputInv /\ PreparedFilesStay /\ FittingJobsAreNotRefused
      /\ ContainersBelongToTheJob
  BY DEF Init, LinkInv, OutputInv, OutputsAreBounded, PreparedFilesStay,
     FittingJobsAreNotRefused, ContainersBelongToTheJob, Busy
<1>6. QED
  BY <1>3, <1>4, <1>5 DEF Inv

\* A job goes on, or its worker to another part of it, and the cache and the
\* links stay.
LEMMA GoingOn ==
    ASSUME Inv, UNCHANGED <<job, cache, damaged, linked>>,
           \/ UNCHANGED <<pc, need>>
           \/ pc \in Busy /\ pc' = "report"
           \/ /\ pc \in {"launch", "running", "ended"}
              /\ pc' \in {"running", "ended", "publish"}
    PROVE  RoomInv' /\ LinkInv' /\ PreparedFilesStay'
<1>1. CASE UNCHANGED <<pc, need>>
  BY <1>1 DEF Inv, RoomInv, LinkInv, PreparedFilesStay, File
<1>2. CASE pc \in Busy /\ pc' = "report"
  BY <1>2 DEF Inv, RoomInv, LinkInv, PreparedFilesStay, Busy, Preparing
<1>3. CASE pc \in {"launch", "running", "ended"} /\ pc' \in {"running", "ended", "publish"}
  <2>1. pc' # "idle" /\ pc' # "download" /\ pc' \notin Preparing /\ pc \notin Preparing
        /\ pc \in Busy \ {"report"} /\ pc' \in Busy
    BY <1>3 DEF Busy, Preparing
  <2>2. RoomInv' /\ LinkInv'
    BY <2>1 DEF Inv, RoomInv, LinkInv
  <2>3. PreparedFilesStay'
    BY <2>1 DEF Inv, PreparedFilesStay, Preparing
  <2>4. QED
    BY <2>2, <2>3
<1>4. QED
  BY <1>1, <1>2, <1>3

\* The directories below the output root, when the one of the job in hand is
\* made again as the newest.
LEMMA MakingOutputs ==
    ASSUME outputs \in Seq(Jobs), IsInjective(outputs), NEW j \in Jobs,
           outputs' = Append(Without(outputs, j), j)
    PROVE  /\ outputs' \in Seq(Jobs) /\ IsInjective(outputs')
           /\ ToSet(outputs') = ToSet(outputs) \cup {j}
<1>1. /\ Without(outputs, j) \in Seq(Jobs) /\ IsInjective(Without(outputs, j))
      /\ ToSet(Without(outputs, j)) = ToSet(outputs) \ {j}
  BY WithoutLeaves
<1>2. QED
  BY <1>1, AppendAdds

\* The directories made after j's.
Newer(j) == {outputs[k] : k \in {i \in 1..Len(outputs) : \E h \in 1..(i-1) : outputs[h] = j}}

\* The newest of them.  What is trimmed away is older than all that is left.
LEMMA Trimming ==
    ASSUME outputs \in Seq(Jobs), IsInjective(outputs)
    PROVE  /\ Trim(outputs) \in Seq(Jobs) /\ IsInjective(Trim(outputs))
           /\ Len(Trim(outputs)) <= MaxUnpublished
           /\ \A j \in ToSet(outputs) \ ToSet(Trim(outputs)) :
                Cardinality(Newer(j) \cap ToSet(Trim(outputs))) >= MaxUnpublished
<1>1. MaxUnpublished \in Nat
  BY WorkspaceAssumption
<1>2. CASE Len(outputs) <= MaxUnpublished
  <2>1. Trim(outputs) = outputs
    BY <1>2 DEF Trim
  <2>2. QED
    BY <1>2, <2>1
<1>3. CASE Len(outputs) > MaxUnpublished
  <2>0. PICK m \in Nat : m = Len(outputs) - MaxUnpublished
    BY <1>1, <1>3
  <2> DEFINE r == SubSeq(outputs, m + 1, Len(outputs))
  <2>1. Trim(outputs) = r
    BY <1>1, <1>3, <2>0 DEF Trim
  <2>2. m < Len(outputs) + 1 /\ Len(outputs) \in Nat
    BY <1>1, <1>3, <2>0
  <2>3. /\ r \in Seq(Jobs) /\ Len(r) = MaxUnpublished /\ DOMAIN r = 1 .. MaxUnpublished
        /\ \A i \in DOMAIN r : r[i] = outputs[m + i] /\ m + i \in DOMAIN outputs
    BY <1>1, <1>3, <2>0
  <2> HIDE DEF r
  <2>4. IsInjective(r)
    <3>1. SUFFICES ASSUME NEW a \in DOMAIN r, NEW b \in DOMAIN r, r[a] = r[b]
                   PROVE  a = b
      BY DEF IsInjective
    <3>2. m + a = m + b
      BY <2>3, <3>1 DEF IsInjective
    <3>3. QED
      BY <2>2, <2>3, <3>2
  <2>5. ASSUME NEW j \in ToSet(outputs) \ ToSet(r)
        PROVE  Cardinality(Newer(j) \cap ToSet(r)) >= MaxUnpublished
    <3>1. PICK h \in 1 .. Len(outputs) : outputs[h] = j
      BY <2>2 DEF ToSet
    <3>2. h <= m
      <4>1. SUFFICES ASSUME h > m PROVE FALSE
        BY <2>2
      <4>2. h - m \in DOMAIN r /\ m + (h - m) = h
        BY <1>1, <2>0, <2>2, <2>3, <4>1
      <4>3. r[h - m] = j
        BY <2>3, <3>1, <4>2
      <4>4. QED
        BY <4>2, <4>3 DEF ToSet
    <3>3. \A i \in DOMAIN r : r[i] \in Newer(j)
      <4>1. SUFFICES ASSUME NEW i \in DOMAIN r PROVE r[i] \in Newer(j)
        OBVIOUS
      <4>2. /\ r[i] = outputs[m + i] /\ m + i \in 1 .. Len(outputs) /\ i \in Nat
            /\ h \in 1 .. (m + i - 1)
        BY <1>1, <2>2, <2>3, <3>2
      <4>3. PICK k \in 1 .. Len(outputs) : r[i] = outputs[k] /\ h \in 1 .. (k - 1)
        BY <4>2
      <4>4. QED
        BY <3>1, <4>3 DEF Newer
    <3>4. Newer(j) \cap ToSet(r) = ToSet(r)
      BY <3>3 DEF ToSet
    <3>5. Cardinality(ToSet(r)) = MaxUnpublished
      BY <2>3, <2>4, ListsAreFinite
    <3>6. Cardinality(Newer(j) \cap ToSet(r)) = MaxUnpublished
      BY <3>4, <3>5
    <3>7. QED
      BY <1>1, <3>6
  <2>6. Len(r) <= MaxUnpublished
    BY <1>1, <2>3
  <2>7. QED
    BY <2>1, <2>3, <2>4, <2>5, <2>6
<1>4. Len(outputs) <= MaxUnpublished \/ Len(outputs) > MaxUnpublished
  BY <1>1
<1>5. QED
  BY ONLY <1>2, <1>3, <1>4

\* Steps that leave the directories and the job alone.
LEMMA SameOutputs ==
    ASSUME Inv, UNCHANGED <<job, outputs, unpublished>>, pc \in Busy, pc' \in Busy
    PROVE  OutputInv'
<1>1. pc' # "idle"
  BY DEF Busy
<1>2. QED
  BY <1>1 DEF Inv, OutputInv, OutputsAreBounded

\* The job's directory is made again.
LEMMA RemadeOutputs ==
    ASSUME Inv, UNCHANGED <<job, unpublished>>, pc \in Busy, pc' \in Busy,
           outputs' = Append(Without(outputs, job), job)
    PROVE  OutputInv' /\ outputs' \in Seq(Jobs) /\ IsInjective(outputs')
<1>1. job \in Jobs /\ outputs \in Seq(Jobs) /\ IsInjective(outputs)
  BY DEF Inv, StateInv
<1>2. /\ outputs' \in Seq(Jobs) /\ IsInjective(outputs')
      /\ ToSet(outputs') = ToSet(outputs) \cup {job}
  BY <1>1, MakingOutputs
<1>3. ToSet(outputs') \ {job} = ToSet(outputs) \ {job}
  BY <1>2
<1>4. pc' # "idle"
  BY DEF Busy
<1>5. QED
  BY <1>2, <1>3, <1>4 DEF Inv, OutputInv, OutputsAreBounded

LEMMA StartInv == Inv /\ StartWorker => Inv'
<1> SUFFICES ASSUME Inv, StartWorker PROVE Inv'
  OBVIOUS
<1>1. outputs \in Seq(Jobs) /\ IsInjective(outputs)
  BY DEF Inv, StateInv
<1>2. /\ outputs' \in Seq(Jobs) /\ IsInjective(outputs')
      /\ Len(outputs') <= MaxUnpublished
  BY <1>1, Trimming DEF StartWorker
<1>3. pc' = "idle" /\ pc' \notin Busy
  BY DEF StartWorker, Busy
<1>4. StateInv'
  BY <1>2, <1>3 DEF StartWorker, Inv, StateInv, Preparing
<1>5. RoomInv' /\ LinkInv' /\ OutputInv' /\ PreparedFilesStay'
  BY <1>2, <1>3 DEF StartWorker, Inv, RoomInv, LinkInv, OutputInv, OutputsAreBounded,
     PreparedFilesStay
<1>6. FittingJobsAreNotRefused' /\ ContainersBelongToTheJob'
  BY DEF StartWorker, counters, Inv, FittingJobsAreNotRefused, ContainersBelongToTheJob
<1>7. QED
  BY <1>4, <1>5, <1>6 DEF Inv

LEMMA ClaimInv == ASSUME Inv, NEW j \in Jobs, Claim(j) PROVE Inv'
<1>1. /\ pc = "idle" /\ pc' = "prepare" /\ job' = j /\ need' = 1
      /\ UNCHANGED <<cache, damaged, docker, refused>> /\ unpublished' = unpublished \ {j}
  BY DEF Claim
<1>2. pc' \in Busy /\ pc' \in Preparing
  BY <1>1 DEF Busy, Preparing
<1>3. outputs \in Seq(Jobs) /\ IsInjective(outputs) /\ Len(outputs) <= MaxUnpublished
  BY <1>1 DEF Inv, StateInv, OutputInv, OutputsAreBounded
<1>4. outputs' = outputs \/ outputs' = Append(Without(outputs, j), j)
  BY DEF Claim
<1>5. /\ outputs' \in Seq(Jobs) /\ IsInjective(outputs')
      /\ ToSet(outputs') \ {j} \subseteq ToSet(outputs)
  BY <1>3, <1>4, MakingOutputs
<1>6. linked' = linked /\ \A i \in Jobs : linked[i] = {}
  <2>1. linked \in [Jobs -> SUBSET Files] /\ \A i \in Jobs : linked[i] = {}
    BY <1>1 DEF Inv, StateInv, LinkInv
  <2>2. [linked EXCEPT ![j] = {}] = linked
    BY <2>1
  <2>3. QED
    BY <2>1, <2>2 DEF Claim
<1>7. Needs[j] \in Seq(Files) /\ 1 \in 1 .. Len(Needs[j])
  BY WorkspaceAssumption
<1>8. StateInv'
  <2>1. lease' = "held" /\ keep' = FALSE /\ cache \in Seq(Files)
        /\ linked \in [Jobs -> SUBSET Files]
    BY DEF Claim, Inv, StateInv
  <2>2. job' \in Jobs /\ need' \in 1 .. Len(Needs[job']) /\ need' \in Nat
    BY <1>1, <1>7
  <2>3. QED
    BY <1>1, <1>2, <1>5, <1>6, <2>1, <2>2 DEF StateInv
<1>9. RoomInv'
  BY <1>1 DEF Inv, RoomInv
<1>10. LinkInv'
  BY <1>1, <1>6, <1>7 DEF LinkInv, Inv, StateInv
<1>11. Cardinality(ToSet(outputs') \ {j}) <= MaxUnpublished
  <2>1. IsFiniteSet(ToSet(outputs)) /\ Cardinality(ToSet(outputs)) = Len(outputs)
    BY <1>3, ListsAreFinite
  <2>2. Cardinality(ToSet(outputs') \ {j}) <= Cardinality(ToSet(outputs))
    BY <1>5, <2>1, FS_Subset
  <2>3. IsFiniteSet(ToSet(outputs') \ {j})
    BY <1>5, <2>1, FS_Subset
  <2>4. Cardinality(ToSet(outputs') \ {j}) \in Nat /\ Len(outputs) \in Nat
    BY <1>3, <2>3, FS_CardinalityType
  <2>5. QED
    BY <1>3, <2>1, <2>2, <2>4, WorkspaceAssumption
<1>12. OutputInv'
  BY <1>1, <1>11 DEF OutputInv, OutputsAreBounded
<1>13. PreparedFilesStay'
  <2>1. linked'[j] = {} /\ {Needs[j][i] : i \in 1 .. (1 - 1)} = {}
    BY <1>6
  <2>2. QED
    BY <1>1, <2>1 DEF PreparedFilesStay
<1>14. FittingJobsAreNotRefused' /\ ContainersBelongToTheJob'
  BY <1>1 DEF docker, Inv, FittingJobsAreNotRefused, ContainersBelongToTheJob
<1>15. QED
  BY <1>8, <1>9, <1>10, <1>12, <1>13, <1>14 DEF Inv

\* A job's files are a list, and the one to prepare is on it.
LEMMA FileInHand ==
    ASSUME Inv, pc \in Preparing
    PROVE  /\ job \in Jobs /\ Needs[job] \in Seq(Files) /\ need \in 1 .. Len(Needs[job])
           /\ File \in Files /\ File \in ToSet(Needs[job]) /\ Bytes[File] \in Nat
           /\ need = 1 => File = Needs[job][1]
           /\ job \notin Batches => Len(Needs[job]) = 2
<1>1. job \in Jobs /\ need \in 1 .. Len(Needs[job])
  BY DEF Inv, StateInv, Preparing, Busy
<1>2. Needs[job] \in Seq(Files)
  BY <1>1, WorkspaceAssumption
<1>3. File \in Files /\ File \in ToSet(Needs[job]) /\ (need = 1 => File = Needs[job][1])
  BY <1>1, <1>2 DEF File, ToSet
<1>4. QED
  BY <1>1, <1>2, <1>3, WorkspaceAssumption

\* The file in hand is in the cache, as its newest entry, and the job goes on.
LEMMA PreparedInv ==
    ASSUME Inv, pc \in Preparing, cache' = Used(File), Prepared,
           File \notin damaged, File \in ToSet(cache) \/ pc = "download",
           UNCHANGED <<job, lease, keep, damaged, outputs, docker, counters>>
    PROVE  Inv'
<1>1. /\ job \in Jobs /\ Needs[job] \in Seq(Files) /\ need \in 1 .. Len(Needs[job])
      /\ File \in Files /\ File \in ToSet(Needs[job]) /\ Bytes[File] \in Nat
      /\ need = 1 => File = Needs[job][1]
      /\ job \notin Batches => Len(Needs[job]) = 2
  BY FileInHand
<1>2. cache \in Seq(Files) /\ linked \in [Jobs -> SUBSET Files]
  BY DEF Inv, StateInv
<1>3. cache' \in Seq(Files) /\ ToSet(cache') = ToSet(cache) \cup {File}
  <2>1. Without(cache, File) \in Seq(Files) /\ ToSet(Without(cache, File)) = ToSet(cache) \ {File}
    BY <1>2, WithoutLeaves
  <2>2. QED
    BY <1>1, <2>1, AppendAdds DEF Used
<1>4. pc' \in {"prepare", "launch", "stage"} /\ pc' # "idle" /\ pc' # "down" /\ pc' # "download"
  BY DEF Prepared
<1>5. pc' \in Busy \ {"report"} /\ pc \in Busy \ {"report"}
  BY <1>4 DEF Busy, Preparing
<1>6. \/ linked' = linked
      \/ job \in Batches /\ linked' = [linked EXCEPT ![job] = @ \cup {File}]
  BY DEF Prepared
<1>7. /\ linked' \in [Jobs -> SUBSET Files]
      /\ \A j \in Jobs \ {job} : linked'[j] = linked[j]
      /\ linked'[job] \subseteq linked[job] \cup {File}
      /\ job \notin Batches => linked' = linked
  BY <1>1, <1>2, <1>6
<1>8. StateInv'
  <2>1. lease' \in {"held", "cancelled", "lost"} /\ keep' \in BOOLEAN
        /\ outputs' \in Seq(Jobs) /\ IsInjective(outputs')
    BY DEF Inv, StateInv
  <2>2. need' \in Nat /\ (pc' \in Preparing => need' \in 1 .. Len(Needs[job]))
    BY <1>1, <1>2 DEF Prepared, AllPrepared, Preparing
  <2>3. pc' = "stage" => job \notin Batches
    BY DEF Prepared
  <2>4. QED
    BY <1>1, <1>3, <1>5, <1>7, <2>1, <2>2, <2>3 DEF StateInv
<1>9. RoomInv'
  <2>1. Total(ToSet(cache) \cup {File}) <= MaxCacheBytes
    <3>1. CASE File \in ToSet(cache)
      <4>1. ToSet(cache) \cup {File} = ToSet(cache)
        BY <3>1
      <4>2. QED
        BY <4>1 DEF Inv, RoomInv
    <3>2. CASE pc = "download"
      <4> DEFINE S == ToSet(cache) \cup {File}
      <4>1. S \subseteq Files /\ IsFiniteSet(S)
        BY <1>1, <1>2, ListsAreFinite, FS_AddElement
      <4>2. S \ {File} = ToSet(cache) \ {File} /\ File \in S
        OBVIOUS
      <4> HIDE DEF S
      <4>3. Total(S) = Bytes[File] + Total(S \ {File}) /\ Total(S \ {File}) \in Nat
        BY <4>1, <4>2, TotalGrows
      <4>4. Total(ToSet(cache) \ {File}) + Bytes[File] <= MaxCacheBytes
        BY <3>2 DEF Inv, RoomInv
      <4>5. Total(S) <= MaxCacheBytes
        <5>1. Total(S \ {File}) + Bytes[File] <= MaxCacheBytes
          BY <4>2, <4>4
        <5>2. Total(S) = Total(S \ {File}) + Bytes[File]
          BY <1>1, <4>2, <4>3
        <5>3. QED
          BY <5>1, <5>2
      <4>6. QED
        BY <4>5 DEF S
    <3>3. QED
      BY <3>1, <3>2
  <2>2. QED
    BY <1>3, <1>4, <2>1 DEF RoomInv
<1>10. LinkInv'
  <2>1. /\ \A j \in Jobs \ {job} : linked[j] = {}
        /\ linked[job] \subseteq ToSet(Needs[job])
        /\ job \notin Batches => linked[job] = {}
    BY <1>5 DEF Inv, LinkInv
  <2>2. QED
    BY <1>1, <1>4, <1>7, <2>1 DEF LinkInv
<1>11. OutputInv'
  BY <1>5, SameOutputs DEF counters
<1>12. PreparedFilesStay'
  <2>1. CASE job \in Batches
    <3>1. linked[job] \subseteq ToSet(cache) \ damaged
      BY <1>5, <2>1 DEF Inv, PreparedFilesStay
    <3>2. linked'[job] \subseteq ToSet(cache') \ damaged
      BY <1>3, <1>7, <3>1
    <3>3. QED
      BY <2>1, <3>2 DEF PreparedFilesStay
  <2>2. CASE job \notin Batches
    <3>0. Len(Needs[job]) = 2 /\ need \in 1 .. 2
      <4>1. Len(Needs[job]) = 2
        BY ONLY <1>1, <2>2
      <4>2. need \in 1 .. Len(Needs[job])
        BY <1>1
      <4>3. QED
        BY ONLY <4>1, <4>2
    <3>1. {Needs[job][i] : i \in 1 .. (need - 1)} \subseteq ToSet(cache) \ damaged
      BY <1>5, <2>2 DEF Inv, PreparedFilesStay, Preparing
    <3>2. CASE need = 1
      <4>1. pc' = "prepare" /\ need' = 2
        <5>1. ~AllPrepared
          BY <3>0, <3>2 DEF AllPrepared
        <5>2. need' = 1 + 1
          BY <3>2, <5>1 DEF Prepared
        <5>3. QED
          BY <5>1, <5>2 DEF Prepared
      <4>2. {Needs[job][i] : i \in 1 .. (2 - 1)} = {File}
        BY <1>1, <3>2
      <4>3. QED
        BY <1>3, <2>2, <4>1, <4>2 DEF PreparedFilesStay
    <3>3. CASE need = 2
      <4>1. pc' = "stage"
        <5>1. AllPrepared
          BY <3>0, <3>3 DEF AllPrepared
        <5>2. QED
          BY <2>2, <5>1 DEF Prepared
      <4>2. ToSet(Needs[job]) = {Needs[job][1], File}
        BY <1>1, <2>2, <3>3 DEF ToSet, File
      <4>3. Needs[job][1] \in ToSet(cache) \ damaged
        BY <3>1, <3>3
      <4>4. ToSet(Needs[job]) \subseteq ToSet(cache') \ damaged
        BY <1>3, <4>2, <4>3
      <4>5. QED
        BY <2>2, <4>1, <4>4 DEF PreparedFilesStay
    <3>4. need = 1 \/ need = 2
      BY <3>0
    <3>5. QED
      BY <3>2, <3>3, <3>4
  <2>3. QED
    BY <2>1, <2>2
<1>13. FittingJobsAreNotRefused' /\ ContainersBelongToTheJob'
  <2>1. pc \notin {"running", "ended", "down"} /\ pc' \notin {"running", "ended"}
    BY <1>4 DEF Preparing
  <2>2. QED
    BY <1>4, <2>1 DEF docker, counters, Inv, FittingJobsAreNotRefused, ContainersBelongToTheJob
<1>14. QED
  BY <1>8, <1>9, <1>10, <1>11, <1>12, <1>13 DEF Inv

LEMMA CacheHitInv == Inv /\ CacheHit => Inv'
BY PreparedInv DEF CacheHit, Hit, Preparing

LEMMA DownloadInv == Inv /\ Download => Inv'
BY PreparedInv DEF Download, Preparing, Inv, RoomInv

\* A miss: what the job has prepared is pinned, so it stays; what is pinned is
\* the job's own, so a job is refused only for its own size.
LEMMA CacheMissInv == Inv /\ CacheMiss => Inv'
<1> SUFFICES ASSUME Inv, CacheMiss PROVE Inv'
  OBVIOUS
<1> DEFINE entries == Without(cache, File)
           pruned == Prune(entries, Bytes[File], Protected)
<1>1. /\ pc = "prepare" /\ ~Hit(File) /\ cache' = pruned.kept
      /\ damaged' = damaged \cap ToSet(pruned.kept)
      /\ pc' = IF pruned.fits THEN "download" ELSE "report"
      /\ refused' = IF pruned.fits THEN refused ELSE refused \cup {job}
      /\ UNCHANGED <<job, need, lease, keep, linked, outputs, docker, unpublished, claims>>
  BY DEF CacheMiss
<1>2. pc \in Preparing /\ pc \in Busy \ {"report"} /\ pc' \in {"download", "report"}
      /\ pc' \in Busy
  BY <1>1 DEF Preparing, Busy
<1>3. /\ job \in Jobs /\ Needs[job] \in Seq(Files) /\ need \in 1 .. Len(Needs[job])
      /\ File \in Files /\ File \in ToSet(Needs[job]) /\ Bytes[File] \in Nat
      /\ job \notin Batches => Len(Needs[job]) = 2
  BY <1>2, FileInHand
<1>4. cache \in Seq(Files) /\ linked \in [Jobs -> SUBSET Files]
  BY DEF Inv, StateInv
<1>5. entries \in Seq(Files) /\ ToSet(entries) = ToSet(cache) \ {File}
  BY <1>4, WithoutLeaves
<1> HIDE DEF entries
<1>6. /\ pruned.kept \in Seq(Files)
      /\ ToSet(pruned.kept) \subseteq ToSet(entries)
      /\ ToSet(entries) \cap Pinned(Protected) \subseteq ToSet(pruned.kept)
      /\ pruned.fits => Total(ToSet(pruned.kept)) + Bytes[File] <= MaxCacheBytes
      /\ ~pruned.fits =>
           \/ Bytes[File] > MaxCacheBytes
           \/ Total(ToSet(entries) \cap Pinned(Protected)) + Bytes[File] > MaxCacheBytes
  BY <1>3, <1>5, PruneMakesRoom
<1> HIDE DEF pruned
<1>7. File' = File
  BY <1>1 DEF File
<1>8. StateInv'
  <2>1. need \in Nat /\ lease \in {"held", "cancelled", "lost"} /\ keep \in BOOLEAN
        /\ outputs \in Seq(Jobs) /\ IsInjective(outputs)
    BY DEF Inv, StateInv
  <2>2. QED
    BY <1>1, <1>2, <1>3, <1>4, <1>6, <2>1 DEF StateInv
<1>9. RoomInv'
  <2>1. ToSet(cache') \subseteq ToSet(cache) \ {File}
    BY <1>1, <1>5, <1>6
  <2>2. Total(ToSet(cache')) <= MaxCacheBytes
    <3>1. IsFiniteSet(ToSet(cache)) /\ ToSet(cache) \subseteq Files
      BY <1>4, ListsAreFinite
    <3>2. Total(ToSet(cache')) <= Total(ToSet(cache)) /\ Total(ToSet(cache')) \in Nat
          /\ Total(ToSet(cache)) \in Nat
      BY <2>1, <3>1, TotalGrows
    <3>3. Total(ToSet(cache)) <= MaxCacheBytes
      BY DEF Inv, RoomInv
    <3>4. QED
      BY <3>2, <3>3, WorkspaceAssumption
  <2>3. ASSUME pc' = "download"
        PROVE  /\ File \notin damaged'
               /\ Total(ToSet(cache') \ {File}) + Bytes[File] <= MaxCacheBytes
    <3>1. pruned.fits
      BY <1>1, <2>3
    <3>2. ToSet(cache') \ {File} = ToSet(pruned.kept) /\ File \notin ToSet(pruned.kept)
      BY <1>1, <2>1
    <3>3. QED
      BY <1>1, <1>6, <3>1, <3>2
  <2>4. QED
    BY <1>7, <2>2, <2>3 DEF RoomInv
<1>10. /\ \A j \in Jobs \ {job} : linked[j] = {}
       /\ linked[job] \subseteq ToSet(Needs[job])
       /\ job \notin Batches => linked[job] = {}
  BY <1>2 DEF Inv, LinkInv
<1>11. LinkInv'
  <2>1. pc' # "idle"
    BY <1>2
  <2>2. QED
    BY <1>1, <1>10, <2>1 DEF LinkInv
<1>12. OutputInv'
  BY <1>1, <1>2, SameOutputs
<1>13. PreparedFilesStay'
  <2> DEFINE prepared == IF job \in Batches THEN linked[job]
                         ELSE {Needs[job][i] : i \in 1 .. (need - 1)}
  <2>1. prepared \subseteq ToSet(cache) \ damaged
    BY <1>2 DEF Inv, PreparedFilesStay, Preparing
  <2>2. File \notin prepared
    BY <1>1, <2>1 DEF Hit
  <2>3. prepared \subseteq Pinned(Protected)
    <3>1. CASE job \in Batches
      BY <1>3, <1>4, <3>1 DEF Pinned, Range
    <3>2. CASE job \notin Batches
      <4>1. Len(Needs[job]) = 2
        BY ONLY <1>3, <3>2
      <4>2. need \in 1 .. 2
        BY ONLY <1>3, <4>1
      <4>3. CASE need = 1
        <5>1. {Needs[job][i] : i \in 1 .. (1 - 1)} = {}
          OBVIOUS
        <5>2. QED
          BY <3>2, <4>3, <5>1
      <4>4. CASE need = 2
        <5>1. {Needs[job][i] : i \in 1 .. (2 - 1)} = {Needs[job][1]}
          OBVIOUS
        <5>2. Protected = {Needs[job][1]}
          BY <3>2, <4>4 DEF Protected
        <5>3. QED
          BY <3>2, <4>4, <5>1, <5>2 DEF Pinned
      <4>5. need = 1 \/ need = 2
        BY ONLY <4>2
      <4>6. QED
        BY <4>3, <4>4, <4>5
    <3>3. QED
      BY <3>1, <3>2
  <2> HIDE DEF prepared
  <2>4. prepared \subseteq ToSet(cache') \ damaged'
    BY <1>1, <1>5, <1>6, <2>1, <2>2, <2>3
  <2>5. pc' = "report" \/ pc' = "download"
    BY <1>2
  <2>6. QED
    BY <1>1, <2>4, <2>5 DEF PreparedFilesStay, prepared
<1>14. FittingJobsAreNotRefused'
  <2>1. ASSUME ~pruned.fits
        PROVE  Total(ToSet(Needs[job])) > MaxCacheBytes
    <3> DEFINE pins == ToSet(entries) \cap Pinned(Protected)
               all == ToSet(Needs[job])
    <3>1. IsFiniteSet(all) /\ all \subseteq Files
      BY <1>3, ListsAreFinite
    <3>2. UNION Range(linked) \subseteq all
      BY <1>4, <1>10 DEF Range
    <3>3. Protected \subseteq all
      BY <1>3 DEF Protected, ToSet
    <3>4. pins \subseteq all /\ File \notin pins
      BY <1>5, <3>2, <3>3 DEF Pinned
    <3>5. \/ Bytes[File] > MaxCacheBytes
          \/ Total(pins) + Bytes[File] > MaxCacheBytes
      BY <1>6, <2>1
    <3> HIDE DEF pins
    <3>6. /\ Total(pins) \in Nat /\ Total(all) \in Nat
          /\ \A f \in all \ pins : Total(pins) + Bytes[f] <= Total(all)
      BY <3>1, <3>4, TotalGrows
    <3>7. Total(pins) + Bytes[File] <= Total(all)
      BY <1>3, <3>4, <3>6
    <3> HIDE DEF all
    <3>8. Total(all) > MaxCacheBytes
      BY <1>3, <3>5, <3>6, <3>7, WorkspaceAssumption
    <3>9. QED
      BY <3>8 DEF all
  <2>2. QED
    BY <1>1, <2>1 DEF Inv, FittingJobsAreNotRefused
<1>15. ContainersBelongToTheJob'
  <2>1. pc \notin {"running", "ended", "down"} /\ pc' \notin {"running", "ended"}
    BY <1>2 DEF Preparing
  <2>2. QED
    BY <1>1, <2>1 DEF docker, Inv, ContainersBelongToTheJob
<1>16. QED
  BY <1>8, <1>9, <1>11, <1>12, <1>13, <1>14, <1>15 DEF Inv

LEMMA StageInv == Inv /\ Stage => Inv'
<1> SUFFICES ASSUME Inv, Stage PROVE Inv'
  OBVIOUS
<1>1. /\ pc = "stage" /\ pc' = "launch" /\ ToSet(Needs[job]) \subseteq ToSet(cache)
      /\ linked' = [linked EXCEPT ![job] = ToSet(Needs[job])]
      /\ outputs' = Append(Without(outputs, job), job)
      /\ UNCHANGED <<job, need, lease, keep, cache, damaged, docker, counters>>
  BY DEF Stage
<1>2. pc \in Busy /\ pc' \in Busy /\ pc \notin Preparing /\ pc' \notin Preparing
  BY <1>1 DEF Busy, Preparing
<1>3. job \in Jobs /\ linked \in [Jobs -> SUBSET Files] /\ cache \in Seq(Files)
  BY <1>2 DEF Inv, StateInv
<1>4. ToSet(Needs[job]) \subseteq Files
  BY <1>3, WorkspaceAssumption, ListsAreFinite
<1>5. OutputInv' /\ outputs' \in Seq(Jobs) /\ IsInjective(outputs')
  BY <1>1, <1>2, RemadeOutputs DEF counters
<1>6. /\ linked' \in [Jobs -> SUBSET Files] /\ linked'[job] = ToSet(Needs[job])
      /\ \A j \in Jobs \ {job} : linked'[j] = linked[j]
  BY <1>1, <1>3, <1>4
<1>7. StateInv'
  BY <1>1, <1>2, <1>3, <1>5, <1>6 DEF Inv, StateInv
<1>8. RoomInv' /\ LinkInv'
  BY <1>1, <1>2, <1>6 DEF Inv, RoomInv, LinkInv
<1>9. PreparedFilesStay'
  <2>1. job \notin Batches => ToSet(Needs[job]) \subseteq ToSet(cache) \ damaged
    BY <1>1, <1>2 DEF Inv, PreparedFilesStay
  <2>2. job \notin Batches
    BY <1>1 DEF Inv, StateInv
  <2>3. QED
    BY <1>1, <2>1, <2>2 DEF PreparedFilesStay
<1>10. FittingJobsAreNotRefused' /\ ContainersBelongToTheJob'
  BY <1>1 DEF docker, counters, Inv, FittingJobsAreNotRefused, ContainersBelongToTheJob
<1>11. QED
  BY <1>5, <1>7, <1>8, <1>9, <1>10 DEF Inv

\* The steps of a run up to its report, the lease thread's and time's.
LEMMA RunInv ==
    ASSUME Inv, \/ PrepareFails \/ Launch \/ ContainerExits \/ Deadline \/ Cancelled
                \/ RemoveContainer \/ Publish \/ PublishFails \/ PartialsAge
                \/ \E how \in {"cancelled", "lost"} : LeaseEnds(how)
                \/ \E c \in starting : DockerCreates(c)
    PROVE  Inv'
<1>1. /\ UNCHANGED <<job, cache, damaged, linked, unpublished, refused, claims>>
      /\ \/ pc' = pc /\ need' = need
         \/ pc \in Busy /\ pc' = "report"
         \/ /\ pc \in {"launch", "running", "ended"}
            /\ pc' \in {"running", "ended", "publish"}
      /\ lease' \in {"held", "cancelled", "lost"} /\ keep' \in BOOLEAN /\ need' \in Nat
      /\ \/ outputs' = outputs
         \/ /\ outputs' = Append(Without(outputs, job), job)
            /\ pc = "running" /\ pc' = "ended"
  <2>0. lease \in {"held", "cancelled", "lost"} /\ keep \in BOOLEAN /\ need \in Nat
    BY DEF Inv, StateInv
  <2>1. CASE PrepareFails
    BY <2>0, <2>1 DEF PrepareFails, disk, docker, counters, Busy
  <2>2. CASE Launch
    BY <2>0, <2>2 DEF Launch, disk, docker, counters, Busy
  <2>3. CASE ContainerExits
    BY <2>0, <2>3 DEF ContainerExits, disk, docker, counters, Busy
  <2>4. CASE Deadline \/ Cancelled \/ RemoveContainer
    BY <2>0, <2>4 DEF Deadline, Cancelled, RemoveContainer, disk, docker, counters, Busy
  <2>5. CASE Publish \/ PublishFails
    BY <2>0, <2>5 DEF Publish, PublishFails, disk, docker, counters, Busy
  <2>6. CASE PartialsAge
    BY <2>0, <2>6 DEF PartialsAge, process, disk, docker, counters, Busy
  <2>7. ASSUME NEW how \in {"cancelled", "lost"}, LeaseEnds(how)
        PROVE  /\ UNCHANGED <<job, cache, damaged, linked, unpublished, refused, claims>>
               /\ UNCHANGED <<pc, need, keep, outputs>> /\ lease' = how
    BY <2>7 DEF LeaseEnds, disk, docker, counters
  <2>8. ASSUME NEW c \in starting, DockerCreates(c)
        PROVE  /\ UNCHANGED <<job, cache, damaged, linked, unpublished, refused, claims>>
               /\ UNCHANGED <<pc, need, keep, outputs, lease>>
    BY <2>8 DEF DockerCreates, process, disk, docker, counters
  <2>9. QED
    BY <2>0, <2>1, <2>2, <2>3, <2>4, <2>5, <2>6, <2>7, <2>8
<1>2. RoomInv' /\ LinkInv' /\ PreparedFilesStay'
  BY <1>1, GoingOn
<1>3. /\ pc \in Busy => pc' \in Busy
      /\ pc \notin Busy => pc' = pc /\ outputs' = outputs
      /\ pc' \in Preparing \/ pc' = "stage" => pc' = pc /\ need' = need
  BY <1>1 DEF Busy, Preparing
<1>4. OutputInv' /\ outputs' \in Seq(Jobs) /\ IsInjective(outputs')
  <2>1. CASE outputs' = outputs /\ pc \in Busy
    <3>1. OutputInv'
      BY <1>1, <1>3, <2>1, SameOutputs
    <3>2. QED
      BY <2>1, <3>1 DEF Inv, StateInv
  <2>2. CASE outputs' = outputs /\ pc \notin Busy
    BY <1>1, <1>3, <2>2 DEF Inv, StateInv, OutputInv, OutputsAreBounded
  <2>3. CASE outputs' = Append(Without(outputs, job), job) /\ pc \in Busy
    BY <1>1, <1>3, <2>3, RemadeOutputs
  <2>4. QED
    BY <1>1, <1>3, <2>1, <2>2, <2>3
<1>5. StateInv'
  <2>1. pc \in Busy \cup {"down", "idle"} /\ pc' \in Busy \cup {"down", "idle"}
    BY <1>1, <1>3 DEF Inv, StateInv
  <2>2. /\ pc' \in Busy => job' \in Jobs
        /\ pc' \in Preparing => need' \in 1 .. Len(Needs[job'])
        /\ pc' = "stage" => job' \notin Batches
    <3>1. pc' \in Busy => pc \in Busy
      BY <1>1 DEF Busy
    <3>2. QED
      BY <1>1, <1>3, <3>1 DEF Inv, StateInv
  <2>3. cache' \in Seq(Files) /\ linked' \in [Jobs -> SUBSET Files]
    BY <1>1 DEF Inv, StateInv
  <2>4. QED
    BY <1>1, <1>4, <2>1, <2>2, <2>3 DEF StateInv
<1>6. FittingJobsAreNotRefused'
  BY <1>1 DEF Inv, FittingJobsAreNotRefused
<1>7. ContainersBelongToTheJob'
  <2>0. ContainersBelongToTheJob
    BY DEF Inv
  <2>1. CASE PrepareFails
    BY <2>0, <2>1 DEF PrepareFails, docker, counters, ContainersBelongToTheJob
  <2>2. CASE Launch
    BY <2>0, <2>2 DEF Launch, counters, ContainersBelongToTheJob
  <2>3. CASE ContainerExits
    BY <2>0, <2>3 DEF ContainerExits, docker, counters, ContainersBelongToTheJob
  <2>4. CASE Deadline
    BY <2>0, <2>4 DEF Deadline, counters, ContainersBelongToTheJob
  <2>5. CASE Cancelled
    BY <2>0, <2>5 DEF Cancelled, counters, ContainersBelongToTheJob
  <2>6. CASE RemoveContainer
    BY <2>0, <2>6 DEF RemoveContainer, counters, ContainersBelongToTheJob
  <2>7. CASE Publish \/ PublishFails
    BY <2>0, <2>7 DEF Publish, PublishFails, docker, counters, ContainersBelongToTheJob
  <2>8. CASE PartialsAge
    BY <2>0, <2>8 DEF PartialsAge, process, docker, counters, ContainersBelongToTheJob
  <2>9. ASSUME NEW how \in {"cancelled", "lost"}, LeaseEnds(how)
        PROVE  ContainersBelongToTheJob'
    BY <2>0, <2>9 DEF LeaseEnds, docker, counters, ContainersBelongToTheJob
  <2>10. ASSUME NEW c \in starting, DockerCreates(c)
         PROVE  ContainersBelongToTheJob'
    BY <2>0, <2>10 DEF DockerCreates, process, counters, ContainersBelongToTheJob
  <2>11. QED
    BY <2>1, <2>2, <2>3, <2>4, <2>5, <2>6, <2>7, <2>8, <2>9, <2>10
<1>8. QED
  BY <1>2, <1>4, <1>5, <1>6, <1>7 DEF Inv

\* The report ends the job: its links go, and its directory unless it is kept.
LEMMA FinishInv == Inv /\ Finish => Inv'
<1> SUFFICES ASSUME Inv, Finish PROVE Inv'
  OBVIOUS
<1>1. /\ pc = "report" /\ pc' = "idle" /\ need' = 0 /\ lease' = "held"
      /\ keep' = (keep /\ lease # "lost")
      /\ linked' = [linked EXCEPT ![job] = {}]
      /\ outputs' = IF keep' THEN Trim(outputs) ELSE Without(outputs, job)
      /\ UNCHANGED <<cache, damaged, docker, refused, claims>>
  BY DEF Finish
<1>2. pc \in Busy /\ pc' \notin Busy /\ pc' \notin Preparing
  BY <1>1 DEF Busy, Preparing
<1>3. /\ job \in Jobs /\ linked \in [Jobs -> SUBSET Files] /\ cache \in Seq(Files)
      /\ outputs \in Seq(Jobs) /\ IsInjective(outputs)
      /\ \A j \in Jobs \ {job} : linked[j] = {}
  BY <1>2 DEF Inv, StateInv, LinkInv
<1>4. /\ outputs' \in Seq(Jobs) /\ IsInjective(outputs') /\ Len(outputs') <= MaxUnpublished
  <2>1. CASE keep'
    BY <1>1, <1>3, <2>1, Trimming
  <2>2. CASE ~keep'
    <3>1. /\ outputs' \in Seq(Jobs) /\ IsInjective(outputs')
          /\ ToSet(outputs') = ToSet(outputs) \ {job}
      BY <1>1, <1>3, <2>2, WithoutLeaves
    <3>2. Cardinality(ToSet(outputs')) = Len(outputs')
      BY <3>1, ListsAreFinite
    <3>3. QED
      BY <1>2, <3>1, <3>2 DEF Inv, OutputInv
  <2>3. QED
    BY <2>1, <2>2
<1>5. linked' \in [Jobs -> SUBSET Files] /\ \A j \in Jobs : linked'[j] = {}
  BY <1>1, <1>3
<1>6. StateInv'
  BY <1>1, <1>2, <1>3, <1>4, <1>5 DEF StateInv
<1>7. RoomInv'
  BY <1>1 DEF Inv, RoomInv
<1>8. LinkInv' /\ PreparedFilesStay'
  BY <1>2, <1>5 DEF LinkInv, PreparedFilesStay
<1>9. OutputInv'
  BY <1>2, <1>4 DEF OutputInv, OutputsAreBounded
<1>10. FittingJobsAreNotRefused' /\ ContainersBelongToTheJob'
  BY <1>1 DEF docker, Inv, FittingJobsAreNotRefused, ContainersBelongToTheJob
<1>11. QED
  BY <1>6, <1>7, <1>8, <1>9, <1>10 DEF Inv

LEMMA DeathInv == ASSUME Inv, NEW spoiled, Dies(spoiled) PROVE Inv'
<1>1. /\ pc' = "down" /\ need' = 0 /\ lease' = "held" /\ keep' = FALSE
      /\ UNCHANGED <<cache, linked, outputs, refused>>
  BY DEF Dies
<1>2. pc' \notin Busy /\ pc' \notin Preparing
  BY <1>1 DEF Busy, Preparing
<1>3. StateInv'
  BY <1>1, <1>2 DEF Inv, StateInv
<1>4. RoomInv' /\ LinkInv' /\ OutputInv' /\ PreparedFilesStay'
  BY <1>1, <1>2 DEF Inv, RoomInv, LinkInv, OutputInv, OutputsAreBounded, PreparedFilesStay
<1>5. FittingJobsAreNotRefused' /\ ContainersBelongToTheJob'
  BY <1>1 DEF Inv, FittingJobsAreNotRefused, ContainersBelongToTheJob
<1>6. QED
  BY <1>3, <1>4, <1>5 DEF Inv

LEMMA NextInv == Inv /\ [Next]_vars => Inv'
<1> SUFFICES ASSUME Inv, [Next]_vars PROVE Inv'
  OBVIOUS
<1>1. CASE UNCHANGED vars
  BY <1>1 DEF vars, process, disk, docker, counters, Inv, StateInv, RoomInv, LinkInv, OutputInv,
     OutputsAreBounded, PreparedFilesStay, FittingJobsAreNotRefused,
     ContainersBelongToTheJob, File
<1>2. ASSUME NEW j \in Jobs, Claim(j) PROVE Inv'
  BY <1>2, ClaimInv
<1>3. ASSUME NEW spoiled \in SUBSET ToSet(cache), Dies(spoiled) PROVE Inv'
  BY <1>3, DeathInv
<1>4. QED
  BY <1>1, <1>2, <1>3, StartInv, CacheHitInv, CacheMissInv, DownloadInv, StageInv, RunInv,
     FinishInv DEF Next, WorkerStep

LEMMA Inductive == Spec => []Inv
<1>1. QED
  BY InitInv, NextInv, PTL DEF Spec

\* Making room for a file never takes the cache over its ceiling nor takes away
\* what the job in hand has prepared (prune_cache, materialize_script).
THEOREM EvictionIsSafeHolds == Spec => []EvictionIsSafe
<1>1. Inv => EvictionIsSafe
  BY DEF Inv, RoomInv, EvictionIsSafe, CacheFitsItsCeiling
<1>2. QED
  BY <1>1, Inductive, PTL

\* The cache refuses only jobs that are too large for it (prune_cache).
THEOREM FittingJobsAreNotRefusedHolds == Spec => []FittingJobsAreNotRefused
<1>1. Inv => FittingJobsAreNotRefused
  BY DEF Inv
<1>2. QED
  BY <1>1, Inductive, PTL

\* A worker that runs has no containers but the current one and those docker
\* made too late (container_runner.py).
THEOREM ContainersBelongToTheJobHolds == Spec => []ContainersBelongToTheJob
<1>1. Inv => ContainersBelongToTheJob
  BY DEF Inv
<1>2. QED
  BY <1>1, Inductive, PTL

\* A step that keeps or trims the directories, or takes away that of a job whose
\* results are not the only copy.
LEMMA OnlyCopies ==
    ASSUME Inv, [Next]_vars
    PROVE  \/ ToSet(outputs) \subseteq ToSet(outputs')
           \/ outputs' = Trim(outputs)
           \/ \E j \in Jobs : /\ ToSet(outputs) \ {j} \subseteq ToSet(outputs')
                              /\ j \notin unpublished'
<1>1. outputs \in Seq(Jobs) /\ IsInjective(outputs)
  BY DEF Inv, StateInv
<1>2. ASSUME NEW j \in Jobs, outputs' = Append(Without(outputs, j), j)
      PROVE  ToSet(outputs) \subseteq ToSet(outputs')
  BY <1>1, <1>2, MakingOutputs
<1>3. ASSUME NEW j \in Jobs, Claim(j) PROVE ToSet(outputs) \subseteq ToSet(outputs')
  BY <1>2, <1>3 DEF Claim
<1>4. ASSUME Stage \/ ContainerExits PROVE ToSet(outputs) \subseteq ToSet(outputs')
  <2>1. outputs' = Append(Without(outputs, job), job)
    BY <1>4 DEF Stage, ContainerExits
  <2>2. job \in Jobs
    BY <1>4 DEF Stage, ContainerExits, Busy, Inv, StateInv
  <2>3. QED
    BY <1>2, <2>1, <2>2
<1>5. CASE Finish
  <2>1. job \in Jobs /\ job \notin unpublished
    BY <1>5 DEF Finish, Busy, Inv, StateInv, OutputInv
  <2>2. CASE keep'
    BY <1>5, <2>2 DEF Finish
  <2>3. CASE ~keep'
    <3>1. outputs' = Without(outputs, job) /\ unpublished' = unpublished
      BY <1>5, <2>3 DEF Finish
    <3>2. ToSet(outputs') = ToSet(outputs) \ {job}
      BY <1>1, <3>1, WithoutLeaves
    <3>3. QED
      BY <2>1, <3>1, <3>2
  <2>4. QED
    BY <2>2, <2>3
<1>6. CASE StartWorker
  BY <1>6 DEF StartWorker
<1>7. CASE outputs' = outputs
  BY <1>7
<1>8. QED
  BY <1>3, <1>4, <1>5, <1>6, <1>7
  DEF Next, WorkerStep, vars, disk, CacheHit, CacheMiss, Download, PrepareFails, Launch,
      Deadline, Cancelled, RemoveContainer, Publish, PublishFails, DockerCreates, LeaseEnds,
      PartialsAge, Dies

\* Between two jobs the directories on disk are bounded, and an output that is
\* the only copy goes only when newer ones have filled the limit
\* (_trim_unpublished_outputs, JobScratch).
THEOREM NewestOutputsAreKeptHolds == Spec => NewestOutputsAreKept
<1>1. Inv => OutputsAreBounded
  BY DEF Inv, OutputInv
<1>2. Inv /\ [Next]_vars =>
        [\A j \in unpublished' :
           LET newer == {outputs[k] : k \in
                   {i \in 1..Len(outputs) : \E h \in 1..(i-1) : outputs[h] = j}} IN
             j \in ToSet(outputs) /\ j \notin ToSet(outputs') =>
               Cardinality(newer \cap ToSet(outputs')) >= MaxUnpublished]_vars
  <2>1. SUFFICES ASSUME Inv, [Next]_vars, NEW j \in unpublished',
                        j \in ToSet(outputs) \ ToSet(outputs')
                 PROVE  Cardinality(Newer(j) \cap ToSet(outputs')) >= MaxUnpublished
    BY DEF Newer
  <2>2. outputs' = Trim(outputs)
    BY <2>1, OnlyCopies
  <2>3. outputs \in Seq(Jobs) /\ IsInjective(outputs)
    BY <2>1 DEF Inv, StateInv
  <2>4. QED
    BY <2>1, <2>2, <2>3, Trimming
<1>3. QED
  BY <1>1, <1>2, Inductive, PTL DEF Spec, NewestOutputsAreKept, UnpublishedIsKept
===============================================================================
