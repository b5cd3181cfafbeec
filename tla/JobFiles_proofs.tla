--------------------------- MODULE JobFiles_proofs ---------------------------
(***************************************************************************)
(* No job loses a file it still needs, no staged file is forgotten, and    *)
(* what applications retain and run fits its quotas and slots: for any     *)
(* number of request threads, files, jobs and restarts.                    *)
(*                                                                         *)
(* The argument is about whose a file is.  A member's file belongs to the  *)
(* groups that name it, and two groups never name the same one; a file an  *)
(* application's submission staged belongs to its thread, then to its run. *)
(* A deletion was decided earlier, from the tables of then (Fits); nothing *)
(* that happens meanwhile makes somebody need what it deletes.             *)
(***************************************************************************)
EXTENDS JobFiles, Collections

Members(m) == {u \in DOMAIN m : m[u] = "member"}
Apps(m) == {u \in DOMAIN m : m[u] = "app"}
TaskRecords == [status : {"QUEUED", "RUNNING", "COMPLETED", "FAILED"},
                cancelled : BOOLEAN, end : {"none", "report", "cancel", "sweep"}]
\* A function on 1..n is a sequence.
IsSequence(s) == Len(s) \in Nat /\ s = [i \in 1..Len(s) |-> s[i]]

IsTask(t) == t \in TaskRecords /\ (t.end = "none" <=> t.status \in Live)
IsGroup(g) ==
    /\ DOMAIN g = {"app", "owner", "key", "body", "refs", "manifest", "tasks"}
    /\ g.app \in BOOLEAN
    /\ 1 \in DOMAIN g.tasks
    /\ \A t \in DOMAIN g.tasks : IsTask(g.tasks[t])
IsTables(d) ==
    /\ DOMAIN d = {"uploads", "groups", "holds", "inputs"}
    /\ IsSequence(d.groups)
    /\ \A g \in DOMAIN d.groups : IsGroup(d.groups[g])
    /\ DOMAIN d.inputs = Inputs

Releasing == {"cancel", "list", "unlink", "forget"}
Deleting == {"unlink", "forget"}
Uploading == {"write", "save", "abort", "discard"}
Staging == {"project", "copy", "create", "clean", "free"}
IsHand(r, d) ==
    \/ r.pc = "idle" /\ DOMAIN r = {"pc"}
    \/ r.pc = "record" /\ DOMAIN r = {"pc", "file"}
    \/ r.pc = "insert" /\ DOMAIN r = {"pc", "refs", "key"}
    \/ r.pc = "cancel" /\ DOMAIN r = {"pc", "left", "jobs"} /\ r.left \subseteq r.jobs
       /\ r.jobs \subseteq Tasks(d)
    \/ r.pc = "list" /\ DOMAIN r = {"pc", "jobs"} /\ r.jobs # {} /\ r.jobs \subseteq Tasks(d)
    \/ r.pc \in Deleting /\ DOMAIN r = {"pc", "jobs", "job", "drop"} /\ r.job \in r.jobs
       /\ r.jobs \subseteq Tasks(d)
    \/ r.pc \in Uploading \cup {"erase"} /\ DOMAIN r = {"pc", "input"} /\ r.input \in Inputs
    \/ r.pc = "hold" /\ DOMAIN r = {"pc", "owner", "key", "input"}
    \/ r.pc \in Staging /\ DOMAIN r = {"pc", "owner", "key", "input", "hold"}
       /\ DOMAIN r.hold = {"owner", "paths"}
    \/ r.pc = "insert results" /\ DOMAIN r = {"pc", "run", "read"} /\ r.run \in DOMAIN d.groups

TypeOK ==
    /\ IsTables(db)
    /\ made \in Seq({"member", "app"})
    /\ DOMAIN hand = Handlers /\ \A h \in Handlers : IsHand(hand[h], db)
    /\ DOMAIN told = Groups
    /\ cut \subseteq Tasks(db)
-----------------------------------------------------------------------------
(***************************************************************************)
(* Files and tables.                                                       *)
(***************************************************************************)
AllRefs(d) == UNION {d.groups[g].refs : g \in DOMAIN d.groups}
Needed(d) == UNION {Refs(d, j) : j \in {j \in Tasks(d) : Status(d, j) \in Live}}

\* Whose the files are: fs those on disk, m who made them.
Tidy(d, fs, m) ==
    /\ fs \subseteq DOMAIN m
    /\ d.uploads \subseteq Members(m) /\ d.uploads \subseteq fs \cup AllRefs(d)
    /\ \A g \in DOMAIN d.groups :
          d.groups[g].refs \subseteq IF d.groups[g].app THEN Apps(m) ELSE Members(m)
    /\ \A f, g \in DOMAIN d.groups : f # g => d.groups[f].refs \cap d.groups[g].refs = {}
    /\ \A x \in d.holds : x.paths \subseteq Apps(m) /\ x.paths \cap AllRefs(d) = {}
    /\ \A x, y \in d.holds : x # y => x.paths \cap y.paths = {}
    /\ \A u \in fs \cap Apps(m) : u \in AllRefs(d) \/ \E x \in d.holds : u \in x.paths

\* What a request r has read or set out to do is still in order.
Fits(r, d, fs, m) ==
    /\ r.pc = "record" => r.file \in Members(m) /\ r.file \in fs \cup AllRefs(d)
    /\ r.pc = "insert" =>
          /\ r.refs \subseteq Members(m) /\ r.refs \subseteq fs \cup AllRefs(d)
          /\ \A g \in DOMAIN d.groups : d.groups[g].refs \cap r.refs # {} =>
                d.groups[g].key = r.key /\ d.groups[g].refs = r.refs
    /\ r.pc \in Deleting => r.drop \subseteq Refs(d, r.job)
    /\ r.pc = "unlink" => r.drop \cap Needed(d) = {}
    /\ r.pc \in Staging =>
          /\ r.hold.paths = {Min(r.hold.paths), Max(r.hold.paths)}
          /\ r.hold.paths \subseteq Apps(m) /\ r.hold.paths \cap AllRefs(d) = {}
    /\ r.pc \in {"project", "copy", "create"} => r.hold \in d.holds
    /\ r.pc = "copy" => Min(r.hold.paths) \in fs
    /\ r.pc = "create" => r.hold.paths \subseteq fs
    /\ r.pc = "clean" => r.hold \in d.holds \/ r.hold.paths \cap fs = {}
    /\ r.pc = "free" => r.hold.paths \cap fs = {}

\* Two requests.
Apart(r, q) ==
    /\ r.pc = "insert" /\ q.pc = "insert" /\ r.refs \cap q.refs # {} =>
          r.key = q.key /\ r.refs = q.refs
    /\ r.pc \in Staging /\ q.pc \in Staging => r.hold.paths \cap q.hold.paths = {}

\* Somebody will still delete what is left of the files of group g.
Will(r, g, left) ==
    \/ r.pc \in {"cancel", "list"} /\ \E j \in r.jobs : j[1] = g
    \/ r.pc \in Deleting /\ \E j \in r.jobs \ {r.job} : j[1] = g
    \/ r.pc = "unlink" /\ r.job[1] = g /\ left \subseteq r.drop
CutOff(c, hs, g) ==
    \E j \in c : j[1] = g /\ \A h \in Handlers : hs[h].pc \in Deleting => hs[h].job # j
Swept(d, g) == \E t \in DOMAIN d.groups[g].tasks : d.groups[g].tasks[t].end = "sweep"
Covered(d, fs, hs, c) ==
    \A g \in DOMAIN d.groups :
        LET left == d.groups[g].refs \cap fs IN
        left = {} \/ GroupIsLive(d, g) \/ Swept(d, g) \/ CutOff(c, hs, g)
          \/ \E h \in Handlers : Will(hs[h], g, left)

Inv ==
    /\ TypeOK
    /\ Tidy(db, files, made)
    /\ Needed(db) \subseteq files
    /\ \A h \in Handlers : Fits(hand[h], db, files, made)
    /\ \A h, k \in Handlers : h # k => Apart(hand[h], hand[k])
    /\ Covered(db, files, hand, cut)
\* A request that releases the files of tasks has seen them end.
Ended ==
    \A h \in Handlers : hand[h].pc \in {"list"} \cup Deleting =>
        \A j \in hand[h].jobs : Status(db, j) \notin Live
-----------------------------------------------------------------------------
(***************************************************************************)
(* Keys, results, slots and inputs.                                        *)
(***************************************************************************)
Told ==
    /\ \A g \in Groups : told[g] # {} =>
          g \in DOMAIN db.groups /\ db.groups[g].manifest # 0 /\ told[g] = {db.groups[g].manifest}
    /\ \A h \in Handlers : hand[h].pc = "insert results" => hand[h].read # 0

Slots == IsFiniteSet(db.holds) /\ RunsFitTheSlots

\* A row of an input; an upload in progress counts the limit.
Counts(f) == f.state \in {"reserved", "saved"}
Row(f) ==
    /\ "state" \in DOMAIN f
    /\ Counts(f) => /\ DOMAIN f = {"state", "owner", "size"} /\ f.size \in Nat
                    /\ f.state = "reserved" => f.size = InputLimit
Quotas(d) == /\ \A i \in Inputs : Row(d.inputs[i])
             /\ Bytes(d, Retained(d)) <= TotalQuota
             /\ \A o \in Owners : Bytes(d, OwnedInputs(d, o)) <= OwnerQuota

\* What an upload or a deletion in progress relies on.
InputOf(r, d, o) ==
    /\ r.pc \in Uploading => d.inputs[r.input].state = "reserved"
    /\ r.pc = "save" => r.input \in o
    /\ r.pc = "discard" => r.input \notin o
    /\ r.pc = "erase" => d.inputs[r.input].state = "deleted"
Stored ==
    /\ ObjectsAreCounted /\ objects \subseteq Inputs
    /\ \A h \in Handlers : InputOf(hand[h], db, objects)
    /\ \A h, k \in Handlers : h # k /\ hand[h].pc \in Uploading /\ hand[k].pc \in Uploading =>
          hand[h].input # hand[k].input

Inv2 == TypeOK /\ OneRunPerKey /\ Told /\ Slots
Inv3 == TypeOK /\ Stored /\ Quotas(db)
-----------------------------------------------------------------------------
(***************************************************************************)
(* Facts about sequences and the tables.                                   *)
(***************************************************************************)
LEMMA SequenceIs ==
    ASSUME NEW s, IsSequence(s)
    PROVE  /\ Len(s) \in Nat /\ DOMAIN s = 1..Len(s)
           /\ \A X : (\A i \in 1..Len(s) : s[i] \in X) => s \in Seq(X)
<1>1. Len(s) \in Nat /\ s = [i \in 1..Len(s) |-> s[i]]  BY DEF IsSequence
<1>2. DOMAIN s = 1..Len(s)  BY <1>1, Zenon
<1>3. ASSUME NEW X, \A i \in 1..Len(s) : s[i] \in X PROVE s \in Seq(X)
  BY <1>1, <1>2, <1>3
<1> QED  BY <1>1, <1>2, <1>3

LEMMA SequenceType ==
    ASSUME NEW X, NEW s \in Seq(X) PROVE IsSequence(s)
BY DEF IsSequence

LEMMA SequenceAppend ==
    ASSUME NEW s, IsSequence(s), NEW e
    PROVE  /\ IsSequence(Append(s, e)) /\ Len(Append(s, e)) = Len(s) + 1
           /\ DOMAIN Append(s, e) = DOMAIN s \cup {Len(s) + 1}
           /\ Len(s) + 1 \notin DOMAIN s
           /\ Append(s, e)[Len(s) + 1] = e
           /\ \A i \in DOMAIN s : Append(s, e)[i] = s[i]
<1> DEFINE X == {s[i] : i \in 1..Len(s)} \cup {e}
           t == Append(s, e)
<1>1. Len(s) \in Nat /\ DOMAIN s = 1..Len(s)  BY SequenceIs
<1>2. s \in Seq(X) /\ e \in X  BY SequenceIs
<1> HIDE DEF X
<1>3. t \in Seq(X)  BY <1>2
<1>4. IsSequence(t)  BY <1>3, SequenceType
<1> QED  BY <1>1, <1>2, <1>4

LEMMA SequenceExcept ==
    ASSUME NEW s, IsSequence(s), NEW g \in DOMAIN s, NEW e
    PROVE  /\ IsSequence([s EXCEPT ![g] = e]) /\ DOMAIN [s EXCEPT ![g] = e] = DOMAIN s
           /\ [s EXCEPT ![g] = e][g] = e
           /\ \A i \in DOMAIN s : i # g => [s EXCEPT ![g] = e][i] = s[i]
<1> DEFINE X == {s[i] : i \in 1..Len(s)} \cup {e}
           t == [s EXCEPT ![g] = e]
<1>1. Len(s) \in Nat /\ DOMAIN s = 1..Len(s)  BY SequenceIs
<1>2. s \in Seq(X) /\ e \in X  BY SequenceIs
<1> HIDE DEF X
<1>3. t \in Seq(X)  BY <1>2
<1>4. IsSequence(t)  BY <1>3, SequenceType
<1> QED  BY <1>1, <1>4

LEMMA AboutTasks ==
    ASSUME NEW d
    PROVE  \A j : j \in Tasks(d) <=> \E g \in DOMAIN d.groups :
                        \E t \in DOMAIN d.groups[g].tasks : j = <<g, t>>
BY DEF Tasks

\* Tables with the same groups, but for what their tasks and results say.
SameRefs(d, e) ==
    /\ e.uploads = d.uploads /\ e.holds = d.holds
    /\ DOMAIN e.groups = DOMAIN d.groups
    /\ \A g \in DOMAIN d.groups :
          /\ e.groups[g].app = d.groups[g].app /\ e.groups[g].key = d.groups[g].key
          /\ e.groups[g].owner = d.groups[g].owner /\ e.groups[g].refs = d.groups[g].refs
          /\ DOMAIN e.groups[g].tasks = DOMAIN d.groups[g].tasks

LEMMA SameRefsSame ==
    ASSUME NEW d, NEW e, SameRefs(d, e)
    PROVE  /\ Tasks(e) = Tasks(d) /\ AllRefs(e) = AllRefs(d) /\ AppGroups(e) = AppGroups(d)
           /\ \A j \in Tasks(d) : Refs(e, j) = Refs(d, j)
<1>1. \A j : j \in Tasks(e) <=> j \in Tasks(d)  BY AboutTasks DEF SameRefs
<1>2. Tasks(e) = Tasks(d)  BY <1>1
<1>3. \A u : u \in AllRefs(e) <=> u \in AllRefs(d)  BY DEF AllRefs, SameRefs
<1>4. AllRefs(e) = AllRefs(d)  BY <1>3
<1>5. AppGroups(e) = AppGroups(d)  BY DEF AppGroups, SameRefs
<1>6. \A j \in Tasks(d) : j[1] \in DOMAIN d.groups  BY AboutTasks
<1>7. \A j \in Tasks(d) : Refs(e, j) = Refs(d, j)  BY <1>6 DEF Refs, SameRefs
<1> QED  BY <1>2, <1>4, <1>5, <1>7

LEMMA AboutNeeded ==
    ASSUME NEW d
    PROVE  \A u : u \in Needed(d) <=>
              \E j \in Tasks(d) : Status(d, j) \in Live /\ u \in Refs(d, j)
BY DEF Needed

\* One task changes.
Retasked(d, e, j, f) ==
    /\ SameRefs(d, e) /\ e.inputs = d.inputs
    /\ \A g \in DOMAIN d.groups : e.groups[g].manifest = d.groups[g].manifest
    /\ \A g \in DOMAIN d.groups : \A t \in DOMAIN d.groups[g].tasks :
          e.groups[g].tasks[t] = IF <<g, t>> = j THEN f ELSE d.groups[g].tasks[t]

LEMMA SetTaskIs ==
    ASSUME NEW d, IsTables(d), NEW j \in Tasks(d), NEW f, IsTask(f)
    PROVE  IsTables(SetTask(d, j, f)) /\ Retasked(d, SetTask(d, j, f), j, f)
<1>1. PICK g \in DOMAIN d.groups : \E t \in DOMAIN d.groups[g].tasks : j = <<g, t>>
  BY AboutTasks
<1>2. PICK t \in DOMAIN d.groups[g].tasks : j = <<g, t>>  BY <1>1
<1>3. IsSequence(d.groups) /\ IsGroup(d.groups[g])  BY DEF IsTables
<1> DEFINE new == [d.groups[g] EXCEPT !.tasks = [d.groups[g].tasks EXCEPT ![t] = f]]
           groups == [d.groups EXCEPT ![g] = new]
           e == [d EXCEPT !.groups = groups]
<1>4. SetTask(d, j, f) = e  BY <1>2 DEF SetTask
<1>5. /\ DOMAIN new = DOMAIN d.groups[g] /\ DOMAIN new.tasks = DOMAIN d.groups[g].tasks
      /\ new.app = d.groups[g].app /\ new.owner = d.groups[g].owner
      /\ new.key = d.groups[g].key /\ new.refs = d.groups[g].refs
      /\ new.manifest = d.groups[g].manifest
      /\ \A i \in DOMAIN new.tasks : new.tasks[i] = IF i = t THEN f ELSE d.groups[g].tasks[i]
  BY <1>3 DEF IsGroup
<1> HIDE DEF new
<1>6. IsGroup(new)  BY <1>3, <1>5 DEF IsGroup
<1>7. /\ IsSequence(groups) /\ DOMAIN groups = DOMAIN d.groups /\ groups[g] = new
      /\ \A i \in DOMAIN d.groups : i # g => groups[i] = d.groups[i]
  BY <1>3, SequenceExcept
<1> HIDE DEF groups
<1>8. /\ DOMAIN e = DOMAIN d /\ e.groups = groups /\ e.uploads = d.uploads
      /\ e.holds = d.holds /\ e.inputs = d.inputs
  BY DEF IsTables
<1> HIDE DEF e
<1>9. IsTables(e)  BY <1>6, <1>7, <1>8 DEF IsTables
<1>10. SameRefs(d, e)  BY <1>5, <1>7, <1>8 DEF SameRefs
<1>11. \A i \in DOMAIN d.groups : e.groups[i].manifest = d.groups[i].manifest
  BY <1>5, <1>7, <1>8
<1>12. ASSUME NEW i \in DOMAIN d.groups, NEW k \in DOMAIN d.groups[i].tasks
       PROVE  e.groups[i].tasks[k] = IF <<i, k>> = j THEN f ELSE d.groups[i].tasks[k]
  BY <1>2, <1>5, <1>7, <1>8
<1> QED  BY <1>4, <1>8, <1>9, <1>10, <1>11, <1>12 DEF Retasked

LEMMA RetaskedSays ==
    ASSUME NEW d, NEW e, NEW j \in Tasks(d), NEW f, Retasked(d, e, j, f)
    PROVE  /\ \A k \in Tasks(d) : k # j => Status(e, k) = Status(d, k)
           /\ Status(e, j) = f.status
<1>1. ASSUME NEW k \in Tasks(d)
      PROVE  e.groups[k[1]].tasks[k[2]] = IF k = j THEN f ELSE d.groups[k[1]].tasks[k[2]]
  <2>1. PICK g \in DOMAIN d.groups : \E t \in DOMAIN d.groups[g].tasks : k = <<g, t>>
    BY AboutTasks
  <2>2. PICK t \in DOMAIN d.groups[g].tasks : k = <<g, t>>  BY <2>1
  <2>3. k[1] = g /\ k[2] = t  BY <2>2
  <2> QED  BY <2>2, <2>3 DEF Retasked
<1>2. \A k \in Tasks(d) : k # j => Status(e, k) = Status(d, k)  BY <1>1 DEF Status
<1>3. Status(e, j) = f.status  BY <1>1 DEF Status
<1> QED  BY <1>2, <1>3
-----------------------------------------------------------------------------
(***************************************************************************)
(* What a step leaves in order.                                            *)
(***************************************************************************)
LEMMA SteppedHands ==
    ASSUME TypeOK, NEW h \in Handlers, NEW r, Step(h, r)
    PROVE  /\ DOMAIN hand' = Handlers /\ hand'[h] = r
           /\ \A k \in Handlers : k # h => hand'[k] = hand[k]
BY DEF TypeOK, Step

LEMMA HandStays ==
    ASSUME NEW r, NEW d, NEW e, IsHand(r, d), Tasks(d) \subseteq Tasks(e),
           DOMAIN d.groups \subseteq DOMAIN e.groups
    PROVE  IsHand(r, e)
BY DEF IsHand

\* A request ends, or goes on; the tables only grow.
LEMMA TypeMoves ==
    ASSUME TypeOK, NEW h \in Handlers, NEW r, Step(h, r), IsTables(db'), IsHand(r, db'),
           Tasks(db) \subseteq Tasks(db'), DOMAIN db.groups \subseteq DOMAIN db'.groups,
           made' \in Seq({"member", "app"}), DOMAIN told' = Groups, cut' \subseteq Tasks(db')
    PROVE  TypeOK'
<1>1. \A k \in Handlers : IsHand(hand'[k], db')
  <2> TAKE k \in Handlers
  <2>1. CASE k = h  BY <2>1, SteppedHands
  <2>2. CASE k # h
    <3>1. hand'[k] = hand[k] /\ IsHand(hand[k], db)  BY <2>2, SteppedHands DEF TypeOK
    <3> QED  BY <3>1, HandStays
  <2> QED  BY <2>1, <2>2
<1>2. DOMAIN hand' = Handlers  BY SteppedHands
<1> QED  BY <1>1, <1>2 DEF TypeOK

LEMMA ApartIsSymmetric ==
    ASSUME NEW r, NEW q, Apart(r, q) PROVE Apart(q, r)
<1>1. r.refs \cap q.refs = q.refs \cap r.refs  OBVIOUS
<1>2. r.hold.paths \cap q.hold.paths = q.hold.paths \cap r.hold.paths  OBVIOUS
<1> QED  BY <1>1, <1>2 DEF Apart

LEMMA Moves ==
    ASSUME Inv, NEW h \in Handlers, NEW r, Step(h, r), TypeOK',
           Tidy(db', files', made'), Needed(db') \subseteq files',
           Fits(r, db', files', made'),
           \A k \in Handlers : k # h => Fits(hand[k], db', files', made'),
           \A k \in Handlers : k # h => Apart(r, hand[k]),
           Covered(db', files', hand', cut')
    PROVE  Inv'
<1>1. hand'[h] = r /\ \A k \in Handlers : k # h => hand'[k] = hand[k]
  BY SteppedHands DEF Inv
<1>2. \A k \in Handlers : Fits(hand'[k], db', files', made')  BY <1>1
<1>3. ASSUME NEW k \in Handlers, NEW i \in Handlers, k # i
      PROVE  Apart(hand'[k], hand'[i])
  <2>1. CASE k = h  BY <1>1, <1>3, <2>1
  <2>2. CASE i = h  BY <1>1, <1>3, <2>2, ApartIsSymmetric
  <2>3. CASE k # h /\ i # h  BY <1>1, <1>3, <2>3 DEF Inv
  <2> QED  BY <2>1, <2>2, <2>3
<1> QED  BY <1>2, <1>3 DEF Inv

\* Tasks change, or the retained inputs, or a result: the files stay in order.
LEMMA SameRefsTidy ==
    ASSUME NEW d, NEW e, NEW fs, NEW m, SameRefs(d, e), Tidy(d, fs, m)
    PROVE  Tidy(e, fs, m)
<1>1. AllRefs(e) = AllRefs(d)  BY SameRefsSame
<1> QED  BY <1>1 DEF Tidy, SameRefs

LEMMA SameRefsFits ==
    ASSUME NEW d, NEW e, NEW fs, NEW m, SameRefs(d, e), Needed(e) \subseteq Needed(d),
           NEW r, IsHand(r, d), Fits(r, d, fs, m)
    PROVE  Fits(r, e, fs, m)
<1>1. AllRefs(e) = AllRefs(d) /\ \A j \in Tasks(d) : Refs(e, j) = Refs(d, j)
  BY SameRefsSame
<1>2. r.pc \in Deleting => r.job \in Tasks(d)  BY DEF IsHand, Deleting, Uploading, Staging
<1> QED  BY <1>1, <1>2 DEF Fits, SameRefs

\* The files of every ended group are still somebody's to delete.
LEMMA CoveredStays ==
    ASSUME NEW d, NEW e, NEW fs, NEW gs, NEW hs, DOMAIN hs = Handlers, NEW c, NEW b,
           Covered(d, fs, hs, c), c \subseteq b,
           NEW h \in Handlers, NEW r, hs[h].pc \notin Releasing, r.pc \notin Deleting,
           \A g \in DOMAIN e.groups :
              \/ GroupIsLive(e, g)
              \/ /\ g \in DOMAIN d.groups
                 /\ e.groups[g].refs \cap gs \subseteq d.groups[g].refs \cap fs
                 /\ GroupIsLive(d, g) => GroupIsLive(e, g)
                 /\ Swept(d, g) => Swept(e, g)
    PROVE  Covered(e, gs, [hs EXCEPT ![h] = r], b)
<1> DEFINE hands == [hs EXCEPT ![h] = r]
<1>1. hands[h] = r /\ \A k \in Handlers : k # h => hands[k] = hs[k]  OBVIOUS
<1> HIDE DEF hands
<1> SUFFICES ASSUME NEW g \in DOMAIN e.groups, ~GroupIsLive(e, g), ~Swept(e, g),
                    e.groups[g].refs \cap gs # {}
             PROVE  CutOff(b, hands, g)
                    \/ \E k \in Handlers : Will(hands[k], g, e.groups[g].refs \cap gs)
  BY DEF Covered, hands
<1>2. /\ g \in DOMAIN d.groups /\ ~GroupIsLive(d, g) /\ ~Swept(d, g)
      /\ e.groups[g].refs \cap gs \subseteq d.groups[g].refs \cap fs
      /\ d.groups[g].refs \cap fs # {}
  OBVIOUS
<1>3. CASE CutOff(c, hs, g)
  <2>1. CutOff(b, hands, g)  BY <1>1, <1>3 DEF CutOff
  <2> QED  BY <2>1
<1>4. CASE \E k \in Handlers : Will(hs[k], g, d.groups[g].refs \cap fs)
  <2>1. PICK k \in Handlers : Will(hs[k], g, d.groups[g].refs \cap fs)  BY <1>4
  <2>2. hs[k].pc \in Releasing  BY <2>1 DEF Will, Releasing, Deleting
  <2>3. hands[k] = hs[k]  BY <1>1, <2>2
  <2>4. Will(hands[k], g, e.groups[g].refs \cap gs)  BY <1>2, <2>1, <2>3 DEF Will
  <2> QED  BY <2>4
<1> QED  BY <1>2, <1>3, <1>4 DEF Covered

\* The tables keep their groups and tasks; a request that deletes nothing moves.
SameTasks(d, e) ==
    SameRefs(d, e) /\ \A g \in DOMAIN d.groups : e.groups[g].tasks = d.groups[g].tasks

LEMMA SameTasksSame ==
    ASSUME NEW d, NEW e, SameTasks(d, e)
    PROVE  /\ Needed(e) = Needed(d)
           /\ \A g \in DOMAIN d.groups : GroupIsLive(e, g) = GroupIsLive(d, g)
           /\ \A g \in DOMAIN d.groups : Swept(e, g) = Swept(d, g)
<1>1. Tasks(e) = Tasks(d) /\ \A j \in Tasks(d) : Refs(e, j) = Refs(d, j)
  BY SameRefsSame DEF SameTasks
<1>2. \A j \in Tasks(d) : j[1] \in DOMAIN d.groups  BY AboutTasks
<1>3. \A j \in Tasks(d) : Status(e, j) = Status(d, j)
  BY <1>2 DEF Status, SameTasks
<1>4. \A u : u \in Needed(e) <=> u \in Needed(d)  BY <1>1, <1>3, AboutNeeded
<1>5. Needed(e) = Needed(d)  BY <1>4
<1>6. \A g \in DOMAIN d.groups : e.groups[g].tasks = d.groups[g].tasks  BY DEF SameTasks
<1>7. \A g \in DOMAIN d.groups : GroupIsLive(e, g) = GroupIsLive(d, g)
  BY <1>6 DEF GroupIsLive
<1>8. \A g \in DOMAIN d.groups : Swept(e, g) = Swept(d, g)
  BY <1>6 DEF Swept
<1> QED  BY <1>5, <1>7, <1>8

LEMMA QuietMoves ==
    ASSUME Inv, NEW h \in Handlers, NEW r, Step(h, r),
           SameTasks(db, db'), IsTables(db'), UNCHANGED <<files, made, cut>>,
           DOMAIN told' = Groups, IsHand(r, db'), Fits(r, db, files, made),
           hand[h].pc \notin Releasing, r.pc \notin Deleting,
           \A k \in Handlers : k # h => Apart(r, hand[k])
    PROVE  Inv'
<1>1. SameRefs(db, db') /\ Tasks(db') = Tasks(db) /\ DOMAIN db'.groups = DOMAIN db.groups
  BY SameRefsSame DEF SameTasks, SameRefs
<1>2. Needed(db') = Needed(db)  BY SameTasksSame
<1>3. TypeOK /\ \A k \in Handlers : IsHand(hand[k], db)  BY DEF Inv, TypeOK
<1>4. TypeOK'  BY <1>1, <1>3, TypeMoves DEF TypeOK
<1>5. Tidy(db', files', made')  BY <1>1, SameRefsTidy DEF Inv
<1>6. Fits(r, db', files', made')
  <2>1. IsHand(r, db)  BY <1>1, HandStays
  <2> QED  BY <1>1, <1>2, <2>1, SameRefsFits
<1>7. \A k \in Handlers : k # h => Fits(hand[k], db', files', made')
  BY <1>1, <1>2, <1>3, SameRefsFits DEF Inv
<1>8. \A g \in DOMAIN db'.groups :
         /\ g \in DOMAIN db.groups
         /\ db'.groups[g].refs \cap files' \subseteq db.groups[g].refs \cap files
         /\ GroupIsLive(db, g) => GroupIsLive(db', g)
         /\ Swept(db, g) => Swept(db', g)
  BY <1>1, SameTasksSame DEF SameRefs
<1>9. DOMAIN hand = Handlers /\ Covered(db, files, hand, cut) /\ cut \subseteq cut'
  BY DEF Inv, TypeOK
<1>10. Covered(db', files', [hand EXCEPT ![h] = r], cut')
  BY <1>8, <1>9, CoveredStays
<1> QED  BY <1>2, <1>4, <1>5, <1>6, <1>7, <1>10, Moves DEF Inv, Step
-----------------------------------------------------------------------------
(***************************************************************************)
(* Requests that read, and those about retained inputs and results.        *)
(***************************************************************************)
LEMMA PlainFits ==
    ASSUME NEW r, r.pc \notin {"record", "insert"}, r.pc \notin Deleting, r.pc \notin Staging
    PROVE  /\ \A d, fs, m : Fits(r, d, fs, m)
           /\ \A q : Apart(r, q)
BY DEF Fits, Apart, Deleting, Staging

LEMMA TablesUnchanged ==
    ASSUME TypeOK, UNCHANGED db
    PROVE  SameTasks(db, db') /\ IsTables(db')
BY DEF TypeOK, SameTasks, SameRefs

LEMMA SetInputIs ==
    ASSUME NEW d, IsTables(d), NEW i, NEW f
    PROVE  SameTasks(d, SetInput(d, i, f)) /\ IsTables(SetInput(d, i, f))
<1> DEFINE e == SetInput(d, i, f)
<1>1. /\ DOMAIN e = DOMAIN d /\ DOMAIN e.inputs = DOMAIN d.inputs
      /\ e.groups = d.groups /\ e.uploads = d.uploads /\ e.holds = d.holds
  BY DEF SetInput, IsTables
<1> HIDE DEF e
<1>2. SameTasks(d, e) /\ IsTables(e)  BY <1>1 DEF SameTasks, SameRefs, IsTables
<1> QED  BY <1>2 DEF e

\* A request that only reads, or changes an input, and keeps no file in mind.
LEMMA PlainMoves ==
    ASSUME Inv, NEW h \in Handlers, NEW r, Step(h, r), IsHand(r, db'),
           SameTasks(db, db'), IsTables(db'),
           UNCHANGED <<files, made, cut>>, DOMAIN told' = Groups,
           hand[h].pc \notin Releasing,
           r.pc \notin {"record", "insert"}, r.pc \notin Deleting, r.pc \notin Staging
    PROVE  Inv'
BY PlainFits, QuietMoves

LEMMA InputsKeep ==
    ASSUME Inv, NEW h \in Handlers,
           \/ ReserveInput(h) \/ WriteInput(h) \/ SaveInput(h) \/ AbortInput(h)
           \/ DiscardReservation(h) \/ DeleteInput(h) \/ EraseInput(h)
    PROVE  Inv'
<1>1. /\ UNCHANGED <<files, made, cut>> /\ DOMAIN told' = Groups
      /\ hand[h].pc \in {"idle", "erase"} \cup Uploading
  BY DEF ReserveInput, WriteInput, SaveInput, AbortInput, DiscardReservation, DeleteInput,
     EraseInput, KeepFiles, KeepRest, Begins, At, Uploading, Inv, TypeOK
<1>2. hand[h].pc \notin Releasing  BY <1>1 DEF Releasing, Uploading
<1>3. TypeOK /\ IsTables(db) /\ IsHand(hand[h], db)  BY DEF Inv, TypeOK
<1>4. SameTasks(db, db') /\ IsTables(db')
  <2>1. UNCHANGED db \/ \E i, f : db' = SetInput(db, i, f)
    BY DEF ReserveInput, WriteInput, SaveInput, AbortInput, DiscardReservation, DeleteInput,
           EraseInput, KeepTables, Commit
  <2>2. CASE UNCHANGED db  BY <1>3, <2>2, TablesUnchanged
  <2>3. CASE \E i, f : db' = SetInput(db, i, f)
    <3>1. PICK i, f : db' = SetInput(db, i, f)  BY <2>3
    <3> QED  BY <1>3, <3>1, SetInputIs
  <2> QED  BY <2>1, <2>2, <2>3
<1>5. \E r : /\ Step(h, r) /\ r.pc \in {"idle", "erase"} \cup Uploading
             /\ \A d : IsHand(r, d)
  <2>1. CASE ReserveInput(h)
    <3>1. PICK i \in Inputs : Step(h, [pc |-> "write", input |-> i])
      BY <2>1 DEF ReserveInput
    <3> DEFINE r == [pc |-> "write", input |-> i]
    <3>2. r.pc = "write" /\ DOMAIN r = {"pc", "input"} /\ r.input \in Inputs  OBVIOUS
    <3> QED  BY <3>1, <3>2 DEF IsHand, Uploading
  <2>2. CASE WriteInput(h)
    <3>1. hand[h].pc = "write" /\ DOMAIN hand[h] = {"pc", "input"} /\ hand[h].input \in Inputs
      BY <1>3, <2>2 DEF WriteInput, At, IsHand, Deleting, Uploading, Staging
    <3>2. PICK pc \in {"save", "abort"} : Step(h, [hand[h] EXCEPT !.pc = pc])
      BY <2>2 DEF WriteInput
    <3> DEFINE r == [hand[h] EXCEPT !.pc = pc]
    <3>3. r.pc = pc /\ DOMAIN r = {"pc", "input"} /\ r.input \in Inputs  BY <3>1
    <3> QED  BY <3>2, <3>3 DEF IsHand, Uploading
  <2>3. CASE AbortInput(h)
    <3>1. hand[h].pc = "abort" /\ DOMAIN hand[h] = {"pc", "input"} /\ hand[h].input \in Inputs
      BY <1>3, <2>3 DEF AbortInput, At, IsHand, Deleting, Uploading, Staging
    <3> DEFINE r == [hand[h] EXCEPT !.pc = "discard"]
    <3>2. Step(h, r)  BY <2>3 DEF AbortInput
    <3>3. r.pc = "discard" /\ DOMAIN r = {"pc", "input"} /\ r.input \in Inputs  BY <3>1
    <3> QED  BY <3>2, <3>3 DEF IsHand, Uploading
  <2>4. CASE DeleteInput(h)
    <3>1. PICK i \in Inputs : Step(h, [pc |-> "erase", input |-> i])
      BY <2>4 DEF DeleteInput
    <3> DEFINE r == [pc |-> "erase", input |-> i]
    <3>2. r.pc = "erase" /\ DOMAIN r = {"pc", "input"} /\ r.input \in Inputs  OBVIOUS
    <3> QED  BY <3>1, <3>2 DEF IsHand, Uploading
  <2>5. CASE SaveInput(h) \/ DiscardReservation(h) \/ EraseInput(h)
    <3>1. Step(h, Idle)  BY <2>5 DEF SaveInput, DiscardReservation, EraseInput
    <3>2. Idle.pc = "idle" /\ DOMAIN Idle = {"pc"}  BY DEF Idle
    <3> QED  BY <3>1, <3>2 DEF IsHand
  <2> QED  BY <2>1, <2>2, <2>3, <2>4, <2>5
<1>6. PICK r : /\ Step(h, r) /\ r.pc \in {"idle", "erase"} \cup Uploading
               /\ \A d : IsHand(r, d)
  BY <1>5
<1>7. r.pc \notin {"record", "insert"} /\ r.pc \notin Deleting /\ r.pc \notin Staging
  BY <1>6 DEF Deleting, Staging, Uploading
<1> QED  BY <1>1, <1>2, <1>4, <1>6, <1>7, PlainMoves

LEMMA ReadResultsKeeps ==
    ASSUME Inv, NEW h \in Handlers, NEW g \in DOMAIN db.groups, ReadResults(h, g)
    PROVE  Inv'
<1>1. /\ UNCHANGED <<files, made, cut>> /\ UNCHANGED db /\ hand[h].pc = "idle"
      /\ DOMAIN told' = Groups
  BY DEF ReadResults, KeepTables, KeepFiles, Begins, At, Inv, TypeOK
<1>2. SameTasks(db, db') /\ IsTables(db')  BY <1>1, TablesUnchanged DEF Inv
<1>3. CASE UNCHANGED hand
  <2>1. Inv'
    BY <1>1, <1>3 DEF Inv, TypeOK
  <2> QED  BY <2>1
<1>4. CASE Step(h, [pc |-> "insert results", run |-> g, read |-> outputs[g]])
  <2> DEFINE r == [pc |-> "insert results", run |-> g, read |-> outputs[g]]
  <2>1. IsHand(r, db') /\ r.pc = "insert results"  BY <1>1 DEF IsHand
  <2> HIDE DEF r
  <2>2. Step(h, r)  BY <1>4 DEF r
  <2> QED  BY <1>1, <1>2, <2>1, <2>2, PlainMoves DEF Releasing, Deleting, Staging
<1> QED  BY <1>3, <1>4 DEF ReadResults

LEMMA IdleIs == /\ Idle.pc = "idle" /\ DOMAIN Idle = {"pc"} /\ \A d : IsHand(Idle, d)
                /\ \A d, fs, m : Fits(Idle, d, fs, m)
                /\ \A q : Apart(Idle, q)
<1>1. Idle.pc = "idle" /\ DOMAIN Idle = {"pc"}  BY DEF Idle
<1>2. \A d : IsHand(Idle, d)  BY <1>1 DEF IsHand
<1>3. Idle.pc \notin {"record", "insert"} /\ Idle.pc \notin Deleting /\ Idle.pc \notin Staging
  BY <1>1 DEF Deleting, Staging
<1> QED  BY <1>1, <1>2, <1>3, PlainFits

\* The manifest of one run.
LEMMA ManifestIs ==
    ASSUME NEW d, IsTables(d), NEW g \in DOMAIN d.groups, NEW v
    PROVE  LET e == [d EXCEPT !.groups[g].manifest = v] IN
           /\ SameTasks(d, e) /\ IsTables(e) /\ e.groups[g].manifest = v
           /\ e.inputs = d.inputs
           /\ \A f \in DOMAIN d.groups : f # g => e.groups[f] = d.groups[f]
<1> DEFINE new == [d.groups[g] EXCEPT !.manifest = v]
           groups == [d.groups EXCEPT ![g] = new]
           e == [d EXCEPT !.groups = groups]
<1>1. IsSequence(d.groups) /\ IsGroup(d.groups[g])  BY DEF IsTables
<1>2. /\ DOMAIN new = DOMAIN d.groups[g] /\ new.tasks = d.groups[g].tasks
      /\ new.app = d.groups[g].app /\ new.owner = d.groups[g].owner
      /\ new.key = d.groups[g].key /\ new.refs = d.groups[g].refs /\ new.manifest = v
  BY <1>1 DEF IsGroup
<1>3. [d EXCEPT !.groups[g].manifest = v] = e  OBVIOUS
<1> HIDE DEF new
<1>4. IsGroup(new)  BY <1>1, <1>2 DEF IsGroup
<1>5. /\ IsSequence(groups) /\ DOMAIN groups = DOMAIN d.groups /\ groups[g] = new
      /\ \A i \in DOMAIN d.groups : i # g => groups[i] = d.groups[i]
  BY <1>1, SequenceExcept
<1> HIDE DEF groups
<1>6. /\ DOMAIN e = DOMAIN d /\ e.groups = groups /\ e.uploads = d.uploads
      /\ e.holds = d.holds /\ e.inputs = d.inputs
  BY DEF IsTables
<1> HIDE DEF e
<1>7. IsTables(e)  BY <1>4, <1>5, <1>6 DEF IsTables
<1>8. SameTasks(d, e)  BY <1>2, <1>5, <1>6 DEF SameTasks, SameRefs
<1> QED  BY <1>2, <1>3, <1>5, <1>6, <1>7, <1>8

LEMMA KeepResultsKeeps ==
    ASSUME Inv, NEW h \in Handlers, KeepResults(h)
    PROVE  Inv'
<1> DEFINE g == hand[h].run
<1>1. g \in DOMAIN db.groups /\ hand[h].pc = "insert results"
  BY DEF KeepResults, At, Inv, TypeOK, IsHand, Deleting, Uploading, Staging
<1>2. PICK v : db' = [db EXCEPT !.groups[g].manifest = v]  BY DEF KeepResults, Commit
<1>3. SameTasks(db, db') /\ IsTables(db')  BY <1>1, <1>2, ManifestIs DEF Inv, TypeOK
<1>4. /\ UNCHANGED <<files, made, cut>> /\ Step(h, Idle) /\ DOMAIN told' = Groups
  BY DEF KeepResults, KeepFiles, Inv, TypeOK
<1> QED  BY <1>1, <1>3, <1>4, IdleIs, PlainMoves DEF Releasing, Deleting, Staging
-----------------------------------------------------------------------------
(***************************************************************************)
(* Requests that make or remove files, uploads and holds.                  *)
(***************************************************************************)
LEMMA SameGroupsSame ==
    ASSUME NEW d, NEW e, e.groups = d.groups
    PROVE  /\ Tasks(e) = Tasks(d) /\ AllRefs(e) = AllRefs(d) /\ Needed(e) = Needed(d)
           /\ \A j : Refs(e, j) = Refs(d, j) /\ Status(e, j) = Status(d, j)
           /\ \A g : GroupIsLive(e, g) = GroupIsLive(d, g) /\ Swept(e, g) = Swept(d, g)
<1>1. \A j : Refs(e, j) = Refs(d, j) /\ Status(e, j) = Status(d, j)  BY DEF Refs, Status
<1>2. Tasks(e) = Tasks(d)  BY DEF Tasks
<1>3. AllRefs(e) = AllRefs(d)  BY DEF AllRefs
<1>4. \A u : u \in Needed(e) <=> u \in Needed(d)  BY <1>1, <1>2, AboutNeeded
<1>5. \A g : GroupIsLive(e, g) = GroupIsLive(d, g)  BY DEF GroupIsLive
<1>6. \A g : Swept(e, g) = Swept(d, g)  BY DEF Swept
<1> QED  BY <1>1, <1>2, <1>3, <1>4, <1>5, <1>6

LEMMA StagingMoves ==
    ASSUME Inv, NEW h \in Handlers, NEW r, Step(h, r), IsTables(db'), IsHand(r, db'),
           db'.groups = db.groups, UNCHANGED <<cut, told>>, made' \in Seq({"member", "app"}),
           AllRefs(db) \cap files' = AllRefs(db) \cap files,
           Tidy(db', files', made'), Fits(r, db', files', made'),
           \A k \in Handlers : k # h => Fits(hand[k], db', files', made'),
           \A k \in Handlers : k # h => Apart(r, hand[k]),
           hand[h].pc \notin Releasing, r.pc \notin Deleting
    PROVE  Inv'
<1>1. /\ Tasks(db') = Tasks(db) /\ Needed(db') = Needed(db)
      /\ \A g : GroupIsLive(db', g) = GroupIsLive(db, g) /\ Swept(db', g) = Swept(db, g)
  BY SameGroupsSame
<1>2. TypeOK /\ cut \subseteq Tasks(db) /\ DOMAIN told = Groups /\ DOMAIN hand = Handlers
  BY DEF Inv, TypeOK
<1>3. TypeOK'  BY <1>1, <1>2, TypeMoves
<1>4. \A j \in Tasks(db) : j[1] \in DOMAIN db.groups  BY AboutTasks
<1>5. Needed(db) \subseteq AllRefs(db)  BY <1>4 DEF Needed, AllRefs, Refs
<1>6. Needed(db') \subseteq files'  BY <1>1, <1>5 DEF Inv
<1>7. \A g \in DOMAIN db'.groups :
         db'.groups[g].refs \cap files' \subseteq db.groups[g].refs \cap files
  BY DEF AllRefs
<1>8. Covered(db', files', [hand EXCEPT ![h] = r], cut')
  BY <1>1, <1>2, <1>7, CoveredStays DEF Inv
<1> QED  BY <1>3, <1>6, <1>8, Moves DEF Step

\* Files and holds are added for nobody else.
LEMMA FitsGrows ==
    ASSUME NEW r, NEW d, NEW e, NEW fs, NEW gs, NEW m, NEW n, Fits(r, d, fs, m),
           fs \subseteq gs, Members(m) \subseteq Members(n), Apps(m) \subseteq Apps(n),
           e.groups = d.groups, d.holds \subseteq e.holds,
           r.pc \in Staging => r.hold.paths \cap (gs \ fs) = {}
    PROVE  Fits(r, e, gs, n)
<1>1. AllRefs(e) = AllRefs(d) /\ Needed(e) = Needed(d) /\ \A j : Refs(e, j) = Refs(d, j)
  BY SameGroupsSame
<1>2. r.pc \in {"clean", "free"} => r.pc \in Staging  BY DEF Staging
<1> QED  BY <1>1, <1>2 DEF Fits

\* The files made so far.
LEMMA MadeAppends ==
    ASSUME NEW m \in Seq({"member", "app"}), NEW who \in {"member", "app"}
    PROVE  /\ Append(m, who) \in Seq({"member", "app"})
           /\ Len(Append(m, who)) = Len(m) + 1 /\ Len(m) \in Nat
           /\ DOMAIN Append(m, who) = DOMAIN m \cup {Len(m) + 1}
           /\ Len(m) + 1 \notin DOMAIN m
           /\ Members(Append(m, who)) = Members(m) \cup (IF who = "member" THEN {Len(m) + 1} ELSE {})
           /\ Apps(Append(m, who)) = Apps(m) \cup (IF who = "app" THEN {Len(m) + 1} ELSE {})
<1> DEFINE t == Append(m, who)
<1>1. /\ t \in Seq({"member", "app"}) /\ Len(t) = Len(m) + 1 /\ Len(m) \in Nat
      /\ DOMAIN t = DOMAIN m \cup {Len(m) + 1} /\ Len(m) + 1 \notin DOMAIN m
      /\ t[Len(m) + 1] = who /\ \A i \in DOMAIN m : t[i] = m[i]
  OBVIOUS
<1> HIDE DEF t
<1>2. Members(t) = Members(m) \cup (IF who = "member" THEN {Len(m) + 1} ELSE {})
  BY <1>1 DEF Members
<1>3. Apps(t) = Apps(m) \cup (IF who = "app" THEN {Len(m) + 1} ELSE {})
  BY <1>1 DEF Apps
<1> QED  BY <1>1, <1>2, <1>3 DEF t

LEMMA Owned1 ==
    ASSUME NEW d, NEW fs, NEW m, Tidy(d, fs, m)
    PROVE  /\ AllRefs(d) \subseteq DOMAIN m
           /\ \A x \in d.holds : x.paths \subseteq DOMAIN m
           /\ Members(m) \cap Apps(m) = {}
<1>1. \A g \in DOMAIN d.groups : d.groups[g].refs \subseteq DOMAIN m
  BY DEF Tidy, Members, Apps
<1>2. \A x \in d.holds : x.paths \subseteq DOMAIN m  BY DEF Tidy, Apps
<1>3. Members(m) \cap Apps(m) = {}  BY DEF Members, Apps
<1> QED  BY <1>1, <1>2, <1>3 DEF AllRefs

LEMMA StageKeeps == ASSUME Inv, NEW h \in Handlers, Stage(h) PROVE Inv'
<1> DEFINE n == Len(made) + 1
           r == [pc |-> "record", file |-> n]
<1>1. /\ Step(h, r) /\ UNCHANGED <<db, cut, told>> /\ hand[h].pc = "idle"
      /\ made' = Append(made, "member") /\ files' = files \cup {n}
  BY DEF Stage, KeepTables, Begins, At
<1>2. r.pc = "record" /\ r.file = n /\ DOMAIN r = {"pc", "file"}  OBVIOUS
<1> HIDE DEF r
<1>3. made \in Seq({"member", "app"}) /\ IsTables(db) /\ Tidy(db, files, made)
  BY DEF Inv, TypeOK
<1>4. /\ made' \in Seq({"member", "app"})
      /\ DOMAIN made' = DOMAIN made \cup {n} /\ n \notin DOMAIN made
      /\ Members(made') = Members(made) \cup {n} /\ Apps(made') = Apps(made)
  BY <1>1, <1>3, MadeAppends
<1> HIDE DEF n
<1>5. AllRefs(db) \subseteq DOMAIN made /\ Apps(made) \subseteq DOMAIN made
      /\ files \subseteq DOMAIN made
  <2>1. AllRefs(db) \subseteq DOMAIN made  BY <1>3, Owned1
  <2>2. files \subseteq DOMAIN made  BY <1>3 DEF Tidy
  <2> QED  BY <2>1, <2>2 DEF Apps
<1>6. Tidy(db', files', made')  BY <1>1, <1>3, <1>4, <1>5 DEF Tidy
<1>7. IsHand(r, db')  BY <1>2 DEF IsHand
<1>8. Fits(r, db', files', made') /\ \A k \in Handlers : Apart(r, hand[k])
  BY <1>1, <1>2, <1>4 DEF Fits, Apart, Deleting, Staging
<1>9. ASSUME NEW k \in Handlers PROVE Fits(hand[k], db', files', made')
  <2>1. Fits(hand[k], db, files, made)  BY DEF Inv
  <2>2. hand[k].pc \in Staging => hand[k].hold.paths \cap {n} = {}
    BY <1>4, <1>5, <2>1 DEF Fits
  <2> QED  BY <1>1, <1>4, <2>1, <2>2, FitsGrows
<1>10. AllRefs(db) \cap files' = AllRefs(db) \cap files  BY <1>1, <1>4, <1>5
<1>11. hand[h].pc \notin Releasing /\ r.pc \notin Deleting
  BY <1>1, <1>2 DEF Releasing, Deleting
<1> QED
  BY <1>1, <1>3, <1>4, <1>6, <1>7, <1>8, <1>9, <1>10, <1>11, StagingMoves

LEMMA RecordUploadKeeps == ASSUME Inv, NEW h \in Handlers, RecordUpload(h) PROVE Inv'
<1>1. /\ Step(h, Idle) /\ UNCHANGED <<files, made, cut, told>> /\ hand[h].pc = "record"
      /\ db' = [db EXCEPT !.uploads = @ \cup {hand[h].file}]
  BY DEF RecordUpload, KeepFiles, KeepRest, Commit, At
<1>2. IsTables(db) /\ Tidy(db, files, made) /\ made \in Seq({"member", "app"})
      /\ Fits(hand[h], db, files, made)
  BY DEF Inv, TypeOK
<1>3. /\ DOMAIN db' = DOMAIN db /\ db'.uploads = db.uploads \cup {hand[h].file}
      /\ db'.groups = db.groups /\ db'.holds = db.holds /\ db'.inputs = db.inputs
  BY <1>1, <1>2 DEF IsTables
<1>4. IsTables(db')  BY <1>2, <1>3 DEF IsTables
<1>5. AllRefs(db') = AllRefs(db)  BY <1>3, SameGroupsSame
<1>6. Tidy(db', files', made')
  BY <1>1, <1>2, <1>3, <1>5 DEF Tidy, Fits
<1>7. ASSUME NEW k \in Handlers PROVE Fits(hand[k], db', files', made')
  <2>1. Fits(hand[k], db, files, made)  BY DEF Inv
  <2>2. hand[k].hold.paths \cap (files \ files) = {}  OBVIOUS
  <2>3. Fits(hand[k], db', files, made)  BY <1>3, <2>1, <2>2, FitsGrows
  <2> QED  BY <1>1, <2>3
<1>8. hand[h].pc \notin Releasing /\ Idle.pc \notin Deleting
  BY <1>1, IdleIs DEF Releasing, Deleting
<1> QED  BY <1>1, <1>2, <1>3, <1>4, <1>6, <1>7, <1>8, IdleIs, StagingMoves

LEMMA SubmitKeeps == ASSUME Inv, NEW h \in Handlers, Submit(h) PROVE Inv'
<1>1. UNCHANGED <<db, files, made, cut, told>> /\ hand[h].pc = "idle"
  BY DEF Submit, KeepTables, KeepFiles, KeepRest, Begins, At
<1>2. PICK refs \in SUBSET db.uploads, key \in Keys :
         Alone(refs, key) /\ Step(h, [pc |-> "insert", refs |-> refs, key |-> key])
  BY DEF Submit
<1> DEFINE r == [pc |-> "insert", refs |-> refs, key |-> key]
<1>3. r.pc = "insert" /\ r.refs = refs /\ r.key = key /\ DOMAIN r = {"pc", "refs", "key"}
  OBVIOUS
<1>4. Step(h, r)  BY <1>2
<1> HIDE DEF r
<1>5. IsHand(r, db')  BY <1>3 DEF IsHand
<1>6. Fits(r, db, files, made)
  BY <1>2, <1>3 DEF Fits, Inv, Tidy, Alone, Deleting, Staging
<1>7. \A k \in Handlers : Apart(r, hand[k])
  BY <1>2, <1>3 DEF Apart, Alone, Staging
<1>8. SameTasks(db, db') /\ IsTables(db') /\ DOMAIN told' = Groups
  BY <1>1, TablesUnchanged DEF Inv, TypeOK
<1> QED
  BY <1>1, <1>3, <1>4, <1>5, <1>6, <1>7, <1>8, QuietMoves DEF Releasing, Deleting
-----------------------------------------------------------------------------
(***************************************************************************)
(* Requests of applications.                                               *)
(***************************************************************************)
LEMMA PairIs ==
    ASSUME NEW k \in Nat
    PROVE  Min({k + 1, k + 2}) = k + 1 /\ Max({k + 1, k + 2}) = k + 2
<1> DEFINE S == {k + 1, k + 2}
<1>1. k + 1 \in S /\ \A y \in S : k + 1 <= y  OBVIOUS
<1>2. k + 2 \in S /\ \A y \in S : k + 2 >= y  OBVIOUS
<1>3. \A x \in S : (\A y \in S : x <= y) => x = k + 1  OBVIOUS
<1>4. \A x \in S : (\A y \in S : x >= y) => x = k + 2  OBVIOUS
<1> HIDE DEF S
<1>5. Min(S) = k + 1  BY <1>1, <1>3 DEF Min
<1>6. Max(S) = k + 2  BY <1>2, <1>4 DEF Max
<1> QED  BY <1>5, <1>6 DEF S

LEMMA MadeAppendsTwo ==
    ASSUME NEW m \in Seq({"member", "app"})
    PROVE  LET n == m \o <<"app", "app">> IN
           /\ n \in Seq({"member", "app"}) /\ Len(m) \in Nat
           /\ DOMAIN n = DOMAIN m \cup {Len(m) + 1, Len(m) + 2}
           /\ Len(m) + 1 \notin DOMAIN m /\ Len(m) + 2 \notin DOMAIN m
           /\ Members(n) = Members(m)
           /\ Apps(n) = Apps(m) \cup {Len(m) + 1, Len(m) + 2}
<1> DEFINE n == m \o <<"app", "app">>
<1>1. /\ n \in Seq({"member", "app"}) /\ Len(m) \in Nat
      /\ DOMAIN n = DOMAIN m \cup {Len(m) + 1, Len(m) + 2}
      /\ Len(m) + 1 \notin DOMAIN m /\ Len(m) + 2 \notin DOMAIN m
      /\ n[Len(m) + 1] = "app" /\ n[Len(m) + 2] = "app"
      /\ \A i \in DOMAIN m : n[i] = m[i]
  OBVIOUS
<1> HIDE DEF n
<1>2. Members(n) = Members(m)  BY <1>1 DEF Members
<1>3. Apps(n) = Apps(m) \cup {Len(m) + 1, Len(m) + 2}  BY <1>1 DEF Apps
<1> QED  BY <1>1, <1>2, <1>3 DEF n

\* The step of a request that stages, with what it has.
LEMMA StagingIs ==
    ASSUME TypeOK, NEW h \in Handlers, hand[h].pc \in Staging, NEW pc \in Staging
    PROVE  LET r == [hand[h] EXCEPT !.pc = pc] IN
           r.pc = pc /\ r.hold = hand[h].hold /\ \A d : IsHand(r, d)
<1> DEFINE r == [hand[h] EXCEPT !.pc = pc]
<1>1. /\ DOMAIN hand[h] = {"pc", "owner", "key", "input", "hold"}
      /\ DOMAIN hand[h].hold = {"owner", "paths"}
  BY DEF TypeOK, IsHand, Deleting, Uploading, Staging
<1>2. r.pc = pc /\ r.hold = hand[h].hold /\ DOMAIN r = DOMAIN hand[h]  BY <1>1
<1> HIDE DEF r
<1>3. \A d : IsHand(r, d)  BY <1>1, <1>2 DEF IsHand
<1> QED  BY <1>2, <1>3 DEF r

LEMMA StagingNot ==
    /\ \A pc \in Staging : pc \notin Releasing /\ pc \notin Deleting /\ pc # "insert"
                             /\ pc # "record" /\ pc # "unlink"
BY DEF Staging, Releasing, Deleting

LEMMA SubmitRunKeeps == ASSUME Inv, NEW h \in Handlers, SubmitRun(h) PROVE Inv'
<1>1. UNCHANGED <<db, files, made, cut, told>> /\ hand[h].pc = "idle"
  BY DEF SubmitRun, KeepTables, KeepFiles, KeepRest, Begins, At
<1>2. PICK owner \in Owners, key \in Keys, i \in Inputs :
         Step(h, [pc |-> "hold", owner |-> owner, key |-> key, input |-> i])
  BY DEF SubmitRun
<1> DEFINE r == [pc |-> "hold", owner |-> owner, key |-> key, input |-> i]
<1>3. r.pc = "hold" /\ IsHand(r, db')  BY DEF IsHand
<1>4. Step(h, r)  BY <1>2
<1> HIDE DEF r
<1>5. SameTasks(db, db') /\ IsTables(db') /\ DOMAIN told' = Groups
  BY <1>1, TablesUnchanged DEF Inv, TypeOK
<1> QED  BY <1>1, <1>3, <1>4, <1>5, PlainMoves DEF Releasing, Deleting, Staging

LEMMA HoldRunKeeps == ASSUME Inv, NEW h \in Handlers, HoldRun(h) PROVE Inv'
<1>1. /\ UNCHANGED <<files, cut, told>> /\ hand[h].pc = "hold"
      /\ hand[h].pc \notin Releasing
  BY DEF HoldRun, KeepFiles, At, Releasing
<1>2. IsTables(db) /\ Tidy(db, files, made) /\ made \in Seq({"member", "app"})
      /\ TypeOK /\ DOMAIN told = Groups
  BY DEF Inv, TypeOK
<1>3. CASE Step(h, Idle) /\ KeepTables /\ UNCHANGED made
  <2>1. SameTasks(db, db') /\ IsTables(db')  BY <1>2, <1>3, TablesUnchanged DEF KeepTables
  <2> QED
    BY <1>1, <1>2, <1>3, <2>1, IdleIs, PlainMoves DEF Deleting, Staging
<1> DEFINE n == Len(made) + 1
           l == Len(made) + 2
           x == [owner |-> hand[h].owner, paths |-> {n, l}]
           r == [pc |-> "project", owner |-> hand[h].owner, key |-> hand[h].key,
                 input |-> hand[h].input, hold |-> x]
<1>4. CASE Commit([db EXCEPT !.holds = @ \cup {x}]) /\ Step(h, r)
           /\ made' = made \o <<"app", "app">>
  <2>1. /\ made' \in Seq({"member", "app"}) /\ Members(made') = Members(made)
        /\ DOMAIN made' = DOMAIN made \cup {n, l} /\ n \notin DOMAIN made /\ l \notin DOMAIN made
        /\ Apps(made') = Apps(made) \cup {n, l}
    BY <1>2, <1>4, MadeAppendsTwo
  <2>2. {n, l} = {Min({n, l}), Max({n, l})}
    <3>1. Len(made) \in Nat  BY <1>2
    <3> QED  BY <3>1, PairIs
  <2>3. x.paths = {n, l} /\ DOMAIN x = {"owner", "paths"}  OBVIOUS
  <2>4. /\ r.pc = "project" /\ r.hold = x
        /\ DOMAIN r = {"pc", "owner", "key", "input", "hold"}
    OBVIOUS
  <2> HIDE DEF x, r, n, l
  <2>5. /\ DOMAIN db' = DOMAIN db /\ db'.groups = db.groups /\ db'.uploads = db.uploads
        /\ db'.holds = db.holds \cup {x} /\ db'.inputs = db.inputs
    BY <1>2, <1>4 DEF Commit, IsTables
  <2>6. IsTables(db') /\ AllRefs(db') = AllRefs(db)
    <3>1. IsTables(db')  BY <1>2, <2>5 DEF IsTables
    <3> QED  BY <2>5, <3>1, SameGroupsSame
  <2>7. AllRefs(db) \subseteq DOMAIN made /\ \A y \in db.holds : y.paths \subseteq DOMAIN made
    BY <1>2, Owned1
  <2>8. files \subseteq DOMAIN made  BY <1>2 DEF Tidy
  <2>9. \A y \in db.holds : y.paths \cap x.paths = {} /\ x.paths \cap y.paths = {}
    BY <2>1, <2>3, <2>7
  <2>10. x.paths \subseteq Apps(made') /\ x.paths \cap AllRefs(db) = {} /\ x.paths \cap files = {}
    BY <2>1, <2>3, <2>7, <2>8
  <2>11. Tidy(db', files', made')
    <3>1. /\ files' \subseteq DOMAIN made'
          /\ db'.uploads \subseteq Members(made') /\ db'.uploads \subseteq files' \cup AllRefs(db')
      BY <1>1, <1>2, <2>1, <2>5, <2>6 DEF Tidy
    <3>2. \A g \in DOMAIN db'.groups :
             db'.groups[g].refs \subseteq IF db'.groups[g].app THEN Apps(made') ELSE Members(made')
      BY <1>2, <2>1, <2>5 DEF Tidy
    <3>3. \A f, g \in DOMAIN db'.groups :
             f # g => db'.groups[f].refs \cap db'.groups[g].refs = {}
      BY <1>2, <2>5 DEF Tidy
    <3>4. \A y \in db'.holds : y.paths \subseteq Apps(made') /\ y.paths \cap AllRefs(db') = {}
      BY <1>2, <2>1, <2>5, <2>6, <2>10 DEF Tidy
    <3>5. \A y, z \in db'.holds : y # z => y.paths \cap z.paths = {}
      BY <1>2, <2>5, <2>9 DEF Tidy
    <3>6. \A u \in files' \cap Apps(made') :
             u \in AllRefs(db') \/ \E y \in db'.holds : u \in y.paths
      BY <1>1, <1>2, <2>1, <2>5, <2>6, <2>8 DEF Tidy
    <3> QED  BY <3>1, <3>2, <3>3, <3>4, <3>5, <3>6 DEF Tidy
  <2>12. IsHand(r, db')  BY <2>3, <2>4 DEF IsHand, Staging
  <2>13. Fits(r, db', files', made')
    BY <2>2, <2>3, <2>4, <2>5, <2>6, <2>10 DEF Fits, Deleting, Staging
  <2>14. ASSUME NEW k \in Handlers
         PROVE  Fits(hand[k], db', files', made') /\ Apart(r, hand[k])
    <3>1. Fits(hand[k], db, files, made)  BY DEF Inv
    <3>2. Fits(hand[k], db', files, made')  BY <2>1, <2>5, <3>1, FitsGrows
    <3>3. hand[k].pc \in Staging => hand[k].hold.paths \cap x.paths = {}
      BY <2>1, <2>3, <3>1 DEF Fits, Apps
    <3>4. Apart(r, hand[k])  BY <2>4, <3>3 DEF Apart
    <3> QED  BY <1>1, <3>2, <3>4
  <2>15. r.pc \notin Deleting  BY <2>4 DEF Deleting
  <2> QED
    BY <1>1, <1>4, <2>1, <2>5, <2>6, <2>11, <2>12, <2>13, <2>14, <2>15, StagingMoves
<1> QED  BY <1>3, <1>4 DEF HoldRun

LEMMA RefuseRunKeeps == ASSUME Inv, NEW h \in Handlers, RefuseRun(h) PROVE Inv'
<1> DEFINE r == [hand[h] EXCEPT !.pc = "clean"]
<1>1. /\ UNCHANGED <<db, files, made, cut, told>> /\ hand[h].pc = "create" /\ Step(h, r)
  BY DEF RefuseRun, KeepTables, KeepFiles, KeepRest, At
<1>2. TypeOK /\ hand[h].pc \in Staging /\ "clean" \in Staging  BY <1>1 DEF Inv, Staging
<1>3. r.pc = "clean" /\ r.hold = hand[h].hold /\ IsHand(r, db')  BY <1>2, StagingIs
<1> HIDE DEF r
<1>4. Fits(r, db, files, made)
  BY <1>1, <1>2, <1>3 DEF Inv, Fits, Deleting, Staging
<1>5. \A k \in Handlers : k # h => Apart(r, hand[k])
  BY <1>2, <1>3 DEF Inv, Apart
<1>6. SameTasks(db, db') /\ IsTables(db') /\ DOMAIN told' = Groups
  BY <1>1, <1>2, TablesUnchanged DEF TypeOK
<1> QED  BY <1>1, <1>2, <1>3, <1>4, <1>5, <1>6, StagingNot, QuietMoves

\* A request that stages makes and removes its own files only.
LEMMA OwnMoves ==
    ASSUME Inv, NEW h \in Handlers, hand[h].pc \in Staging, NEW x, x = hand[h].hold,
           NEW r, Step(h, r), IsTables(db'), IsHand(r, db'),
           db'.groups = db.groups, db'.uploads = db.uploads,
           db'.holds \subseteq db.holds, db.holds \ {x} \subseteq db'.holds,
           files \ x.paths \subseteq files', files' \subseteq files \cup x.paths,
           UNCHANGED <<made, cut, told>>,
           x \in db'.holds \/ x.paths \cap files' = {},
           Fits(r, db', files', made), r.pc \in Staging => r.hold = x,
           r.pc \notin Deleting, r.pc # "insert"
    PROVE  Inv'
<1>1. Tidy(db, files, made) /\ Fits(hand[h], db, files, made) /\ TypeOK
  BY DEF Inv
<1>2. /\ x.paths = {Min(x.paths), Max(x.paths)}
      /\ x.paths \subseteq Apps(made) /\ x.paths \cap AllRefs(db) = {}
  BY <1>1 DEF Fits
<1>3. AllRefs(db') = AllRefs(db) /\ Needed(db') = Needed(db) /\ \A j : Refs(db', j) = Refs(db, j)
  BY SameGroupsSame
<1>4. Members(made) \cap Apps(made) = {} /\ Apps(made) \subseteq DOMAIN made
  BY DEF Members, Apps
<1>5. Tidy(db', files', made')
  <2>1. /\ files' \subseteq DOMAIN made'
        /\ db'.uploads \subseteq Members(made') /\ db'.uploads \subseteq files' \cup AllRefs(db')
    BY <1>1, <1>2, <1>3, <1>4 DEF Tidy
  <2>2. \A u \in files' \cap Apps(made') :
           u \in AllRefs(db') \/ \E y \in db'.holds : u \in y.paths
    <3> TAKE u \in files' \cap Apps(made')
    <3>1. CASE u \in x.paths  BY <3>1
    <3>2. CASE u \notin x.paths
      <4>1. u \in AllRefs(db) \/ \E y \in db.holds : u \in y.paths  BY <1>1, <3>2 DEF Tidy
      <4> QED  BY <1>3, <3>2, <4>1
    <3> QED  BY <3>1, <3>2
  <2> QED  BY <1>1, <1>3, <2>1, <2>2 DEF Tidy
<1>6. ASSUME NEW k \in Handlers, k # h
      PROVE  Fits(hand[k], db', files', made') /\ Apart(r, hand[k])
  <2>1. Fits(hand[k], db, files, made) /\ Apart(hand[h], hand[k])  BY <1>6 DEF Inv
  <2>2. hand[k].pc \in Staging =>
           /\ x.paths \cap hand[k].hold.paths = {}
           /\ hand[k].hold.paths = {Min(hand[k].hold.paths), Max(hand[k].hold.paths)}
    BY <2>1 DEF Apart, Fits
  <2>3. hand[k].pc \in Staging => hand[k].hold # x  BY <2>2
  <2>4. hand[k].pc \in Staging =>
           /\ hand[k].hold.paths \cap files' = hand[k].hold.paths \cap files
           /\ hand[k].hold \in db.holds => hand[k].hold \in db'.holds
           /\ Min(hand[k].hold.paths) \in files => Min(hand[k].hold.paths) \in files'
    BY <2>2, <2>3
  <2>5. Fits(hand[k], db', files', made)
    <3>1. hand[k].pc \in {"project", "copy", "create", "clean", "free"} => hand[k].pc \in Staging
      BY DEF Staging
    <3>2. \A u \in Members(made) : u \in files \cup AllRefs(db) => u \in files' \cup AllRefs(db')
      BY <1>2, <1>3, <1>4
    <3> QED  BY <1>3, <2>1, <2>4, <3>1, <3>2 DEF Fits
  <2>6. Apart(r, hand[k])  BY <2>2 DEF Apart
  <2> QED  BY <2>5, <2>6
<1>7. AllRefs(db) \cap files' = AllRefs(db) \cap files  BY <1>2
<1>8. hand[h].pc \notin Releasing  BY StagingNot
<1>9. made' \in Seq({"member", "app"})  BY <1>1 DEF TypeOK
<1> QED  BY <1>5, <1>6, <1>7, <1>8, <1>9, StagingMoves

LEMMA StageProjectKeeps == ASSUME Inv, NEW h \in Handlers, StageProject(h) PROVE Inv'
<1>1. /\ UNCHANGED <<db, made, cut, told>> /\ hand[h].pc = "project"
      /\ files' = files \cup {Min(hand[h].hold.paths)}
  BY DEF StageProject, KeepTables, KeepRest, At
<1>2. PICK pc \in {"copy", "clean"} : Step(h, [hand[h] EXCEPT !.pc = pc])
  BY DEF StageProject
<1> DEFINE r == [hand[h] EXCEPT !.pc = pc]
           x == hand[h].hold
<1>3. TypeOK /\ hand[h].pc \in Staging /\ pc \in Staging /\ Fits(hand[h], db, files, made)
      /\ IsTables(db)
  BY <1>1 DEF Inv, TypeOK, Staging
<1>4. r.pc = pc /\ r.hold = x /\ IsHand(r, db')  BY <1>3, StagingIs
<1>5. Step(h, r)  BY <1>2
<1> HIDE DEF r
<1>6. x \in db.holds /\ Min(x.paths) \in x.paths  BY <1>1, <1>3 DEF Fits
<1>7. Fits(r, db', files', made)
  BY <1>1, <1>3, <1>4, <1>6 DEF Fits, Deleting
<1>8. files \ x.paths \subseteq files' /\ files' \subseteq files \cup x.paths  BY <1>1, <1>6
<1>9. r.pc \notin Deleting /\ r.pc # "insert"  BY <1>3, <1>4, StagingNot
<1> QED  BY <1>1, <1>3, <1>4, <1>5, <1>6, <1>7, <1>8, <1>9, OwnMoves

LEMMA StageInputKeeps == ASSUME Inv, NEW h \in Handlers, StageInput(h) PROVE Inv'
<1>1. UNCHANGED <<db, made, cut, told>> /\ hand[h].pc = "copy"
  BY DEF StageInput, KeepTables, KeepRest, At
<1>2. PICK pc \in {"create", "clean"} :
         /\ Step(h, [hand[h] EXCEPT !.pc = pc])
         /\ \/ files' = files \cup {Max(hand[h].hold.paths)}
            \/ pc = "clean" /\ files' = files
  BY DEF StageInput
<1> DEFINE r == [hand[h] EXCEPT !.pc = pc]
           x == hand[h].hold
<1>3. TypeOK /\ hand[h].pc \in Staging /\ pc \in Staging /\ Fits(hand[h], db, files, made)
      /\ IsTables(db)
  BY <1>1 DEF Inv, TypeOK, Staging
<1>4. r.pc = pc /\ r.hold = x /\ IsHand(r, db')  BY <1>3, StagingIs
<1>5. Step(h, r)  BY <1>2
<1> HIDE DEF r
<1>6. x \in db.holds /\ Max(x.paths) \in x.paths /\ Min(x.paths) \in files
      /\ x.paths = {Min(x.paths), Max(x.paths)}
  BY <1>1, <1>3 DEF Fits
<1>7. Fits(r, db', files', made)
  BY <1>1, <1>2, <1>3, <1>4, <1>6 DEF Fits, Deleting
<1>8. files \ x.paths \subseteq files' /\ files' \subseteq files \cup x.paths
  BY <1>2, <1>6
<1>9. r.pc \notin Deleting /\ r.pc # "insert"  BY <1>3, <1>4, StagingNot
<1> QED  BY <1>1, <1>3, <1>4, <1>5, <1>6, <1>7, <1>8, <1>9, OwnMoves

LEMMA CleanRunKeeps == ASSUME Inv, NEW h \in Handlers, CleanRun(h) PROVE Inv'
<1> DEFINE r == [hand[h] EXCEPT !.pc = "free"]
           x == hand[h].hold
<1>1. /\ UNCHANGED <<db, made, cut, told>> /\ hand[h].pc = "clean" /\ Step(h, r)
      /\ files' = files \ x.paths
  BY DEF CleanRun, KeepTables, KeepRest, At
<1>2. TypeOK /\ hand[h].pc \in Staging /\ "free" \in Staging /\ Fits(hand[h], db, files, made)
      /\ IsTables(db)
  BY <1>1 DEF Inv, TypeOK, Staging
<1>3. r.pc = "free" /\ r.hold = x /\ IsHand(r, db')  BY <1>2, StagingIs
<1> HIDE DEF r
<1>4. x.paths \cap files' = {}  BY <1>1
<1>5. Fits(r, db', files', made)
  BY <1>1, <1>2, <1>3, <1>4 DEF Fits, Deleting
<1>6. files \ x.paths \subseteq files' /\ files' \subseteq files \cup x.paths
  BY <1>1
<1>7. r.pc \notin Deleting /\ r.pc # "insert"  BY <1>2, <1>3, StagingNot
<1> QED  BY <1>1, <1>2, <1>3, <1>4, <1>5, <1>6, <1>7, OwnMoves

LEMMA HoldsOnly ==
    ASSUME NEW d, IsTables(d), NEW H
    PROVE  LET e == [d EXCEPT !.holds = H] IN
           /\ IsTables(e) /\ e.holds = H /\ e.groups = d.groups /\ e.uploads = d.uploads
           /\ e.inputs = d.inputs
<1> DEFINE e == [d EXCEPT !.holds = H]
<1>1. /\ DOMAIN e = DOMAIN d /\ e.holds = H /\ e.groups = d.groups
      /\ e.uploads = d.uploads /\ e.inputs = d.inputs
  BY DEF IsTables
<1> HIDE DEF e
<1>2. IsTables(e)  BY <1>1 DEF IsTables
<1> QED  BY <1>1, <1>2 DEF e

LEMMA FreeRunKeeps == ASSUME Inv, NEW h \in Handlers, FreeRun(h) PROVE Inv'
<1> DEFINE x == hand[h].hold
<1>1. /\ UNCHANGED <<files, made, cut, told>> /\ hand[h].pc = "free" /\ Step(h, Idle)
      /\ db' = [db EXCEPT !.holds = db.holds \ {x}]
  BY DEF FreeRun, KeepFiles, KeepRest, Commit, At
<1>2. TypeOK /\ hand[h].pc \in Staging /\ Fits(hand[h], db, files, made) /\ IsTables(db)
  BY <1>1 DEF Inv, TypeOK, Staging
<1>3. /\ IsTables(db') /\ db'.holds = db.holds \ {x}
      /\ db'.groups = db.groups /\ db'.uploads = db.uploads
  BY <1>1, <1>2, HoldsOnly
<1>4. x.paths \cap files' = {}  BY <1>1, <1>2 DEF Fits
<1>5. Idle.pc \notin Deleting /\ Idle.pc # "insert" /\ Idle.pc \notin Staging
  BY IdleIs DEF Deleting, Staging
<1> QED  BY <1>1, <1>2, <1>3, <1>4, <1>5, IdleIs, OwnMoves
-----------------------------------------------------------------------------
(***************************************************************************)
(* A new group.                                                            *)
(***************************************************************************)
LEMMA NewGroupIs ==
    ASSUME NEW app \in BOOLEAN, NEW owner, NEW key, NEW body, NEW refs,
           NEW n \in Nat, n > 0
    PROVE  LET g == NewGroup(app, owner, key, body, refs, n) IN
           /\ IsGroup(g) /\ g.app = app /\ g.owner = owner /\ g.key = key /\ g.refs = refs
           /\ g.manifest = 0 /\ \E t \in DOMAIN g.tasks : g.tasks[t].status = "QUEUED"
<1> DEFINE task == [status |-> "QUEUED", cancelled |-> FALSE, end |-> "none"]
           g == NewGroup(app, owner, key, body, refs, n)
<1>1. IsTask(task) /\ task.status = "QUEUED"  BY DEF IsTask, TaskRecords, Live
<1>2. NewTasks(n) = [t \in 1..n |-> task]  BY DEF NewTasks
<1> HIDE DEF task
<1>3. /\ DOMAIN g = {"app", "owner", "key", "body", "refs", "manifest", "tasks"}
      /\ g.app = app /\ g.owner = owner /\ g.key = key /\ g.refs = refs /\ g.manifest = 0
      /\ g.tasks = NewTasks(n)
  BY DEF NewGroup
<1> HIDE DEF g
<1>4. 1 \in 1..n  OBVIOUS
<1> QED  BY <1>1, <1>2, <1>3, <1>4 DEF IsGroup, g

Appended(d, e, grp) ==
    LET n == Len(d.groups) + 1 IN
    /\ DOMAIN e.groups = DOMAIN d.groups \cup {n} /\ n \notin DOMAIN d.groups
    /\ e.groups[n] = grp /\ \A g \in DOMAIN d.groups : e.groups[g] = d.groups[g]
    /\ GroupIsLive(e, n)
    /\ AllRefs(e) = AllRefs(d) \cup grp.refs /\ Needed(e) \subseteq Needed(d) \cup grp.refs
    /\ Tasks(d) \subseteq Tasks(e)
    /\ \A j \in Tasks(d) : Refs(e, j) = Refs(d, j)
    /\ \A g \in DOMAIN d.groups :
          GroupIsLive(e, g) = GroupIsLive(d, g) /\ Swept(e, g) = Swept(d, g)

LEMMA AppendedIs ==
    ASSUME NEW d, IsTables(d), NEW grp, IsGroup(grp),
           \E t \in DOMAIN grp.tasks : grp.tasks[t].status = "QUEUED",
           NEW e, e.groups = Append(d.groups, grp), DOMAIN e = DOMAIN d, e.inputs = d.inputs
    PROVE  IsTables(e) /\ Appended(d, e, grp)
<1> DEFINE n == Len(d.groups) + 1
<1>1. /\ IsSequence(e.groups) /\ DOMAIN e.groups = DOMAIN d.groups \cup {n}
      /\ n \notin DOMAIN d.groups /\ e.groups[n] = grp
      /\ \A g \in DOMAIN d.groups : e.groups[g] = d.groups[g]
  BY SequenceAppend DEF IsTables
<1> HIDE DEF n
<1>2. IsTables(e)  BY <1>1 DEF IsTables
<1>3. GroupIsLive(e, n)  BY <1>1 DEF GroupIsLive, Live
<1>4. AllRefs(e) = AllRefs(d) \cup grp.refs
  <2>1. \A u : u \in AllRefs(e) <=> u \in AllRefs(d) \cup grp.refs  BY <1>1 DEF AllRefs
  <2> QED  BY <2>1
<1>5. Tasks(d) \subseteq Tasks(e)
  <2>1. \A j : j \in Tasks(d) => j \in Tasks(e)  BY <1>1, AboutTasks
  <2> QED  BY <2>1
<1>6. \A j \in Tasks(d) : j[1] \in DOMAIN d.groups  BY AboutTasks
<1>7. \A j \in Tasks(d) : Refs(e, j) = Refs(d, j) /\ Status(e, j) = Status(d, j)
  BY <1>1, <1>6 DEF Refs, Status
<1>8. Needed(e) \subseteq Needed(d) \cup grp.refs
  <2> SUFFICES ASSUME NEW u \in Needed(e), u \notin grp.refs PROVE u \in Needed(d)
    OBVIOUS
  <2>1. PICK j \in Tasks(e) : Status(e, j) \in Live /\ u \in Refs(e, j)  BY AboutNeeded
  <2>2. PICK g \in DOMAIN e.groups : \E t \in DOMAIN e.groups[g].tasks : j = <<g, t>>
    BY AboutTasks
  <2>3. j[1] = g  BY <2>2
  <2>4. g # n  BY <1>1, <2>1, <2>3 DEF Refs
  <2>5. g \in DOMAIN d.groups /\ d.groups[g] = e.groups[g]  BY <1>1, <2>4
  <2>6. j \in Tasks(d)  BY <2>2, <2>5, AboutTasks
  <2> QED  BY <1>7, <2>1, <2>6, AboutNeeded
<1>9. \A g \in DOMAIN d.groups : GroupIsLive(e, g) = GroupIsLive(d, g)
  BY <1>1 DEF GroupIsLive
<1>10. \A g \in DOMAIN d.groups : Swept(e, g) = Swept(d, g)
  BY <1>1 DEF Swept
<1> QED
  BY <1>1, <1>2, <1>3, <1>4, <1>5, <1>7, <1>8, <1>9, <1>10 DEF Appended, n

\* A group takes over files that are there, that no other group names and
\* that nobody else stages.
LEMMA AppendMoves ==
    ASSUME Inv, NEW h \in Handlers, Step(h, Idle), hand[h].pc \notin Releasing,
           NEW grp, IsTables(db'), Appended(db, db', grp),
           db'.uploads = db.uploads, db'.holds \subseteq db.holds,
           UNCHANGED <<files, made, cut, told>>,
           grp.refs \subseteq files, grp.refs \cap AllRefs(db) = {},
           grp.refs \subseteq IF grp.app THEN Apps(made) ELSE Members(made),
           \A x \in db'.holds : x.paths \cap grp.refs = {},
           \A x \in db.holds : x \notin db'.holds => x.paths \subseteq grp.refs,
           \A k \in Handlers : k # h =>
              /\ hand[k].pc = "insert" /\ hand[k].refs \cap grp.refs # {} =>
                    grp.key = hand[k].key /\ grp.refs = hand[k].refs
              /\ hand[k].pc \in Staging =>
                    /\ hand[k].hold.paths \cap grp.refs = {}
                    /\ hand[k].hold \in db.holds => hand[k].hold \in db'.holds
    PROVE  Inv'
<1> DEFINE n == Len(db.groups) + 1
<1>1. /\ DOMAIN db'.groups = DOMAIN db.groups \cup {n} /\ n \notin DOMAIN db.groups
      /\ db'.groups[n] = grp /\ \A g \in DOMAIN db.groups : db'.groups[g] = db.groups[g]
      /\ GroupIsLive(db', n)
      /\ AllRefs(db') = AllRefs(db) \cup grp.refs /\ Needed(db') \subseteq Needed(db) \cup grp.refs
      /\ Tasks(db) \subseteq Tasks(db')
      /\ \A j \in Tasks(db) : Refs(db', j) = Refs(db, j)
      /\ \A g \in DOMAIN db.groups :
            GroupIsLive(db', g) = GroupIsLive(db, g) /\ Swept(db', g) = Swept(db, g)
  BY DEF Appended
<1> HIDE DEF n
<1>2. TypeOK /\ Tidy(db, files, made) /\ Needed(db) \subseteq files
      /\ Covered(db, files, hand, cut)
  BY DEF Inv
<1>3. TypeOK'
  <2>1. cut' \subseteq Tasks(db') /\ made' \in Seq({"member", "app"}) /\ DOMAIN told' = Groups
    BY <1>1, <1>2 DEF TypeOK
  <2>2. DOMAIN db.groups \subseteq DOMAIN db'.groups  BY <1>1
  <2> QED  BY <1>1, <1>2, <2>1, <2>2, IdleIs, TypeMoves
<1>4. Tidy(db', files', made')
  <2>1. \A g \in DOMAIN db.groups : db.groups[g].refs \subseteq AllRefs(db)  BY DEF AllRefs
  <2>2. \A f, g \in DOMAIN db'.groups : f # g => db'.groups[f].refs \cap db'.groups[g].refs = {}
    <3> TAKE f, g \in DOMAIN db'.groups
    <3>1. CASE f \in DOMAIN db.groups /\ g \in DOMAIN db.groups
      BY <1>1, <1>2, <3>1 DEF Tidy
    <3>2. CASE f = n \/ g = n  BY <1>1, <2>1, <3>2
    <3> QED  BY <1>1, <3>1, <3>2
  <2>3. \A u \in files' \cap Apps(made') : u \in AllRefs(db') \/ \E x \in db'.holds : u \in x.paths
    <3> TAKE u \in files' \cap Apps(made')
    <3>1. u \in AllRefs(db) \/ \E x \in db.holds : u \in x.paths  BY <1>2 DEF Tidy
    <3> QED  BY <1>1, <3>1
  <2>4. \A g \in DOMAIN db'.groups :
           db'.groups[g].refs \subseteq IF db'.groups[g].app THEN Apps(made') ELSE Members(made')
    BY <1>1, <1>2 DEF Tidy
  <2>5. \A x \in db'.holds : x.paths \subseteq Apps(made') /\ x.paths \cap AllRefs(db') = {}
    BY <1>1, <1>2 DEF Tidy
  <2>6. \A x, y \in db'.holds : x # y => x.paths \cap y.paths = {}
    BY <1>2 DEF Tidy
  <2>7. files' \subseteq DOMAIN made' /\ db'.uploads \subseteq Members(made')
        /\ db'.uploads \subseteq files' \cup AllRefs(db')
    BY <1>1, <1>2 DEF Tidy
  <2> QED  BY <2>2, <2>3, <2>4, <2>5, <2>6, <2>7 DEF Tidy
<1>5. ASSUME NEW k \in Handlers, k # h PROVE Fits(hand[k], db', files', made')
  <2> DEFINE r == hand[k]
  <2>1. Fits(r, db, files, made) /\ IsHand(r, db)  BY DEF Inv, TypeOK
  <2>2. r.pc \in Deleting => r.job \in Tasks(db)
    BY <2>1 DEF IsHand, Deleting, Uploading, Staging
  <2>3. \A j \in Tasks(db) : Refs(db, j) \subseteq AllRefs(db)
    BY AboutTasks DEF Refs, AllRefs
  <2>4. r.pc = "unlink" => r.drop \cap Needed(db') = {}
    BY <1>1, <2>1, <2>2, <2>3 DEF Fits, Deleting
  <2>5. r.pc = "insert" => /\ r.refs \subseteq files' \cup AllRefs(db')
                           /\ \A g \in DOMAIN db'.groups :
                                db'.groups[g].refs \cap r.refs # {} =>
                                  db'.groups[g].key = r.key /\ db'.groups[g].refs = r.refs
    BY <1>1, <1>5, <2>1 DEF Fits
  <2>6. r.pc \in Staging => r.hold.paths \cap AllRefs(db') = {}
    BY <1>1, <1>5, <2>1 DEF Fits
  <2>7. r.pc \in {"project", "copy", "create", "clean", "free"} => r.pc \in Staging
    BY DEF Staging
  <2>8. r.pc = "record" => r.file \in files' \cup AllRefs(db')  BY <1>1, <2>1 DEF Fits
  <2>9. r.pc \in Deleting => r.drop \subseteq Refs(db', r.job)
    BY <1>1, <2>1, <2>2 DEF Fits
  <2>10. r.pc \in Staging /\ r.hold \in db.holds => r.hold \in db'.holds  BY <1>5
  <2> HIDE DEF r
  <2>11. Fits(r, db', files', made')
    BY <2>1, <2>4, <2>5, <2>6, <2>7, <2>8, <2>9, <2>10 DEF Fits
  <2> QED  BY <2>11 DEF r
<1>6. Covered(db', files', hand', cut')
  <2>1. DOMAIN hand = Handlers /\ Idle.pc \notin Deleting
    BY <1>2, IdleIs DEF TypeOK, Deleting
  <2>2. \A g \in DOMAIN db'.groups :
           \/ GroupIsLive(db', g)
           \/ /\ g \in DOMAIN db.groups
              /\ db'.groups[g].refs \cap files' \subseteq db.groups[g].refs \cap files
              /\ GroupIsLive(db, g) => GroupIsLive(db', g)
              /\ Swept(db, g) => Swept(db', g)
    BY <1>1
  <2>3. Covered(db, files, hand, cut) /\ cut \subseteq cut' /\ hand[h].pc \notin Releasing
    BY <1>2
  <2>4. Covered(db', files', [hand EXCEPT ![h] = Idle], cut')
    BY ONLY <2>1, <2>2, <2>3, h \in Handlers, CoveredStays
  <2> QED  BY <2>4 DEF Step
<1>7. Needed(db') \subseteq files'  BY <1>1, <1>2
<1> QED  BY <1>3, <1>4, <1>5, <1>6, <1>7, IdleIs, Moves

LEMMA AddGroupKeeps == ASSUME Inv, NEW h \in Handlers, AddGroup(h) PROVE Inv'
<1> DEFINE r == hand[h]
<1>1. UNCHANGED <<files, made, cut, told>> /\ r.pc = "insert" /\ Step(h, Idle)
  BY DEF AddGroup, KeepFiles, KeepRest, At
<1>2. TypeOK /\ IsTables(db) /\ Tidy(db, files, made) /\ Fits(r, db, files, made)
      /\ DOMAIN told' = Groups
  BY <1>1 DEF Inv, TypeOK
<1>3. r.pc \notin Releasing /\ Idle.pc \notin Deleting /\ Idle.pc \notin Staging
      /\ Idle.pc \notin {"record", "insert"}
  BY <1>1, IdleIs DEF Releasing, Deleting, Staging
<1>4. CASE KeepTables
  <2>1. SameTasks(db, db') /\ IsTables(db')  BY <1>2, <1>4, TablesUnchanged DEF KeepTables
  <2> QED  BY <1>1, <1>2, <1>3, <2>1, IdleIs, PlainMoves
<1>5. CASE ~KeepTables
  <2>1. SameKey(db, r.key) = {}  BY <1>5 DEF AddGroup
  <2>2. PICK n \in NewSizes :
           db' = [db EXCEPT !.groups = Append(@, NewGroup(FALSE, None, r.key, r.refs, r.refs, n))]
    BY <1>5 DEF AddGroup, Commit
  <2> DEFINE grp == NewGroup(FALSE, None, r.key, r.refs, r.refs, n)
  <2>3. n \in Nat /\ n > 0  BY DEF NewSizes
  <2>4. /\ IsGroup(grp) /\ grp.app = FALSE /\ grp.key = r.key /\ grp.refs = r.refs
        /\ \E t \in DOMAIN grp.tasks : grp.tasks[t].status = "QUEUED"
    <3>1. PICK app \in BOOLEAN : app = FALSE  OBVIOUS
    <3>2. grp = NewGroup(app, None, r.key, r.refs, r.refs, n)  BY <3>1
    <3> HIDE DEF grp
    <3> QED  BY <2>3, <3>1, <3>2, NewGroupIs
  <2> HIDE DEF grp
  <2>5. db' = [db EXCEPT !.groups = Append(db.groups, grp)]  BY <2>2 DEF grp
  <2>6. /\ DOMAIN db' = DOMAIN db /\ db'.groups = Append(db.groups, grp)
        /\ db'.uploads = db.uploads /\ db'.holds = db.holds /\ db'.inputs = db.inputs
    BY <1>2, <2>5 DEF IsTables
  <2>7. IsTables(db') /\ Appended(db, db', grp)  BY <1>2, <2>4, <2>6, AppendedIs
  <2>8. r.refs \subseteq Members(made) /\ r.refs \subseteq files \cup AllRefs(db)
    BY <1>1, <1>2 DEF Fits
  <2>9. Members(made) \cap Apps(made) = {}  BY DEF Members, Apps
  <2>10. r.refs \cap AllRefs(db) = {}
    <3> SUFFICES ASSUME NEW g \in DOMAIN db.groups, db.groups[g].refs \cap r.refs # {}
                 PROVE  FALSE
      BY DEF AllRefs
    <3>1. db.groups[g].key = r.key  BY <1>1, <1>2 DEF Fits
    <3>2. db.groups[g].app = FALSE
      BY <1>2, <2>8, <2>9 DEF Tidy, IsTables, IsGroup
    <3>3. g \in SameKey(db, r.key)  BY <3>1, <3>2 DEF SameKey
    <3> QED  BY <2>1, <3>3
  <2>11. \A x \in db'.holds : x.paths \cap grp.refs = {}
    BY <1>2, <2>4, <2>6, <2>8, <2>9 DEF Tidy
  <2>12. ASSUME NEW k \in Handlers, k # h
         PROVE  /\ hand[k].pc = "insert" /\ hand[k].refs \cap grp.refs # {} =>
                      grp.key = hand[k].key /\ grp.refs = hand[k].refs
                /\ hand[k].pc \in Staging => hand[k].hold.paths \cap grp.refs = {}
    <3>1. Apart(hand[k], r) /\ Fits(hand[k], db, files, made)  BY <2>12 DEF Inv
    <3> QED  BY <1>1, <2>4, <2>8, <2>9, <3>1 DEF Apart, Fits
  <2>13. grp.refs \subseteq files /\ grp.refs \cap AllRefs(db) = {}
         /\ grp.refs \subseteq IF grp.app THEN Apps(made) ELSE Members(made)
    BY <2>4, <2>8, <2>10
  <2> HIDE DEF r
  <2> QED
    BY <1>1, <1>3, <2>6, <2>7, <2>11, <2>12, <2>13, AppendMoves DEF r
<1> QED  BY <1>4, <1>5

LEMMA CreateRunKeeps == ASSUME Inv, NEW h \in Handlers, CreateRun(h) PROVE Inv'
<1> DEFINE x == hand[h].hold
           r == [hand[h] EXCEPT !.pc = "clean"]
           others == db.holds \ {x}
<1>1. UNCHANGED <<made, cut, told>> /\ hand[h].pc = "create"
  BY DEF CreateRun, KeepRest, At
<1>2. TypeOK /\ IsTables(db) /\ Tidy(db, files, made) /\ Fits(hand[h], db, files, made)
      /\ hand[h].pc \in Staging /\ "clean" \in Staging
  BY <1>1 DEF Inv, TypeOK, Staging
<1>3. x \in db.holds /\ x.paths \subseteq files /\ x.paths \subseteq Apps(made)
      /\ x.paths \cap AllRefs(db) = {}
      /\ x.paths = {Min(x.paths), Max(x.paths)}
  BY <1>1, <1>2 DEF Fits
<1>4. CASE Replayed(db, x.owner, hand[h].key) # {}
  <2>1. files' = files \ x.paths /\ db' = [db EXCEPT !.holds = others] /\ Step(h, r)
    BY <1>4 DEF CreateRun, Commit
  <2>2. r.pc = "clean" /\ r.hold = x /\ IsHand(r, db')  BY <1>2, StagingIs
  <2>3. /\ IsTables(db') /\ db'.holds = others /\ db'.groups = db.groups
        /\ db'.uploads = db.uploads
    BY <1>2, <2>1, HoldsOnly
  <2>4. AllRefs(db') = AllRefs(db)  BY <2>3, SameGroupsSame
  <2> HIDE DEF r
  <2>5. x.paths \cap files' = {}  BY <2>1
  <2>6. Fits(r, db', files', made)
    BY <1>3, <2>2, <2>4, <2>5 DEF Fits, Deleting
  <2>7. r.pc \notin Deleting /\ r.pc # "insert"  BY <1>2, <2>2, StagingNot
  <2> QED  BY <1>1, <1>2, <2>1, <2>2, <2>3, <2>5, <2>6, <2>7, OwnMoves
<1>5. CASE Replayed(db, x.owner, hand[h].key) = {}
  <2>1. Step(h, Idle) /\ UNCHANGED files  BY <1>5 DEF CreateRun
  <2>2. PICK n \in NewSizes :
           db' = [db EXCEPT !.holds = @ \ {x},
                    !.groups = Append(@, NewGroup(TRUE, x.owner, hand[h].key, hand[h].input, x.paths, n))]
    BY <1>5 DEF CreateRun, Commit
  <2> DEFINE owner == x.owner  key == hand[h].key  body == hand[h].input
             grp == NewGroup(TRUE, owner, key, body, x.paths, n)
  <2>3. n \in Nat /\ n > 0  BY DEF NewSizes
  <2>4. /\ IsGroup(grp) /\ grp.app = TRUE /\ grp.refs = x.paths
        /\ \E t \in DOMAIN grp.tasks : grp.tasks[t].status = "QUEUED"
    <3>1. PICK app \in BOOLEAN : app = TRUE  OBVIOUS
    <3> DEFINE new == NewGroup(app, owner, key, body, x.paths, n)
    <3>2. grp = new  BY <3>1
    <3> HIDE DEF grp, owner, key, body
    <3>3. IsGroup(new) /\ new.app = app /\ new.refs = x.paths
          /\ \E t \in DOMAIN new.tasks : new.tasks[t].status = "QUEUED"
      BY <2>3, NewGroupIs
    <3> HIDE DEF new
    <3> QED  BY <3>1, <3>2, <3>3
  <2> HIDE DEF grp
  <2>5. db' = [db EXCEPT !.holds = @ \ {x}, !.groups = Append(db.groups, grp)]
    BY <2>2 DEF grp
  <2>6. /\ DOMAIN db' = DOMAIN db /\ db'.groups = Append(db.groups, grp)
        /\ db'.uploads = db.uploads /\ db'.holds = others /\ db'.inputs = db.inputs
    BY <1>2, <2>5 DEF IsTables
  <2>7. IsTables(db') /\ Appended(db, db', grp)  BY <1>2, <2>4, <2>6, AppendedIs
  <2>8. \A y \in db'.holds : y.paths \cap grp.refs = {}
    BY <1>2, <1>3, <2>4, <2>6 DEF Tidy
  <2>9. \A y \in db.holds : y \notin db'.holds => y.paths \subseteq grp.refs
    BY <2>4, <2>6
  <2>10. ASSUME NEW k \in Handlers, k # h
         PROVE  /\ ~(hand[k].pc = "insert" /\ hand[k].refs \cap grp.refs # {})
                /\ hand[k].pc \in Staging =>
                      /\ hand[k].hold.paths \cap grp.refs = {}
                      /\ hand[k].hold \in db.holds => hand[k].hold \in db'.holds
    <3>1. Apart(hand[h], hand[k]) /\ Fits(hand[k], db, files, made)  BY <2>10 DEF Inv
    <3>2. Members(made) \cap Apps(made) = {}  BY DEF Members, Apps
    <3>3. ~(hand[k].pc = "insert" /\ hand[k].refs \cap grp.refs # {})
      BY <1>3, <2>4, <3>1, <3>2 DEF Fits
    <3>4. hand[k].pc \in Staging => hand[k].hold.paths \cap x.paths = {}
      BY <1>2, <3>1 DEF Apart
    <3>5. hand[k].pc \in Staging => hand[k].hold # x
      BY <1>3, <3>4
    <3> QED  BY <2>4, <2>6, <3>3, <3>4, <3>5
  <2>11. grp.refs \subseteq IF grp.app THEN Apps(made) ELSE Members(made)
    BY <1>3, <2>4
  <2>12. db'.holds \subseteq db.holds /\ hand[h].pc \notin Releasing
    BY <1>2, <2>6, StagingNot
  <2> QED
    BY <1>1, <1>3, <2>1, <2>4, <2>6, <2>7, <2>8, <2>9, <2>10, <2>11, <2>12, AppendMoves
<1> QED  BY <1>4, <1>5
-----------------------------------------------------------------------------
(***************************************************************************)
(* A task's status changes.                                                *)
(***************************************************************************)
LEMMA TaskIs ==
    ASSUME NEW d, IsTables(d), NEW j \in Tasks(d)
    PROVE  /\ j[1] \in DOMAIN d.groups /\ j[2] \in DOMAIN d.groups[j[1]].tasks
           /\ j = <<j[1], j[2]>> /\ IsTask(d.groups[j[1]].tasks[j[2]])
<1>1. PICK g \in DOMAIN d.groups : \E t \in DOMAIN d.groups[g].tasks : j = <<g, t>>
  BY AboutTasks
<1>2. PICK t \in DOMAIN d.groups[g].tasks : j = <<g, t>>  BY <1>1
<1>3. j[1] = g /\ j[2] = t  BY <1>2
<1>4. IsGroup(d.groups[g])  BY DEF IsTables
<1> QED  BY <1>2, <1>3, <1>4 DEF IsGroup

\* Waiting tasks run, running ones wait again or end; ended ones stay ended.
LEMMA RetaskedGroups ==
    ASSUME NEW d, NEW e, IsTables(d), NEW j \in Tasks(d), NEW f, Retasked(d, e, j, f),
           Status(d, j) \in Live
    PROVE  /\ Needed(e) \subseteq Needed(d)
           /\ \A g \in DOMAIN d.groups : Swept(d, g) => Swept(e, g)
           /\ \A g \in DOMAIN d.groups : GroupIsLive(e, g) => GroupIsLive(d, g)
           /\ \A g \in DOMAIN d.groups :
                 GroupIsLive(d, g) => GroupIsLive(e, g) \/ (g = j[1] /\ f.status \notin Live)
           /\ f.end = "sweep" => Swept(e, j[1])
<1>1. /\ j[1] \in DOMAIN d.groups /\ j[2] \in DOMAIN d.groups[j[1]].tasks
      /\ j = <<j[1], j[2]>> /\ IsTask(d.groups[j[1]].tasks[j[2]])
  BY TaskIs
<1>2. d.groups[j[1]].tasks[j[2]].end # "sweep"  BY <1>1 DEF IsTask, Status
<1>3. \A g \in DOMAIN d.groups :
         /\ DOMAIN e.groups[g].tasks = DOMAIN d.groups[g].tasks
         /\ \A t \in DOMAIN d.groups[g].tasks :
               e.groups[g].tasks[t] = IF <<g, t>> = j THEN f ELSE d.groups[g].tasks[t]
  BY DEF Retasked, SameRefs
<1>4. Needed(e) \subseteq Needed(d)
  <2>1. Tasks(e) = Tasks(d) /\ \A k \in Tasks(d) : Refs(e, k) = Refs(d, k)
    BY SameRefsSame DEF Retasked
  <2>2. \A k \in Tasks(d) : Status(e, k) \in Live => Status(d, k) \in Live
    BY RetaskedSays
  <2>3. \A u : u \in Needed(e) => u \in Needed(d)  BY <2>1, <2>2, AboutNeeded
  <2> QED  BY <2>3
<1>5. ASSUME NEW g \in DOMAIN d.groups, Swept(d, g) PROVE Swept(e, g)
  <2>1. PICK t \in DOMAIN d.groups[g].tasks : d.groups[g].tasks[t].end = "sweep"
    BY <1>5 DEF Swept
  <2>2. <<g, t>> # j  BY <1>1, <1>2, <2>1
  <2>3. e.groups[g].tasks[t].end = "sweep"  BY <1>3, <2>1, <2>2
  <2> QED  BY <1>3, <2>3 DEF Swept
<1>6. ASSUME NEW g \in DOMAIN d.groups, GroupIsLive(e, g) PROVE GroupIsLive(d, g)
  <2>1. PICK t \in DOMAIN d.groups[g].tasks : e.groups[g].tasks[t].status \in Live
    BY <1>3, <1>6 DEF GroupIsLive
  <2>2. CASE <<g, t>> = j
    <3>1. g = j[1] /\ t = j[2]  BY <2>2
    <3> QED  BY <3>1 DEF GroupIsLive, Status
  <2>3. CASE <<g, t>> # j  BY <1>3, <2>1, <2>3 DEF GroupIsLive
  <2> QED  BY <2>2, <2>3
<1>7. ASSUME NEW g \in DOMAIN d.groups, GroupIsLive(d, g)
      PROVE  GroupIsLive(e, g) \/ (g = j[1] /\ f.status \notin Live)
  <2>1. PICK t \in DOMAIN d.groups[g].tasks : d.groups[g].tasks[t].status \in Live
    BY <1>7 DEF GroupIsLive
  <2>2. e.groups[g].tasks[t] = IF <<g, t>> = j THEN f ELSE d.groups[g].tasks[t]  BY <1>3
  <2>3. CASE <<g, t>> = j
    <3>1. g = j[1]  BY <2>3
    <3> QED  BY <1>3, <2>2, <2>3, <3>1 DEF GroupIsLive
  <2>4. CASE <<g, t>> # j  BY <1>3, <2>1, <2>2, <2>4 DEF GroupIsLive
  <2> QED  BY <2>3, <2>4
<1>8. f.end = "sweep" => Swept(e, j[1])
  <2>1. e.groups[j[1]].tasks[j[2]] = f  BY <1>1, <1>3
  <2> QED  BY <1>1, <1>3, <2>1 DEF Swept
<1> QED  BY <1>4, <1>5, <1>6, <1>7, <1>8

LEMMA RetaskedKeeps ==
    ASSUME Inv, NEW j \in Tasks(db), NEW f, IsTask(f), db' = SetTask(db, j, f),
           Status(db, j) \in Live, UNCHANGED <<files, made>>
    PROVE  /\ IsTables(db') /\ SameRefs(db, db') /\ Retasked(db, db', j, f)
           /\ Tasks(db') = Tasks(db) /\ Needed(db') \subseteq files'
           /\ Tidy(db', files', made')
           /\ \A r : IsHand(r, db) => IsHand(r, db')
           /\ \A k \in Handlers : IsHand(hand[k], db') /\ Fits(hand[k], db', files', made')
<1>1. TypeOK /\ IsTables(db) /\ \A k \in Handlers : IsHand(hand[k], db)  BY DEF Inv, TypeOK
<1>2. IsTables(db') /\ Retasked(db, db', j, f)  BY <1>1, SetTaskIs
<1>3. SameRefs(db, db') /\ DOMAIN db'.groups = DOMAIN db.groups  BY <1>2 DEF Retasked, SameRefs
<1>4. Tasks(db') = Tasks(db)  BY <1>3, SameRefsSame
<1>5. Needed(db') \subseteq Needed(db)  BY <1>1, <1>2, RetaskedGroups
<1>6. Tidy(db', files', made')  BY <1>3, SameRefsTidy DEF Inv
<1>7. \A r : IsHand(r, db) => IsHand(r, db')  BY <1>3, <1>4, HandStays
<1>8. \A k \in Handlers : Fits(hand[k], db', files', made')
  BY <1>1, <1>3, <1>5, SameRefsFits DEF Inv
<1> QED  BY <1>1, <1>2, <1>3, <1>4, <1>5, <1>6, <1>7, <1>8 DEF Inv

\* Nobody's request moves.
LEMMA StillMoves ==
    ASSUME Inv, TypeOK', UNCHANGED <<files, made, cut, hand>>, SameRefs(db, db'),
           Tidy(db', files', made'), Needed(db') \subseteq files',
           \A k \in Handlers : Fits(hand[k], db', files', made'),
           \A g \in DOMAIN db.groups :
              /\ GroupIsLive(db, g) => GroupIsLive(db', g) \/ Swept(db', g)
              /\ Swept(db, g) => Swept(db', g)
    PROVE  Inv'
<1>1. /\ Covered(db, files, hand, cut)
      /\ DOMAIN db'.groups = DOMAIN db.groups
      /\ \A g \in DOMAIN db.groups : db'.groups[g].refs = db.groups[g].refs
  BY DEF Inv, SameRefs
<1>2. Covered(db', files', hand', cut')
  <2> SUFFICES ASSUME NEW g \in DOMAIN db.groups,
                      db.groups[g].refs \cap files # {}, ~GroupIsLive(db', g), ~Swept(db', g)
               PROVE  CutOff(cut, hand, g)
                      \/ \E k \in Handlers : Will(hand[k], g, db.groups[g].refs \cap files)
    BY <1>1 DEF Covered
  <2> QED  BY <1>1 DEF Covered
<1> QED  BY <1>2 DEF Inv

LEMMA ClaimKeeps == ASSUME Inv, NEW j \in Tasks(db), Claim(j) PROVE Inv'
<1> DEFINE f == [Task(j) EXCEPT !.status = "RUNNING"]
<1>1. TypeOK /\ IsTables(db) /\ IsTask(Task(j))  BY TaskIs DEF Inv, TypeOK, Task
<1>2. Status(db, j) = "QUEUED" /\ Task(j).status = "QUEUED"  BY DEF Claim, Status, Task
<1>3. IsTask(f) /\ f.status = "RUNNING"  BY <1>1, <1>2 DEF IsTask, TaskRecords, Live
<1>4. db' = SetTask(db, j, f) /\ UNCHANGED <<files, made, cut, hand, told>>
  BY DEF Claim, Commit, KeepFiles, KeepRest
<1> HIDE DEF f
<1>5. Status(db, j) \in Live /\ f.status \in Live  BY <1>2, <1>3 DEF Live
<1>6. /\ IsTables(db') /\ SameRefs(db, db') /\ Retasked(db, db', j, f)
      /\ Tasks(db') = Tasks(db) /\ Needed(db') \subseteq files' /\ Tidy(db', files', made')
      /\ \A k \in Handlers : IsHand(hand[k], db') /\ Fits(hand[k], db', files', made')
  BY <1>3, <1>4, <1>5, RetaskedKeeps
<1>7. TypeOK'  BY <1>1, <1>4, <1>6 DEF TypeOK
<1>8. \A g \in DOMAIN db.groups :
         /\ GroupIsLive(db, g) => GroupIsLive(db', g) \/ Swept(db', g)
         /\ Swept(db, g) => Swept(db', g)
  BY <1>1, <1>5, <1>6, RetaskedGroups
<1> QED  BY <1>4, <1>6, <1>7, <1>8, StillMoves

LEMMA SweepKeeps == ASSUME Inv, NEW j \in Tasks(db), Sweep(j) PROVE Inv'
<1>1. TypeOK /\ IsTables(db) /\ IsTask(Task(j))  BY TaskIs DEF Inv, TypeOK, Task
<1>2. Status(db, j) = "RUNNING" /\ Task(j).status = "RUNNING"  BY DEF Sweep, Status, Task
<1>3. \E f : /\ IsTask(f) /\ db' = SetTask(db, j, f)
             /\ f.status \in Live \/ f.end = "sweep"
  <2>1. CASE Commit(SetTask(db, j, [Task(j) EXCEPT !.status = "QUEUED"]))
    <3> DEFINE f == [Task(j) EXCEPT !.status = "QUEUED"]
    <3>1. IsTask(f) /\ f.status \in Live  BY <1>1, <1>2 DEF IsTask, TaskRecords, Live
    <3>2. db' = SetTask(db, j, f)  BY <2>1 DEF Commit
    <3> QED  BY <3>1, <3>2
  <2>2. CASE Commit(SetTask(db, j, [Task(j) EXCEPT !.status = "FAILED", !.end = "sweep"]))
    <3> DEFINE f == [Task(j) EXCEPT !.status = "FAILED", !.end = "sweep"]
    <3>1. IsTask(f) /\ f.end = "sweep"  BY <1>1, <1>2 DEF IsTask, TaskRecords, Live
    <3>2. db' = SetTask(db, j, f)  BY <2>2 DEF Commit
    <3> QED  BY <3>1, <3>2
  <2> QED  BY <2>1, <2>2 DEF Sweep
<1>4. PICK f : /\ IsTask(f) /\ db' = SetTask(db, j, f)
               /\ f.status \in Live \/ f.end = "sweep"
  BY <1>3
<1>5. UNCHANGED <<files, made, cut, hand, told>>  BY DEF Sweep, KeepFiles, KeepRest
<1>6. Status(db, j) \in Live  BY <1>2 DEF Live
<1>7. /\ IsTables(db') /\ SameRefs(db, db') /\ Retasked(db, db', j, f)
      /\ Tasks(db') = Tasks(db) /\ Needed(db') \subseteq files' /\ Tidy(db', files', made')
      /\ \A k \in Handlers : IsHand(hand[k], db') /\ Fits(hand[k], db', files', made')
  BY <1>4, <1>5, <1>6, RetaskedKeeps
<1>8. TypeOK'  BY <1>1, <1>5, <1>7 DEF TypeOK
<1>9. \A g \in DOMAIN db.groups :
         /\ GroupIsLive(db, g) => GroupIsLive(db', g) \/ Swept(db', g)
         /\ Swept(db, g) => Swept(db', g)
  BY <1>1, <1>4, <1>6, <1>7, RetaskedGroups
<1> QED  BY <1>5, <1>7, <1>8, <1>9, StillMoves

\* Results on disk are nobody's staged files.
LEMMA OutputsKeep ==
    ASSUME Inv, UNCHANGED <<db, files, made, cut, hand, told>>
    PROVE  Inv'
BY DEF Inv, TypeOK
-----------------------------------------------------------------------------
(***************************************************************************)
(* Requests that end tasks and release their files.                        *)
(***************************************************************************)
\* What is left of a group's files has been dealt with, or request r will.
Settled(d, fs, c, hs, r, g) ==
    LET left == d.groups[g].refs \cap fs IN
    left = {} \/ GroupIsLive(d, g) \/ Swept(d, g) \/ CutOff(c, hs, g) \/ Will(r, g, left)

LEMMA ReleaseMoves ==
    ASSUME Inv, NEW h \in Handlers, NEW r, Step(h, r), TypeOK',
           DOMAIN db'.groups = DOMAIN db.groups,
           \A g \in DOMAIN db.groups : db'.groups[g].refs = db.groups[g].refs,
           files' \subseteq files,
           Tidy(db', files', made'), Needed(db') \subseteq files',
           Fits(r, db', files', made'), r.pc \notin {"record", "insert"} \cup Staging,
           \A k \in Handlers : k # h => Fits(hand[k], db', files', made'),
           \A g \in DOMAIN db.groups :
              /\ (GroupIsLive(db, g) \/ CutOff(cut, hand, g)
                    \/ Will(hand[h], g, db.groups[g].refs \cap files))
                 => Settled(db', files', cut', hand', r, g)
              /\ Swept(db, g) => Swept(db', g)
    PROVE  Inv'
<1>1. hand'[h] = r /\ \A k \in Handlers : k # h => hand'[k] = hand[k]
  BY SteppedHands DEF Inv
<1>2. \A k \in Handlers : k # h => Apart(r, hand[k])  BY DEF Apart
<1>3. Covered(db', files', hand', cut')
  <2> SUFFICES ASSUME NEW g \in DOMAIN db.groups,
                      db'.groups[g].refs \cap files' # {}, ~GroupIsLive(db', g),
                      ~Swept(db', g), ~CutOff(cut', hand', g)
               PROVE  \E k \in Handlers : Will(hand'[k], g, db'.groups[g].refs \cap files')
    BY DEF Covered
  <2>1. CASE Settled(db', files', cut', hand', r, g)
    <3>1. Will(hand'[h], g, db'.groups[g].refs \cap files')  BY <1>1, <2>1 DEF Settled
    <3> QED  BY <3>1
  <2>2. CASE ~Settled(db', files', cut', hand', r, g)
    <3>1. /\ ~GroupIsLive(db, g) /\ ~CutOff(cut, hand, g) /\ ~Swept(db, g)
          /\ ~Will(hand[h], g, db.groups[g].refs \cap files)
          /\ db.groups[g].refs \cap files # {}
      BY <2>2
    <3>2. PICK k \in Handlers : Will(hand[k], g, db.groups[g].refs \cap files)
      BY <3>1 DEF Inv, Covered
    <3>3. hand'[k] = hand[k]  BY <1>1, <3>1, <3>2
    <3>4. Will(hand'[k], g, db'.groups[g].refs \cap files')  BY <3>2, <3>3 DEF Will
    <3> QED  BY <3>4
  <2> QED  BY <2>1, <2>2
<1> QED  BY <1>2, <1>3, Moves

\* No deletion begins or ends: a cut task that nobody handled, nobody handles.
LEMMA CutOffStays ==
    ASSUME TypeOK, NEW h \in Handlers, NEW r, Step(h, r), r.pc \notin Deleting, NEW g,
           CutOff(cut, hand, g), UNCHANGED cut
    PROVE  CutOff(cut', hand', g)
<1>1. hand'[h] = r /\ \A k \in Handlers : k # h => hand'[k] = hand[k]  BY SteppedHands
<1> QED  BY <1>1 DEF CutOff

LEMMA RetaskedLeavesLive ==
    ASSUME NEW d, NEW e, IsTables(d), NEW j \in Tasks(d), NEW f, Retasked(d, e, j, f),
           Status(d, j) \in Live, NEW g \in DOMAIN d.groups, GroupIsLive(d, g), g # j[1]
    PROVE  GroupIsLive(e, g)
  BY RetaskedGroups

\* A report or a cancellation ends task j, and request r is to release it.
LEMMA EndMoves ==
    ASSUME Inv, NEW h \in Handlers, NEW r, Step(h, r), NEW j \in Tasks(db), NEW f, IsTask(f),
           db' = SetTask(db, j, f), Status(db, j) \in Live, UNCHANGED <<files, made, cut, told>>,
           r.pc \in {"cancel", "list"}, IsHand(r, db), j \in r.jobs,
           hand[h].pc \in {"idle", "cancel"},
           hand[h].pc = "cancel" => hand[h].jobs \subseteq r.jobs
    PROVE  Inv'
<1>1. TypeOK /\ IsTables(db)  BY DEF Inv, TypeOK
<1>2. /\ IsTables(db') /\ SameRefs(db, db') /\ Retasked(db, db', j, f)
      /\ Tasks(db') = Tasks(db) /\ Needed(db') \subseteq files' /\ Tidy(db', files', made')
      /\ \A q : IsHand(q, db) => IsHand(q, db')
      /\ \A k \in Handlers : IsHand(hand[k], db') /\ Fits(hand[k], db', files', made')
  BY RetaskedKeeps
<1>3. DOMAIN db'.groups = DOMAIN db.groups
      /\ \A g \in DOMAIN db.groups : db'.groups[g].refs = db.groups[g].refs
  BY <1>2 DEF SameRefs
<1>4. TypeOK'  BY <1>1, <1>2, <1>3, TypeMoves DEF TypeOK
<1>5. r.pc \notin Deleting /\ r.pc \notin {"record", "insert"} \cup Staging
  BY DEF Deleting, Staging
<1>6. Fits(r, db', files', made')  BY <1>5, PlainFits
<1>7. ASSUME NEW g \in DOMAIN db.groups,
             GroupIsLive(db, g) \/ CutOff(cut, hand, g)
               \/ Will(hand[h], g, db.groups[g].refs \cap files)
      PROVE  Settled(db', files', cut', hand', r, g)
  <2>1. CASE GroupIsLive(db, g)
    <3>1. GroupIsLive(db', g) \/ g = j[1]  BY <1>1, <1>2, <2>1, RetaskedLeavesLive
    <3>2. g = j[1] => \A left : Will(r, g, left)  BY DEF Will
    <3> QED  BY <3>1, <3>2 DEF Settled
  <2>2. CASE CutOff(cut, hand, g)
    <3>1. CutOff(cut', hand', g)  BY <1>1, <1>5, <2>2, CutOffStays
    <3> QED  BY <3>1 DEF Settled
  <2>3. CASE Will(hand[h], g, db.groups[g].refs \cap files)
    <3>1. hand[h].pc = "cancel" /\ \E i \in hand[h].jobs : i[1] = g
      BY <2>3 DEF Will, Deleting
    <3>2. \A left : Will(r, g, left)  BY <3>1 DEF Will
    <3> QED  BY <3>2 DEF Settled
  <2> QED  BY <1>7, <2>1, <2>2, <2>3
<1>8. \A g \in DOMAIN db.groups : Swept(db, g) => Swept(db', g)
  BY <1>1, <1>2, RetaskedGroups
<1> QED  BY <1>2, <1>3, <1>4, <1>5, <1>6, <1>7, <1>8, ReleaseMoves

LEMMA ListIs ==
    ASSUME NEW d, NEW S, S # {}, S \subseteq Tasks(d)
    PROVE  LET r == [pc |-> "list", jobs |-> S] IN
           IsHand(r, d) /\ r.pc = "list" /\ r.jobs = S
<1> DEFINE r == [pc |-> "list", jobs |-> S]
<1>1. r.pc = "list" /\ r.jobs = S /\ DOMAIN r = {"pc", "jobs"}  OBVIOUS
<1> HIDE DEF r
<1>2. IsHand(r, d)  BY <1>1 DEF IsHand
<1> QED  BY <1>1, <1>2 DEF r

LEMMA ReportKeeps ==
    ASSUME Inv, NEW h \in Handlers, NEW j \in Tasks(db), Report(h, j)
    PROVE  Inv'
<1> DEFINE r == [pc |-> "list", jobs |-> {j}]
<1>1. TypeOK /\ IsTables(db) /\ IsTask(Task(j))  BY TaskIs DEF Inv, TypeOK, Task
<1>2. IsHand(r, db) /\ r.pc = "list" /\ r.jobs = {j}  BY ListIs
<1>3. /\ Step(h, r) /\ hand[h].pc = "idle" /\ UNCHANGED <<files, made, cut, told>>
  BY DEF Report, Begins, At, KeepFiles, KeepRest
<1> HIDE DEF r
<1>4. CASE KeepTables
  <2>1. SameTasks(db, db') /\ IsTables(db') /\ IsHand(r, db')
    BY <1>1, <1>2, <1>4, TablesUnchanged DEF KeepTables
  <2> QED  BY <1>1, <1>2, <1>3, <2>1, PlainMoves DEF Releasing, Deleting, Staging, TypeOK
<1>5. CASE ~KeepTables
  <2>1. Status(db, j) = "RUNNING" /\ Task(j).status = "RUNNING"
    BY <1>5 DEF Report, Status, Task
  <2>2. PICK end \in {"COMPLETED", "FAILED"} :
           db' = SetTask(db, j, [Task(j) EXCEPT !.status = end, !.end = "report"])
    BY <1>5 DEF Report, Commit
  <2> DEFINE f == [Task(j) EXCEPT !.status = end, !.end = "report"]
  <2>3. IsTask(f)  BY <1>1, <2>1 DEF IsTask, TaskRecords, Live
  <2>4. db' = SetTask(db, j, f)  BY <2>2
  <2> HIDE DEF f
  <2>5. Status(db, j) \in Live  BY <2>1 DEF Live
  <2> QED  BY <1>2, <1>3, <2>3, <2>4, <2>5, EndMoves
<1> QED  BY <1>4, <1>5

\* A request for some tasks of one group.
LEMMA CancelKeeps ==
    ASSUME Inv, NEW h \in Handlers, NEW S, S \subseteq Tasks(db), Cancel(h, S)
    PROVE  Inv'
<1> DEFINE r == [pc |-> "cancel", left |-> S, jobs |-> S]
<1>1. r.pc = "cancel" /\ r.left = S /\ r.jobs = S /\ DOMAIN r = {"pc", "left", "jobs"}
  OBVIOUS
<1>2. /\ Step(h, r) /\ hand[h].pc = "idle" /\ UNCHANGED <<db, files, made, cut, told>>
  BY DEF Cancel, Begins, At, KeepTables, KeepFiles, KeepRest
<1> HIDE DEF r
<1>3. IsHand(r, db)  BY <1>1 DEF IsHand
<1>4. TypeOK /\ SameTasks(db, db') /\ IsTables(db')  BY <1>2, TablesUnchanged DEF Inv
<1> QED  BY <1>1, <1>2, <1>3, <1>4, PlainMoves DEF Releasing, Deleting, Staging, TypeOK

\* A cancelled request for some tasks goes on to the next.
LEMMA CancelTaskKeeps == ASSUME Inv, NEW h \in Handlers, CancelTask(h) PROVE Inv'
<1> DEFINE j == CHOOSE j \in hand[h].left : TRUE
           r == [hand[h] EXCEPT !.left = @ \ {j}]
<1>1. TypeOK /\ IsTables(db) /\ IsHand(hand[h], db)  BY DEF Inv, TypeOK
<1>2. /\ hand[h].pc = "cancel" /\ hand[h].left # {} /\ Step(h, r)
      /\ UNCHANGED <<files, made, cut, told>>
  BY DEF CancelTask, At, KeepFiles, KeepRest
<1>3. /\ DOMAIN hand[h] = {"pc", "left", "jobs"} /\ hand[h].left \subseteq hand[h].jobs
      /\ hand[h].jobs \subseteq Tasks(db)
  BY <1>1, <1>2 DEF IsHand, Deleting, Uploading, Staging
<1>4. /\ r.pc = "cancel" /\ r.left \subseteq hand[h].left /\ r.jobs = hand[h].jobs
      /\ DOMAIN r = {"pc", "left", "jobs"}
  BY <1>2, <1>3
<1>5. j \in hand[h].left  BY <1>2
<1>6. \/ Status(db, j) = "QUEUED" /\ db' = SetTask(db, j, [Task(j) EXCEPT
              !.status = "FAILED", !.cancelled = TRUE, !.end = "cancel"])
      \/ Status(db, j) = "RUNNING" /\ db' = SetTask(db, j, [Task(j) EXCEPT !.cancelled = TRUE])
      \/ UNCHANGED db
  BY DEF CancelTask, Commit, KeepTables
<1> HIDE DEF r, j
<1>7. IsHand(r, db)  BY <1>3, <1>4 DEF IsHand
<1>8. j \in Tasks(db) /\ j \in r.jobs /\ IsTask(Task(j)) /\ Task(j).status = Status(db, j)
  BY <1>1, <1>3, <1>4, <1>5, TaskIs DEF Task, Status
<1>9. CASE UNCHANGED db
  <2>1. IsHand(r, db') /\ IsTables(db') /\ TypeOK'
    <3>1. IsHand(r, db') /\ IsTables(db') /\ Tasks(db') = Tasks(db)
          /\ DOMAIN db'.groups = DOMAIN db.groups
      BY <1>1, <1>7, <1>9
    <3> QED  BY <1>1, <1>2, <3>1, TypeMoves DEF TypeOK
  <2>2. r.pc \notin Deleting /\ r.pc \notin {"record", "insert"} \cup Staging
    BY <1>4 DEF Deleting, Staging
  <2>3. Fits(r, db', files', made')  BY <2>2, PlainFits
  <2>4. ASSUME NEW g \in DOMAIN db.groups,
               GroupIsLive(db, g) \/ CutOff(cut, hand, g)
                 \/ Will(hand[h], g, db.groups[g].refs \cap files)
        PROVE  Settled(db', files', cut', hand', r, g)
    <3>1. GroupIsLive(db, g) => GroupIsLive(db', g)  BY <1>9
    <3>2. CutOff(cut, hand, g) => CutOff(cut', hand', g)
      BY <1>1, <1>2, <2>2, CutOffStays
    <3>3. Will(hand[h], g, db.groups[g].refs \cap files) => \A left : Will(r, g, left)
      BY <1>2, <1>4 DEF Will, Deleting
    <3> QED  BY <2>4, <3>1, <3>2, <3>3 DEF Settled
  <2> QED  BY <1>2, <1>9, <2>1, <2>2, <2>3, <2>4, ReleaseMoves DEF Inv
<1>10. ASSUME NEW f, IsTask(f), db' = SetTask(db, j, f), Status(db, j) \in Live
       PROVE  Inv'
  BY <1>2, <1>4, <1>7, <1>8, <1>10, EndMoves
<1>11. CASE Status(db, j) = "QUEUED" /\ db' = SetTask(db, j, [Task(j) EXCEPT
              !.status = "FAILED", !.cancelled = TRUE, !.end = "cancel"])
  <2> DEFINE f == [Task(j) EXCEPT !.status = "FAILED", !.cancelled = TRUE, !.end = "cancel"]
  <2>1. IsTask(f)  BY <1>8, <1>11 DEF IsTask, TaskRecords, Live
  <2>2. db' = SetTask(db, j, f) /\ Status(db, j) \in Live  BY <1>11 DEF Live
  <2> QED  BY <1>10, <2>1, <2>2
<1>12. CASE Status(db, j) = "RUNNING" /\ db' = SetTask(db, j, [Task(j) EXCEPT !.cancelled = TRUE])
  <2> DEFINE f == [Task(j) EXCEPT !.cancelled = TRUE]
  <2>1. IsTask(f)  BY <1>8, <1>12 DEF IsTask, TaskRecords, Live
  <2>2. db' = SetTask(db, j, f) /\ Status(db, j) \in Live  BY <1>12 DEF Live
  <2> QED  BY <1>10, <2>1, <2>2
<1> QED  BY <1>6, <1>9, <1>11, <1>12

LEMMA CancelDoneKeeps == ASSUME Inv, NEW h \in Handlers, CancelDone(h) PROVE Inv'
<1> DEFINE asked == {i[1] : i \in hand[h].jobs}
           ended == {i \in Tasks(db) : Status(db, i) \notin Live
                        /\ (i \in hand[h].jobs \/ (i[1] \in asked /\ db.groups[i[1]].app))}
           listed == [pc |-> "list", jobs |-> ended]
<1>1. /\ hand[h].pc = "cancel" /\ UNCHANGED <<db, files, made, cut, told>>
      /\ Step(h, IF ended = {} THEN Idle ELSE listed)
  BY DEF CancelDone, At, KeepTables, KeepFiles, KeepRest
<1>2. TypeOK /\ IsTables(db) /\ IsHand(hand[h], db)  BY DEF Inv, TypeOK
<1>3. hand[h].jobs \subseteq Tasks(db)  BY <1>1, <1>2 DEF IsHand, Deleting, Uploading, Staging
<1>4. ended # {} => IsHand(listed, db) /\ listed.pc = "list" /\ listed.jobs = ended
  <2>1. ended \subseteq Tasks(db)  OBVIOUS
  <2> HIDE DEF ended
  <2> QED  BY <2>1, ListIs
<1>5. \A i \in hand[h].jobs : Status(db, i) \notin Live => i \in ended  BY <1>3
<1> HIDE DEF ended, listed
<1>6. PICK r : /\ Step(h, r) /\ IsHand(r, db)
               /\ \/ r = Idle /\ ended = {}
                  \/ r.pc = "list" /\ r.jobs = ended
  BY <1>1, <1>4, IdleIs
<1>7. r.pc \in {"idle", "list"}  BY <1>6, IdleIs
<1>8. r.pc \notin Deleting /\ r.pc \notin {"record", "insert"} \cup Staging
  BY <1>7 DEF Deleting, Staging
<1>9. /\ TypeOK' /\ Fits(r, db', files', made')
      /\ IsHand(r, db') /\ IsTables(db')
  <2>1. IsHand(r, db') /\ IsTables(db') /\ Tasks(db') = Tasks(db)
        /\ DOMAIN db'.groups = DOMAIN db.groups
    BY <1>1, <1>2, <1>6
  <2>2. TypeOK'  BY <1>1, <1>2, <1>6, <2>1, TypeMoves DEF TypeOK
  <2> QED  BY <1>8, <2>1, <2>2, PlainFits
<1>10. ASSUME NEW g \in DOMAIN db.groups,
              GroupIsLive(db, g) \/ CutOff(cut, hand, g)
                \/ Will(hand[h], g, db.groups[g].refs \cap files)
       PROVE  Settled(db', files', cut', hand', r, g)
  <2>1. CASE GroupIsLive(db, g)
    <3>1. GroupIsLive(db', g)  BY <1>1, <2>1
    <3> QED  BY <3>1 DEF Settled
  <2>2. CASE CutOff(cut, hand, g)
    <3>1. CutOff(cut', hand', g)  BY <1>1, <1>2, <1>6, <1>8, <2>2, CutOffStays
    <3> QED  BY <3>1 DEF Settled
  <2>3. CASE ~GroupIsLive(db, g) /\ Will(hand[h], g, db.groups[g].refs \cap files)
    <3>1. PICK i \in hand[h].jobs : i[1] = g  BY <1>1, <2>3 DEF Will, Deleting
    <3>2. Status(db, i) \notin Live
      <4>1. i[2] \in DOMAIN db.groups[g].tasks  BY <1>2, <1>3, <3>1, TaskIs
      <4> QED  BY <2>3, <3>1, <4>1 DEF GroupIsLive, Status
    <3>3. i \in ended /\ r.pc = "list" /\ i \in r.jobs  BY <1>5, <1>6, <3>1, <3>2
    <3>4. \A left : Will(r, g, left)  BY <3>1, <3>3 DEF Will
    <3> QED  BY <3>4 DEF Settled
  <2> QED  BY <1>10, <2>1, <2>2, <2>3
<1>11. \A g \in DOMAIN db.groups : Swept(db, g) => Swept(db', g)  BY <1>1
<1> QED  BY <1>1, <1>6, <1>8, <1>9, <1>10, <1>11, ReleaseMoves DEF Inv

\* What is releasable is needed by nobody.
LEMMA ReleasableIs ==
    ASSUME NEW d, NEW j \in Tasks(d), Status(d, j) \notin Live
    PROVE  /\ Releasable(d, j) \subseteq Refs(d, j)
           /\ Releasable(d, j) \cap Needed(d) = {}
<1>1. \A u : u \in StillNeeded(d, j) <=>
              \E k \in Tasks(d) \ {j} : Status(d, k) \in Live /\ u \in Refs(d, k)
  BY DEF StillNeeded
<1>2. \A u : u \in Needed(d) => u \in StillNeeded(d, j)  BY <1>1, AboutNeeded
<1> QED  BY <1>2 DEF Releasable

LEMMA UnlinkIs ==
    ASSUME NEW S, NEW j, NEW drop
    PROVE  LET r == [pc |-> "unlink", jobs |-> S, job |-> j, drop |-> drop] IN
           /\ r.pc = "unlink" /\ r.jobs = S /\ r.job = j /\ r.drop = drop
           /\ DOMAIN r = {"pc", "jobs", "job", "drop"}
OBVIOUS

LEMMA ListKeeps == ASSUME Inv, Ended, NEW h \in Handlers, List(h) PROVE Inv'
<1> DEFINE j == CHOOSE j \in hand[h].jobs : TRUE
           r == [pc |-> "unlink", jobs |-> hand[h].jobs, job |-> j, drop |-> Releasable(db, j)]
<1>1. hand[h].pc = "list" /\ Step(h, r) /\ UNCHANGED <<db, files, made, cut, told>>
  BY DEF List, At, KeepTables, KeepFiles, KeepRest
<1>2. TypeOK /\ IsTables(db) /\ IsHand(hand[h], db) /\ Tidy(db, files, made)
  BY DEF Inv, TypeOK
<1>3. hand[h].jobs # {} /\ hand[h].jobs \subseteq Tasks(db)
  BY <1>1, <1>2 DEF IsHand, Deleting, Uploading, Staging
<1>4. j \in hand[h].jobs  BY <1>3
<1>5. /\ r.pc = "unlink" /\ r.jobs = hand[h].jobs /\ r.job = j /\ r.drop = Releasable(db, j)
      /\ DOMAIN r = {"pc", "jobs", "job", "drop"}
  BY UnlinkIs
<1> HIDE DEF j, r
<1>6. j \in Tasks(db) /\ Status(db, j) \notin Live  BY <1>1, <1>3, <1>4 DEF Ended
<1>7. r.drop \subseteq Refs(db, j) /\ r.drop \cap Needed(db) = {}  BY <1>5, <1>6, ReleasableIs
<1>8. IsHand(r, db) /\ r.pc \notin {"record", "insert"} \cup Staging
  BY <1>3, <1>4, <1>5 DEF IsHand, Deleting, Staging
<1>9. Fits(r, db, files, made)  BY <1>5, <1>7, <1>8 DEF Fits
<1>10. TypeOK'
  <2>1. IsHand(r, db') /\ IsTables(db') /\ Tasks(db') = Tasks(db)
        /\ DOMAIN db'.groups = DOMAIN db.groups
    BY <1>1, <1>2, <1>8
  <2> QED  BY <1>1, <1>2, <2>1, TypeMoves DEF TypeOK
<1>11. ASSUME NEW g \in DOMAIN db.groups, ~GroupIsLive(db, g),
              db.groups[g].refs \cap files # {}, \E i \in hand[h].jobs : i[1] = g
       PROVE  Will(r, g, db.groups[g].refs \cap files)
  <2>1. CASE \E i \in hand[h].jobs \ {j} : i[1] = g
    BY <1>5, <2>1 DEF Will, Deleting
  <2>2. CASE j[1] = g
    <3>1. db.groups[g].refs \cap StillNeeded(db, j) = {}
      <4> SUFFICES ASSUME NEW u \in db.groups[g].refs, u \in StillNeeded(db, j)
                   PROVE  FALSE
        OBVIOUS
      <4>1. PICK k \in Tasks(db) : Status(db, k) \in Live /\ u \in Refs(db, k)
        BY DEF StillNeeded
      <4>2. k[1] \in DOMAIN db.groups /\ k[2] \in DOMAIN db.groups[k[1]].tasks
        BY <1>2, TaskIs
      <4>3. k[1] # g  BY <1>11, <4>1, <4>2 DEF GroupIsLive, Status
      <4>4. db.groups[k[1]].refs \cap db.groups[g].refs = {}  BY <1>2, <4>2, <4>3 DEF Tidy
      <4> QED  BY <4>1, <4>4 DEF Refs
    <3>2. db.groups[g].refs \cap files \subseteq r.drop
      BY <1>5, <2>2, <3>1 DEF Releasable, Refs
    <3> QED  BY <1>5, <2>2, <3>2 DEF Will
  <2> QED  BY <1>4, <1>11, <2>1, <2>2
<1>12. ASSUME NEW g \in DOMAIN db.groups,
              GroupIsLive(db, g) \/ CutOff(cut, hand, g)
                \/ Will(hand[h], g, db.groups[g].refs \cap files)
       PROVE  Settled(db', files', cut', hand', r, g)
  <2> SUFFICES ASSUME ~GroupIsLive(db, g), db.groups[g].refs \cap files # {}
               PROVE  CutOff(cut', hand', g) \/ Will(r, g, db.groups[g].refs \cap files)
    BY <1>1 DEF Settled
  <2>1. CASE \E i \in hand[h].jobs : i[1] = g  BY <1>11, <2>1
  <2>2. CASE CutOff(cut, hand, g) /\ ~\E i \in hand[h].jobs : i[1] = g
    <3>1. PICK i \in cut : i[1] = g /\ \A k \in Handlers : hand[k].pc \in Deleting => hand[k].job # i
      BY <2>2 DEF CutOff
    <3>2. i # j  BY <1>4, <2>2, <3>1
    <3>3. \A k \in Handlers : hand'[k].pc \in Deleting => hand'[k].job # i
      BY <1>1, <1>2, <1>5, <3>1, <3>2, SteppedHands
    <3> QED  BY <1>1, <3>1, <3>3 DEF CutOff
  <2>3. CASE Will(hand[h], g, db.groups[g].refs \cap files)
    <3>1. \E i \in hand[h].jobs : i[1] = g  BY <1>1, <2>3 DEF Will, Deleting
    <3> QED  BY <2>1, <3>1
  <2> QED  BY <1>12, <2>1, <2>2, <2>3
<1>13. \A g \in DOMAIN db.groups : Swept(db, g) => Swept(db', g)  BY <1>1
<1> QED  BY <1>1, <1>8, <1>9, <1>10, <1>12, <1>13, ReleaseMoves DEF Inv

LEMMA NeededIsRefs ==
    ASSUME NEW d, IsTables(d) PROVE Needed(d) \subseteq AllRefs(d)
<1> SUFFICES ASSUME NEW u \in Needed(d) PROVE u \in AllRefs(d)  OBVIOUS
<1>1. PICK j \in Tasks(d) : u \in Refs(d, j)  BY AboutNeeded
<1>2. j[1] \in DOMAIN d.groups  BY TaskIs
<1> QED  BY <1>1, <1>2 DEF AllRefs, Refs

\* Files that groups name and nobody needs are deleted: nobody notices.
LEMMA FitsLess ==
    ASSUME NEW d, NEW fs, NEW gs, NEW m, gs \subseteq fs, fs \subseteq gs \cup AllRefs(d),
           NEW r, Fits(r, d, fs, m)
    PROVE  Fits(r, d, gs, m)
<1>1. r.pc \in Staging => \A u \in r.hold.paths : u \in fs => u \in gs  BY DEF Fits
<1>2. r.pc = "copy" => r.pc \in Staging /\ Min(r.hold.paths) \in r.hold.paths
  BY DEF Fits, Staging
<1>3. r.pc = "create" => r.pc \in Staging  BY DEF Staging
<1> QED  BY <1>1, <1>2, <1>3 DEF Fits

LEMMA UnlinkKeeps == ASSUME Inv, NEW h \in Handlers, Unlink(h) PROVE Inv'
<1> DEFINE r == [hand[h] EXCEPT !.pc = "forget"]
           drop == hand[h].drop
<1>1. /\ hand[h].pc = "unlink" /\ Step(h, r) /\ UNCHANGED <<db, made, cut, told>>
      /\ files' = files \ drop
  BY DEF Unlink, At, KeepTables, KeepRest
<1>2. TypeOK /\ IsTables(db) /\ IsHand(hand[h], db) /\ Tidy(db, files, made)
      /\ Fits(hand[h], db, files, made) /\ Needed(db) \subseteq files
  BY DEF Inv, TypeOK
<1>3. /\ DOMAIN hand[h] = {"pc", "jobs", "job", "drop"} /\ hand[h].job \in hand[h].jobs
      /\ hand[h].jobs \subseteq Tasks(db)
  BY <1>1, <1>2 DEF IsHand, Deleting, Uploading, Staging
<1>4. /\ r.pc = "forget" /\ r.jobs = hand[h].jobs /\ r.job = hand[h].job /\ r.drop = drop
      /\ DOMAIN r = {"pc", "jobs", "job", "drop"}
  BY <1>3
<1> HIDE DEF r
<1>5. hand[h].pc \in Deleting  BY <1>1 DEF Deleting
<1>6. drop \subseteq Refs(db, hand[h].job) /\ drop \cap Needed(db) = {}
  BY <1>1, <1>2, <1>5 DEF Fits
<1>7. drop \subseteq AllRefs(db)
  <2>1. hand[h].job[1] \in DOMAIN db.groups  BY <1>2, <1>3, TaskIs
  <2> QED  BY <1>6, <2>1 DEF AllRefs, Refs
<1> HIDE DEF drop
<1>8. files' \subseteq files /\ files \subseteq files' \cup AllRefs(db)  BY <1>1, <1>7
<1>9. IsHand(r, db) /\ r.pc \notin {"record", "insert"} \cup Staging
  BY <1>3, <1>4 DEF IsHand, Deleting, Staging
<1>10. Fits(r, db, files', made)
  BY <1>4, <1>6, <1>9 DEF Fits
<1>11. TypeOK'
  <2>1. IsHand(r, db') /\ IsTables(db') /\ Tasks(db') = Tasks(db)
        /\ DOMAIN db'.groups = DOMAIN db.groups
    BY <1>1, <1>2, <1>9
  <2> QED  BY <1>1, <1>2, <2>1, TypeMoves DEF TypeOK
<1>12. Tidy(db, files', made)  BY <1>2, <1>8 DEF Tidy
<1>13. Needed(db) \subseteq files'  BY <1>1, <1>2, <1>6
<1>14. \A k \in Handlers : Fits(hand[k], db, files', made)
  BY <1>8, FitsLess DEF Inv
<1>15. ASSUME NEW g \in DOMAIN db.groups,
              GroupIsLive(db, g) \/ CutOff(cut, hand, g)
                \/ Will(hand[h], g, db.groups[g].refs \cap files)
       PROVE  Settled(db', files', cut', hand', r, g)
  <2>1. CASE GroupIsLive(db, g)
    <3>1. GroupIsLive(db', g)  BY <1>1, <2>1
    <3> QED  BY <3>1 DEF Settled
  <2>2. CASE CutOff(cut, hand, g)
    <3>1. PICK i \in cut : i[1] = g /\ \A k \in Handlers : hand[k].pc \in Deleting => hand[k].job # i
      BY <2>2 DEF CutOff
    <3>2. \A k \in Handlers : hand'[k].pc \in Deleting => hand'[k].job # i
      BY <1>1, <1>2, <1>4, <1>5, <3>1, SteppedHands
    <3>3. CutOff(cut', hand', g)  BY <1>1, <3>1, <3>2 DEF CutOff
    <3> QED  BY <3>3 DEF Settled
  <2>3. CASE Will(hand[h], g, db.groups[g].refs \cap files)
    <3>1. \/ \E i \in hand[h].jobs \ {hand[h].job} : i[1] = g
          \/ db.groups[g].refs \cap files \subseteq drop
      BY <1>1, <2>3 DEF Will, drop
    <3>2. (\E i \in hand[h].jobs \ {hand[h].job} : i[1] = g) => \A left : Will(r, g, left)
      BY <1>4 DEF Will, Deleting
    <3>3. db.groups[g].refs \cap files \subseteq drop => db'.groups[g].refs \cap files' = {}
      BY <1>1
    <3> QED  BY <3>1, <3>2, <3>3 DEF Settled
  <2> QED  BY <1>15, <2>1, <2>2, <2>3
<1>16. \A g \in DOMAIN db.groups : Swept(db, g) => Swept(db', g)  BY <1>1
<1> QED  BY <1>1, <1>8, <1>9, <1>10, <1>11, <1>12, <1>13, <1>14, <1>15, <1>16, ReleaseMoves

LEMMA UploadsOnly ==
    ASSUME NEW d, IsTables(d), NEW S
    PROVE  LET e == [d EXCEPT !.uploads = S] IN
           /\ IsTables(e) /\ e.groups = d.groups /\ e.holds = d.holds /\ e.uploads = S
           /\ e.inputs = d.inputs
<1> DEFINE e == [d EXCEPT !.uploads = S]
<1>1. /\ DOMAIN e = DOMAIN d /\ e.groups = d.groups /\ e.holds = d.holds /\ e.uploads = S
      /\ e.inputs = d.inputs
  BY DEF IsTables
<1> HIDE DEF e
<1>2. IsTables(e)  BY <1>1 DEF IsTables
<1> QED  BY <1>1, <1>2 DEF e

LEMMA ForgetKeeps == ASSUME Inv, NEW h \in Handlers, Forget(h) PROVE Inv'
<1> DEFINE left == hand[h].jobs \ {hand[h].job}
           listed == [pc |-> "list", jobs |-> left]
<1>1. /\ hand[h].pc = "forget" /\ UNCHANGED <<files, made, told>>
      /\ db' = [db EXCEPT !.uploads = db.uploads \ hand[h].drop]
      /\ cut' = cut \ {hand[h].job}
      /\ Step(h, IF left = {} THEN Idle ELSE listed)
  BY DEF Forget, At, Commit, KeepFiles
<1>2. TypeOK /\ IsTables(db) /\ IsHand(hand[h], db) /\ Tidy(db, files, made)
      /\ Needed(db) \subseteq files /\ cut \subseteq Tasks(db)
  BY DEF Inv, TypeOK
<1>3. hand[h].job \in hand[h].jobs /\ hand[h].jobs \subseteq Tasks(db)
  BY <1>1, <1>2 DEF IsHand, Deleting, Uploading, Staging
<1>4. /\ IsTables(db') /\ db'.groups = db.groups /\ db'.holds = db.holds
      /\ db'.uploads \subseteq db.uploads
  BY <1>1, <1>2, UploadsOnly
<1>5. /\ Tasks(db') = Tasks(db) /\ AllRefs(db') = AllRefs(db) /\ Needed(db') = Needed(db)
      /\ \A g : GroupIsLive(db', g) = GroupIsLive(db, g) /\ Swept(db', g) = Swept(db, g)
      /\ \A j : Refs(db', j) = Refs(db, j)
  BY <1>4, SameGroupsSame
<1>6. left # {} => IsHand(listed, db') /\ listed.pc = "list" /\ listed.jobs = left
  <2>1. left \subseteq Tasks(db')  BY <1>3, <1>5
  <2> HIDE DEF left
  <2> QED  BY <2>1, ListIs
<1> HIDE DEF listed
<1>7. PICK r : /\ Step(h, r) /\ IsHand(r, db')
               /\ \/ r = Idle /\ left = {}
                  \/ r.pc = "list" /\ r.jobs = left
  BY <1>1, <1>6, IdleIs
<1>8. r.pc \in {"idle", "list"}  BY <1>7, IdleIs
<1>9. r.pc \notin Deleting /\ r.pc \notin {"record", "insert"} \cup Staging
  BY <1>8 DEF Deleting, Staging
<1>10. TypeOK'
  <2>1. cut' \subseteq Tasks(db') /\ DOMAIN db'.groups = DOMAIN db.groups
    BY <1>1, <1>2, <1>4, <1>5
  <2> QED  BY <1>1, <1>2, <1>4, <1>5, <1>7, <2>1, TypeMoves DEF TypeOK
<1>11. Tidy(db', files', made')  BY <1>1, <1>2, <1>4, <1>5 DEF Tidy
<1>12. \A k \in Handlers : Fits(hand[k], db', files', made')
  <2> TAKE k \in Handlers
  <2>1. Fits(hand[k], db, files, made)  BY DEF Inv
  <2> QED  BY <1>1, <1>4, <1>5, <2>1 DEF Fits
<1>13. Fits(r, db', files', made')  BY <1>9, PlainFits
<1>14. ASSUME NEW g \in DOMAIN db.groups,
              GroupIsLive(db, g) \/ CutOff(cut, hand, g)
                \/ Will(hand[h], g, db.groups[g].refs \cap files)
       PROVE  Settled(db', files', cut', hand', r, g)
  <2>1. CASE GroupIsLive(db, g)  BY <1>5, <2>1 DEF Settled
  <2>2. CASE CutOff(cut, hand, g)
    <3>1. PICK i \in cut : i[1] = g /\ \A k \in Handlers : hand[k].pc \in Deleting => hand[k].job # i
      BY <2>2 DEF CutOff
    <3>2. i \in cut'  BY <1>1, <3>1 DEF Deleting
    <3>3. \A k \in Handlers : hand'[k].pc \in Deleting => hand'[k].job # i
      BY <1>2, <1>7, <1>9, <3>1, SteppedHands
    <3>4. CutOff(cut', hand', g)  BY <3>1, <3>2, <3>3 DEF CutOff
    <3> QED  BY <3>4 DEF Settled
  <2>3. CASE Will(hand[h], g, db.groups[g].refs \cap files)
    <3>1. \E i \in left : i[1] = g  BY <1>1, <2>3 DEF Will
    <3>2. r.pc = "list" /\ r.jobs = left  BY <1>7, <3>1
    <3>3. \A some : Will(r, g, some)  BY <3>1, <3>2 DEF Will
    <3> QED  BY <3>3 DEF Settled
  <2> QED  BY <1>14, <2>1, <2>2, <2>3
<1>15. \A g \in DOMAIN db.groups : Swept(db, g) => Swept(db', g)  BY <1>5
<1>16. DOMAIN db'.groups = DOMAIN db.groups
       /\ \A g \in DOMAIN db.groups : db'.groups[g].refs = db.groups[g].refs
  BY <1>4
<1>17. Needed(db') \subseteq files' /\ files' \subseteq files  BY <1>1, <1>2, <1>5
<1> QED
  BY <1>7, <1>9, <1>10, <1>11, <1>12, <1>13, <1>14, <1>15, <1>16, <1>17, ReleaseMoves
-----------------------------------------------------------------------------
(***************************************************************************)
(* Restarts, and the invariant.                                            *)
(***************************************************************************)
\* What the next start leaves in the tables.
LEMMA RestartIs ==
    ASSUME NEW d, IsTables(d), NEW ins, DOMAIN ins = Inputs
    PROVE  LET e == [d EXCEPT !.holds = {}, !.inputs = ins] IN
           /\ IsTables(e) /\ e.groups = d.groups /\ e.uploads = d.uploads /\ e.holds = {}
           /\ e.inputs = ins
<1> DEFINE e == [d EXCEPT !.holds = {}, !.inputs = ins]
<1>1. /\ DOMAIN e = DOMAIN d /\ e.groups = d.groups /\ e.uploads = d.uploads /\ e.holds = {}
      /\ e.inputs = ins
  BY DEF IsTables
<1> HIDE DEF e
<1>2. IsTables(e)  BY <1>1 DEF IsTables
<1> QED  BY <1>1, <1>2 DEF e

LEMMA RestartTables ==
    ASSUME TypeOK, Restart
    PROVE  IsTables(db') /\ db'.groups = db.groups /\ db'.uploads = db.uploads /\ db'.holds = {}
<1> DEFINE ins == [i \in Inputs |->
              IF db.inputs[i].state = "reserved" THEN [state |-> "none"] ELSE db.inputs[i]]
<1>1. db' = [db EXCEPT !.holds = {}, !.inputs = ins]  BY DEF Restart
<1>2. DOMAIN ins = Inputs  OBVIOUS
<1> HIDE DEF ins
<1> QED  BY <1>1, <1>2, RestartIs DEF TypeOK

LEMMA RestartKeeps == ASSUME Inv, Restart PROVE Inv'
<1> DEFINE held == UNION {x.paths : x \in db.holds}
<1>1. TypeOK /\ IsTables(db) /\ Tidy(db, files, made) /\ Needed(db) \subseteq files
      /\ cut \subseteq Tasks(db) /\ \A k \in Handlers : IsHand(hand[k], db)
  BY DEF Inv, TypeOK
<1>2. IsTables(db') /\ db'.groups = db.groups /\ db'.uploads = db.uploads /\ db'.holds = {}
  BY <1>1, RestartTables
<1>3. /\ Tasks(db') = Tasks(db) /\ AllRefs(db') = AllRefs(db) /\ Needed(db') = Needed(db)
      /\ \A g : GroupIsLive(db', g) = GroupIsLive(db, g) /\ Swept(db', g) = Swept(db, g)
  BY <1>2, SameGroupsSame
<1>4. /\ files' = files \ held /\ UNCHANGED <<made, told>>
      /\ hand' = [h \in Handlers |-> Idle]
      /\ cut' = cut \cup UNION {hand[h].jobs : h \in Active}
  BY DEF Restart
<1>5. \A u \in held : u \in Apps(made) /\ u \notin AllRefs(db)  BY <1>1 DEF Tidy
<1>6. \A u : u \in held <=> \E x \in db.holds : u \in x.paths  OBVIOUS
<1> HIDE DEF held
<1>7. \A h \in Active : hand[h].jobs \subseteq Tasks(db)
  BY <1>1 DEF Active, IsHand, Deleting, Uploading, Staging
<1>8. TypeOK'
  <2>1. cut' \subseteq Tasks(db')
    <3>1. UNION {hand[h].jobs : h \in Active} \subseteq Tasks(db)  BY <1>7
    <3> QED  BY <1>1, <1>3, <1>4, <3>1
  <2>2. DOMAIN hand' = Handlers /\ \A h \in Handlers : hand'[h] = Idle  BY <1>4
  <2> QED  BY <1>1, <1>2, <1>4, <2>1, <2>2, IdleIs DEF TypeOK
<1>9. Tidy(db', files', made')
  <2>1. files' \subseteq DOMAIN made'  BY <1>1, <1>4 DEF Tidy
  <2>2. db'.uploads \subseteq Members(made') /\ db'.uploads \subseteq files' \cup AllRefs(db')
    <3>1. Members(made) \cap Apps(made) = {}  BY DEF Members, Apps
    <3> QED  BY <1>1, <1>2, <1>3, <1>4, <1>5, <3>1 DEF Tidy
  <2>3. \A u \in files' \cap Apps(made') : u \in AllRefs(db')
    BY <1>1, <1>3, <1>4, <1>6 DEF Tidy
  <2> QED  BY <1>1, <1>2, <1>3, <1>4, <2>1, <2>2, <2>3 DEF Tidy
<1>10. Needed(db') \subseteq files'  BY <1>1, <1>3, <1>4, <1>5, NeededIsRefs
<1>11. \A h \in Handlers : hand'[h] = Idle  BY <1>4
<1>12. /\ \A h \in Handlers : Fits(hand'[h], db', files', made')
       /\ \A h, k \in Handlers : h # k => Apart(hand'[h], hand'[k])
  BY <1>11, IdleIs
<1>13. Covered(db', files', hand', cut')
  <2> SUFFICES ASSUME NEW g \in DOMAIN db.groups,
                      db.groups[g].refs \cap files' # {}, ~GroupIsLive(db, g), ~Swept(db, g)
               PROVE  CutOff(cut', hand', g)
    BY <1>2, <1>3 DEF Covered
  <2>1. \A h \in Handlers : hand'[h].pc \notin Deleting  BY <1>11, IdleIs DEF Deleting
  <2>2. db.groups[g].refs \cap files # {}  BY <1>4
  <2>3. CASE CutOff(cut, hand, g)
    <3>1. PICK i \in cut : i[1] = g  BY <2>3 DEF CutOff
    <3> QED  BY <1>4, <2>1, <3>1 DEF CutOff
  <2>4. CASE \E k \in Handlers : Will(hand[k], g, db.groups[g].refs \cap files)
    <3>1. PICK k \in Handlers : Will(hand[k], g, db.groups[g].refs \cap files)  BY <2>4
    <3>2. k \in Active  BY <3>1 DEF Will, Active, Deleting
    <3>3. hand[k].pc = "unlink" => hand[k].job \in hand[k].jobs
      BY <1>1 DEF IsHand, Deleting, Uploading, Staging
    <3>4. \E i \in hand[k].jobs : i[1] = g  BY <3>1, <3>3 DEF Will
    <3>5. \E i \in cut' : i[1] = g  BY <1>4, <3>2, <3>4
    <3> QED  BY <2>1, <3>5 DEF CutOff
  <2> QED  BY <2>2, <2>3, <2>4 DEF Inv, Covered
<1> QED  BY <1>8, <1>9, <1>10, <1>12, <1>13 DEF Inv

LEMMA InitInv == Init => Inv /\ Ended
<1> SUFFICES ASSUME Init PROVE Inv /\ Ended  OBVIOUS
<1>1. /\ files = {} /\ made = <<>> /\ cut = {} /\ told = [g \in Groups |-> {}]
      /\ hand = [h \in Handlers |-> Idle]
  BY DEF Init
<1>2. \E ins : DOMAIN ins = Inputs
               /\ db = [uploads |-> {}, groups |-> <<>>, holds |-> {}, inputs |-> ins]
  BY DEF Init
<1>3. /\ DOMAIN db = {"uploads", "groups", "holds", "inputs"} /\ db.uploads = {}
      /\ db.groups = <<>> /\ db.holds = {} /\ DOMAIN db.inputs = Inputs
  BY <1>2
<1>4. IsSequence(<<>>) /\ DOMAIN <<>> = {}
  <2>1. <<>> \in Seq({1})  OBVIOUS
  <2>2. IsSequence(<<>>)  BY ONLY <2>1, SequenceType
  <2> QED  BY <2>2
<1>5. IsTables(db)  BY <1>3, <1>4 DEF IsTables
<1>6. \A h \in Handlers : hand[h] = Idle  BY <1>1
<1>7. TypeOK
  BY <1>1, <1>5, <1>6, IdleIs DEF TypeOK
<1>8. AllRefs(db) = {} /\ Needed(db) = {}
  <2>1. AllRefs(db) = {}  BY <1>3, <1>4 DEF AllRefs
  <2> QED  BY <1>5, <2>1, NeededIsRefs
<1>9. Tidy(db, files, made)  BY <1>1, <1>3, <1>4, <1>8 DEF Tidy
<1>10. Covered(db, files, hand, cut)  BY <1>3, <1>4 DEF Covered
<1>11. Ended  BY <1>6, IdleIs DEF Ended, Deleting
<1> QED  BY <1>1, <1>6, <1>7, <1>8, <1>9, <1>10, <1>11, IdleIs DEF Inv
-----------------------------------------------------------------------------
(***************************************************************************)
(* What any step may do to the tables and to a request.                    *)
(***************************************************************************)
\* The requests that change no group.
Reads(h) ==
    \/ Stage(h) \/ RecordUpload(h) \/ Submit(h)
    \/ ReserveInput(h) \/ WriteInput(h) \/ SaveInput(h) \/ AbortInput(h)
    \/ DiscardReservation(h) \/ DeleteInput(h) \/ EraseInput(h)
    \/ SubmitRun(h) \/ HoldRun(h) \/ StageProject(h) \/ StageInput(h)
    \/ RefuseRun(h) \/ CleanRun(h) \/ FreeRun(h)
    \/ \E g \in DOMAIN db.groups : ReadResults(h, g)

LEMMA ReadsIs ==
    ASSUME TypeOK, NEW h \in Handlers, Reads(h)
    PROVE  /\ db'.groups = db.groups
           /\ \A k \in Handlers : hand'[k].pc \in Releasing => hand'[k] = hand[k]
           /\ \/ \E g \in DOMAIN db.groups : ReadResults(h, g)
              \/ /\ UNCHANGED told
                 /\ \A k \in Handlers : hand'[k].pc = "insert results" => hand'[k] = hand[k]
<1> DEFINE Others == Releasing \cup {"insert results"}
<1>1. IsTables(db) /\ IsHand(hand[h], db)  BY DEF TypeOK
<1>2. db'.groups = db.groups
  <2>1. CASE UNCHANGED db  BY <2>1
  <2>2. CASE \E i, f : db' = SetInput(db, i, f)
    BY <1>1, <2>2 DEF SetInput, IsTables
  <2>3. CASE \E S : db' = [db EXCEPT !.uploads = S]
    BY <1>1, <2>3 DEF IsTables
  <2>4. CASE \E S : db' = [db EXCEPT !.holds = S]
    BY <1>1, <2>4 DEF IsTables
  <2>5. (Submit(h) \/ Stage(h) \/ \E g \in DOMAIN db.groups : ReadResults(h, g)) => UNCHANGED db
    BY DEF Submit, Stage, ReadResults, KeepTables
  <2>6. RecordUpload(h) => \E S : db' = [db EXCEPT !.uploads = S]
    BY DEF RecordUpload, Commit
  <2>7. (ReserveInput(h) \/ WriteInput(h) \/ SaveInput(h) \/ AbortInput(h)
          \/ DiscardReservation(h) \/ DeleteInput(h) \/ EraseInput(h)) =>
        UNCHANGED db \/ \E i, f : db' = SetInput(db, i, f)
    BY DEF ReserveInput, WriteInput, SaveInput, AbortInput, DiscardReservation, DeleteInput,
           EraseInput, Commit, KeepTables
  <2>8. (SubmitRun(h) \/ StageProject(h) \/ StageInput(h) \/ RefuseRun(h) \/ CleanRun(h)) =>
        UNCHANGED db
    BY DEF SubmitRun, StageProject, StageInput, RefuseRun, CleanRun, KeepTables
  <2>9. (HoldRun(h) \/ FreeRun(h)) => UNCHANGED db \/ \E S : db' = [db EXCEPT !.holds = S]
    BY DEF HoldRun, FreeRun, KeepTables, Commit
  <2> QED  BY <2>1, <2>2, <2>3, <2>4, <2>5, <2>6, <2>7, <2>8, <2>9 DEF Reads
<1>3. "pc" \in DOMAIN hand[h]  BY <1>1 DEF IsHand
<1>4. \/ \E g \in DOMAIN db.groups : ReadResults(h, g)
      \/ \E r : Step(h, r) /\ r.pc \notin Others
  <2>1. CASE \E r : Step(h, [hand[h] EXCEPT !.pc = r]) /\ r \notin Others
    <3>1. PICK r : Step(h, [hand[h] EXCEPT !.pc = r]) /\ r \notin Others  BY <2>1
    <3> DEFINE new == [hand[h] EXCEPT !.pc = r]
    <3>2. new.pc = r  BY <1>3
    <3> HIDE DEF new
    <3>3. Step(h, new) /\ new.pc \notin Others  BY <3>1, <3>2 DEF new
    <3> QED  BY <3>3
  <2>2. (WriteInput(h) \/ AbortInput(h)) =>
        \E r : Step(h, [hand[h] EXCEPT !.pc = r]) /\ r \notin Others
    <3>1. {"save", "abort", "discard"} \cap Others = {}  BY DEF Releasing
    <3> HIDE DEF Others
    <3>2. (WriteInput(h) \/ AbortInput(h)) =>
          \E r \in {"save", "abort", "discard"} : Step(h, [hand[h] EXCEPT !.pc = r])
      BY DEF WriteInput, AbortInput
    <3> QED  BY <3>1, <3>2
  <2>3. (StageProject(h) \/ StageInput(h) \/ RefuseRun(h) \/ CleanRun(h)) =>
        \E r : Step(h, [hand[h] EXCEPT !.pc = r]) /\ r \notin Others
    <3>1. {"copy", "clean", "create", "free"} \cap Others = {}  BY DEF Releasing
    <3> HIDE DEF Others
    <3>2. (StageProject(h) \/ StageInput(h) \/ RefuseRun(h) \/ CleanRun(h)) =>
          \E r \in {"copy", "clean", "create", "free"} : Step(h, [hand[h] EXCEPT !.pc = r])
      BY DEF StageProject, StageInput, RefuseRun, CleanRun
    <3> QED  BY <3>1, <3>2
  <2>4. (RecordUpload(h) \/ SaveInput(h) \/ DiscardReservation(h) \/ EraseInput(h) \/ FreeRun(h))
        => Step(h, Idle) /\ Idle.pc \notin Others
    BY IdleIs DEF RecordUpload, SaveInput, DiscardReservation, EraseInput, FreeRun, Releasing
  <2>5. (Stage(h) \/ Submit(h)) => \E r : Step(h, r) /\ r.pc \notin Others
    <3>1. \A x : [pc |-> "record", file |-> x].pc \notin Others  BY DEF Releasing
    <3>2. \A x, y : [pc |-> "insert", refs |-> x, key |-> y].pc \notin Others
      BY DEF Releasing
    <3>3. Stage(h) => \E x : Step(h, [pc |-> "record", file |-> x])  BY DEF Stage
    <3>4. Submit(h) => \E x, y : Step(h, [pc |-> "insert", refs |-> x, key |-> y])
      BY DEF Submit
    <3> QED  BY <3>1, <3>2, <3>3, <3>4
  <2>6. (ReserveInput(h) \/ DeleteInput(h)) => \E r : Step(h, r) /\ r.pc \notin Others
    <3>1. \A x : /\ [pc |-> "write", input |-> x].pc \notin Others
                 /\ [pc |-> "erase", input |-> x].pc \notin Others
      BY DEF Releasing
    <3>2. ReserveInput(h) => \E x : Step(h, [pc |-> "write", input |-> x])  BY DEF ReserveInput
    <3>3. DeleteInput(h) => \E x : Step(h, [pc |-> "erase", input |-> x])  BY DEF DeleteInput
    <3> QED  BY <3>1, <3>2, <3>3
  <2>7. SubmitRun(h) => \E r : Step(h, r) /\ r.pc \notin Others
    <3>1. \A x, y, z :
            [pc |-> "hold", owner |-> x, key |-> y, input |-> z].pc \notin Others
      BY DEF Releasing
    <3>2. SubmitRun(h) =>
          \E x, y, z : Step(h, [pc |-> "hold", owner |-> x, key |-> y, input |-> z])
      BY DEF SubmitRun
    <3> QED  BY <3>1, <3>2
  <2>8. HoldRun(h) => \E r : Step(h, r) /\ r.pc \notin Others
    <3>1. \A x, y, z, w : [pc |-> "project", owner |-> x, key |-> y, input |-> z,
                           hold |-> w].pc \notin Others
      BY DEF Releasing
    <3>2. HoldRun(h) => \/ Step(h, Idle)
                        \/ \E x, y, z, w : Step(h, [pc |-> "project", owner |-> x, key |-> y,
                                                    input |-> z, hold |-> w])
      BY DEF HoldRun
    <3>3. Idle.pc \notin Others  BY IdleIs DEF Releasing
    <3> QED  BY <3>1, <3>2, <3>3
  <2> QED  BY <2>1, <2>2, <2>3, <2>4, <2>5, <2>6, <2>7, <2>8 DEF Reads, Releasing
<1>5. ASSUME NEW g \in DOMAIN db.groups, ReadResults(h, g)
      PROVE  UNCHANGED hand \/ \E r : Step(h, r) /\ r.pc \notin Releasing
  <2>1. CASE Step(h, [pc |-> "insert results", run |-> g, read |-> outputs[g]])
    <3> DEFINE r == [pc |-> "insert results", run |-> g, read |-> outputs[g]]
    <3>1. r.pc \notin Releasing  BY DEF Releasing
    <3> QED  BY <2>1, <3>1
  <2> QED  BY <1>5, <2>1 DEF ReadResults
<1>6. ASSUME NEW S, NEW r, Step(h, r), r.pc \notin S, NEW k \in Handlers, hand'[k].pc \in S
      PROVE  hand'[k] = hand[k]
  BY <1>6, SteppedHands
<1>7. \/ \E g \in DOMAIN db.groups : ReadResults(h, g)
      \/ /\ UNCHANGED told
         /\ \A k \in Handlers : hand'[k].pc \in Others => hand'[k] = hand[k]
  <2>1. (\E g \in DOMAIN db.groups : ReadResults(h, g)) \/ UNCHANGED told
    BY DEF Reads, Stage, RecordUpload, Submit, ReserveInput, WriteInput, SaveInput, AbortInput,
           DiscardReservation, DeleteInput, EraseInput, SubmitRun, HoldRun, StageProject,
           StageInput, RefuseRun, CleanRun, FreeRun, KeepRest
  <2> QED  BY <1>4, <1>6, <2>1
<1>8. \A k \in Handlers : hand'[k].pc \in Releasing => hand'[k] = hand[k]
  <2>1. CASE \E g \in DOMAIN db.groups : ReadResults(h, g)
    <3>1. UNCHANGED hand \/ \E r : Step(h, r) /\ r.pc \notin Releasing  BY <1>5, <2>1
    <3> QED  BY <1>6, <3>1
  <2>2. CASE \E r : Step(h, r) /\ r.pc \notin Others
    <3>1. PICK r : Step(h, r) /\ r.pc \notin Others  BY <2>2
    <3>2. r.pc \notin Releasing  BY <3>1
    <3> QED  BY <1>6, <3>1, <3>2
  <2> QED  BY <1>4, <2>1, <2>2
<1> QED  BY <1>2, <1>7, <1>8

\* A task waits, runs or ends.
Retasks ==
    \E j \in Tasks(db) :
        Status(db, j) \in Live /\ \E f : IsTask(f) /\ db' = SetTask(db, j, f)

LEMMA RetasksIs ==
    ASSUME TypeOK,
           \/ \E h \in Handlers : CancelTask(h) \/ \E j \in Tasks(db) : Report(h, j)
           \/ \E j \in Tasks(db) : Claim(j) \/ Sweep(j)
    PROVE  UNCHANGED db \/ Retasks
<1>1. \A j \in Tasks(db) : IsTask(Task(j)) /\ Task(j).status = Status(db, j)
  BY TaskIs DEF TypeOK, Task, Status
<1>2. ASSUME NEW j \in Tasks(db), Claim(j) PROVE Retasks
  <2> DEFINE f == [Task(j) EXCEPT !.status = "RUNNING"]
  <2>1. Status(db, j) = "QUEUED" /\ db' = SetTask(db, j, f)  BY <1>2 DEF Claim, Commit
  <2>2. IsTask(f)  BY <1>1, <2>1 DEF IsTask, TaskRecords, Live
  <2> HIDE DEF f
  <2> QED  BY <2>1, <2>2 DEF Retasks, Live
<1>3. ASSUME NEW j \in Tasks(db), Sweep(j) PROVE Retasks
  <2>1. Status(db, j) = "RUNNING"  BY <1>3 DEF Sweep
  <2>2. CASE Commit(SetTask(db, j, [Task(j) EXCEPT !.status = "QUEUED"]))
    <3> DEFINE f == [Task(j) EXCEPT !.status = "QUEUED"]
    <3>1. IsTask(f)  BY <1>1, <2>1 DEF IsTask, TaskRecords, Live
    <3>2. db' = SetTask(db, j, f)  BY <2>2 DEF Commit
    <3> HIDE DEF f
    <3> QED  BY <2>1, <3>1, <3>2 DEF Retasks, Live
  <2>3. CASE Commit(SetTask(db, j, [Task(j) EXCEPT !.status = "FAILED", !.end = "sweep"]))
    <3> DEFINE f == [Task(j) EXCEPT !.status = "FAILED", !.end = "sweep"]
    <3>1. IsTask(f)  BY <1>1, <2>1 DEF IsTask, TaskRecords, Live
    <3>2. db' = SetTask(db, j, f)  BY <2>3 DEF Commit
    <3> HIDE DEF f
    <3> QED  BY <2>1, <3>1, <3>2 DEF Retasks, Live
  <2> QED  BY <1>3, <2>2, <2>3 DEF Sweep
<1>4. ASSUME NEW h \in Handlers, NEW j \in Tasks(db), Report(h, j), ~UNCHANGED db
      PROVE  Retasks
  <2>1. Status(db, j) = "RUNNING"  BY <1>4 DEF Report, KeepTables
  <2>2. PICK end \in {"COMPLETED", "FAILED"} :
           db' = SetTask(db, j, [Task(j) EXCEPT !.status = end, !.end = "report"])
    BY <1>4 DEF Report, KeepTables, Commit
  <2> DEFINE f == [Task(j) EXCEPT !.status = end, !.end = "report"]
  <2>3. IsTask(f)  BY <1>1, <2>1 DEF IsTask, TaskRecords, Live
  <2>4. db' = SetTask(db, j, f)  BY <2>2
  <2> HIDE DEF f
  <2> QED  BY <2>1, <2>3, <2>4 DEF Retasks, Live
<1>5. ASSUME NEW h \in Handlers, CancelTask(h), ~UNCHANGED db PROVE Retasks
  <2> DEFINE j == CHOOSE j \in hand[h].left : TRUE
  <2>1. hand[h].pc = "cancel" /\ hand[h].left # {}  BY <1>5 DEF CancelTask, At
  <2>2. hand[h].left \subseteq hand[h].jobs /\ hand[h].jobs \subseteq Tasks(db)
    BY <2>1 DEF TypeOK, IsHand, Deleting, Uploading, Staging
  <2>3. j \in Tasks(db)  BY <2>1, <2>2
  <2>4. \/ Status(db, j) = "QUEUED" /\ db' = SetTask(db, j, [Task(j) EXCEPT
                !.status = "FAILED", !.cancelled = TRUE, !.end = "cancel"])
        \/ Status(db, j) = "RUNNING" /\ db' = SetTask(db, j, [Task(j) EXCEPT !.cancelled = TRUE])
    BY <1>5 DEF CancelTask, Commit, KeepTables
  <2> HIDE DEF j
  <2>5. CASE Status(db, j) = "QUEUED" /\ db' = SetTask(db, j, [Task(j) EXCEPT
                !.status = "FAILED", !.cancelled = TRUE, !.end = "cancel"])
    <3> DEFINE f == [Task(j) EXCEPT !.status = "FAILED", !.cancelled = TRUE, !.end = "cancel"]
    <3>1. IsTask(f) /\ db' = SetTask(db, j, f)
      BY <1>1, <2>3, <2>5 DEF IsTask, TaskRecords, Live
    <3> HIDE DEF f
    <3> QED  BY <2>3, <2>5, <3>1 DEF Retasks, Live
  <2>6. CASE Status(db, j) = "RUNNING" /\ db' = SetTask(db, j, [Task(j) EXCEPT !.cancelled = TRUE])
    <3> DEFINE f == [Task(j) EXCEPT !.cancelled = TRUE]
    <3>1. IsTask(f) /\ db' = SetTask(db, j, f)
      BY <1>1, <2>3, <2>6 DEF IsTask, TaskRecords, Live
    <3> HIDE DEF f
    <3> QED  BY <2>3, <2>6, <3>1 DEF Retasks, Live
  <2> QED  BY <2>4, <2>5, <2>6
<1> QED  BY <1>2, <1>3, <1>4, <1>5

\* Groups are only added, and ended tasks stay ended.
Grows(d, e) ==
    /\ DOMAIN d.groups \subseteq DOMAIN e.groups
    /\ \A j \in Tasks(d) : Status(d, j) \notin Live => Status(e, j) \notin Live

LEMMA SameGrows ==
    ASSUME NEW d, NEW e, e.groups = d.groups PROVE Grows(d, e)
BY SameGroupsSame DEF Grows

LEMMA RetasksGrows == ASSUME TypeOK, Retasks PROVE Grows(db, db')
<1>1. PICK j \in Tasks(db) :
         Status(db, j) \in Live /\ \E f : IsTask(f) /\ db' = SetTask(db, j, f)
  BY DEF Retasks
<1>2. PICK f : Status(db, j) \in Live /\ IsTask(f) /\ db' = SetTask(db, j, f)  BY <1>1
<1>3. Retasked(db, db', j, f)  BY <1>2, SetTaskIs DEF TypeOK
<1>4. \A k \in Tasks(db) : k # j => Status(db', k) = Status(db, k)
  BY <1>3, RetaskedSays
<1>5. DOMAIN db'.groups = DOMAIN db.groups  BY <1>3 DEF Retasked, SameRefs
<1> QED  BY <1>2, <1>4, <1>5 DEF Grows

LEMMA AppendGrows ==
    ASSUME NEW d, NEW e, IsTables(d), NEW grp, e.groups = Append(d.groups, grp)
    PROVE  Grows(d, e)
<1>1. /\ DOMAIN d.groups \subseteq DOMAIN e.groups
      /\ \A g \in DOMAIN d.groups : e.groups[g] = d.groups[g]
  BY SequenceAppend DEF IsTables
<1>2. \A j \in Tasks(d) : Status(e, j) = Status(d, j)  BY <1>1, TaskIs DEF Status
<1> QED  BY <1>1, <1>2 DEF Grows

LEMMA ManifestGrows ==
    ASSUME NEW d, NEW e, IsTables(d), NEW g \in DOMAIN d.groups, NEW v,
           e = [d EXCEPT !.groups[g].manifest = v]
    PROVE  Grows(d, e)
<1>1. SameTasks(d, e)  BY ManifestIs
<1>2. \A j \in Tasks(d) : Status(e, j) = Status(d, j)
  BY <1>1, TaskIs DEF Status, SameTasks
<1> QED  BY <1>1, <1>2 DEF Grows, SameTasks, SameRefs

LEMMA EndedGrows ==
    ASSUME TypeOK, Ended, Grows(db, db'),
           \A k \in Handlers : hand'[k].pc \in {"list"} \cup Deleting =>
              \/ hand[k].pc \in {"list"} \cup Deleting /\ hand'[k].jobs \subseteq hand[k].jobs
              \/ \A j \in hand'[k].jobs : Status(db', j) \notin Live
    PROVE  Ended'
<1> SUFFICES ASSUME NEW k \in Handlers, hand'[k].pc \in {"list"} \cup Deleting,
                    NEW j \in hand'[k].jobs
             PROVE  Status(db', j) \notin Live
  BY DEF Ended
<1>1. CASE hand[k].pc \in {"list"} \cup Deleting /\ hand'[k].jobs \subseteq hand[k].jobs
  <2>1. hand[k].jobs \subseteq Tasks(db)
    BY <1>1 DEF TypeOK, IsHand, Deleting, Uploading, Staging
  <2>2. j \in Tasks(db) /\ Status(db, j) \notin Live  BY <1>1, <2>1 DEF Ended
  <2> QED  BY <2>2 DEF Grows
<1> QED  BY <1>1

LEMMA ReleasesEnded ==
    ASSUME TypeOK, Ended, NEW h \in Handlers,
           \/ List(h) \/ Unlink(h) \/ Forget(h) \/ CancelDone(h) \/ CancelTask(h)
           \/ (\E j \in Tasks(db) : Report(h, j)) \/ \E S : Cancel(h, S)
    PROVE  Grows(db, db') /\ Ended'
<1>1. IsTables(db) /\ IsHand(hand[h], db)  BY DEF TypeOK
<1>2. Grows(db, db')
  <2>1. (List(h) \/ Unlink(h) \/ CancelDone(h) \/ \E S : Cancel(h, S)) => db'.groups = db.groups
    BY DEF List, Unlink, CancelDone, Cancel, KeepTables
  <2>2. Forget(h) => db' = [db EXCEPT !.uploads = db.uploads \ hand[h].drop]
    BY DEF Forget, Commit
  <2>3. Forget(h) => db'.groups = db.groups  BY <1>1, <2>2 DEF IsTables
  <2>4. (CancelTask(h) \/ \E j \in Tasks(db) : Report(h, j)) => UNCHANGED db \/ Retasks
    BY RetasksIs
  <2>5. UNCHANGED db => db'.groups = db.groups  OBVIOUS
  <2> QED  BY <2>1, <2>3, <2>4, <2>5, SameGrows, RetasksGrows
<1>3. ASSUME NEW r, Step(h, r),
             \/ hand[h].pc \in {"list"} \cup Deleting /\ r.jobs \subseteq hand[h].jobs
             \/ \A j \in r.jobs : Status(db', j) \notin Live
      PROVE  Ended'
  <2>1. hand'[h] = r /\ \A k \in Handlers : k # h => hand'[k] = hand[k]  BY <1>3, SteppedHands
  <2> QED  BY <1>2, <1>3, <2>1, EndedGrows
<1>4. ASSUME NEW r, Step(h, r), r.pc \notin {"list"} \cup Deleting PROVE Ended'
  <2>1. hand'[h] = r /\ \A k \in Handlers : k # h => hand'[k] = hand[k]  BY <1>4, SteppedHands
  <2> QED  BY <1>2, <1>4, <2>1, EndedGrows
<1>5. CASE List(h)
  <2> DEFINE j == CHOOSE j \in hand[h].jobs : TRUE
             r == [pc |-> "unlink", jobs |-> hand[h].jobs, job |-> j, drop |-> Releasable(db, j)]
  <2>1. Step(h, r) /\ hand[h].pc = "list"  BY <1>5 DEF List, At
  <2>2. r.jobs = hand[h].jobs  OBVIOUS
  <2> HIDE DEF r, j
  <2> QED  BY <1>2, <1>3, <2>1, <2>2
<1>6. CASE Unlink(h)
  <2> DEFINE r == [hand[h] EXCEPT !.pc = "forget"]
  <2>1. Step(h, r) /\ hand[h].pc = "unlink"  BY <1>6 DEF Unlink, At
  <2>2. r.jobs = hand[h].jobs  OBVIOUS
  <2> HIDE DEF r
  <2> QED  BY <1>2, <1>3, <2>1, <2>2 DEF Deleting
<1>7. CASE Forget(h)
  <2> DEFINE left == hand[h].jobs \ {hand[h].job}
             r == [pc |-> "list", jobs |-> left]
  <2>1. Step(h, IF left = {} THEN Idle ELSE r) /\ hand[h].pc = "forget"
    BY <1>7 DEF Forget, At
  <2>2. r.jobs = left /\ left \subseteq hand[h].jobs  OBVIOUS
  <2> HIDE DEF r, left
  <2>3. CASE left = {}  BY <1>2, <1>4, <2>1, <2>3, IdleIs DEF Deleting
  <2>4. CASE left # {}  BY <1>2, <1>3, <2>1, <2>2, <2>4 DEF Deleting
  <2> QED  BY <2>3, <2>4
<1>8. CASE CancelDone(h)
  <2> DEFINE asked == {i[1] : i \in hand[h].jobs}
             ended == {i \in Tasks(db) : Status(db, i) \notin Live
                          /\ (i \in hand[h].jobs \/ (i[1] \in asked /\ db.groups[i[1]].app))}
             r == [pc |-> "list", jobs |-> ended]
  <2>1. Step(h, IF ended = {} THEN Idle ELSE r)  BY <1>8 DEF CancelDone
  <2>2. r.jobs = ended /\ \A i \in ended : i \in Tasks(db) /\ Status(db, i) \notin Live  OBVIOUS
  <2> HIDE DEF r, ended
  <2>3. CASE ended = {}  BY <1>2, <1>4, <2>1, <2>3, IdleIs DEF Deleting
  <2>4. CASE ended # {}
    <3>1. \A i \in r.jobs : Status(db', i) \notin Live  BY <1>2, <2>2 DEF Grows
    <3> QED  BY <1>2, <1>3, <2>1, <2>4, <3>1
  <2> QED  BY <2>3, <2>4
<1>9. CASE CancelTask(h)
  <2> DEFINE j == CHOOSE j \in hand[h].left : TRUE
             r == [hand[h] EXCEPT !.left = @ \ {j}]
  <2>1. Step(h, r) /\ hand[h].pc = "cancel"  BY <1>9 DEF CancelTask, At
  <2>2. r.pc = hand[h].pc  OBVIOUS
  <2> HIDE DEF r, j
  <2> QED  BY <1>2, <1>4, <2>1, <2>2 DEF Deleting
<1>10. ASSUME NEW j \in Tasks(db), Report(h, j) PROVE Ended'
  <2> DEFINE r == [pc |-> "list", jobs |-> {j}]
  <2>1. Step(h, r)  BY <1>10 DEF Report
  <2>2. r.jobs = {j}  OBVIOUS
  <2>3. Status(db', j) \notin Live
    <3>1. CASE Task(j).end = "report" /\ KeepTables
      <4>1. IsTask(Task(j)) /\ Task(j).status = Status(db, j)
        BY <1>1, TaskIs DEF Task, Status
      <4>2. Status(db, j) \notin Live  BY <3>1, <4>1 DEF IsTask
      <4> QED  BY <1>2, <4>2 DEF Grows
    <3>2. CASE \E end \in {"COMPLETED", "FAILED"} :
             Status(db, j) = "RUNNING" /\
             Commit(SetTask(db, j, [Task(j) EXCEPT !.status = end, !.end = "report"]))
      <4>1. PICK end \in {"COMPLETED", "FAILED"} :
               Status(db, j) = "RUNNING" /\
               db' = SetTask(db, j, [Task(j) EXCEPT !.status = end, !.end = "report"])
        BY <3>2 DEF Commit
      <4> DEFINE f == [Task(j) EXCEPT !.status = end, !.end = "report"]
      <4>2. IsTask(Task(j)) /\ Task(j).status = Status(db, j)
        BY <1>1, TaskIs DEF Task, Status
      <4>3. IsTask(f) /\ f.status \notin Live
        BY <4>1, <4>2 DEF IsTask, TaskRecords, Live
      <4>4. db' = SetTask(db, j, f)  BY <4>1
      <4> HIDE DEF f
      <4>5. Retasked(db, db', j, f)  BY <1>1, <4>3, <4>4, SetTaskIs
      <4> QED  BY <4>3, <4>5, RetaskedSays
    <3> QED  BY <1>10, <3>1, <3>2 DEF Report
  <2> HIDE DEF r
  <2> QED  BY <1>3, <2>1, <2>2, <2>3
<1>11. ASSUME NEW S, Cancel(h, S) PROVE Ended'
  <2> DEFINE r == [pc |-> "cancel", left |-> S, jobs |-> S]
  <2>1. Step(h, r) /\ r.pc = "cancel"  BY <1>11 DEF Cancel
  <2> HIDE DEF r
  <2> QED  BY <1>4, <2>1 DEF Deleting
<1> QED  BY <1>2, <1>5, <1>6, <1>7, <1>8, <1>9, <1>10, <1>11

LEMMA OthersEnded ==
    ASSUME TypeOK, Ended,
           \/ \E h \in Handlers : AddGroup(h) \/ CreateRun(h) \/ KeepResults(h) \/ Reads(h)
           \/ \E j \in Tasks(db) : Claim(j) \/ Publish(j) \/ Sweep(j)
           \/ \E g \in DOMAIN db.groups : ChangeOutputs(g)
           \/ Restart
    PROVE  Grows(db, db') /\ Ended'
<1>1. IsTables(db) /\ \A h \in Handlers : IsHand(hand[h], db)  BY DEF TypeOK
<1>2. ASSUME NEW h \in Handlers, NEW r, Step(h, r), r.pc \notin Releasing, Grows(db, db')
      PROVE  Ended'
  <2>1. \A k \in Handlers : hand'[k].pc \in Releasing => hand'[k] = hand[k]
    BY <1>2, SteppedHands
  <2> QED  BY <1>2, <2>1, EndedGrows DEF Releasing, Deleting
<1>3. ASSUME NEW h \in Handlers, AddGroup(h) PROVE Grows(db, db') /\ Ended'
  <2>1. UNCHANGED db \/ \E grp : db' = [db EXCEPT !.groups = Append(db.groups, grp)]
    BY <1>3 DEF AddGroup, KeepTables, Commit
  <2>2. UNCHANGED db \/ \E grp : db'.groups = Append(db.groups, grp)
    BY <1>1, <2>1 DEF IsTables
  <2>3. Grows(db, db')  BY <1>1, <2>2, SameGrows, AppendGrows
  <2>4. Step(h, Idle)  BY <1>3 DEF AddGroup
  <2> QED  BY <1>2, <2>3, <2>4, IdleIs DEF Releasing
<1>4. ASSUME NEW h \in Handlers, CreateRun(h) PROVE Grows(db, db') /\ Ended'
  <2>1. \/ \E S : db' = [db EXCEPT !.holds = S]
        \/ \E S, grp : db' = [db EXCEPT !.holds = S, !.groups = Append(db.groups, grp)]
    BY <1>4 DEF CreateRun, Commit
  <2>2. db'.groups = db.groups \/ \E grp : db'.groups = Append(db.groups, grp)
    BY <1>1, <2>1 DEF IsTables
  <2>3. Grows(db, db')  BY <1>1, <2>2, SameGrows, AppendGrows
  <2>4. Step(h, [hand[h] EXCEPT !.pc = "clean"]) \/ Step(h, Idle)  BY <1>4 DEF CreateRun
  <2> DEFINE r == [hand[h] EXCEPT !.pc = "clean"]
  <2>5. "pc" \in DOMAIN hand[h]  BY <1>1 DEF IsHand
  <2>6. r.pc = "clean"  BY <2>5
  <2> HIDE DEF r
  <2>7. Step(h, r) \/ Step(h, Idle)  BY <2>4 DEF r
  <2> QED  BY <1>2, <2>3, <2>6, <2>7, IdleIs DEF Releasing
<1>5. ASSUME NEW h \in Handlers, KeepResults(h) PROVE Grows(db, db') /\ Ended'
  <2> DEFINE g == hand[h].run
  <2>1. g \in DOMAIN db.groups
    BY <1>1, <1>5 DEF KeepResults, At, IsHand, Deleting, Uploading, Staging
  <2>2. PICK v : db' = [db EXCEPT !.groups[g].manifest = v]  BY <1>5 DEF KeepResults, Commit
  <2>3. Grows(db, db')  BY <1>1, <2>1, <2>2, ManifestGrows
  <2>4. Step(h, Idle)  BY <1>5 DEF KeepResults
  <2> QED  BY <1>2, <2>3, <2>4, IdleIs DEF Releasing
<1>6. ASSUME NEW h \in Handlers, Reads(h) PROVE Grows(db, db') /\ Ended'
  <2>1. db'.groups = db.groups
        /\ \A k \in Handlers : hand'[k].pc \in Releasing => hand'[k] = hand[k]
    BY <1>6, ReadsIs
  <2>2. Grows(db, db')  BY <2>1, SameGrows
  <2> QED  BY <2>1, <2>2, EndedGrows DEF Releasing, Deleting
<1>7. ASSUME UNCHANGED hand, Grows(db, db') PROVE Ended'
  BY <1>7, EndedGrows
<1>8. ASSUME NEW j \in Tasks(db), Claim(j) \/ Sweep(j) PROVE Grows(db, db') /\ Ended'
  <2>1. UNCHANGED db \/ Retasks  BY <1>8, RetasksIs
  <2>2. Grows(db, db')  BY <2>1, SameGrows, RetasksGrows
  <2>3. UNCHANGED hand  BY <1>8 DEF Claim, Sweep
  <2> QED  BY <1>7, <2>2, <2>3
<1>9. ASSUME UNCHANGED <<db, hand>> PROVE Grows(db, db') /\ Ended'
  BY <1>7, <1>9, SameGrows
<1>10. (\E j \in Tasks(db) : Publish(j)) \/ (\E g \in DOMAIN db.groups : ChangeOutputs(g))
       => UNCHANGED <<db, hand>>
  BY DEF Publish, ChangeOutputs, KeepTables
<1>11. ASSUME Restart PROVE Grows(db, db') /\ Ended'
  <2>1. Grows(db, db')  BY <1>11, RestartTables, SameGrows
  <2>2. \A h \in Handlers : hand'[h] = Idle  BY <1>11 DEF Restart
  <2> QED  BY <2>1, <2>2, IdleIs DEF Ended, Deleting
<1> QED  BY <1>3, <1>4, <1>5, <1>6, <1>8, <1>9, <1>10, <1>11

\* The steps of Next, by what they do.
LEMMA NextIs ==
    ASSUME Next
    PROVE  \/ \E h \in Handlers :
                 \/ Reads(h) \/ AddGroup(h) \/ CreateRun(h) \/ KeepResults(h)
                 \/ List(h) \/ Unlink(h) \/ Forget(h) \/ CancelDone(h) \/ CancelTask(h)
                 \/ \E j \in Tasks(db) : Report(h, j)
                 \/ \E S \in SUBSET Tasks(db) : Cancel(h, S)
           \/ \E j \in Tasks(db) : Claim(j) \/ Publish(j) \/ Sweep(j)
           \/ \E g \in DOMAIN db.groups : ChangeOutputs(g)
           \/ Restart
<1>1. ASSUME NEW h \in Handlers, NEW g \in DOMAIN db.groups,
             Cancel(h, {j \in Tasks(db) : j[1] = g /\ Status(db, j) \in Live})
      PROVE  \E S \in SUBSET Tasks(db) : Cancel(h, S)
  <2> DEFINE S == {j \in Tasks(db) : j[1] = g /\ Status(db, j) \in Live}
  <2>1. S \in SUBSET Tasks(db) /\ Cancel(h, S)  BY <1>1
  <2> QED  BY <2>1
<1>2. ASSUME NEW h \in Handlers, NEW j \in Tasks(db), Cancel(h, {j})
      PROVE  \E S \in SUBSET Tasks(db) : Cancel(h, S)
  <2>1. {j} \in SUBSET Tasks(db)  OBVIOUS
  <2> QED  BY <1>2, <2>1
<1> QED  BY <1>1, <1>2, Zenon DEF Next, Reads

LEMMA EndedStays == ASSUME TypeOK, Ended, Next PROVE Grows(db, db') /\ Ended'
BY NextIs, OthersEnded, ReleasesEnded

LEMMA NextInv == ASSUME Inv, Ended, Next PROVE Inv'
<1>1. ASSUME NEW h \in Handlers, Reads(h) PROVE Inv'
  BY <1>1, StageKeeps, RecordUploadKeeps, SubmitKeeps, InputsKeep, SubmitRunKeeps,
     HoldRunKeeps, StageProjectKeeps, StageInputKeeps, RefuseRunKeeps, CleanRunKeeps,
     FreeRunKeeps, ReadResultsKeeps DEF Reads
<1>2. ASSUME NEW h \in Handlers, AddGroup(h) \/ CreateRun(h) \/ KeepResults(h) PROVE Inv'
  BY <1>2, AddGroupKeeps, CreateRunKeeps, KeepResultsKeeps
<1>3. ASSUME NEW h \in Handlers,
             \/ List(h) \/ Unlink(h) \/ Forget(h) \/ CancelDone(h) \/ CancelTask(h)
             \/ \E j \in Tasks(db) : Report(h, j)
             \/ \E S \in SUBSET Tasks(db) : Cancel(h, S)
      PROVE  Inv'
  BY <1>3, ListKeeps, UnlinkKeeps, ForgetKeeps, CancelDoneKeeps, CancelTaskKeeps,
     ReportKeeps, CancelKeeps
<1>4. ASSUME NEW j \in Tasks(db), Claim(j) \/ Sweep(j) PROVE Inv'
  BY <1>4, ClaimKeeps, SweepKeeps
<1>5. (\E j \in Tasks(db) : Publish(j)) \/ (\E g \in DOMAIN db.groups : ChangeOutputs(g))
      => UNCHANGED <<db, files, made, cut, hand, told>>
  BY DEF Publish, ChangeOutputs, KeepTables, KeepRest
<1>6. (\E j \in Tasks(db) : Publish(j)) \/ (\E g \in DOMAIN db.groups : ChangeOutputs(g))
      => Inv'
  BY <1>5, OutputsKeep
<1> QED  BY <1>1, <1>2, <1>3, <1>4, <1>6, NextIs, RestartKeeps

LEMMA InvHolds == Spec => [](Inv /\ Ended)
<1>1. Inv /\ Ended /\ [Next]_vars => (Inv /\ Ended)'
  <2> SUFFICES ASSUME Inv, Ended, [Next]_vars PROVE Inv' /\ Ended'  OBVIOUS
  <2>1. CASE Next  BY <2>1, NextInv, EndedStays DEF Inv
  <2>2. CASE UNCHANGED vars
    <3>1. Inv'  BY <2>2, OutputsKeep DEF vars
    <3>2. Ended'  BY <2>2 DEF vars, Ended
    <3> QED  BY <3>1, <3>2
  <2> QED  BY <2>1, <2>2
<1> QED  BY <1>1, InitInv, PTL DEF Spec

\* Every file a waiting or running task will download stays on disk: a release
\* lists the unfinished tasks before it deletes (job_http.py:98), and no later
\* submission, retry or requeue makes anybody need what it decided to delete.
THEOREM UnfinishedJobsHaveInputsHolds == Spec => []UnfinishedJobsHaveInputs
<1>1. Inv /\ Ended => UnfinishedJobsHaveInputs
  <2> SUFFICES ASSUME Inv, NEW j \in Tasks(db), Status(db, j) \in Live,
                      NEW u \in Refs(db, j)
               PROVE  u \in files
    BY DEF UnfinishedJobsHaveInputs
  <2>1. u \in Needed(db)  BY AboutNeeded
  <2> QED  BY <2>1 DEF Inv
<1> QED  BY <1>1, InvHolds, PTL

\* A file that an application's submission staged always has a hold or a run to
\* its name, so the end of the run or the next start deletes it
\* (app_compute.py, the finally clause of submit and reconcile_app_inputs).
THEOREM StagedFilesHaveAnOwnerHolds == Spec => []StagedFilesHaveAnOwner
<1>1. Inv /\ Ended => StagedFilesHaveAnOwner
  <2> SUFFICES ASSUME Inv, NEW u \in files, made[u] = "app"
               PROVE  \/ \E x \in db.holds : u \in x.paths
                      \/ \E g \in DOMAIN db.groups : u \in db.groups[g].refs
    BY DEF StagedFilesHaveAnOwner
  <2>1. Tidy(db, files, made)  BY DEF Inv
  <2>2. u \in files \cap Apps(made)  BY <2>1 DEF Apps, Tidy
  <2> QED  BY <2>1, <2>2 DEF Tidy, AllRefs
<1> QED  BY <1>1, InvHolds, PTL

\* Once every report and cancellation that ended a group's tasks has been
\* answered, the group's files are gone: when two requests release one group at
\* once, the later one to list the unfinished tasks finds none that need them
\* (release_job_uploads, job_http.py:90).
THEOREM AnsweredGroupsAreReleasedHolds == Spec => []AnsweredGroupsAreReleased
<1>1. Inv /\ Ended => AnsweredGroupsAreReleased
  <2> SUFFICES ASSUME Inv, NEW g \in DOMAIN db.groups, Answered(g)
               PROVE  db.groups[g].refs \cap files = {}
    BY DEF AnsweredGroupsAreReleased
  <2>1. /\ TypeOK /\ IsTables(db) /\ IsGroup(db.groups[g]) /\ cut \subseteq Tasks(db)
        /\ Covered(db, files, hand, cut) /\ \A k \in Handlers : IsHand(hand[k], db)
    BY DEF Inv, TypeOK, IsTables
  <2>2. \A t \in DOMAIN db.groups[g].tasks :
           /\ db.groups[g].tasks[t].end \in {"report", "cancel"} /\ <<g, t>> \notin cut
           /\ IsTask(db.groups[g].tasks[t])
    BY <2>1 DEF Answered, IsGroup
  <2>3. ~GroupIsLive(db, g)  BY <2>2 DEF GroupIsLive, IsTask
  <2>4. ~Swept(db, g)  BY <2>2 DEF Swept
  <2>5. ~CutOff(cut, hand, g)
    <3> SUFFICES ASSUME NEW j \in cut, j[1] = g PROVE FALSE  BY DEF CutOff
    <3>1. j[2] \in DOMAIN db.groups[g].tasks /\ j = <<g, j[2]>>  BY <2>1, TaskIs
    <3> QED  BY <2>2, <3>1
  <2>6. ASSUME NEW k \in Handlers, Will(hand[k], g, db.groups[g].refs \cap files)
        PROVE  FALSE
    <3>1. k \in Active  BY <2>6 DEF Will, Active, Deleting
    <3>2. hand[k].pc = "unlink" => hand[k].job \in hand[k].jobs
      BY <2>1 DEF IsHand, Deleting, Uploading, Staging
    <3>3. \E j \in hand[k].jobs : j[1] = g  BY <2>6, <3>2 DEF Will
    <3> QED  BY <3>1, <3>3 DEF Answered
  <2> QED  BY <2>1, <2>3, <2>4, <2>5, <2>6 DEF Covered
<1> QED  BY <1>1, InvHolds, PTL
-----------------------------------------------------------------------------
(***************************************************************************)
(* Repeated requests and slots.                                            *)
(***************************************************************************)
\* The runs are the same, with the same results; fewer may be live.
SameRuns(d, e) ==
    /\ DOMAIN e.groups = DOMAIN d.groups
    /\ \A g \in DOMAIN d.groups :
          /\ e.groups[g].app = d.groups[g].app /\ e.groups[g].owner = d.groups[g].owner
          /\ e.groups[g].key = d.groups[g].key
          /\ e.groups[g].manifest = d.groups[g].manifest
          /\ GroupIsLive(e, g) => GroupIsLive(d, g)

LEMMA SameGroupsSameRuns ==
    ASSUME NEW d, NEW e, e.groups = d.groups PROVE SameRuns(d, e)
BY SameGroupsSame DEF SameRuns

LEMMA RetasksSameRuns ==
    ASSUME TypeOK, Retasks PROVE SameRuns(db, db') /\ db'.holds = db.holds
<1>1. PICK j \in Tasks(db) :
         Status(db, j) \in Live /\ \E f : IsTask(f) /\ db' = SetTask(db, j, f)
  BY DEF Retasks
<1>2. PICK f : Status(db, j) \in Live /\ IsTask(f) /\ db' = SetTask(db, j, f)  BY <1>1
<1>3. IsTables(db)  BY DEF TypeOK
<1>4. Retasked(db, db', j, f)  BY <1>2, <1>3, SetTaskIs
<1>5. \A g \in DOMAIN db.groups : GroupIsLive(db', g) => GroupIsLive(db, g)
  BY <1>2, <1>3, <1>4, RetaskedGroups
<1> QED  BY <1>4, <1>5 DEF SameRuns, Retasked, SameRefs

\* Requests that end tasks or release files, and the queue's own steps.
Ends ==
    \/ \E h \in Handlers :
          \/ List(h) \/ Unlink(h) \/ Forget(h) \/ CancelDone(h) \/ CancelTask(h)
          \/ \E j \in Tasks(db) : Report(h, j)
          \/ \E S \in SUBSET Tasks(db) : Cancel(h, S)
    \/ \E j \in Tasks(db) : Claim(j) \/ Publish(j) \/ Sweep(j)
    \/ \E g \in DOMAIN db.groups : ChangeOutputs(g)

\* The requests that release go from one step of theirs to another, or end.
LEMMA EndsSteps ==
    ASSUME TypeOK, NEW h \in Handlers,
           \/ List(h) \/ Unlink(h) \/ Forget(h) \/ CancelDone(h) \/ CancelTask(h)
           \/ \E j \in Tasks(db) : Report(h, j)
           \/ \E S \in SUBSET Tasks(db) : Cancel(h, S)
    PROVE  \E r : /\ Step(h, r) /\ r.pc \in Releasing \cup {"idle"}
                  /\ hand[h].pc \in Releasing \cup {"idle"}
<1> USE DEF Releasing
<1>1. \A S : [pc |-> "list", jobs |-> S].pc = "list"  OBVIOUS
<1>2. \A S, j, drop : [pc |-> "unlink", jobs |-> S, job |-> j, drop |-> drop].pc = "unlink"
  OBVIOUS
<1>3. \A S : [pc |-> "cancel", left |-> S, jobs |-> S].pc = "cancel"  OBVIOUS
<1>4. "pc" \in DOMAIN hand[h]  BY DEF TypeOK, IsHand
<1>5. List(h) => \E S, j, drop : Step(h, [pc |-> "unlink", jobs |-> S, job |-> j, drop |-> drop])
  BY DEF List
<1>6. (\E j \in Tasks(db) : Report(h, j)) => \E S : Step(h, [pc |-> "list", jobs |-> S])
  BY DEF Report
<1>7. (Forget(h) \/ CancelDone(h)) =>
         Step(h, Idle) \/ \E S : Step(h, [pc |-> "list", jobs |-> S])
  BY DEF Forget, CancelDone
<1>8. (\E S \in SUBSET Tasks(db) : Cancel(h, S)) =>
         \E S : Step(h, [pc |-> "cancel", left |-> S, jobs |-> S])
  BY DEF Cancel
<1>9. Unlink(h) => Step(h, [hand[h] EXCEPT !.pc = "forget"])  BY DEF Unlink
<1>10. [hand[h] EXCEPT !.pc = "forget"].pc = "forget"  BY <1>4
<1>11. CancelTask(h) => hand[h].pc = "cancel" /\ \E S : Step(h, [hand[h] EXCEPT !.left = S])
  BY DEF CancelTask, At
<1>12. \A S : [hand[h] EXCEPT !.left = S].pc = hand[h].pc  OBVIOUS
<1>13. Idle.pc = "idle"  BY IdleIs
<1>14. hand[h].pc \in Releasing \cup {"idle"}
  BY DEF List, Unlink, Forget, CancelDone, CancelTask, Report, Cancel, Begins, At
<1>15. CASE List(h)  BY <1>2, <1>5, <1>14, <1>15
<1>16. CASE \E j \in Tasks(db) : Report(h, j)  BY <1>1, <1>6, <1>14, <1>16
<1>17. CASE Forget(h) \/ CancelDone(h)  BY <1>1, <1>7, <1>13, <1>14, <1>17
<1>18. CASE \E S \in SUBSET Tasks(db) : Cancel(h, S)  BY <1>3, <1>8, <1>14, <1>18
<1>19. CASE Unlink(h)  BY <1>9, <1>10, <1>14, <1>19
<1>20. CASE CancelTask(h)
  <2>1. PICK S : Step(h, [hand[h] EXCEPT !.left = S])  BY <1>11, <1>20
  <2> DEFINE r == [hand[h] EXCEPT !.left = S]
  <2>2. r.pc = "cancel"  BY <1>11, <1>12, <1>20
  <2> HIDE DEF r
  <2>3. Step(h, r)  BY <2>1 DEF r
  <2> QED  BY <1>14, <2>2, <2>3
<1> QED  BY <1>15, <1>16, <1>17, <1>18, <1>19, <1>20

LEMMA EndsIs ==
    ASSUME TypeOK, Ends
    PROVE  /\ SameRuns(db, db') /\ db'.holds = db.holds /\ UNCHANGED told
           /\ \A k \in Handlers : hand'[k].pc = "insert results" => hand'[k] = hand[k]
<1>1. IsTables(db)  BY DEF TypeOK
<1>2. UNCHANGED told
  BY DEF Ends, List, Unlink, Forget, CancelDone, CancelTask, Report, Cancel, Claim, Publish,
         Sweep, ChangeOutputs, KeepRest
<1>3. SameRuns(db, db') /\ db'.holds = db.holds
  <2>1. CASE UNCHANGED db  BY <2>1, SameGroupsSameRuns
  <2>2. CASE Retasks  BY <2>2, RetasksSameRuns
  <2>3. CASE \E h \in Handlers : Forget(h)
    <3>1. PICK h \in Handlers : db' = [db EXCEPT !.uploads = db.uploads \ hand[h].drop]
      BY <2>3 DEF Forget, Commit
    <3>2. db'.groups = db.groups /\ db'.holds = db.holds  BY <1>1, <3>1 DEF IsTables
    <3> QED  BY <3>2, SameGroupsSameRuns
  <2>4. ASSUME NEW h \in Handlers, CancelTask(h) \/ \E j \in Tasks(db) : Report(h, j)
        PROVE  UNCHANGED db \/ Retasks
    BY <2>4, RetasksIs
  <2>5. ASSUME NEW j \in Tasks(db), Claim(j) \/ Sweep(j) PROVE UNCHANGED db \/ Retasks
    BY <2>5, RetasksIs
  <2>6. ASSUME NEW h \in Handlers,
               \/ List(h) \/ Unlink(h) \/ CancelDone(h)
               \/ \E S \in SUBSET Tasks(db) : Cancel(h, S)
        PROVE  UNCHANGED db
    BY <2>6 DEF List, Unlink, CancelDone, Cancel, KeepTables
  <2>7. (\E j \in Tasks(db) : Publish(j)) \/ (\E g \in DOMAIN db.groups : ChangeOutputs(g))
        => UNCHANGED db
    BY DEF Publish, ChangeOutputs, KeepTables
  <2> QED  BY <2>1, <2>2, <2>3, <2>4, <2>5, <2>6, <2>7 DEF Ends
<1>4. ASSUME NEW h \in Handlers, NEW r, Step(h, r), r.pc # "insert results",
             NEW k \in Handlers, hand'[k].pc = "insert results"
      PROVE  hand'[k] = hand[k]
  BY <1>4, SteppedHands
<1>5. ASSUME NEW h \in Handlers,
             \/ List(h) \/ Unlink(h) \/ Forget(h) \/ CancelDone(h) \/ CancelTask(h)
             \/ \E j \in Tasks(db) : Report(h, j)
             \/ \E S \in SUBSET Tasks(db) : Cancel(h, S)
      PROVE  \E r : Step(h, r) /\ r.pc # "insert results"
  BY <1>5, EndsSteps DEF Releasing
<1>6. (\/ \E j \in Tasks(db) : Claim(j) \/ Publish(j) \/ Sweep(j)
       \/ \E g \in DOMAIN db.groups : ChangeOutputs(g)) => UNCHANGED hand
  BY DEF Claim, Publish, Sweep, ChangeOutputs
<1> QED  BY <1>2, <1>3, <1>4, <1>5, <1>6 DEF Ends

LEMMA StepsAre ==
    ASSUME TypeOK, Next
    PROVE  \/ Ends \/ Restart
           \/ \E h \in Handlers : Reads(h) \/ AddGroup(h) \/ CreateRun(h) \/ KeepResults(h)
BY NextIs, Zenon DEF Ends

\* The requests that change no group leave the holds alone, but for two.
LEMMA ReadsHolds ==
    ASSUME TypeOK, NEW h \in Handlers, Reads(h)
    PROVE  HoldRun(h) \/ db'.holds \subseteq db.holds
<1>1. IsTables(db)  BY DEF TypeOK
<1>2. CASE UNCHANGED db  BY <1>2
<1>3. CASE \E i, f : db' = SetInput(db, i, f)  BY <1>1, <1>3 DEF SetInput, IsTables
<1>4. CASE \E S : db' = [db EXCEPT !.uploads = S]  BY <1>1, <1>4 DEF IsTables
<1>5. CASE db' = [db EXCEPT !.holds = db.holds \ {hand[h].hold}]  BY <1>1, <1>5 DEF IsTables
<1>6. (Submit(h) \/ Stage(h) \/ \E g \in DOMAIN db.groups : ReadResults(h, g)) => UNCHANGED db
  BY DEF Submit, Stage, ReadResults, KeepTables
<1>7. RecordUpload(h) => \E S : db' = [db EXCEPT !.uploads = S]
  BY DEF RecordUpload, Commit
<1>8. (ReserveInput(h) \/ WriteInput(h) \/ SaveInput(h) \/ AbortInput(h)
        \/ DiscardReservation(h) \/ DeleteInput(h) \/ EraseInput(h)) =>
      UNCHANGED db \/ \E i, f : db' = SetInput(db, i, f)
  BY DEF ReserveInput, WriteInput, SaveInput, AbortInput, DiscardReservation, DeleteInput,
         EraseInput, Commit, KeepTables
<1>9. (SubmitRun(h) \/ StageProject(h) \/ StageInput(h) \/ RefuseRun(h) \/ CleanRun(h)) =>
      UNCHANGED db
  BY DEF SubmitRun, StageProject, StageInput, RefuseRun, CleanRun, KeepTables
<1>10. FreeRun(h) => db' = [db EXCEPT !.holds = db.holds \ {hand[h].hold}]
  BY DEF FreeRun, Commit
<1> QED  BY <1>2, <1>3, <1>4, <1>5, <1>6, <1>7, <1>8, <1>9, <1>10 DEF Reads

LEMMA AddGroupIs ==
    ASSUME TypeOK, NEW h \in Handlers, AddGroup(h)
    PROVE  /\ UNCHANGED told /\ db'.holds = db.holds
           /\ \/ db'.groups = db.groups
              \/ \E grp : db'.groups = Append(db.groups, grp) /\ grp.app = FALSE
<1>1. IsTables(db) /\ UNCHANGED told  BY DEF TypeOK, AddGroup, KeepRest
<1>2. CASE UNCHANGED db  BY <1>1, <1>2
<1>3. CASE ~UNCHANGED db
  <2>1. PICK n : db' = [db EXCEPT !.groups = Append(@,
                    NewGroup(FALSE, None, hand[h].key, hand[h].refs, hand[h].refs, n))]
    BY <1>3 DEF AddGroup, Commit, KeepTables
  <2> DEFINE grp == NewGroup(FALSE, None, hand[h].key, hand[h].refs, hand[h].refs, n)
  <2>2. grp.app = FALSE  BY DEF NewGroup
  <2>3. db' = [db EXCEPT !.groups = Append(db.groups, grp)]  BY <2>1
  <2> HIDE DEF grp
  <2>4. db'.groups = Append(db.groups, grp) /\ db'.holds = db.holds  BY <1>1, <2>3 DEF IsTables
  <2> QED  BY <1>1, <2>2, <2>4
<1> QED  BY <1>2, <1>3

LEMMA CreateRunIs ==
    ASSUME TypeOK, NEW h \in Handlers, CreateRun(h)
    PROVE  LET x == hand[h].hold IN
           /\ UNCHANGED told /\ db'.holds = db.holds \ {x}
           /\ \/ db'.groups = db.groups
              \/ /\ x \in db.holds /\ Replayed(db, x.owner, hand[h].key) = {}
                 /\ \E grp : /\ db'.groups = Append(db.groups, grp) /\ grp.app = TRUE
                             /\ grp.owner = x.owner /\ grp.key = hand[h].key
<1> DEFINE x == hand[h].hold
<1>1. IsTables(db) /\ UNCHANGED told  BY DEF TypeOK, CreateRun, KeepRest
<1>2. CASE Replayed(db, x.owner, hand[h].key) # {}
  <2>1. db' = [db EXCEPT !.holds = db.holds \ {x}]  BY <1>2 DEF CreateRun, Commit
  <2>2. db'.groups = db.groups /\ db'.holds = db.holds \ {x}  BY <1>1, <2>1 DEF IsTables
  <2> QED  BY <1>1, <2>2
<1>3. CASE Replayed(db, x.owner, hand[h].key) = {}
  <2>1. x \in db.holds  BY <1>3 DEF CreateRun
  <2>2. PICK n : db' = [db EXCEPT !.holds = @ \ {x}, !.groups = Append(@,
                    NewGroup(TRUE, x.owner, hand[h].key, hand[h].input, x.paths, n))]
    BY <1>3 DEF CreateRun, Commit
  <2> DEFINE grp == NewGroup(TRUE, x.owner, hand[h].key, hand[h].input, x.paths, n)
  <2>3. grp.app = TRUE /\ grp.owner = x.owner /\ grp.key = hand[h].key  BY DEF NewGroup
  <2>4. db' = [db EXCEPT !.holds = db.holds \ {x}, !.groups = Append(db.groups, grp)]
    BY <2>2
  <2> HIDE DEF grp
  <2>5. db'.groups = Append(db.groups, grp) /\ db'.holds = db.holds \ {x}
    BY <1>1, <2>4 DEF IsTables
  <2> QED  BY <1>1, <1>3, <2>1, <2>3, <2>5
<1> QED  BY <1>2, <1>3

LEMMA KeepResultsIs ==
    ASSUME TypeOK, NEW h \in Handlers, KeepResults(h)
    PROVE  LET g == hand[h].run
               kept == IF db.groups[g].manifest = 0 THEN hand[h].read ELSE db.groups[g].manifest
           IN /\ hand[h].pc = "insert results" /\ Step(h, Idle)
              /\ g \in DOMAIN db.groups /\ SameTasks(db, db') /\ db'.groups[g].manifest = kept
              /\ \A f \in DOMAIN db.groups : f # g => db'.groups[f] = db.groups[f]
              /\ told' = [told EXCEPT ![g] = @ \cup {kept}]
<1> DEFINE g == hand[h].run
           kept == IF db.groups[g].manifest = 0 THEN hand[h].read ELSE db.groups[g].manifest
<1>1. IsTables(db) /\ IsHand(hand[h], db)  BY DEF TypeOK
<1>2. hand[h].pc = "insert results" /\ Step(h, Idle)  BY DEF KeepResults, At
<1>3. g \in DOMAIN db.groups  BY <1>1, <1>2 DEF IsHand, Deleting, Uploading, Staging
<1>4. db' = [db EXCEPT !.groups[g].manifest = kept] /\ told' = [told EXCEPT ![g] = @ \cup {kept}]
  BY DEF KeepResults, Commit
<1> HIDE DEF kept, g
<1>5. /\ SameTasks(db, db') /\ db'.groups[g].manifest = kept
      /\ \A f \in DOMAIN db.groups : f # g => db'.groups[f] = db.groups[f]
  BY <1>1, <1>3, <1>4, ManifestIs
<1> QED  BY <1>2, <1>3, <1>4, <1>5 DEF kept, g

\* One run for a user's key.
LEMMA OneRunSame ==
    ASSUME OneRunPerKey, DOMAIN db'.groups = DOMAIN db.groups,
           \A g \in DOMAIN db.groups :
              /\ db'.groups[g].app = db.groups[g].app /\ db'.groups[g].owner = db.groups[g].owner
              /\ db'.groups[g].key = db.groups[g].key
    PROVE  OneRunPerKey'
BY DEF OneRunPerKey, AppGroups

LEMMA OneRunStays == ASSUME TypeOK, OneRunPerKey, Next PROVE OneRunPerKey'
<1>1. IsTables(db)  BY DEF TypeOK
<1>2. CASE SameRuns(db, db')  BY <1>2, OneRunSame DEF SameRuns
<1>3. CASE SameRefs(db, db')  BY <1>3, OneRunSame DEF SameRefs
<1>4. ASSUME NEW grp, db'.groups = Append(db.groups, grp),
             grp.app => \A g \in AppGroups(db) :
                            ~(db.groups[g].owner = grp.owner /\ db.groups[g].key = grp.key)
      PROVE  OneRunPerKey'
  <2> DEFINE n == Len(db.groups) + 1
  <2>1. /\ DOMAIN db'.groups = DOMAIN db.groups \cup {n} /\ db'.groups[n] = grp
        /\ \A g \in DOMAIN db.groups : db'.groups[g] = db.groups[g]
    BY <1>1, <1>4, SequenceAppend DEF IsTables
  <2> HIDE DEF n
  <2> SUFFICES ASSUME NEW f \in AppGroups(db'), NEW g \in AppGroups(db'),
                      db'.groups[f].owner = db'.groups[g].owner,
                      db'.groups[f].key = db'.groups[g].key
               PROVE  f = g
    BY DEF OneRunPerKey, AppGroups
  <2>2. \A i \in {f, g} : i # n => i \in AppGroups(db) /\ db'.groups[i] = db.groups[i]
    BY <2>1 DEF AppGroups
  <2>3. CASE f # n /\ g # n  BY <2>2, <2>3 DEF OneRunPerKey
  <2>4. CASE f = n /\ g # n  BY <1>4, <2>1, <2>2, <2>4 DEF AppGroups
  <2>5. CASE f # n /\ g = n  BY <1>4, <2>1, <2>2, <2>5 DEF AppGroups
  <2> QED  BY <2>3, <2>4, <2>5
<1>5. ASSUME NEW h \in Handlers, AddGroup(h) PROVE OneRunPerKey'
  BY <1>2, <1>4, <1>5, AddGroupIs, SameGroupsSameRuns
<1>6. ASSUME NEW h \in Handlers, CreateRun(h) PROVE OneRunPerKey'
  <2>1. CASE db'.groups = db.groups  BY <1>2, <2>1, SameGroupsSameRuns
  <2>2. CASE db'.groups # db.groups
    <3>1. Replayed(db, hand[h].hold.owner, hand[h].key) = {}  BY <1>6, <2>2, CreateRunIs
    <3>2. PICK grp : /\ db'.groups = Append(db.groups, grp) /\ grp.owner = hand[h].hold.owner
                     /\ grp.key = hand[h].key
      BY <1>6, <2>2, CreateRunIs
    <3> QED  BY <1>4, <3>1, <3>2 DEF Replayed
  <2> QED  BY <2>1, <2>2
<1>7. ASSUME NEW h \in Handlers, KeepResults(h) PROVE OneRunPerKey'
  BY <1>3, <1>7, KeepResultsIs DEF SameTasks
<1>8. ASSUME NEW h \in Handlers, Reads(h) PROVE OneRunPerKey'
  BY <1>2, <1>8, ReadsIs, SameGroupsSameRuns
<1>9. CASE Ends  BY <1>2, <1>9, EndsIs
<1>10. CASE Restart  BY <1>2, <1>10, RestartTables, SameGroupsSameRuns
<1> QED  BY <1>5, <1>6, <1>7, <1>8, <1>9, <1>10, StepsAre

\* One manifest for a run.
LEMMA ToldStays == ASSUME TypeOK, Told, Next PROVE Told'
<1>1. IsTables(db) /\ DOMAIN told = Groups /\ DOMAIN hand = Handlers  BY DEF TypeOK
<1> DEFINE Same == /\ DOMAIN db.groups \subseteq DOMAIN db'.groups
                   /\ \A g \in DOMAIN db.groups : db'.groups[g].manifest = db.groups[g].manifest
           Quiet == \A k \in Handlers : hand'[k].pc = "insert results" => hand'[k] = hand[k]
<1>2. ASSUME Same, Quiet, UNCHANGED told PROVE Told'
  BY <1>2 DEF Told
<1>3. SameRuns(db, db') => Same  BY DEF SameRuns
<1>4. db'.groups = db.groups => Same  OBVIOUS
<1>5. ASSUME NEW grp, db'.groups = Append(db.groups, grp) PROVE Same
  BY <1>1, <1>5, SequenceAppend DEF IsTables
<1>6. ASSUME NEW h \in Handlers, NEW r, Step(h, r), r.pc # "insert results" PROVE Quiet
  BY <1>6, SteppedHands
<1> HIDE DEF Same, Quiet
<1>7. ASSUME NEW h \in Handlers, AddGroup(h) PROVE Told'
  <2>1. Same /\ UNCHANGED told  BY <1>4, <1>5, <1>7, AddGroupIs
  <2>2. Step(h, Idle) /\ Idle.pc # "insert results"  BY <1>7, IdleIs DEF AddGroup
  <2> QED  BY <1>2, <1>6, <2>1, <2>2
<1>8. ASSUME NEW h \in Handlers, CreateRun(h) PROVE Told'
  <2>1. Same /\ UNCHANGED told  BY <1>4, <1>5, <1>8, CreateRunIs
  <2> DEFINE r == [hand[h] EXCEPT !.pc = "clean"]
  <2>2. "pc" \in DOMAIN hand[h]  BY DEF TypeOK, IsHand
  <2>3. r.pc # "insert results"  BY <2>2
  <2>4. Step(h, r) \/ Step(h, Idle)  BY <1>8 DEF CreateRun
  <2> HIDE DEF r
  <2>5. Quiet  BY <1>6, <2>3, <2>4, IdleIs
  <2> QED  BY <1>2, <2>1, <2>5
<1>9. ASSUME NEW h \in Handlers, NEW g \in DOMAIN db.groups, ReadResults(h, g) PROVE Told'
  <2>1. UNCHANGED db /\ outputs[g] # 0  BY <1>9 DEF ReadResults, KeepTables
  <2>2. CASE db.groups[g].manifest # 0
    <3>1. told' = [told EXCEPT ![g] = @ \cup {db.groups[g].manifest}] /\ UNCHANGED hand
      BY <1>9, <2>2 DEF ReadResults
    <3>2. \A f \in Groups : told'[f] = IF f = g THEN told[g] \cup {db.groups[g].manifest}
                                                ELSE told[f]
      BY <1>1, <3>1
    <3> QED  BY <2>1, <2>2, <3>1, <3>2 DEF Told
  <2>3. CASE db.groups[g].manifest = 0
    <3> DEFINE r == [pc |-> "insert results", run |-> g, read |-> outputs[g]]
    <3>1. Step(h, r) /\ UNCHANGED told  BY <1>9, <2>3 DEF ReadResults
    <3>2. r.read # 0  BY <2>1
    <3> HIDE DEF r
    <3>3. hand'[h] = r /\ \A k \in Handlers : k # h => hand'[k] = hand[k]
      BY <3>1, SteppedHands
    <3> QED  BY <2>1, <3>1, <3>2, <3>3 DEF Told
  <2> QED  BY <2>2, <2>3
<1>10. ASSUME NEW h \in Handlers, Reads(h) PROVE Told'
  <2>1. CASE \E g \in DOMAIN db.groups : ReadResults(h, g)  BY <1>9, <2>1
  <2>2. CASE UNCHANGED told /\ \A k \in Handlers : hand'[k].pc = "insert results" => hand'[k] = hand[k]
    BY <1>2, <1>4, <1>10, <2>2, ReadsIs DEF Quiet
  <2> QED  BY <1>10, <2>1, <2>2, ReadsIs
<1>11. CASE Ends  BY <1>2, <1>3, <1>11, EndsIs DEF Quiet
<1>12. CASE Restart
  <2>1. \A k \in Handlers : hand'[k] = Idle  BY <1>12 DEF Restart
  <2>2. Quiet  BY <2>1, IdleIs DEF Quiet
  <2> QED  BY <1>2, <1>4, <1>12, <2>2, RestartTables DEF Restart
<1>13. ASSUME NEW h \in Handlers, KeepResults(h) PROVE Told'
  <2> DEFINE g == hand[h].run
             kept == IF db.groups[g].manifest = 0 THEN hand[h].read ELSE db.groups[g].manifest
  <2>1. /\ hand[h].pc = "insert results" /\ Step(h, Idle)
        /\ g \in DOMAIN db.groups /\ SameTasks(db, db') /\ db'.groups[g].manifest = kept
        /\ \A f \in DOMAIN db.groups : f # g => db'.groups[f] = db.groups[f]
        /\ told' = [told EXCEPT ![g] = @ \cup {kept}]
    BY <1>13, KeepResultsIs
  <2>2. kept # 0 /\ hand[h].read # 0  BY <2>1 DEF Told
  <2>3. g \in Groups => told[g] \subseteq {kept}
    BY <2>1 DEF Told
  <2> HIDE DEF kept
  <2>4. \A f \in Groups : told'[f] = IF f = g THEN told[g] \cup {kept} ELSE told[f]
    BY <1>1, <2>1
  <2>5. DOMAIN db'.groups = DOMAIN db.groups  BY <2>1 DEF SameTasks, SameRefs
  <2>6. hand'[h] = Idle /\ \A k \in Handlers : k # h => hand'[k] = hand[k]
    BY <2>1, SteppedHands
  <2>7. \A k \in Handlers : hand'[k].pc = "insert results" => hand'[k].read # 0
    BY <2>6, IdleIs DEF Told
  <2>8. ASSUME NEW f \in Groups, told'[f] # {}
        PROVE  /\ f \in DOMAIN db'.groups /\ db'.groups[f].manifest # 0
               /\ told'[f] = {db'.groups[f].manifest}
    <3>1. CASE f = g
      <4>1. told'[f] = {kept}  BY <2>3, <2>4, <3>1
      <4> QED  BY <2>1, <2>2, <2>5, <3>1, <4>1
    <3>2. CASE f # g  BY <2>1, <2>4, <2>5, <2>8, <3>2 DEF Told
    <3> QED  BY <3>1, <3>2
  <2> QED  BY <2>7, <2>8 DEF Told
<1> QED  BY <1>7, <1>8, <1>10, <1>11, <1>12, <1>13, StepsAre

\* Slots.
Runs(d) == {g \in AppGroups(d) : GroupIsLive(d, g)}
RunsOf(d, o) == {g \in AppGroups(d) : d.groups[g].owner = o /\ GroupIsLive(d, g)}
HoldsOf(d, o) == {x \in d.holds : x.owner = o}

LEMMA SlotsAre ==
    ASSUME NEW d
    PROVE  /\ Outstanding(d) = Cardinality(d.holds) + Cardinality(Runs(d))
           /\ \A o : Owned(d, o) = Cardinality(HoldsOf(d, o)) + Cardinality(RunsOf(d, o))
BY Zenon DEF Outstanding, Owned, Runs, RunsOf, HoldsOf

LEMMA RunsFinite ==
    ASSUME NEW d, IsTables(d)
    PROVE  IsFiniteSet(Runs(d)) /\ \A o : IsFiniteSet(RunsOf(d, o))
<1>1. DOMAIN d.groups = 1..Len(d.groups) /\ Len(d.groups) \in Nat
  BY SequenceIs DEF IsTables
<1>2. IsFiniteSet(DOMAIN d.groups)
  <2>1. 1 \in Int /\ Len(d.groups) \in Int  BY <1>1
  <2>2. IsFiniteSet(1..Len(d.groups))  BY ONLY <2>1, FS_Interval, Zenon
  <2> QED  BY <1>1, <2>2
<1>3. Runs(d) \subseteq DOMAIN d.groups  BY DEF Runs, AppGroups
<1>4. ASSUME NEW o PROVE IsFiniteSet(RunsOf(d, o))
  <2>1. RunsOf(d, o) \subseteq DOMAIN d.groups  BY DEF RunsOf, AppGroups
  <2> QED  BY ONLY <1>2, <2>1, FS_Subset, Zenon
<1>5. IsFiniteSet(Runs(d))  BY ONLY <1>2, <1>3, FS_Subset, Zenon
<1> QED  BY <1>4, <1>5

LEMMA SubsetCount ==
    ASSUME NEW S, IsFiniteSet(S), NEW T, T \subseteq S
    PROVE  /\ IsFiniteSet(T) /\ Cardinality(T) <= Cardinality(S)
           /\ Cardinality(T) \in Nat /\ Cardinality(S) \in Nat
<1>1. T \in SUBSET S  OBVIOUS
<1>2. IsFiniteSet(T) /\ Cardinality(T) <= Cardinality(S)  BY ONLY <1>1, IsFiniteSet(S), FS_Subset, Zenon
<1> QED  BY <1>2, FS_CardinalityType

LEMMA FewerSlots ==
    ASSUME Slots, IsTables(db), db'.holds \subseteq db.holds,
           Runs(db') \subseteq Runs(db), \A o : RunsOf(db', o) \subseteq RunsOf(db, o)
    PROVE  Slots'
<1>1. /\ IsFiniteSet(db'.holds) /\ Cardinality(db'.holds) <= Cardinality(db.holds)
      /\ Cardinality(db'.holds) \in Nat /\ Cardinality(db.holds) \in Nat
  BY SubsetCount DEF Slots
<1>2. /\ Cardinality(Runs(db')) <= Cardinality(Runs(db))
      /\ Cardinality(Runs(db')) \in Nat /\ Cardinality(Runs(db)) \in Nat
  BY RunsFinite, SubsetCount
<1>3. Outstanding(db') <= TotalRuns
  <2>1. Outstanding(db) <= TotalRuns  BY DEF Slots, RunsFitTheSlots
  <2> QED  BY <1>1, <1>2, <2>1, SlotsAre, JobFilesAssumption
<1>4. ASSUME NEW o \in Owners PROVE Owned(db', o) <= OwnerRuns
  <2>1. Owned(db, o) <= OwnerRuns  BY DEF Slots, RunsFitTheSlots
  <2>2. IsFiniteSet(HoldsOf(db, o))
    <3>1. HoldsOf(db, o) \subseteq db.holds /\ IsFiniteSet(db.holds)  BY DEF HoldsOf, Slots
    <3> QED  BY <3>1, SubsetCount
  <2>3. HoldsOf(db', o) \subseteq HoldsOf(db, o)  BY DEF HoldsOf
  <2>4. /\ Cardinality(HoldsOf(db', o)) <= Cardinality(HoldsOf(db, o))
        /\ Cardinality(HoldsOf(db', o)) \in Nat /\ Cardinality(HoldsOf(db, o)) \in Nat
    BY <2>2, <2>3, SubsetCount
  <2>5. /\ Cardinality(RunsOf(db', o)) <= Cardinality(RunsOf(db, o))
        /\ Cardinality(RunsOf(db', o)) \in Nat /\ Cardinality(RunsOf(db, o)) \in Nat
    BY RunsFinite, SubsetCount
  <2> QED  BY <2>1, <2>4, <2>5, SlotsAre, JobFilesAssumption
<1> QED  BY <1>1, <1>3, <1>4 DEF Slots, RunsFitTheSlots

LEMMA SameRunsSlots ==
    ASSUME Slots, IsTables(db), db'.holds \subseteq db.holds, SameRuns(db, db')
    PROVE  Slots'
<1>1. Runs(db') \subseteq Runs(db) /\ \A o : RunsOf(db', o) \subseteq RunsOf(db, o)
  BY DEF SameRuns, Runs, RunsOf, AppGroups
<1> QED  BY <1>1, FewerSlots

\* One more.
LEMMA OneMore ==
    ASSUME NEW S, IsFiniteSet(S), NEW x
    PROVE  /\ IsFiniteSet(S \cup {x}) /\ Cardinality(S \cup {x}) <= Cardinality(S) + 1
           /\ Cardinality(S \cup {x}) \in Nat /\ Cardinality(S) \in Nat
<1>1. /\ IsFiniteSet(S \cup {x})
      /\ Cardinality(S \cup {x}) = IF x \in S THEN Cardinality(S) ELSE Cardinality(S) + 1
  BY ONLY IsFiniteSet(S), FS_AddElement, Zenon
<1>2. Cardinality(S \cup {x}) \in Nat /\ Cardinality(S) \in Nat  BY <1>1, FS_CardinalityType
<1> QED  BY <1>1, <1>2

LEMMA OneLess ==
    ASSUME NEW S, IsFiniteSet(S), NEW x \in S
    PROVE  /\ IsFiniteSet(S \ {x}) /\ Cardinality(S \ {x}) = Cardinality(S) - 1
           /\ Cardinality(S \ {x}) \in Nat /\ Cardinality(S) \in Nat
<1>1. /\ IsFiniteSet(S \ {x})
      /\ Cardinality(S \ {x}) = IF x \in S THEN Cardinality(S) - 1 ELSE Cardinality(S)
  BY ONLY IsFiniteSet(S), FS_RemoveElement, Zenon
<1>2. Cardinality(S \ {x}) \in Nat /\ Cardinality(S) \in Nat  BY <1>1, FS_CardinalityType
<1> QED  BY <1>1, <1>2

\* Submission looks at the slots and holds one in one transaction.
LEMMA HoldRunSlots == ASSUME TypeOK, Slots, NEW h \in Handlers, HoldRun(h) PROVE Slots'
<1>1. IsTables(db) /\ IsFiniteSet(db.holds)  BY DEF TypeOK, Slots
<1>2. CASE UNCHANGED db  BY <1>1, <1>2, SameRunsSlots, SameGroupsSameRuns
<1>3. CASE ~UNCHANGED db
  <2> DEFINE owner == hand[h].owner
             x == [owner |-> owner, paths |-> {Len(made) + 1, Len(made) + 2}]
  <2>1. /\ RunsAdmitted(db, owner) /\ db' = [db EXCEPT !.holds = db.holds \cup {x}]
    BY <1>3 DEF HoldRun, Commit, KeepTables
  <2>2. x.owner = owner  OBVIOUS
  <2> HIDE DEF x, owner
  <2>3. db'.holds = db.holds \cup {x} /\ db'.groups = db.groups  BY <1>1, <2>1 DEF IsTables
  <2>4. Runs(db') = Runs(db) /\ \A o : RunsOf(db', o) = RunsOf(db, o)
    BY <2>3, SameGroupsSame DEF Runs, RunsOf, AppGroups
  <2>5. /\ IsFiniteSet(db'.holds) /\ Cardinality(db'.holds) <= Cardinality(db.holds) + 1
        /\ Cardinality(db'.holds) \in Nat /\ Cardinality(db.holds) \in Nat
    BY <1>1, <2>3, OneMore
  <2>6. Cardinality(Runs(db)) \in Nat /\ \A o : Cardinality(RunsOf(db, o)) \in Nat
    BY <1>1, RunsFinite, FS_CardinalityType
  <2>7. Outstanding(db') <= TotalRuns
    <3>1. Outstanding(db) < TotalRuns  BY <2>1 DEF RunsAdmitted
    <3> QED  BY <2>4, <2>5, <2>6, <3>1, SlotsAre, JobFilesAssumption
  <2>8. ASSUME NEW o \in Owners PROVE Owned(db', o) <= OwnerRuns
    <3>1. IsFiniteSet(HoldsOf(db, o))
      <4>1. HoldsOf(db, o) \subseteq db.holds  BY DEF HoldsOf
      <4> QED  BY <1>1, <4>1, SubsetCount
    <3>2. CASE o = owner
      <4>1. HoldsOf(db', o) = HoldsOf(db, o) \cup {x}  BY <2>2, <2>3, <3>2 DEF HoldsOf
      <4>2. /\ Cardinality(HoldsOf(db', o)) <= Cardinality(HoldsOf(db, o)) + 1
            /\ Cardinality(HoldsOf(db', o)) \in Nat /\ Cardinality(HoldsOf(db, o)) \in Nat
        BY <3>1, <4>1, OneMore
      <4>3. Owned(db, o) < OwnerRuns  BY <2>1, <3>2 DEF RunsAdmitted
      <4> QED  BY <2>4, <2>6, <4>2, <4>3, SlotsAre, JobFilesAssumption
    <3>3. CASE o # owner
      <4>1. HoldsOf(db', o) = HoldsOf(db, o)  BY <2>2, <2>3, <3>3 DEF HoldsOf
      <4>2. Owned(db, o) <= OwnerRuns  BY DEF Slots, RunsFitTheSlots
      <4> QED  BY <2>4, <4>1, <4>2, SlotsAre
    <3> QED  BY <3>2, <3>3
  <2> QED  BY <2>5, <2>7, <2>8 DEF Slots, RunsFitTheSlots
<1> QED  BY <1>2, <1>3

\* A hold becomes a run of the same user.
LEMMA CreateRunSlots == ASSUME TypeOK, Slots, NEW h \in Handlers, CreateRun(h) PROVE Slots'
<1> DEFINE x == hand[h].hold
<1>1. IsTables(db) /\ IsFiniteSet(db.holds)  BY DEF TypeOK, Slots
<1>2. db'.holds = db.holds \ {x}  BY CreateRunIs
<1>3. CASE db'.groups = db.groups  BY <1>1, <1>2, <1>3, SameRunsSlots, SameGroupsSameRuns
<1>4. CASE db'.groups # db.groups
  <2>1. PICK grp : db'.groups = Append(db.groups, grp) /\ grp.app = TRUE /\ grp.owner = x.owner
    BY <1>4, CreateRunIs
  <2>2. x \in db.holds  BY <1>4, CreateRunIs
  <2> DEFINE n == Len(db.groups) + 1
  <2>3. /\ DOMAIN db'.groups = DOMAIN db.groups \cup {n} /\ db'.groups[n] = grp
        /\ \A g \in DOMAIN db.groups : db'.groups[g] = db.groups[g]
    BY <1>1, <2>1, SequenceAppend DEF IsTables
  <2> HIDE DEF x, n
  <2>4. Runs(db') \subseteq Runs(db) \cup {n}
    BY <2>3 DEF Runs, AppGroups, GroupIsLive
  <2>5. /\ IsFiniteSet(db'.holds) /\ Cardinality(db'.holds) = Cardinality(db.holds) - 1
        /\ Cardinality(db'.holds) \in Nat /\ Cardinality(db.holds) \in Nat
    BY <1>1, <1>2, <2>2, OneLess
  <2>6. /\ Cardinality(Runs(db')) <= Cardinality(Runs(db)) + 1
        /\ Cardinality(Runs(db')) \in Nat /\ Cardinality(Runs(db)) \in Nat
    <3>1. IsFiniteSet(Runs(db))  BY <1>1, RunsFinite
    <3>2. /\ IsFiniteSet(Runs(db) \cup {n})
          /\ Cardinality(Runs(db) \cup {n}) <= Cardinality(Runs(db)) + 1
          /\ Cardinality(Runs(db)) \in Nat
      BY <3>1, OneMore
    <3>3. /\ Cardinality(Runs(db')) <= Cardinality(Runs(db) \cup {n})
          /\ Cardinality(Runs(db')) \in Nat /\ Cardinality(Runs(db) \cup {n}) \in Nat
      BY <2>4, <3>2, SubsetCount
    <3> QED  BY <3>2, <3>3
  <2>7. Outstanding(db') <= TotalRuns
    <3>1. Outstanding(db) <= TotalRuns  BY DEF Slots, RunsFitTheSlots
    <3> QED  BY <2>5, <2>6, <3>1, SlotsAre, JobFilesAssumption
  <2>8. ASSUME NEW o \in Owners PROVE Owned(db', o) <= OwnerRuns
    <3>1. IsFiniteSet(HoldsOf(db, o)) /\ IsFiniteSet(RunsOf(db, o))
      <4>1. HoldsOf(db, o) \subseteq db.holds  BY DEF HoldsOf
      <4> QED  BY <1>1, <4>1, SubsetCount, RunsFinite
    <3>2. Owned(db, o) <= OwnerRuns  BY DEF Slots, RunsFitTheSlots
    <3>3. CASE o = x.owner
      <4>1. x \in HoldsOf(db, o) /\ HoldsOf(db', o) = HoldsOf(db, o) \ {x}
        BY <1>2, <2>2, <3>3 DEF HoldsOf
      <4>2. /\ Cardinality(HoldsOf(db', o)) = Cardinality(HoldsOf(db, o)) - 1
            /\ Cardinality(HoldsOf(db', o)) \in Nat /\ Cardinality(HoldsOf(db, o)) \in Nat
        BY <3>1, <4>1, OneLess
      <4>3. RunsOf(db', o) \subseteq RunsOf(db, o) \cup {n}
        BY <2>3 DEF RunsOf, AppGroups, GroupIsLive
      <4>4. /\ IsFiniteSet(RunsOf(db, o) \cup {n})
            /\ Cardinality(RunsOf(db, o) \cup {n}) <= Cardinality(RunsOf(db, o)) + 1
            /\ Cardinality(RunsOf(db, o)) \in Nat
        BY <3>1, OneMore
      <4>5. /\ Cardinality(RunsOf(db', o)) <= Cardinality(RunsOf(db, o) \cup {n})
            /\ Cardinality(RunsOf(db', o)) \in Nat
            /\ Cardinality(RunsOf(db, o) \cup {n}) \in Nat
        BY <4>3, <4>4, SubsetCount
      <4> QED  BY <3>2, <4>2, <4>4, <4>5, SlotsAre, JobFilesAssumption
    <3>4. CASE o # x.owner
      <4>1. HoldsOf(db', o) = HoldsOf(db, o)  BY <1>2, <3>4 DEF HoldsOf
      <4>2. RunsOf(db', o) \subseteq RunsOf(db, o)
        BY <2>1, <2>3, <3>4 DEF RunsOf, AppGroups, GroupIsLive
      <4>3. /\ Cardinality(RunsOf(db', o)) <= Cardinality(RunsOf(db, o))
            /\ Cardinality(RunsOf(db', o)) \in Nat /\ Cardinality(RunsOf(db, o)) \in Nat
        BY <3>1, <4>2, SubsetCount
      <4>4. Cardinality(HoldsOf(db, o)) \in Nat  BY <3>1, FS_CardinalityType
      <4>5. /\ Owned(db, o) = Cardinality(HoldsOf(db, o)) + Cardinality(RunsOf(db, o))
            /\ Owned(db', o) = Cardinality(HoldsOf(db, o)) + Cardinality(RunsOf(db', o))
        BY <4>1, SlotsAre
      <4> QED  BY <3>2, <4>3, <4>4, <4>5, JobFilesAssumption
    <3> QED  BY <3>3, <3>4
  <2> QED  BY <2>5, <2>7, <2>8 DEF Slots, RunsFitTheSlots
<1> QED  BY <1>3, <1>4

LEMMA SlotsStay == ASSUME TypeOK, Slots, Next PROVE Slots'
<1>1. IsTables(db)  BY DEF TypeOK
<1>2. ASSUME NEW h \in Handlers, Reads(h) PROVE Slots'
  <2>1. CASE HoldRun(h)  BY <2>1, HoldRunSlots
  <2>2. CASE db'.holds \subseteq db.holds
    BY <1>1, <1>2, <2>2, ReadsIs, SameGroupsSameRuns, SameRunsSlots
  <2> QED  BY <1>2, <2>1, <2>2, ReadsHolds
<1>3. ASSUME NEW h \in Handlers, AddGroup(h) PROVE Slots'
  <2>1. db'.holds = db.holds  BY <1>3, AddGroupIs
  <2>2. CASE db'.groups = db.groups
    BY <1>1, <2>1, <2>2, SameGroupsSameRuns, SameRunsSlots
  <2>3. CASE \E grp : db'.groups = Append(db.groups, grp) /\ grp.app = FALSE
    <3>1. PICK grp : db'.groups = Append(db.groups, grp) /\ grp.app = FALSE  BY <2>3
    <3> DEFINE n == Len(db.groups) + 1
    <3>2. /\ DOMAIN db'.groups = DOMAIN db.groups \cup {n} /\ db'.groups[n] = grp
          /\ \A g \in DOMAIN db.groups : db'.groups[g] = db.groups[g]
      BY <1>1, <3>1, SequenceAppend DEF IsTables
    <3> HIDE DEF n
    <3>3. Runs(db') \subseteq Runs(db) /\ \A o : RunsOf(db', o) \subseteq RunsOf(db, o)
      BY <3>1, <3>2 DEF Runs, RunsOf, AppGroups, GroupIsLive
    <3> QED  BY <1>1, <2>1, <3>3, FewerSlots
  <2> QED  BY <1>3, <2>2, <2>3, AddGroupIs
<1>4. ASSUME NEW h \in Handlers, KeepResults(h) PROVE Slots'
  <2>1. SameTasks(db, db')  BY <1>4, KeepResultsIs
  <2>2. \A g \in DOMAIN db.groups : GroupIsLive(db', g) = GroupIsLive(db, g)
    BY <2>1, SameTasksSame
  <2>3. Runs(db') \subseteq Runs(db) /\ \A o : RunsOf(db', o) \subseteq RunsOf(db, o)
    BY <2>1, <2>2 DEF Runs, RunsOf, AppGroups, SameTasks, SameRefs
  <2>4. db'.holds = db.holds  BY <2>1 DEF SameTasks, SameRefs
  <2> QED  BY <1>1, <2>3, <2>4, FewerSlots
<1>5. CASE Ends  BY <1>1, <1>5, EndsIs, SameRunsSlots
<1>6. CASE Restart
  <2>1. db'.holds = {} /\ db'.groups = db.groups  BY <1>6, RestartTables
  <2> QED  BY <1>1, <2>1, SameGroupsSameRuns, SameRunsSlots
<1> QED  BY <1>2, <1>3, <1>4, <1>5, <1>6, CreateRunSlots, StepsAre

LEMMA InitInv2 == Init => Inv2
<1> SUFFICES ASSUME Init PROVE Inv2  OBVIOUS
<1>1. TypeOK /\ told = [g \in Groups |-> {}] /\ hand = [h \in Handlers |-> Idle]
  BY InitInv DEF Inv, Init
<1>2. \E ins : db = [uploads |-> {}, groups |-> <<>>, holds |-> {}, inputs |-> ins]
  BY DEF Init
<1>3. db.holds = {} /\ db.groups = <<>>  BY <1>2
<1>4. DOMAIN <<>> = {}  OBVIOUS
<1>5. AppGroups(db) = {}  BY <1>3, <1>4 DEF AppGroups
<1>6. OneRunPerKey  BY <1>5 DEF OneRunPerKey
<1>7. Told  BY <1>1, IdleIs DEF Told
<1>8. IsFiniteSet({}) /\ Cardinality({}) = 0  BY FS_EmptySet
<1>9. Runs(db) = {} /\ \A o : RunsOf(db, o) = {}  BY <1>5 DEF Runs, RunsOf
<1>10. \A o : HoldsOf(db, o) = {}  BY <1>3 DEF HoldsOf
<1>11. Outstanding(db) = 0 /\ \A o : Owned(db, o) = 0
  <2>1. Outstanding(db) = Cardinality({}) + Cardinality({})  BY <1>3, <1>9, SlotsAre
  <2>2. \A o : Owned(db, o) = Cardinality({}) + Cardinality({})  BY <1>9, <1>10, SlotsAre
  <2> QED  BY ONLY <1>8, <2>1, <2>2
<1>12. Slots
  BY <1>3, <1>8, <1>11, JobFilesAssumption DEF Slots, RunsFitTheSlots
<1> QED  BY <1>1, <1>6, <1>7, <1>12 DEF Inv2

LEMMA Inv2Holds == Spec => []Inv2
<1>1. Inv2 /\ (Inv /\ Ended) /\ (Inv /\ Ended)' /\ [Next]_vars => Inv2'
  <2> SUFFICES ASSUME Inv2, TypeOK', [Next]_vars PROVE Inv2'  BY DEF Inv
  <2>1. CASE Next  BY <2>1, OneRunStays, ToldStays, SlotsStay DEF Inv2
  <2>2. CASE UNCHANGED vars
    <3>1. OneRunPerKey'  BY <2>2 DEF vars, Inv2, OneRunPerKey, AppGroups
    <3>2. Told'  BY <2>2 DEF vars, Inv2, Told
    <3>3. db'.holds = db.holds /\ db'.groups = db.groups  BY <2>2 DEF vars
    <3>4. Slots'  BY <3>3, SameGroupsSameRuns, SameRunsSlots DEF Inv2, TypeOK
    <3> QED  BY <3>1, <3>2, <3>4 DEF Inv2
  <2> QED  BY <2>1, <2>2
<1> QED  BY <1>1, InitInv2, InvHolds, PTL DEF Spec

\* Repeats agree: submissions of one user under one key, overlapping as they may,
\* end as one run (the second look for a replay inside add_group's transaction),
\* and all readers of a run's results are given one manifest (INSERT OR IGNORE in
\* RunResults.published), whatever happens to its files meanwhile.
THEOREM RepeatsAgreeHolds == Spec => []RepeatsAgree
<1>1. Inv2 => RepeatsAgree
  <2> SUFFICES ASSUME Inv2, NEW g \in Groups PROVE Cardinality(told[g]) <= 1
    BY DEF RepeatsAgree, OneManifestPerRun, Inv2
  <2>1. CASE told[g] = {}  BY <2>1, FS_EmptySet
  <2>2. CASE told[g] # {}
    <3>1. told[g] = {db.groups[g].manifest}  BY <2>2 DEF Inv2, Told
    <3>2. Cardinality({db.groups[g].manifest}) = 1  BY ONLY FS_Singleton, Zenon
    <3> QED  BY <3>1, <3>2
  <2> QED  BY <2>1, <2>2
<1> QED  BY <1>1, Inv2Holds, PTL

LEMMA ViewIsLive ==
    ASSUME NEW d, IsTables(d), NEW g \in AppGroups(d)
    PROVE  RunView(d, g) \in {"COMPLETED", "FAILED", "CANCELLED"} <=> ~GroupIsLive(d, g)
<1> DEFINE view(t) == IF d.groups[g].tasks[t].cancelled /\ d.groups[g].tasks[t].status = "FAILED"
                      THEN "CANCELLED" ELSE d.groups[g].tasks[t].status
           seen == {view(t) : t \in DOMAIN d.groups[g].tasks}
<1>1. IsGroup(d.groups[g])  BY DEF AppGroups, IsTables
<1>2. 1 \in DOMAIN d.groups[g].tasks /\ view(1) \in seen  BY <1>1 DEF IsGroup
<1>3. \A t \in DOMAIN d.groups[g].tasks :
         view(t) \in Live <=> d.groups[g].tasks[t].status \in Live
  BY DEF Live
<1>4. seen \cap Live # {} <=> GroupIsLive(d, g)
  <2>1. seen \cap Live # {} <=> \E t \in DOMAIN d.groups[g].tasks : view(t) \in Live  OBVIOUS
  <2> HIDE DEF view, seen
  <2> QED  BY <1>3, <2>1 DEF GroupIsLive
<1>5. RunView(d, g) =
         CASE seen = {"QUEUED"} -> "QUEUED"
           [] seen = {"COMPLETED"} -> "COMPLETED"
           [] seen # {"QUEUED"} /\ seen \cap Live # {} -> "RUNNING"
           [] seen \cap Live = {} /\ "FAILED" \in seen -> "FAILED"
           [] OTHER -> "CANCELLED"
  BY DEF RunView
<1>6. seen # {}  BY <1>2
<1> HIDE DEF seen, view
<1>7. CASE GroupIsLive(d, g)
  <2>1. seen \cap Live # {} /\ seen # {"COMPLETED"}  BY <1>4, <1>7 DEF Live
  <2>2. RunView(d, g) \in {"QUEUED", "RUNNING"}  BY <1>5, <2>1
  <2> QED  BY <1>7, <2>2
<1>8. CASE ~GroupIsLive(d, g)
  <2>1. seen \cap Live = {} /\ seen # {"QUEUED"}  BY <1>4, <1>8 DEF Live
  <2>2. RunView(d, g) \in {"COMPLETED", "FAILED", "CANCELLED"}  BY <1>5, <2>1
  <2> QED  BY <1>8, <2>2
<1> QED  BY <1>7, <1>8

\* Slots are exact: runs that stage, wait or run never exceed the slots, though a
\* hold is counted in one transaction and becomes a run in a later one, and a run
\* gives its slot up exactly when its user sees it end (AppCompute.submit, run_view).
THEOREM SlotsAreExactHolds == Spec => []SlotsAreExact
<1>1. Inv2 => SlotsAreExact
  <2> SUFFICES ASSUME Inv2 PROVE RunsFitTheSlots /\ EndedRunsHoldNoSlot
    BY DEF SlotsAreExact
  <2>1. IsTables(db) /\ RunsFitTheSlots  BY DEF Inv2, TypeOK, Slots
  <2> QED  BY <2>1, ViewIsLive DEF EndedRunsHoldNoSlot
<1> QED  BY <1>1, Inv2Holds, PTL
-----------------------------------------------------------------------------
(***************************************************************************)
(* Retained inputs.                                                        *)
(***************************************************************************)
\* Every file is counted, but for those a deletion is about to remove, and every
\* saved input has its file; hs are the requests.
Counted(d, o, hs) ==
    /\ \A i \in o : \/ d.inputs[i].state \in {"reserved", "saved"}
                    \/ \E h \in Handlers : hs[h].pc = "erase" /\ hs[h].input = i
    /\ \A i \in Inputs : d.inputs[i].state = "saved" => i \in o

\* The requests about inputs.
InputRequest(h) ==
    \/ ReserveInput(h) \/ WriteInput(h) \/ SaveInput(h) \/ AbortInput(h)
    \/ DiscardReservation(h) \/ DeleteInput(h) \/ EraseInput(h)

LEMMA CountedIs == ObjectsAreCounted <=> Counted(db, objects, hand)
BY DEF ObjectsAreCounted, Counted

\* One request moves to r and changes the row of input i; the others keep theirs.
LEMMA StoredMoves ==
    ASSUME TypeOK, Stored, objects' \subseteq Inputs, NEW h \in Handlers, NEW r, Step(h, r),
           DOMAIN db'.inputs = Inputs, NEW i \in Inputs,
           \A k \in Inputs : k # i =>
              db'.inputs[k] = db.inputs[k] /\ (k \in objects' <=> k \in objects),
           \* i is this request's alone, or its state stays.
           \/ db'.inputs[i].state = db.inputs[i].state /\ (i \in objects' <=> i \in objects)
           \/ \A k \in Handlers : k # h => ~(hand[k].pc \in Uploading /\ hand[k].input = i),
           i \in objects' => \/ db'.inputs[i].state \in {"reserved", "saved"}
                             \/ r.pc = "erase" /\ r.input = i
                             \/ \E k \in Handlers : k # h /\ hand[k].pc = "erase" /\ hand[k].input = i,
           db'.inputs[i].state = "saved" => i \in objects',
           hand[h].pc = "erase" => hand[h].input = i,
           db.inputs[i].state = "deleted" => db'.inputs[i].state = "deleted",
           InputOf(r, db', objects'),
           r.pc \in Uploading =>
              \A k \in Handlers : k # h /\ hand[k].pc \in Uploading => hand[k].input # r.input
    PROVE  Stored'
<1>1. hand'[h] = r /\ \A k \in Handlers : k # h => hand'[k] = hand[k]  BY SteppedHands
<1>2. \A k \in Handlers : hand[k].pc \in Uploading \cup {"erase"} => hand[k].input \in Inputs
  BY DEF TypeOK, IsHand, Deleting, Uploading, Staging
<1>3. Counted(db', objects', hand')
  <2>1. ASSUME NEW k \in objects'
        PROVE  \/ db'.inputs[k].state \in {"reserved", "saved"}
               \/ \E j \in Handlers : hand'[j].pc = "erase" /\ hand'[j].input = k
    <3>1. CASE k = i  BY <1>1, <2>1, <3>1
    <3>2. CASE k # i
      <4>1. k \in objects /\ db'.inputs[k] = db.inputs[k]  BY <2>1, <3>2
      <4>2. CASE \E j \in Handlers : hand[j].pc = "erase" /\ hand[j].input = k
        BY <1>1, <3>2, <4>2
      <4> QED  BY <4>1, <4>2 DEF Stored, ObjectsAreCounted
    <3> QED  BY <3>1, <3>2
  <2>2. ASSUME NEW k \in Inputs, db'.inputs[k].state = "saved" PROVE k \in objects'
    <3>1. CASE k # i  BY <2>2, <3>1 DEF Stored, ObjectsAreCounted
    <3> QED  BY <2>2, <3>1
  <2> QED  BY <2>1, <2>2 DEF Counted
<1>4. ASSUME NEW k \in Handlers, k # h PROVE InputOf(hand[k], db', objects')
  <2>1. InputOf(hand[k], db, objects)  BY DEF Stored
  <2>2. CASE hand[k].pc \in Uploading
    <3>1. hand[k].pc # "erase"  BY <2>2 DEF Uploading
    <3>2. CASE hand[k].input = i
      BY <1>4, <2>1, <2>2, <3>1, <3>2 DEF InputOf
    <3>3. CASE hand[k].input # i
      <4>1. hand[k].input \in Inputs  BY <1>2, <2>2
      <4> QED  BY <2>1, <2>2, <3>1, <3>3, <4>1 DEF InputOf
    <3> QED  BY <3>2, <3>3
  <2>3. CASE hand[k].pc = "erase"
    <3>1. hand[k].input \in Inputs /\ hand[k].pc \notin Uploading
      BY <1>2, <2>3 DEF Uploading
    <3>2. db'.inputs[hand[k].input].state = "deleted"  BY <2>1, <2>3, <3>1 DEF InputOf
    <3> QED  BY <2>3, <3>1, <3>2 DEF InputOf
  <2>4. CASE hand[k].pc \notin Uploading \cup {"erase"}
    BY <2>4 DEF InputOf, Uploading
  <2> QED  BY <2>2, <2>3, <2>4
<1>5. \A k \in Handlers : InputOf(hand'[k], db', objects')  BY <1>1, <1>4
<1>6. ASSUME NEW k \in Handlers, NEW j \in Handlers, k # j,
             hand'[k].pc \in Uploading, hand'[j].pc \in Uploading
      PROVE  hand'[k].input # hand'[j].input
  <2>1. CASE k # h /\ j # h  BY <1>1, <1>6, <2>1 DEF Stored
  <2>2. CASE k = h  BY <1>1, <1>6, <2>2
  <2>3. CASE j = h  BY <1>1, <1>6, <2>3
  <2> QED  BY <2>1, <2>2, <2>3
<1> QED  BY <1>3, <1>5, <1>6 DEF Stored, ObjectsAreCounted, Counted

\* The row of one input.
LEMMA RowIs ==
    ASSUME NEW d, IsTables(d), NEW i \in Inputs, NEW f
    PROVE  LET e == SetInput(d, i, f) IN
           /\ DOMAIN e.inputs = Inputs /\ e.inputs[i] = f
           /\ \A k \in Inputs : k # i => e.inputs[k] = d.inputs[k]
<1> DEFINE ins == [d.inputs EXCEPT ![i] = f]
           e == [d EXCEPT !.inputs = ins]
<1>1. /\ DOMAIN ins = Inputs /\ ins[i] = f
      /\ \A k \in Inputs : k # i => ins[k] = d.inputs[k]
  BY DEF IsTables
<1>2. SetInput(d, i, f) = e  BY DEF SetInput
<1> HIDE DEF ins
<1>3. e.inputs = ins  BY DEF IsTables
<1> QED  BY <1>1, <1>2, <1>3

LEMMA RequestIs ==
    ASSUME TypeOK, NEW h \in Handlers, hand[h].pc \in Uploading \cup {"erase"}
    PROVE  DOMAIN hand[h] = {"pc", "input"} /\ hand[h].input \in Inputs
BY DEF TypeOK, IsHand, Deleting, Uploading, Staging

\* What an upload in progress relies on.
LEMMA UploadIs ==
    ASSUME TypeOK, Stored, Quotas(db), NEW h \in Handlers, hand[h].pc \in Uploading
    PROVE  LET i == hand[h].input IN
           /\ i \in Inputs /\ DOMAIN hand[h] = {"pc", "input"}
           /\ db.inputs[i].state = "reserved" /\ Row(db.inputs[i])
           /\ \A k \in Handlers : k # h => ~(hand[k].pc \in Uploading /\ hand[k].input = i)
<1>1. hand[h].input \in Inputs /\ DOMAIN hand[h] = {"pc", "input"}  BY RequestIs
<1>2. db.inputs[hand[h].input].state = "reserved"  BY DEF Stored, InputOf
<1> QED  BY <1>1, <1>2 DEF Stored, Quotas

\* Every row counts what it counted, or less.
Shrinks(d, e) ==
    \A i \in Inputs :
        /\ Row(e.inputs[i])
        /\ Counts(e.inputs[i]) =>
              /\ Counts(d.inputs[i]) /\ e.inputs[i].owner = d.inputs[i].owner
              /\ e.inputs[i].size <= d.inputs[i].size

LEMMA ReserveStored ==
    ASSUME TypeOK, Stored, Quotas(db), NEW h \in Handlers, ReserveInput(h)
    PROVE  Stored'
<1>1. PICK i \in Inputs, owner \in Owners :
         /\ db.inputs[i].state = "none" /\ i \notin objects
         /\ \A k \in Handlers : hand[k].pc \in {"write", "save", "abort", "discard"} =>
               hand[k].input # i
         /\ db' = SetInput(db, i, [state |-> "reserved", owner |-> owner, size |-> InputLimit])
         /\ Step(h, [pc |-> "write", input |-> i])
  BY DEF ReserveInput, Commit
<1> DEFINE f == [state |-> "reserved", owner |-> owner, size |-> InputLimit]
           r == [pc |-> "write", input |-> i]
<1>2. r.pc = "write" /\ r.input = i /\ f.state = "reserved"  OBVIOUS
<1>3. IsTables(db) /\ hand[h].pc = "idle" /\ UNCHANGED objects /\ db' = SetInput(db, i, f)
      /\ Step(h, r)
  BY <1>1 DEF TypeOK, ReserveInput, Begins, At, KeepFiles
<1> HIDE DEF f, r
<1>4. /\ DOMAIN db'.inputs = Inputs /\ db'.inputs[i].state = "reserved"
      /\ \A k \in Inputs : k # i => db'.inputs[k] = db.inputs[k]
  BY <1>2, <1>3, RowIs
<1>5. \A k \in Handlers : hand[k].pc \in Uploading => hand[k].input # i
  BY <1>1 DEF Uploading
<1>6. InputOf(r, db', objects')  BY <1>2, <1>4 DEF InputOf, Uploading
<1>7. objects' \subseteq Inputs  BY <1>3 DEF Stored
<1> QED  BY <1>1, <1>2, <1>3, <1>4, <1>5, <1>6, <1>7, StoredMoves

LEMMA WriteStored ==
    ASSUME TypeOK, Stored, Quotas(db), NEW h \in Handlers, WriteInput(h) \/ AbortInput(h)
    PROVE  Stored'
<1> DEFINE i == hand[h].input
<1>1. PICK pc \in {"save", "abort", "discard"} :
         /\ Step(h, [hand[h] EXCEPT !.pc = pc])
         /\ pc = "save" => objects' = objects \cup {i}
         /\ pc = "discard" => objects' = objects \ {i}
  BY DEF WriteInput, AbortInput
<1> DEFINE r == [hand[h] EXCEPT !.pc = pc]
<1>2. /\ hand[h].pc \in {"write", "abort"} /\ UNCHANGED db
      /\ objects' = objects \cup {i} \/ objects' = objects \ {i}
  BY DEF WriteInput, AbortInput, At, KeepTables
<1>3. hand[h].pc \in Uploading  BY <1>2 DEF Uploading
<1>4. /\ i \in Inputs /\ DOMAIN hand[h] = {"pc", "input"} /\ db.inputs[i].state = "reserved"
      /\ \A k \in Handlers : k # h => ~(hand[k].pc \in Uploading /\ hand[k].input = i)
  BY <1>3, UploadIs
<1>5. r.pc = pc /\ r.input = i /\ Step(h, r)  BY <1>1, <1>4
<1> HIDE DEF r, i
<1>6. InputOf(r, db', objects')  BY <1>1, <1>2, <1>4, <1>5 DEF InputOf, Uploading
<1>7. DOMAIN db'.inputs = Inputs /\ objects' \subseteq Inputs
  BY <1>2, <1>4 DEF TypeOK, IsTables, Stored
<1>8. hand[h].pc # "erase"  BY <1>2
<1>9. \A k \in Inputs : k # i => (k \in objects' <=> k \in objects)  BY <1>2
<1> QED  BY <1>2, <1>4, <1>5, <1>6, <1>7, <1>8, <1>9, StoredMoves

LEMMA SaveStored ==
    ASSUME TypeOK, Stored, Quotas(db), NEW h \in Handlers, SaveInput(h)
    PROVE  Stored' /\ Shrinks(db, db')
<1> DEFINE i == hand[h].input
<1>1. PICK size \in 1..InputLimit :
         db' = SetInput(db, i, [db.inputs[i] EXCEPT !.state = "saved", !.size = size])
  BY DEF SaveInput, Commit
<1> DEFINE f == [db.inputs[i] EXCEPT !.state = "saved", !.size = size]
<1>2. /\ hand[h].pc = "save" /\ UNCHANGED objects /\ Step(h, Idle) /\ IsTables(db)
      /\ db' = SetInput(db, i, f)
  BY <1>1 DEF SaveInput, At, KeepFiles, TypeOK
<1>3. hand[h].pc \in Uploading  BY <1>2 DEF Uploading
<1>4. /\ i \in Inputs /\ db.inputs[i].state = "reserved" /\ Row(db.inputs[i])
      /\ \A k \in Handlers : k # h => ~(hand[k].pc \in Uploading /\ hand[k].input = i)
  BY <1>3, UploadIs
<1>5. i \in objects  BY <1>2 DEF Stored, InputOf
<1>6. /\ DOMAIN db.inputs[i] = {"state", "owner", "size"} /\ db.inputs[i].size = InputLimit
      /\ Counts(db.inputs[i])
  BY <1>4 DEF Row, Counts
<1>7. /\ DOMAIN f = {"state", "owner", "size"} /\ f.state = "saved" /\ f.size = size
      /\ f.owner = db.inputs[i].owner
  BY <1>6
<1> HIDE DEF f, i
<1>8. /\ DOMAIN db'.inputs = Inputs /\ db'.inputs[i] = f
      /\ \A k \in Inputs : k # i => db'.inputs[k] = db.inputs[k]
  BY <1>2, <1>4, RowIs
<1>9. size \in Nat /\ size <= InputLimit  BY JobFilesAssumption
<1>10. Row(f) /\ f.size <= db.inputs[i].size  BY <1>6, <1>7, <1>9 DEF Row, Counts
<1>11. Shrinks(db, db')
  <2>1. ASSUME NEW k \in Inputs, k # i PROVE Row(db.inputs[k])  BY DEF Quotas
  <2>2. ASSUME NEW k \in Inputs, k # i, Counts(db.inputs[k])
        PROVE  db.inputs[k].size <= db.inputs[k].size
    BY <2>1, <2>2 DEF Row
  <2> QED  BY <1>6, <1>7, <1>8, <1>10, <2>1, <2>2 DEF Shrinks
<1>12. InputOf(Idle, db', objects')  BY IdleIs DEF InputOf, Uploading
<1>13. Idle.pc \notin Uploading  BY IdleIs DEF Uploading
<1>14. objects' \subseteq Inputs /\ hand[h].pc # "erase"  BY <1>2 DEF Stored
<1>15. Stored'
  BY <1>2, <1>4, <1>5, <1>7, <1>8, <1>12, <1>13, <1>14, StoredMoves
<1> QED  BY <1>11, <1>15

LEMMA DiscardStored ==
    ASSUME TypeOK, Stored, Quotas(db), NEW h \in Handlers, DiscardReservation(h)
    PROVE  Stored' /\ Shrinks(db, db')
<1> DEFINE i == hand[h].input
           f == [state |-> "none"]
<1>1. /\ hand[h].pc = "discard" /\ UNCHANGED objects /\ Step(h, Idle) /\ IsTables(db)
      /\ db' = SetInput(db, i, f)
  BY DEF DiscardReservation, At, KeepFiles, TypeOK, Commit
<1>2. hand[h].pc \in Uploading  BY <1>1 DEF Uploading
<1>3. /\ i \in Inputs /\ db.inputs[i].state = "reserved"
      /\ \A k \in Handlers : k # h => ~(hand[k].pc \in Uploading /\ hand[k].input = i)
  BY <1>2, UploadIs
<1>4. i \notin objects  BY <1>1 DEF Stored, InputOf
<1>5. f.state = "none" /\ DOMAIN f = {"state"}  OBVIOUS
<1> HIDE DEF f, i
<1>6. /\ DOMAIN db'.inputs = Inputs /\ db'.inputs[i] = f
      /\ \A k \in Inputs : k # i => db'.inputs[k] = db.inputs[k]
  BY <1>1, <1>3, RowIs
<1>7. ~Counts(f) /\ Row(f)  BY <1>5 DEF Row, Counts
<1>8. Shrinks(db, db')
  <2>1. ASSUME NEW k \in Inputs, k # i PROVE Row(db.inputs[k])  BY DEF Quotas
  <2>2. ASSUME NEW k \in Inputs, k # i, Counts(db.inputs[k])
        PROVE  db.inputs[k].size <= db.inputs[k].size
    BY <2>1, <2>2 DEF Row
  <2> QED  BY <1>6, <1>7, <2>1, <2>2 DEF Shrinks
<1>9. InputOf(Idle, db', objects') /\ Idle.pc \notin Uploading
  BY IdleIs DEF InputOf, Uploading
<1>10. objects' \subseteq Inputs /\ hand[h].pc # "erase"  BY <1>1 DEF Stored
<1>11. Stored'  BY <1>1, <1>3, <1>4, <1>5, <1>6, <1>9, <1>10, StoredMoves
<1> QED  BY <1>8, <1>11

LEMMA DeleteStored ==
    ASSUME TypeOK, Stored, Quotas(db), NEW h \in Handlers, DeleteInput(h)
    PROVE  Stored' /\ Shrinks(db, db')
<1>1. PICK i \in Inputs :
         /\ db.inputs[i].state \in {"saved", "deleted"}
         /\ db' = SetInput(db, i, [db.inputs[i] EXCEPT !.state = "deleted"])
         /\ Step(h, [pc |-> "erase", input |-> i])
  BY DEF DeleteInput, Commit
<1> DEFINE f == [db.inputs[i] EXCEPT !.state = "deleted"]
           r == [pc |-> "erase", input |-> i]
<1>2. hand[h].pc = "idle" /\ UNCHANGED objects /\ IsTables(db)
  BY DEF DeleteInput, Begins, At, KeepFiles, TypeOK
<1>3. f.state = "deleted" /\ "state" \in DOMAIN f  BY DEF Quotas, Row
<1>4. r.pc = "erase" /\ r.input = i  OBVIOUS
<1>5. db' = SetInput(db, i, f) /\ Step(h, r)  BY <1>1
<1> HIDE DEF f, r
<1>6. /\ DOMAIN db'.inputs = Inputs /\ db'.inputs[i] = f
      /\ \A k \in Inputs : k # i => db'.inputs[k] = db.inputs[k]
  BY <1>2, <1>5, RowIs
<1>7. ~Counts(f) /\ Row(f)  BY <1>3 DEF Row, Counts
<1>8. Shrinks(db, db')
  <2>1. ASSUME NEW k \in Inputs, k # i PROVE Row(db.inputs[k])  BY DEF Quotas
  <2>2. ASSUME NEW k \in Inputs, k # i, Counts(db.inputs[k])
        PROVE  db.inputs[k].size <= db.inputs[k].size
    BY <2>1, <2>2 DEF Row
  <2> QED  BY <1>6, <1>7, <2>1, <2>2 DEF Shrinks
<1>9. \A k \in Handlers : k # h => ~(hand[k].pc \in Uploading /\ hand[k].input = i)
  BY <1>1 DEF Stored, InputOf
<1>10. InputOf(r, db', objects') /\ r.pc \notin Uploading
  BY <1>3, <1>4, <1>6 DEF InputOf, Uploading
<1>11. objects' \subseteq Inputs /\ hand[h].pc # "erase"  BY <1>2 DEF Stored
<1>12. Stored'  BY <1>2, <1>3, <1>4, <1>5, <1>6, <1>9, <1>10, <1>11, StoredMoves
<1> QED  BY <1>8, <1>12

LEMMA EraseStored ==
    ASSUME TypeOK, Stored, Quotas(db), NEW h \in Handlers, EraseInput(h)
    PROVE  Stored'
<1> DEFINE i == hand[h].input
<1>1. /\ hand[h].pc = "erase" /\ UNCHANGED db /\ Step(h, Idle)
      /\ objects' = objects \ {i}
  BY DEF EraseInput, At, KeepTables
<1>2. i \in Inputs  BY <1>1, RequestIs
<1>3. hand[h].pc \notin Uploading  BY <1>1 DEF Uploading
<1>4. db.inputs[i].state = "deleted"  BY <1>1 DEF Stored, InputOf
<1>5. \A k \in Handlers : k # h => ~(hand[k].pc \in Uploading /\ hand[k].input = i)
  BY <1>4 DEF Stored, InputOf
<1> HIDE DEF i
<1>6. InputOf(Idle, db', objects') /\ Idle.pc \notin Uploading
  BY IdleIs DEF InputOf, Uploading
<1>7. DOMAIN db'.inputs = Inputs /\ objects' \subseteq Inputs
  BY <1>1 DEF TypeOK, IsTables, Stored
<1>8. \A k \in Inputs : k # i =>
         db'.inputs[k] = db.inputs[k] /\ (k \in objects' <=> k \in objects)
  BY <1>1
<1>9. i \notin objects' /\ db'.inputs[i].state # "saved" /\ db'.inputs[i].state = "deleted"
  BY <1>1, <1>4
<1>10. hand[h].pc = "erase" => hand[h].input = i  BY DEF i
<1> QED  BY <1>1, <1>2, <1>5, <1>6, <1>7, <1>8, <1>9, <1>10, StoredMoves

\* Every other step leaves the inputs and the requests about them alone.
Aside(h) ==
    \/ Reads(h) /\ ~InputRequest(h)
    \/ AddGroup(h) \/ CreateRun(h) \/ KeepResults(h)
InputPcs == Uploading \cup {"erase"}

LEMMA StoredStays ==
    ASSUME Stored, db'.inputs = db.inputs, UNCHANGED objects,
           \A k \in Handlers :
              \/ hand'[k] = hand[k]
              \/ hand[k].pc \notin InputPcs /\ hand'[k].pc \notin InputPcs
    PROVE  Stored'
<1>1. \A k \in Handlers : hand'[k].pc \in InputPcs => hand'[k] = hand[k]  OBVIOUS
<1>2. \A k \in Handlers : hand[k].pc \in InputPcs => hand'[k] = hand[k]  OBVIOUS
<1>3. \A k \in Handlers : InputOf(hand'[k], db', objects')
  <2> TAKE k \in Handlers
  <2>1. CASE hand'[k].pc \in InputPcs  BY <1>1, <2>1 DEF Stored, InputOf
  <2>2. CASE hand'[k].pc \notin InputPcs  BY <2>2 DEF InputOf, InputPcs, Uploading
  <2> QED  BY <2>1, <2>2
<1>4. Counted(db', objects', hand')
  <2>1. \A i \in objects : \/ db.inputs[i].state \in {"reserved", "saved"}
                           \/ \E k \in Handlers : hand[k].pc = "erase" /\ hand[k].input = i
    BY DEF Stored, ObjectsAreCounted
  <2>2. \A k \in Handlers : hand[k].pc = "erase" => hand'[k] = hand[k]
    BY <1>2 DEF InputPcs
  <2>3. \A i \in Inputs : db.inputs[i].state = "saved" => i \in objects
    BY DEF Stored, ObjectsAreCounted
  <2> QED  BY <2>1, <2>2, <2>3 DEF Counted
<1>5. \A k, j \in Handlers : k # j /\ hand'[k].pc \in Uploading /\ hand'[j].pc \in Uploading =>
         hand'[k].input # hand'[j].input
  BY <1>1 DEF Stored, InputPcs
<1> QED  BY <1>3, <1>4, <1>5 DEF Stored, ObjectsAreCounted, Counted

LEMMA OneMoves ==
    ASSUME TypeOK, NEW h \in Handlers, NEW r, Step(h, r),
           hand[h].pc \notin InputPcs, r.pc \notin InputPcs
    PROVE  \A k \in Handlers :
              \/ hand'[k] = hand[k]
              \/ hand[k].pc \notin InputPcs /\ hand'[k].pc \notin InputPcs
<1>1. hand'[h] = r /\ \A k \in Handlers : k # h => hand'[k] = hand[k]  BY SteppedHands
<1> QED  BY <1>1

\* A request that never touches an input moves on.
Other(h) ==
    \/ UNCHANGED hand
    \/ \E r : Step(h, r) /\ hand[h].pc \notin InputPcs /\ r.pc \notin InputPcs

LEMMA PcIs ==
    ASSUME TypeOK, NEW h \in Handlers
    PROVE  /\ \A pc : [hand[h] EXCEPT !.pc = pc].pc = pc
           /\ \A S : [hand[h] EXCEPT !.left = S].pc = hand[h].pc
<1>1. "pc" \in DOMAIN hand[h]  BY DEF TypeOK, IsHand
<1> QED  BY <1>1

LEMMA AsideMoves == ASSUME TypeOK, NEW h \in Handlers, Aside(h) PROVE Other(h)
<1> USE DEF InputPcs, Uploading
<1>1. Idle.pc \notin InputPcs  BY IdleIs
<1>2. ASSUME Stage(h) PROVE Other(h)
  <2> DEFINE r == [pc |-> "record", file |-> Len(made) + 1]
  <2>1. r.pc = "record"  OBVIOUS
  <2>2. Step(h, r) /\ hand[h].pc = "idle"  BY <1>2 DEF Stage, Begins, At
  <2> HIDE DEF r
  <2> QED  BY <2>1, <2>2 DEF Other
<1>3. RecordUpload(h) \/ AddGroup(h) \/ KeepResults(h) \/ FreeRun(h) => Other(h)
  BY <1>1 DEF RecordUpload, AddGroup, KeepResults, FreeRun, At, Other
<1>4. ASSUME Submit(h) PROVE Other(h)
  <2>1. PICK refs, key : Step(h, [pc |-> "insert", refs |-> refs, key |-> key])
    BY <1>4 DEF Submit
  <2> DEFINE r == [pc |-> "insert", refs |-> refs, key |-> key]
  <2>2. r.pc = "insert" /\ Step(h, r) /\ hand[h].pc = "idle"
    BY <1>4, <2>1 DEF Submit, Begins, At
  <2> HIDE DEF r
  <2> QED  BY <2>2 DEF Other
<1>5. ASSUME SubmitRun(h) PROVE Other(h)
  <2>1. PICK owner, key, i :
           Step(h, [pc |-> "hold", owner |-> owner, key |-> key, input |-> i])
    BY <1>5 DEF SubmitRun
  <2> DEFINE r == [pc |-> "hold", owner |-> owner, key |-> key, input |-> i]
  <2>2. r.pc = "hold" /\ Step(h, r) /\ hand[h].pc = "idle"
    BY <1>5, <2>1 DEF SubmitRun, Begins, At
  <2> HIDE DEF r
  <2> QED  BY <2>2 DEF Other
<1>6. ASSUME HoldRun(h) PROVE Other(h)
  <2> DEFINE x == [owner |-> hand[h].owner, paths |-> {Len(made) + 1, Len(made) + 2}]
             r == [pc |-> "project", owner |-> hand[h].owner, key |-> hand[h].key,
                   input |-> hand[h].input, hold |-> x]
  <2>1. r.pc = "project"  OBVIOUS
  <2>2. hand[h].pc = "hold" /\ (Step(h, Idle) \/ Step(h, r))
    BY <1>6 DEF HoldRun, At
  <2> HIDE DEF r
  <2> QED  BY <1>1, <2>1, <2>2 DEF Other
<1>7. ASSUME StageProject(h) \/ StageInput(h) \/ RefuseRun(h) \/ CleanRun(h) \/ CreateRun(h)
      PROVE  Other(h)
  <2>1. /\ hand[h].pc \in Staging
        /\ \/ Step(h, Idle)
           \/ \E pc \in Staging : Step(h, [hand[h] EXCEPT !.pc = pc])
    BY <1>7 DEF StageProject, StageInput, RefuseRun, CleanRun, CreateRun, At, Staging
  <2>2. hand[h].pc \notin InputPcs  BY <2>1 DEF Staging
  <2>3. CASE Step(h, Idle)  BY <1>1, <2>2, <2>3 DEF Other
  <2>4. ASSUME NEW pc \in Staging, Step(h, [hand[h] EXCEPT !.pc = pc]) PROVE Other(h)
    <3> DEFINE r == [hand[h] EXCEPT !.pc = pc]
    <3>1. r.pc = pc  BY PcIs
    <3>2. r.pc \notin InputPcs  BY <3>1 DEF Staging
    <3>3. Step(h, r)  BY <2>4
    <3> HIDE DEF r
    <3> QED  BY <2>2, <3>2, <3>3 DEF Other
  <2> QED  BY <2>1, <2>3, <2>4
<1>8. ASSUME NEW g \in DOMAIN db.groups, ReadResults(h, g) PROVE Other(h)
  <2> DEFINE r == [pc |-> "insert results", run |-> g, read |-> outputs[g]]
  <2>1. r.pc = "insert results"  OBVIOUS
  <2>2. hand[h].pc = "idle" /\ (UNCHANGED hand \/ Step(h, r))
    BY <1>8 DEF ReadResults, Begins, At
  <2> HIDE DEF r
  <2> QED  BY <2>1, <2>2 DEF Other
<1> QED
  BY <1>2, <1>3, <1>4, <1>5, <1>6, <1>7, <1>8 DEF Aside, Reads, InputRequest

LEMMA AsideKeeps ==
    ASSUME TypeOK, NEW h \in Handlers, Aside(h)
    PROVE  db'.inputs = db.inputs /\ UNCHANGED objects
<1>1. IsTables(db)  BY DEF TypeOK
<1>2. UNCHANGED objects
  BY DEF Aside, Reads, InputRequest, Stage, RecordUpload, Submit, AddGroup, KeepResults, FreeRun,
         SubmitRun, HoldRun, StageProject, StageInput, RefuseRun, CleanRun, CreateRun,
         ReadResults, KeepFiles
<1>3. \/ UNCHANGED db
      \/ \E S : db' = [db EXCEPT !.uploads = S]
      \/ \E S : db' = [db EXCEPT !.holds = S]
      \/ \E S : db' = [db EXCEPT !.groups = S]
      \/ \E S, T : db' = [db EXCEPT !.holds = S, !.groups = T]
  <2>1. Stage(h) \/ Submit(h) \/ SubmitRun(h) \/ StageProject(h) \/ StageInput(h)
          \/ RefuseRun(h) \/ CleanRun(h) \/ (\E g \in DOMAIN db.groups : ReadResults(h, g)) =>
        UNCHANGED db
    BY DEF Stage, Submit, SubmitRun, StageProject, StageInput, RefuseRun, CleanRun, ReadResults,
           KeepTables
  <2>2. RecordUpload(h) => \E S : db' = [db EXCEPT !.uploads = S]
    BY DEF RecordUpload, Commit
  <2>3. HoldRun(h) \/ FreeRun(h) => UNCHANGED db \/ \E S : db' = [db EXCEPT !.holds = S]
    BY DEF HoldRun, FreeRun, KeepTables, Commit
  <2>4. AddGroup(h) => UNCHANGED db \/ \E S : db' = [db EXCEPT !.groups = S]
    BY DEF AddGroup, KeepTables, Commit
  <2>5. CreateRun(h) => \/ \E S : db' = [db EXCEPT !.holds = S]
                        \/ \E S, T : db' = [db EXCEPT !.holds = S, !.groups = T]
    BY DEF CreateRun, Commit
  <2>6. ASSUME KeepResults(h) PROVE \E S : db' = [db EXCEPT !.groups = S]
    <3>1. PICK g, m : db' = [db EXCEPT !.groups[g].manifest = m]
      BY <1>1, <2>6 DEF KeepResults, Commit
    <3> DEFINE S == [db.groups EXCEPT ![g].manifest = m]
    <3>2. db' = [db EXCEPT !.groups = S]  BY <3>1
    <3> QED  BY <3>2
  <2> QED  BY <2>1, <2>2, <2>3, <2>4, <2>5, <2>6 DEF Aside, Reads, InputRequest
<1> QED  BY <1>1, <1>2, <1>3 DEF IsTables


LEMMA EndsKeeps ==
    ASSUME TypeOK, Ends
    PROVE  /\ db'.inputs = db.inputs /\ UNCHANGED objects
           /\ UNCHANGED hand \/ \E h \in Handlers : Other(h)
<1>1. IsTables(db)  BY DEF TypeOK
<1>2. UNCHANGED objects
  BY DEF Ends, List, Unlink, Forget, CancelDone, CancelTask, Report, Cancel, Claim, Publish,
         Sweep, ChangeOutputs, KeepFiles
<1>3. ASSUME NEW h \in Handlers,
             \/ List(h) \/ Unlink(h) \/ Forget(h) \/ CancelDone(h) \/ CancelTask(h)
             \/ \E j \in Tasks(db) : Report(h, j)
             \/ \E S \in SUBSET Tasks(db) : Cancel(h, S)
      PROVE  Other(h)
  BY <1>3, EndsSteps DEF Other, InputPcs, Uploading, Releasing
<1>4. (\/ \E j \in Tasks(db) : Claim(j) \/ Publish(j) \/ Sweep(j)
       \/ \E g \in DOMAIN db.groups : ChangeOutputs(g)) => UNCHANGED hand
  BY DEF Claim, Publish, Sweep, ChangeOutputs
<1>5. db'.inputs = db.inputs
  <2>1. CASE UNCHANGED db  BY <2>1
  <2>2. CASE Retasks  BY <1>1, <2>2, SetTaskIs DEF Retasks, Retasked
  <2>3. CASE \E h \in Handlers : Forget(h)
    <3>1. PICK h \in Handlers : db' = [db EXCEPT !.uploads = db.uploads \ hand[h].drop]
      BY <2>3 DEF Forget, Commit
    <3> QED  BY <1>1, <3>1 DEF IsTables
  <2>4. ASSUME NEW h \in Handlers, CancelTask(h) \/ \E j \in Tasks(db) : Report(h, j)
        PROVE  UNCHANGED db \/ Retasks
    BY <2>4, RetasksIs
  <2>5. ASSUME NEW j \in Tasks(db), Claim(j) \/ Sweep(j) PROVE UNCHANGED db \/ Retasks
    BY <2>5, RetasksIs
  <2>6. ASSUME NEW h \in Handlers,
               \/ List(h) \/ Unlink(h) \/ CancelDone(h)
               \/ \E S \in SUBSET Tasks(db) : Cancel(h, S)
        PROVE  UNCHANGED db
    BY <2>6 DEF List, Unlink, CancelDone, Cancel, KeepTables
  <2>7. (\E j \in Tasks(db) : Publish(j)) \/ (\E g \in DOMAIN db.groups : ChangeOutputs(g))
        => UNCHANGED db
    BY DEF Publish, ChangeOutputs, KeepTables
  <2> QED  BY <2>1, <2>2, <2>3, <2>4, <2>5, <2>6, <2>7 DEF Ends
<1> QED  BY <1>2, <1>3, <1>4, <1>5 DEF Ends

LEMMA OtherStored ==
    ASSUME TypeOK, Stored, db'.inputs = db.inputs, UNCHANGED objects,
           UNCHANGED hand \/ \E h \in Handlers : Other(h)
    PROVE  Stored'
<1>1. \A k \in Handlers : \/ hand'[k] = hand[k]
                          \/ hand[k].pc \notin InputPcs /\ hand'[k].pc \notin InputPcs
  BY OneMoves DEF Other
<1> QED  BY <1>1, StoredStays

\* A start drops the reservations and whatever they and the deletions left.
LEMMA RestartStored ==
    ASSUME TypeOK, Stored, Quotas(db), Restart
    PROVE  Stored' /\ Shrinks(db, db')
<1> DEFINE new(i) == IF db.inputs[i].state = "reserved" THEN [state |-> "none"] ELSE db.inputs[i]
           ins == [i \in Inputs |-> new(i)]
<1>1. db' = [db EXCEPT !.holds = {}, !.inputs = ins]  BY DEF Restart
<1>2. /\ objects' = {i \in objects : db.inputs[i].state = "saved"}
      /\ \A h \in Handlers : hand'[h] = Idle
  BY DEF Restart
<1>3. db'.inputs = ins
  <2>1. DOMAIN db = {"uploads", "groups", "holds", "inputs"}  BY DEF TypeOK, IsTables
  <2> HIDE DEF ins
  <2> QED  BY ONLY <1>1, <2>1
<1>4. \A i \in Inputs : db'.inputs[i] = new(i)  BY <1>3
<1>5. ASSUME NEW i \in Inputs
      PROVE  /\ new(i).state = "saved" <=> db.inputs[i].state = "saved"
             /\ Row(new(i))
             /\ Counts(new(i)) => new(i) = db.inputs[i] /\ Counts(db.inputs[i])
  <2>1. Row(db.inputs[i])  BY DEF Quotas
  <2>2. CASE db.inputs[i].state = "reserved"
    <3> DEFINE f == [state |-> "none"]
    <3>1. f.state = "none" /\ DOMAIN f = {"state"}  OBVIOUS
    <3>2. new(i) = f  BY <2>2
    <3> HIDE DEF f
    <3> QED  BY <2>2, <3>1, <3>2 DEF Row, Counts
  <2>3. CASE db.inputs[i].state # "reserved"
    <3>1. new(i) = db.inputs[i]  BY <2>3
    <3> QED  BY <2>1, <3>1
  <2> QED  BY <2>2, <2>3
<1> HIDE DEF new, ins
<1>6. Shrinks(db, db')
  <2>1. ASSUME NEW i \in Inputs, Counts(db.inputs[i])
        PROVE  db.inputs[i].size <= db.inputs[i].size
    BY <2>1 DEF Quotas, Row
  <2> QED  BY <1>4, <1>5, <2>1 DEF Shrinks
<1>7. objects' \subseteq Inputs  BY <1>2 DEF Stored
<1>8. Counted(db', objects', hand')
  BY <1>2, <1>4, <1>5, <1>7 DEF Counted, Stored, ObjectsAreCounted
<1>9. \A h \in Handlers : InputOf(hand'[h], db', objects') /\ hand'[h].pc \notin Uploading
  BY <1>2, IdleIs DEF InputOf, Uploading
<1>10. Stored'  BY <1>7, <1>8, <1>9 DEF Stored, ObjectsAreCounted, Counted
<1> QED  BY <1>6, <1>10

\* The bytes of rows are a sum of their sizes.
Sizes(d) == [i \in Inputs |-> d.inputs[i].size]
LEMMA BytesIs ==
    ASSUME NEW d, NEW S \in SUBSET Inputs
    PROVE  Bytes(d, S) = SumOf(Sizes(d), S)
<1> DEFINE term(s, F) == IF s = {} THEN 0 ELSE d.inputs[Pick(s)].size + F[s \ {Pick(s)}]
           adds(F) == F = [s \in SUBSET S |-> term(s, F)]
<1>1. Bytes(d, S) = (CHOOSE F : adds(F))[S]
  BY DEF Bytes, MapThenSumSet, MapThenFoldSet, Pick
<1>2. ASSUME NEW F PROVE adds(F) <=> Adds(Sizes(d), S, F)
  <2>1. ASSUME NEW s \in SUBSET S PROVE term(s, F) = Term(Sizes(d), s, F)
    <3>1. CASE s = {}  BY <3>1 DEF Term
    <3>2. CASE s # {}
      <4>1. Pick(s) \in Inputs  BY <3>2 DEF Pick
      <4> QED  BY <3>2, <4>1 DEF Term, Sizes
    <3> QED  BY <3>1, <3>2
  <2> HIDE DEF term
  <2>2. [s \in SUBSET S |-> term(s, F)] = [s \in SUBSET S |-> Term(Sizes(d), s, F)]
    BY <2>1
  <2> QED  BY <2>2 DEF Adds
<1> HIDE DEF adds
<1>3. (CHOOSE F : adds(F)) = (CHOOSE F : Adds(Sizes(d), S, F))
  BY <1>2
<1> QED  BY <1>1, <1>3, SumIs


LEMMA RetainedIs ==
    ASSUME NEW d, \A i \in Inputs : Row(d.inputs[i])
    PROVE  /\ Retained(d) \in SUBSET Inputs /\ IsFiniteSet(Retained(d))
           /\ \A i \in Inputs : i \in Retained(d) <=> Counts(d.inputs[i])
           /\ \A i \in Retained(d) : Sizes(d)[i] \in Nat /\ Sizes(d)[i] = d.inputs[i].size
           /\ \A o : OwnedInputs(d, o) \in SUBSET Retained(d)
<1>1. /\ Retained(d) \in SUBSET Inputs
      /\ \A i \in Inputs : i \in Retained(d) <=> Counts(d.inputs[i])
      /\ \A o : OwnedInputs(d, o) \in SUBSET Retained(d)
  BY DEF Retained, Counts, OwnedInputs
<1>2. IsFiniteSet(Retained(d))  BY <1>1, FS_Subset, JobFilesAssumption
<1>3. \A i \in Retained(d) : Sizes(d)[i] \in Nat /\ Sizes(d)[i] = d.inputs[i].size
  BY <1>1 DEF Row, Sizes
<1> QED  BY <1>1, <1>2, <1>3

\* What counts less sums to less.
LEMMA BytesShrink ==
    ASSUME NEW d, NEW e, \A i \in Inputs : Row(d.inputs[i]), Shrinks(d, e),
           NEW T \in SUBSET Retained(d), NEW S \in SUBSET (T \cap Retained(e))
    PROVE  Bytes(e, S) \in Nat /\ Bytes(d, T) \in Nat /\ Bytes(e, S) <= Bytes(d, T)
<1>1. \A i \in Inputs : Row(e.inputs[i])  BY DEF Shrinks
<1>2. IsFiniteSet(T) /\ IsFiniteSet(S)  BY RetainedIs, FS_Subset
<1>3. \A i \in T : Sizes(d)[i] \in Nat /\ Sizes(d)[i] = d.inputs[i].size  BY RetainedIs
<1>4. \A i \in S : Sizes(e)[i] \in Nat /\ Sizes(e)[i] = e.inputs[i].size  BY <1>1, RetainedIs
<1>5. \A i \in S : i \in Inputs /\ Counts(e.inputs[i])  BY <1>1, RetainedIs
<1>6. \A i \in S : Sizes(e)[i] <= Sizes(d)[i]  BY <1>3, <1>4, <1>5 DEF Shrinks
<1>7. S \in SUBSET Inputs /\ T \in SUBSET Inputs /\ S \in SUBSET T  BY <1>5, RetainedIs
<1>8. SumOf(Sizes(e), S) <= SumOf(Sizes(d), T)  BY <1>2, <1>3, <1>4, <1>6, <1>7, SumGrows
<1>9. SumOf(Sizes(e), S) \in Nat /\ SumOf(Sizes(d), T) \in Nat
  BY <1>2, <1>3, <1>4, SumSplits
<1> QED  BY <1>7, <1>8, <1>9, BytesIs

LEMMA QuotasShrink ==
    ASSUME NEW d, NEW e, Quotas(d), Shrinks(d, e)
    PROVE  Quotas(e)
<1>1. (\A i \in Inputs : Row(d.inputs[i])) /\ \A i \in Inputs : Row(e.inputs[i])
  BY DEF Quotas, Shrinks
<1>2. Retained(e) \subseteq Retained(d)  BY <1>1, RetainedIs DEF Shrinks
<1>3. Bytes(e, Retained(e)) <= TotalQuota
  <2>1. /\ Bytes(e, Retained(e)) \in Nat /\ Bytes(d, Retained(d)) \in Nat
        /\ Bytes(e, Retained(e)) <= Bytes(d, Retained(d))
    BY <1>1, <1>2, BytesShrink
  <2> QED  BY <2>1, JobFilesAssumption DEF Quotas
<1>4. ASSUME NEW o \in Owners PROVE Bytes(e, OwnedInputs(e, o)) <= OwnerQuota
  <2>1. OwnedInputs(e, o) \subseteq OwnedInputs(d, o)
    BY <1>1, <1>2, RetainedIs DEF OwnedInputs, Shrinks
  <2>2. /\ OwnedInputs(d, o) \in SUBSET Retained(d)
        /\ OwnedInputs(e, o) \in SUBSET (OwnedInputs(d, o) \cap Retained(e))
    BY <1>1, <2>1, RetainedIs
  <2>3. /\ Bytes(e, OwnedInputs(e, o)) \in Nat /\ Bytes(d, OwnedInputs(d, o)) \in Nat
        /\ Bytes(e, OwnedInputs(e, o)) <= Bytes(d, OwnedInputs(d, o))
    BY <1>1, <2>2, BytesShrink
  <2> QED  BY <2>3, JobFilesAssumption DEF Quotas
<1> QED  BY <1>1, <1>3, <1>4 DEF Quotas

\* One row more.
LEMMA BytesReserve ==
    ASSUME NEW d, NEW e, \A i \in Inputs : Row(d.inputs[i]), NEW i \in Inputs,
           \A k \in Inputs : k # i => e.inputs[k] = d.inputs[k],
           e.inputs[i].size = InputLimit,
           NEW S \in SUBSET Retained(d), i \notin S
    PROVE  Bytes(e, S \cup {i}) = InputLimit + Bytes(d, S)
<1> DEFINE T == S \cup {i}
<1>1. S \in SUBSET Inputs /\ T \in SUBSET Inputs /\ i \in T /\ T \ {i} = S  BY RetainedIs
<1>2. IsFiniteSet(T) /\ IsFiniteSet(S)  BY <1>1, FS_Subset, JobFilesAssumption
<1>3. \A k \in S : Sizes(d)[k] \in Nat /\ Sizes(d)[k] = d.inputs[k].size  BY RetainedIs
<1>4. \A k \in T : Sizes(e)[k] = e.inputs[k].size  BY <1>1 DEF Sizes
<1>5. \A k \in S : k \in Inputs /\ k # i /\ k \in T  BY <1>1
<1>6. \A k \in S : Sizes(d)[k] \in Nat /\ Sizes(d)[k] = Sizes(e)[k]
  BY <1>3, <1>4, <1>5
<1>7. Sizes(e)[i] = InputLimit /\ InputLimit \in Nat  BY <1>1, <1>4, JobFilesAssumption
<1> HIDE DEF T
<1>8. \A k \in T : Sizes(e)[k] \in Nat
  <2>1. ASSUME NEW k \in T PROVE k = i \/ k \in S  BY <1>1
  <2> QED  BY <1>6, <1>7, <2>1
<1>9. SumOf(Sizes(e), T) = Sizes(e)[i] + SumOf(Sizes(e), T \ {i})  BY <1>1, <1>2, <1>8, SumSplits
<1>10. SumOf(Sizes(d), S) = SumOf(Sizes(e), S)  BY <1>2, <1>6, SumAgrees
<1>11. Bytes(e, T) = SumOf(Sizes(e), T) /\ Bytes(d, S) = SumOf(Sizes(d), S)  BY <1>1, BytesIs
<1> QED  BY <1>1, <1>7, <1>9, <1>10, <1>11 DEF T

LEMMA ReserveQuotas ==
    ASSUME TypeOK, Quotas(db), NEW h \in Handlers, ReserveInput(h)
    PROVE  Quotas(db')
<1>1. PICK i \in Inputs, owner \in Owners :
         /\ db.inputs[i].state = "none" /\ InputAdmitted(db, owner)
         /\ db' = SetInput(db, i, [state |-> "reserved", owner |-> owner, size |-> InputLimit])
  BY DEF ReserveInput, Commit
<1> DEFINE f == [state |-> "reserved", owner |-> owner, size |-> InputLimit]
<1>2. /\ DOMAIN f = {"state", "owner", "size"} /\ f.state = "reserved" /\ f.owner = owner
      /\ f.size = InputLimit /\ db' = SetInput(db, i, f)
  BY <1>1
<1> HIDE DEF f
<1>3. /\ db'.inputs[i] = f /\ \A k \in Inputs : k # i => db'.inputs[k] = db.inputs[k]
  BY <1>2, RowIs DEF TypeOK
<1>4. Counts(f) /\ Row(f)  BY <1>2, JobFilesAssumption DEF Counts, Row
<1>5. \A k \in Inputs : Row(db.inputs[k])  BY DEF Quotas
<1>6. \A k \in Inputs : Row(db'.inputs[k])  BY <1>3, <1>4, <1>5
<1>7. /\ i \notin Retained(db)
      /\ Retained(db') = Retained(db) \cup {i}
  <2>1. ~Counts(db.inputs[i])  BY <1>1 DEF Counts
  <2>2. \A k \in Inputs : k \in Retained(db') <=> k \in Retained(db) \/ k = i
    BY <1>3, <1>4, <1>5, <1>6, <2>1, RetainedIs
  <2>3. Retained(db) \subseteq Inputs /\ Retained(db') \subseteq Inputs
    BY <1>5, <1>6, RetainedIs
  <2> QED  BY <1>5, <2>1, <2>2, <2>3, RetainedIs
<1>8. /\ db'.inputs[i].size = InputLimit /\ db'.inputs[i].owner = owner
       /\ \A k \in Retained(db) : k # i /\ db'.inputs[k] = db.inputs[k]
       /\ Retained(db) \in SUBSET Retained(db)
  <2>1. Retained(db) \subseteq Inputs  BY <1>5, RetainedIs
  <2> QED  BY <1>2, <1>3, <1>7, <2>1
<1>9. Bytes(db', Retained(db')) <= TotalQuota
  <2>1. Bytes(db', Retained(db) \cup {i}) = InputLimit + Bytes(db, Retained(db))
    BY <1>3, <1>5, <1>7, <1>8, BytesReserve
  <2>2. Bytes(db, Retained(db)) + InputLimit <= TotalQuota  BY <1>1 DEF InputAdmitted
  <2>3. Bytes(db, Retained(db)) \in Nat
    <3>1. Bytes(db, Retained(db)) = SumOf(Sizes(db), Retained(db))  BY <1>5, RetainedIs, BytesIs
    <3> QED  BY <1>5, <3>1, RetainedIs, SumSplits
  <2> QED  BY <1>7, <2>1, <2>2, <2>3, JobFilesAssumption
<1>10. ASSUME NEW o \in Owners PROVE Bytes(db', OwnedInputs(db', o)) <= OwnerQuota
  <2> DEFINE S == OwnedInputs(db, o)
  <2>1. S \in SUBSET Retained(db) /\ i \notin S /\ S \in SUBSET Inputs
    BY <1>5, <1>7, RetainedIs
  <2>2. CASE o = owner
    <3>1. OwnedInputs(db', o) = S \cup {i}
      BY <1>7, <1>8, <2>2 DEF OwnedInputs
    <3>2. Bytes(db', OwnedInputs(db', o)) = InputLimit + Bytes(db, S)
      BY <1>3, <1>5, <1>8, <2>1, <3>1, BytesReserve
    <3>3. Bytes(db, S) + InputLimit <= OwnerQuota  BY <1>1, <2>2 DEF InputAdmitted
    <3>4. Bytes(db, S) \in Nat
      <4>1. Bytes(db, S) = SumOf(Sizes(db), S)  BY <2>1, BytesIs
      <4>2. IsFiniteSet(S) /\ \A k \in S : Sizes(db)[k] \in Nat
        BY <1>5, <2>1, RetainedIs, FS_Subset
      <4> HIDE DEF S
      <4> QED  BY <4>1, <4>2, SumSplits
    <3> QED  BY <3>2, <3>3, <3>4, JobFilesAssumption
  <2>3. CASE o # owner
    <3>1. OwnedInputs(db', o) = S
      BY <1>7, <1>8, <2>3 DEF OwnedInputs
    <3>2. \A k \in S : Sizes(db)[k] \in Nat /\ Sizes(db)[k] = Sizes(db')[k]
      BY <1>3, <1>5, <2>1, RetainedIs DEF Sizes
    <3>3. IsFiniteSet(S)  BY <1>5, <2>1, RetainedIs, FS_Subset
    <3>4. Bytes(db, S) = Bytes(db', S)
      <4> HIDE DEF S
      <4>1. SumOf(Sizes(db), S) = SumOf(Sizes(db'), S)  BY <3>2, <3>3, SumAgrees
      <4> QED  BY <2>1, <4>1, BytesIs
    <3>5. Bytes(db, S) <= OwnerQuota  BY DEF Quotas
    <3> QED  BY <3>1, <3>4, <3>5
  <2> QED  BY <2>2, <2>3
<1> QED  BY <1>6, <1>9, <1>10 DEF Quotas


LEMMA InputRequestKeeps ==
    ASSUME TypeOK, Stored, Quotas(db), NEW h \in Handlers, InputRequest(h)
    PROVE  Stored' /\ Quotas(db')
<1>1. WriteInput(h) \/ AbortInput(h) \/ EraseInput(h) => UNCHANGED db
  BY DEF WriteInput, AbortInput, EraseInput, KeepTables
<1>2. UNCHANGED db => Quotas(db')  OBVIOUS
<1>3. Shrinks(db, db') => Quotas(db')  BY QuotasShrink
<1> QED
  BY <1>1, <1>2, <1>3, ReserveStored, ReserveQuotas, WriteStored, SaveStored, DiscardStored,
     DeleteStored, EraseStored DEF InputRequest

LEMMA SameInputsQuotas ==
    ASSUME Quotas(db), db'.inputs = db.inputs PROVE Quotas(db')
BY QuotasShrink DEF Quotas, Shrinks, Row

LEMMA NextInv3 == ASSUME Inv3, Next PROVE Stored' /\ Quotas(db')
<1>1. TypeOK /\ Stored /\ Quotas(db)  BY DEF Inv3
<1>2. ASSUME NEW h \in Handlers, InputRequest(h) PROVE Stored' /\ Quotas(db')
  BY <1>1, <1>2, InputRequestKeeps
<1>3. ASSUME NEW h \in Handlers, Aside(h) PROVE Stored' /\ Quotas(db')
  <2>1. Other(h) /\ db'.inputs = db.inputs /\ UNCHANGED objects
    BY <1>1, <1>3, AsideMoves, AsideKeeps
  <2> QED  BY <1>1, <2>1, OtherStored, SameInputsQuotas
<1>4. CASE Ends
  <2>1. /\ db'.inputs = db.inputs /\ UNCHANGED objects
        /\ UNCHANGED hand \/ \E h \in Handlers : Other(h)
    BY <1>1, <1>4, EndsKeeps
  <2> QED  BY <1>1, <2>1, OtherStored, SameInputsQuotas
<1>5. CASE Restart  BY <1>1, <1>5, RestartStored, QuotasShrink
<1> QED  BY <1>1, <1>2, <1>3, <1>4, <1>5, StepsAre DEF Aside

LEMMA InitInv3 == Init => Inv3
<1> SUFFICES ASSUME Init PROVE Inv3  OBVIOUS
<1>1. TypeOK /\ \A h \in Handlers : hand[h] = Idle  BY InitInv DEF Inv, Init
<1>2. PICK i \in Inputs : objects = IF {"run", "input"} \cap mix.requests = {"run"} THEN {i} ELSE {}
  BY DEF Init
<1>3. PICK owner \in Owners :
         db = [uploads |-> {}, groups |-> <<>>, holds |-> {},
               inputs |-> [k \in Inputs |-> IF k \notin objects THEN [state |-> "none"]
                             ELSE [state |-> "saved", owner |-> owner, size |-> 1]]]
  BY DEF Init
<1> DEFINE f == [state |-> "none"]
           g == [state |-> "saved", owner |-> owner, size |-> 1]
<1>4. /\ DOMAIN f = {"state"} /\ f.state = "none"
      /\ DOMAIN g = {"state", "owner", "size"} /\ g.state = "saved" /\ g.size = 1
  OBVIOUS
<1>5. \A k \in Inputs : db.inputs[k] = IF k \notin objects THEN f ELSE g  BY <1>3
<1> HIDE DEF f, g
<1>6. objects = {} \/ objects = {i}  BY <1>2
<1>7. Row(f) /\ Row(g) /\ ~Counts(f) /\ Counts(g)  BY <1>4 DEF Row, Counts
<1>8. \A k \in Inputs : Row(db.inputs[k])  BY <1>5, <1>7
<1>9. Retained(db) = objects
  <2>1. Retained(db) \in SUBSET Inputs /\ objects \in SUBSET Inputs  BY <1>6, <1>8, RetainedIs
  <2>2. \A k \in Inputs : k \in Retained(db) <=> k \in objects  BY <1>5, <1>7, <1>8, RetainedIs
  <2> QED  BY <2>1, <2>2
<1>10. \A S \in SUBSET objects : Bytes(db, S) <= 1
  <2> SUFFICES ASSUME NEW S \in SUBSET objects PROVE Bytes(db, S) <= 1  OBVIOUS
  <2>1. S \in SUBSET Inputs  BY <1>6
  <2>2. Bytes(db, S) = SumOf(Sizes(db), S)  BY <2>1, BytesIs
  <2>3. CASE S = {}  BY <2>2, <2>3, SumOfNone
  <2>4. CASE S = {i}
    <3>1. Sizes(db)[i] = 1  BY <1>4, <1>5, <2>4 DEF Sizes
    <3>2. IsFiniteSet({i}) /\ \A k \in {i} : Sizes(db)[k] \in Nat
      <4>1. IsFiniteSet({i})  BY ONLY FS_Singleton, Zenon
      <4> QED  BY <3>1, <4>1
    <3>3. SumOf(Sizes(db), {i}) = Sizes(db)[i] + SumOf(Sizes(db), {i} \ {i})  BY <3>2, SumSplits
    <3>4. {i} \ {i} = {}  OBVIOUS
    <3> QED  BY <2>2, <2>4, <3>1, <3>3, <3>4, SumOfNone
  <2> QED  BY <1>6, <2>3, <2>4
<1>11. 1 <= TotalQuota /\ 1 <= OwnerQuota  BY JobFilesAssumption
<1>12. Quotas(db)
  <2>1. Bytes(db, Retained(db)) <= 1 /\ \A o : Bytes(db, OwnedInputs(db, o)) <= 1
    BY <1>8, <1>9, <1>10, RetainedIs
  <2>2. \A o : OwnedInputs(db, o) \in SUBSET Retained(db)  BY <1>8, RetainedIs
  <2>3. Retained(db) \in SUBSET Retained(db)  OBVIOUS
  <2>5. \A S \in SUBSET Retained(db) : Bytes(db, S) \in Nat
    <3>1. ASSUME NEW S \in SUBSET Retained(db) PROVE Bytes(db, S) \in Nat
      <4>1. /\ IsFiniteSet(S) /\ S \in SUBSET Inputs
            /\ \A k \in S : Sizes(db)[k] \in Nat
        BY <1>8, RetainedIs, FS_Subset
      <4> QED  BY <4>1, BytesIs, SumSplits
    <3> QED  BY <3>1
  <2>6. Bytes(db, Retained(db)) <= TotalQuota
    <3>1. Bytes(db, Retained(db)) \in Nat  BY <2>3, <2>5
    <3> QED  BY <1>11, <2>1, <3>1, JobFilesAssumption
  <2>7. ASSUME NEW o \in Owners PROVE Bytes(db, OwnedInputs(db, o)) <= OwnerQuota
    <3>1. Bytes(db, OwnedInputs(db, o)) \in Nat  BY <2>2, <2>5
    <3> QED  BY <1>11, <2>1, <3>1, JobFilesAssumption
  <2> QED  BY <1>8, <2>6, <2>7 DEF Quotas
<1>13. Counted(db, objects, hand)
  BY <1>4, <1>5, <1>6 DEF Counted
<1>14. \A h \in Handlers : InputOf(hand[h], db, objects) /\ hand[h].pc \notin Uploading
  BY <1>1, IdleIs DEF InputOf, Uploading
<1>15. Stored  BY <1>6, <1>13, <1>14, CountedIs DEF Stored
<1> QED  BY <1>1, <1>12, <1>15 DEF Inv3

LEMMA Inv3Holds == Spec => []Inv3
<1>1. Inv3 /\ (Inv /\ Ended) /\ (Inv /\ Ended)' /\ [Next]_vars => Inv3'
  <2> SUFFICES ASSUME Inv3, TypeOK', [Next]_vars PROVE Inv3'  BY DEF Inv
  <2>1. CASE Next  BY <2>1, NextInv3 DEF Inv3
  <2>2. CASE UNCHANGED vars
    <3>1. UNCHANGED <<db, objects, hand>>  BY <2>2 DEF vars
    <3>2. db'.inputs = db.inputs  BY <3>1
    <3>3. Stored'  BY <3>1, <3>2, StoredStays DEF Inv3
    <3> QED  BY <3>2, <3>3, SameInputsQuotas DEF Inv3
  <2> QED  BY <2>1, <2>2
<1> QED  BY <1>1, InitInv3, InvHolds, PTL DEF Spec

\* What applications retain stays bounded: rows and uploads in progress fit both
\* quotas (reserve_input counts the limit of every upload before a byte arrives),
\* and every file in the inputs directory is counted by a row or about to be
\* removed, whatever uploads fail, inputs are deleted or restarts come between.
THEOREM RetainedBytesAreBoundedHolds == Spec => []RetainedBytesAreBounded
<1>1. Inv3 => RetainedBytesAreBounded
  BY DEF Inv3, Stored, Quotas, RetainedBytesAreBounded, InputsFitTheQuota
<1> QED  BY <1>1, Inv3Holds, PTL
=============================================================================
