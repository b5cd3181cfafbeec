-------------------------- MODULE Deployment_proofs --------------------------
(***************************************************************************)
(* Coordinator, helper and host agree on what is installed: for any number *)
(* of operations, reconcilers, releases, registrations and failures, and   *)
(* for a database that forgets its last commit.                            *)
(*                                                                         *)
(* Two values of the coordinator's database matter at any moment: the one  *)
(* it has, and the one a power loss would leave.  What must be true of the *)
(* journal, the spool and the host (Durable) holds of both.  What the      *)
(* processes rely on, and what is true of a container that is up, a power  *)
(* loss ends; it is stated of the database there is.                       *)
(*                                                                         *)
(* The last part shows that every step is one of Installation's, or one it *)
(* does not see, under the mapping Promised.                               *)
(***************************************************************************)
EXTENDS Deployment, FiniteSetTheorems, TLAPS

(***************************************************************************)
(* The records of the coordinator and the helper.                          *)
(***************************************************************************)
AnyRelease == Releases \cup {FirstRelease, NextRelease}
AnyRegistration == Registrations \cup {FirstRegistration}
AnyKind == {"rehearse", "deploy", "rollback", "recover", "retire"}
Selections == [rel : AnyRelease, reg : AnyRegistration, pol : AnyRegistration,
               cred : Nat, gen : Nat]
Operations == [kind : AnyKind,
               state : {"queued", "switching", "succeeded", "failed", "blocked", "recovered"},
               sel : Selections, session : Nat, recovers : Nat, rehearsal : Nat]
Snapshots == [op : Nat, gen : Nat, sel : Selections, retired : BOOLEAN, last : Nat]
Changes == [base : Nat, reg : AnyRegistration, rejected : BOOLEAN]
Databases == [ops : Seq(Operations), hist : Seq(Snapshots), registered : AnyRegistration,
              change : Changes \cup {None}, rejected : SUBSET AnyRelease,
              cred : Nat, session : Nat]
Receipts == [state : {"succeeded", "failed", "blocked", "recovered"},
             snap : Snapshots \cup {None}]
Containers == [rel : AnyRelease, reg : AnyRegistration, op : Nat, up : BOOLEAN]
Backups == [gen : Nat, op : Nat, data : Nat]

Hosts == [container : Containers \cup {None}, unit : BOOLEAN,
          supervisor : {"up", "starting", "off"}, backup : Backups \cup {None}]
IsJournal(j) ==
    /\ DOMAIN j = {"marks", "receipts", "current"}
    /\ DOMAIN j.receipts \subseteq Nat
    /\ \A o \in DOMAIN j.receipts : j.receipts[o] \in Receipts
    /\ j.current \in Snapshots \cup {None}
IsRun(q) == DOMAIN q = {"pc", "op", "was", "rcpt", "replay"}

TypeOK ==
    /\ core \in Databases /\ undo \in Databases
    /\ policy \in AnyRegistration
    /\ IsJournal(journal)
    /\ DOMAIN spool = {"requests", "hints", "receipts"}
    /\ host \in Hosts
    /\ IsRun(run)
    /\ DOMAIN rec = Reconcilers
    /\ \A r \in Reconcilers : DOMAIN rec[r] = {"pc", "op"}
    /\ data \in Nat
-----------------------------------------------------------------------------
(***************************************************************************)
(* What holds of a database c, the journal j, the receipts s of the spool  *)
(* and the host h.                                                         *)
(***************************************************************************)
Switches == {"deploy", "rollback"}
Marked == {"deploy", "rollback", "retire"}

\* At most one operation is open and one blocked, and beside a blocked one
\* only its recovery is open.
OneAtATime(c) ==
    /\ \A o, p \in Pending(c) : o = p
    /\ \A o, p \in Blocked(c) : o = p
    /\ \A o \in Pending(c), b \in Blocked(c) : c.ops[o].kind = "recover"
    /\ \A o \in Pending(c) : c.ops[o].kind = "recover" => c.ops[o].recovers \in Blocked(c)
    /\ \A o \in Pending(c) : c.ops[o].sel.gen = Len(c.hist)

Numbered(c) ==
    \A i \in DOMAIN c.hist :
        /\ c.hist[i].gen = i
        /\ c.hist[i].op \in DOMAIN c.ops /\ c.ops[c.hist[i].op].state = "succeeded"
        /\ \A k \in 1..(i - 1) : c.hist[k].op # c.hist[i].op

BootFits(c) == IsRunning(Accepted(c)) => c.registered = Accepted(c).sel.reg

\* The journal runs ahead of the spool, and the spool of c.
Written(c, j, s) ==
    /\ DOMAIN s \subseteq DOMAIN j.receipts
    /\ DOMAIN j.receipts \subseteq DOMAIN c.ops
    /\ j.marks \subseteq DOMAIN c.ops
    /\ DOMAIN c.ops \ DOMAIN s \subseteq Pending(c)
    /\ \A o \in j.marks : c.ops[o].kind \in Marked

\* What a receipt of an open operation may say.
Sound(c, o, rcpt) ==
    /\ rcpt \in Receipts
    /\ rcpt.snap # None =>
          /\ rcpt.state = "succeeded" /\ c.ops[o].kind # "rehearse"
          /\ rcpt.snap.gen = c.ops[o].sel.gen + 1
          /\ rcpt.snap.op = IF c.ops[o].kind = "recover" THEN c.ops[o].recovers ELSE o
          /\ rcpt.snap.retired <=> c.ops[o].kind = "retire"
    /\ rcpt.state = "succeeded" /\ c.ops[o].kind \in Marked => rcpt.snap # None
    /\ c.ops[o].kind \in {"rehearse", "recover"} => rcpt.state \in {"succeeded", "failed"}

\* The journal's installation is that of c, or that of the receipt c has to
\* consume; once the spool has the receipt certainly that.
Current(c, j, s) ==
    /\ \/ j.current = Accepted(c)
       \/ \E o \in Pending(c) \cap DOMAIN j.receipts :
             j.receipts[o].snap # None /\ j.current = j.receipts[o].snap
    /\ \A o \in Pending(c) \cap DOMAIN s :
          j.receipts[o].snap # None => j.current = j.receipts[o].snap
    /\ \A o \in Pending(c) \cap DOMAIN j.receipts : Sound(c, o, j.receipts[o])

\* The host fits a snapshot: its unit and no container but its own, or nothing.
IsOf(container, snap) ==
    /\ container.op = snap.op
    /\ container.rel = snap.sel.rel /\ container.reg = snap.sel.reg
HostFits(h, snap) ==
    IF IsRunning(snap)
    THEN h.unit /\ (h.container = None \/ IsOf(h.container, snap))
    ELSE h.container = None /\ ~h.unit /\ h.supervisor = "off"
\* The host must fit for every outcome but "blocked" and a failed recovery.
Decided(c, o, rcpt) ==
    \/ rcpt.state \in {"succeeded", "recovered"}
    \/ rcpt.state = "failed" /\ c.ops[o].kind # "recover"
Outcome(c, rcpt) == IF rcpt.snap # None THEN rcpt.snap ELSE Accepted(c)
\* While an unrecorded receipt leads, its container is there: a boot, which
\* would replace it, refuses.
Settling(c, j, h, o, rcpt) ==
    Decided(c, o, rcpt) =>
        /\ HostFits(h, Outcome(c, rcpt))
        /\ rcpt.snap # None /\ j.current # rcpt.snap /\ c.ops[o].kind \in Switches
              => h.container # None
Fitted(c, j, h) ==
    /\ Pending(c) = {} /\ Blocked(c) = {} => HostFits(h, Accepted(c))
    /\ \A o \in Pending(c) :
          IF o \in DOMAIN j.receipts THEN Settling(c, j, h, o, j.receipts[o])
          ELSE c.ops[o].kind = "recover" \/ o \in j.marks \/ HostFits(h, Accepted(c))

BackedUp(c, h, o) ==
    c.ops[o].kind \in Switches /\ c.ops[o].sel.gen > 0 =>
        h.backup # None /\ h.backup.op = o /\ h.backup.gen = c.ops[o].sel.gen + 1
\* A container of an open operation was started after the marker, and the
\* marker was written after the backup.
Labelled(c, j, s, h) ==
    /\ h.container # None => h.container.op \in DOMAIN c.ops
    /\ \A o \in Pending(c) :
          /\ h.container # None /\ h.container.op = o => o \in j.marks \/ o \in DOMAIN s
          /\ o \in j.marks => BackedUp(c, h, o)

Durable(c, j, s, h) ==
    /\ OneAtATime(c) /\ Numbered(c) /\ BootFits(c)
    /\ Written(c, j, s) /\ Current(c, j, s) /\ Fitted(c, j, h) /\ Labelled(c, j, s, h)

\* A power loss forgets no operation, only what became of it.
SameOperations(c, d) ==
    /\ DOMAIN c.ops = DOMAIN d.ops
    /\ \A o \in DOMAIN d.ops :
          /\ c.ops[o].kind = d.ops[o].kind
          /\ c.ops[o].sel = d.ops[o].sel
          /\ c.ops[o].recovers = d.ops[o].recovers

\* Two more facts of the disk: copies agree, and only what has a unit runs it.
Shared(j, s, h) ==
    /\ \A o \in DOMAIN s : o \in DOMAIN j.receipts /\ j.receipts[o] = s[o]
    /\ h.supervisor # "off" => h.unit

Disk ==
    /\ Durable(core, journal, spool.receipts, host)
    /\ Durable(undo, journal, spool.receipts, host)
    /\ SameOperations(undo, core)
    /\ Shared(journal, spool.receipts, host)
-----------------------------------------------------------------------------
(***************************************************************************)
(* What the processes rely on.                                             *)
(***************************************************************************)
\* A container that is up is that of the accepted generation or that of the
\* switch under way.
Serving(c, h) ==
    h.container # None /\ h.container.up =>
        \/ IsRunning(Accepted(c)) /\ IsOf(h.container, Accepted(c))
        \/ \E o \in InState(c, {"switching", "blocked"}) :
              c.ops[o].kind \in Switches /\ IsOf(h.container, [op |-> o, sel |-> c.ops[o].sel])

Reconciling ==
    \A r \in Reconcilers : rec[r].pc = "settle" => rec[r].op \in DOMAIN spool.receipts

Early == {"begin", "hint", "wait", "backup", "mark", "stop", "start", "probe",
          "archive", "recover", "attest", "fallback", "restore"}
Admitting == {"backup", "mark", "stop", "start", "probe", "archive", "recover", "attest"}
Marking == {"stop", "start", "probe", "archive", "fallback"}
Answering == {"journal", "record", "spool"}
KindsAt == [begin |-> AnyKind, hint |-> Switches, wait |-> AnyKind \ {"rehearse"},
            backup |-> Switches, mark |-> Marked, stop |-> Marked, start |-> Switches,
            probe |-> Switches, archive |-> {"retire"}, recover |-> {"recover"},
            attest |-> Marked \cup {"recover"}, fallback |-> Marked,
            restore |-> Marked \cup {"recover"}]
Gone(h) == h.container = None /\ h.supervisor = "off"
IsOfOp(c, h, o) == h.container # None /\ IsOf(h.container, [op |-> o, sel |-> c.ops[o].sel])

\* What the operation has done to the host before it is attested.
Attested(c, h, o, rcpt) ==
    /\ c.ops[o].kind \in Switches => IsOfOp(c, h, o) /\ h.unit
    /\ c.ops[o].kind = "retire" => Gone(h) /\ ~h.unit
    /\ c.ops[o].kind = "recover" =>
          IF rcpt = None THEN HostFits(h, Accepted(c))
          ELSE /\ rcpt = NewSnapshot(c.ops[o].recovers, c.ops[o].sel, FALSE, 0)
               /\ HostFits(h, rcpt)

\* Before an answer.
Executing(c, j, h, q) ==
    q.pc \in Early =>
        /\ q.op \notin DOMAIN j.receipts
        /\ q.was = j.current /\ ~q.replay
        /\ c.ops[q.op].kind \in KindsAt[q.pc]
        /\ q.pc \in Admitting \/ (q.pc = "restore" /\ c.ops[q.op].kind = "recover")
              => c.ops[q.op].state = "switching"
        /\ q.pc \in Marking => q.op \in j.marks
        /\ q.pc \in {"attest", "restore"} /\ c.ops[q.op].kind # "recover" => q.op \in j.marks
        /\ q.pc = "mark" => BackedUp(c, h, q.op)
        /\ q.pc = "probe" => IsOfOp(c, h, q.op)
        /\ q.pc = "archive" => Gone(h)
        /\ q.pc = "restore" => IsRunning(j.current)
        /\ q.pc = "attest" => Attested(c, h, q.op, q.rcpt)
        /\ q.rcpt # None => q.pc = "attest" /\ c.ops[q.op].kind = "recover"

\* With an answer.
Committing(c, j, s, h, q) ==
    /\ q.pc = "journal" =>
          /\ q.op \notin DOMAIN j.receipts
          /\ Sound(c, q.op, q.rcpt) /\ Settling(c, j, h, q.op, q.rcpt)
    /\ q.pc \in {"record", "spool"} =>
          q.op \in DOMAIN j.receipts /\ j.receipts[q.op] = q.rcpt
    /\ q.pc = "spool" /\ q.rcpt.snap # None => j.current = q.rcpt.snap
    /\ q.pc = "unmark" => q.op \in DOMAIN s

\* What a boot has found.
Booting(c, j, h, q) ==
    q.pc = "boot" =>
        /\ j.current = Accepted(c) /\ IsRunning(j.current) /\ h.unit
        /\ \A o \in Pending(c) \cap DOMAIN j.receipts : j.receipts[o].snap = None

Helping(c, j, s, h, q) ==
    /\ q.pc \in Early \cup Answering => q.op \in DOMAIN c.ops /\ q.op \notin DOMAIN s
    /\ Executing(c, j, h, q) /\ Committing(c, j, s, h, q) /\ Booting(c, j, h, q)

Inv ==
    /\ TypeOK /\ Disk
    /\ Serving(core, host)
    /\ Reconciling
    /\ Helping(core, journal, spool.receipts, host, run)
-----------------------------------------------------------------------------
(***************************************************************************)
(* Facts about the records.                                                *)
(***************************************************************************)
LEMMA SnapshotIsSomething == \A snap \in Snapshots : snap # None
<1> TAKE snap \in Snapshots
<1>1. DOMAIN snap = {"op", "gen", "sel", "retired", "last"}  BY DEF Snapshots
<1>2. DOMAIN None = {"none"}  BY DEF None
<1>3. "op" \notin DOMAIN None  BY <1>2
<1> QED  BY <1>1, <1>3

LEMMA OperationType ==
    ASSUME NEW c \in Databases, NEW o \in DOMAIN c.ops
    PROVE  o \in Nat /\ c.ops[o] \in Operations /\ c.ops[o].sel \in Selections
<1>1. c.ops \in Seq(Operations)  BY DEF Databases
<1>2. o \in 1 .. Len(c.ops)  BY <1>1
<1>3. c.ops[o] \in Operations  BY <1>1, <1>2
<1> QED  BY <1>2, <1>3 DEF Operations

LEMMA AcceptedType ==
    ASSUME NEW c \in Databases
    PROVE  /\ Accepted(c) \in Snapshots \cup {None}
           /\ Accepted(c) = None <=> c.hist = <<>>
           /\ Accepted(c) # None => Len(c.hist) \in DOMAIN c.hist /\ Accepted(c) = c.hist[Len(c.hist)]
           /\ Len(c.hist) \in Nat
<1>1. c.hist \in Seq(Snapshots)  BY DEF Databases
<1>2. CASE c.hist = <<>>  BY <1>1, <1>2 DEF Accepted
<1>3. CASE c.hist # <<>>
  <2>1. Len(c.hist) \in 1 .. Len(c.hist)  BY <1>1, <1>3
  <2>2. c.hist[Len(c.hist)] \in Snapshots  BY <1>1, <2>1
  <2> QED  BY <1>1, <1>3, <2>1, <2>2, SnapshotIsSomething DEF Accepted
<1> QED  BY <1>2, <1>3

\* The accepted generation is the length of the history, its operation succeeded.
LEMMA AcceptedFacts ==
    ASSUME NEW c \in Databases, Numbered(c)
    PROVE  /\ Generation(Accepted(c)) = Len(c.hist)
           /\ Accepted(c) # None =>
                /\ Accepted(c).op \in DOMAIN c.ops
                /\ c.ops[Accepted(c).op].state = "succeeded"
<1>1. CASE Accepted(c) = None  BY <1>1, AcceptedType DEF Generation
<1>2. CASE Accepted(c) # None  BY <1>2, AcceptedType DEF Generation, Numbered
<1> QED  BY <1>1, <1>2

LEMMA AboutPending ==
    ASSUME NEW c
    PROVE  /\ \A o : o \in Pending(c) <=> o \in DOMAIN c.ops /\ c.ops[o].state \in {"queued", "switching"}
           /\ \A o : o \in Blocked(c) <=> o \in DOMAIN c.ops /\ c.ops[o].state = "blocked"
BY DEF Pending, Blocked, InState

\* While nothing is open the journal's installation is the database's, and no
\* process holds an operation.
LEMMA NothingPending ==
    ASSUME NEW c, NEW j, NEW s, Pending(c) = {}, Current(c, j, s)
    PROVE  j.current = Accepted(c)
BY DEF Current

(***************************************************************************)
(* Steps of the database that change nothing the host depends on.          *)
(***************************************************************************)
Refreshes(c, d) ==
    /\ DOMAIN d.ops = DOMAIN c.ops /\ d.hist = c.hist /\ BootFits(d)
    /\ Pending(d) = Pending(c) /\ Blocked(d) = Blocked(c)
    /\ \A o \in DOMAIN c.ops :
          /\ d.ops[o].kind = c.ops[o].kind /\ d.ops[o].sel = c.ops[o].sel
          /\ d.ops[o].recovers = c.ops[o].recovers
          /\ c.ops[o].state \in {"switching", "succeeded"} => d.ops[o].state = c.ops[o].state

LEMMA RefreshedAccepted ==
    ASSUME NEW c, NEW d, Refreshes(c, d)
    PROVE  Accepted(d) = Accepted(c)
BY DEF Refreshes, Accepted

LEMMA RefreshedDurable ==
    ASSUME NEW c, NEW d, Refreshes(c, d), NEW j, NEW s, NEW h, Durable(c, j, s, h)
    PROVE  Durable(d, j, s, h) /\ SameOperations(c, d) /\ SameOperations(d, c)
<1>1. Accepted(d) = Accepted(c)  BY RefreshedAccepted
<1>2. /\ \A o : o \in Pending(c) => o \in DOMAIN c.ops
      /\ \A o : o \in Blocked(c) => o \in DOMAIN c.ops
  BY AboutPending
<1>3. OneAtATime(d)  BY <1>2 DEF Durable, OneAtATime, Refreshes
<1>4. Numbered(d)  BY DEF Durable, Numbered, Refreshes
<1>5. BootFits(d)  BY DEF Refreshes
<1>6. Written(d, j, s)  BY DEF Durable, Written, Refreshes
<1>7. \A rcpt : \A o \in DOMAIN c.ops : Sound(c, o, rcpt) => Sound(d, o, rcpt)
  BY DEF Sound, Refreshes
<1>8. Current(d, j, s)  BY <1>1, <1>2, <1>7 DEF Durable, Current, Refreshes
<1>9. \A rcpt : \A o \in DOMAIN c.ops : Settling(c, j, h, o, rcpt) => Settling(d, j, h, o, rcpt)
  BY <1>1 DEF Settling, Decided, Outcome, Refreshes
<1>10. Fitted(d, j, h)  BY <1>1, <1>2, <1>9 DEF Durable, Fitted, Refreshes
<1>11. Labelled(d, j, s, h)  BY <1>2 DEF Durable, Labelled, BackedUp, Refreshes
<1>12. SameOperations(c, d) /\ SameOperations(d, c)  BY DEF SameOperations, Refreshes
<1> QED  BY <1>3, <1>4, <1>5, <1>6, <1>8, <1>10, <1>11, <1>12 DEF Durable

LEMMA RefreshedServing ==
    ASSUME NEW c, NEW d, Refreshes(c, d), NEW h, Serving(c, h)
    PROVE  Serving(d, h)
<1> SUFFICES ASSUME h.container # None /\ h.container.up
             PROVE  \/ IsRunning(Accepted(d)) /\ IsOf(h.container, Accepted(d))
                    \/ \E o \in InState(d, {"switching", "blocked"}) :
                          /\ d.ops[o].kind \in Switches
                          /\ IsOf(h.container, [op |-> o, sel |-> d.ops[o].sel])
  BY DEF Serving
<1>1. Accepted(d) = Accepted(c)  BY RefreshedAccepted
<1>2. CASE IsRunning(Accepted(c)) /\ IsOf(h.container, Accepted(c))  BY <1>1, <1>2
<1>3. ASSUME NEW o \in InState(c, {"switching", "blocked"}), c.ops[o].kind \in Switches,
             IsOf(h.container, [op |-> o, sel |-> c.ops[o].sel])
      PROVE  o \in InState(d, {"switching", "blocked"}) /\ d.ops[o].kind \in Switches
             /\ d.ops[o].sel = c.ops[o].sel
  <2>1. o \in DOMAIN c.ops /\ c.ops[o].state \in {"switching", "blocked"}  BY DEF InState
  <2>2. CASE c.ops[o].state = "switching"  BY <1>3, <2>1, <2>2 DEF InState, Refreshes
  <2>3. CASE c.ops[o].state = "blocked"
    <3>1. o \in Blocked(d)  BY <2>1, <2>3, AboutPending DEF Refreshes
    <3> QED  BY <1>3, <2>1, <3>1, AboutPending DEF InState, Refreshes
  <2> QED  BY <2>1, <2>2, <2>3
<1> QED  BY <1>2, <1>3 DEF Serving

LEMMA RefreshedHelping ==
    ASSUME NEW c, NEW d, Refreshes(c, d), NEW j, NEW s, NEW h, NEW q,
           Helping(c, j, s, h, q)
    PROVE  Helping(d, j, s, h, q)
<1>1. Accepted(d) = Accepted(c)  BY RefreshedAccepted
<1>2. q.pc \in Early \cup Answering => q.op \in DOMAIN d.ops /\ q.op \notin DOMAIN s
  BY DEF Helping, Refreshes
<1>3. ASSUME q.op \in DOMAIN c.ops
      PROVE  /\ d.ops[q.op].kind = c.ops[q.op].kind /\ d.ops[q.op].sel = c.ops[q.op].sel
             /\ d.ops[q.op].recovers = c.ops[q.op].recovers
             /\ c.ops[q.op].state = "switching" => d.ops[q.op].state = "switching"
  BY <1>3 DEF Refreshes
<1>4. Executing(d, j, h, q)
  <2> SUFFICES ASSUME q.pc \in Early  PROVE Executing(d, j, h, q)
    BY DEF Executing
  <2>1. q.op \in DOMAIN c.ops  BY DEF Helping
  <2>2. q.pc = "attest" => Attested(d, h, q.op, q.rcpt)
    BY <1>1, <1>3, <2>1 DEF Helping, Executing, Attested, IsOfOp
  <2>3. q.pc = "mark" => BackedUp(d, h, q.op)
    BY <1>3, <2>1 DEF Helping, Executing, BackedUp
  <2>4. q.pc = "probe" => IsOfOp(d, h, q.op)
    BY <1>3, <2>1 DEF Helping, Executing, IsOfOp
  <2> QED  BY <1>3, <2>1, <2>2, <2>3, <2>4 DEF Helping, Executing
<1>5. Committing(d, j, s, h, q)
  <2>1. q.pc = "journal" => Sound(d, q.op, q.rcpt) /\ Settling(d, j, h, q.op, q.rcpt)
    BY <1>1, <1>3 DEF Helping, Committing, Sound, Settling, Decided, Outcome, Answering
  <2> QED  BY <2>1 DEF Helping, Committing
<1>6. Booting(d, j, h, q)  BY <1>1 DEF Helping, Booting, Refreshes
<1> QED  BY <1>2, <1>4, <1>5, <1>6 DEF Helping

\* A change of the settings, a proposal, a rejection, a session or a credential.
LEMMA SettingsRefresh ==
    ASSUME NEW c, NEW d, BootFits(c), d.ops = c.ops, d.hist = c.hist,
           d.registered = c.registered \/ Accepted(c) = None
    PROVE  Refreshes(c, d)
<1>1. Accepted(d) = Accepted(c)  BY DEF Accepted
<1>2. BootFits(d)  BY <1>1 DEF BootFits, IsRunning
<1>3. Pending(d) = Pending(c) /\ Blocked(d) = Blocked(c)  BY DEF Pending, Blocked, InState
<1> QED  BY <1>2, <1>3 DEF Refreshes

\* A queued operation is admitted.
LEMMA SwitchingRefreshes ==
    ASSUME NEW c \in Databases, BootFits(c), NEW o \in Pending(c), c.ops[o].state = "queued",
           NEW d, d = [c EXCEPT !.ops[o].state = "switching"]
    PROVE  Refreshes(c, d)
<1>1. o \in DOMAIN c.ops  BY AboutPending
<1>2. c.ops[o] \in Operations  BY <1>1, OperationType
<1>3. /\ d.hist = c.hist /\ d.registered = c.registered
      /\ d.ops = [c.ops EXCEPT ![o] = [c.ops[o] EXCEPT !.state = "switching"]]
  BY DEF Databases
<1>4. /\ DOMAIN d.ops = DOMAIN c.ops
      /\ \A p \in DOMAIN c.ops : p # o => d.ops[p] = c.ops[p]
      /\ d.ops[o] = [c.ops[o] EXCEPT !.state = "switching"]
  BY <1>1, <1>3
<1>5. /\ d.ops[o].kind = c.ops[o].kind /\ d.ops[o].sel = c.ops[o].sel
      /\ d.ops[o].recovers = c.ops[o].recovers /\ d.ops[o].state = "switching"
  BY <1>2, <1>4 DEF Operations
<1>6. BootFits(d)  BY <1>3 DEF BootFits, Accepted
<1>7. \A p \in DOMAIN c.ops :
         /\ d.ops[p].state \in {"queued", "switching"} <=> c.ops[p].state \in {"queued", "switching"}
         /\ d.ops[p].state = "blocked" <=> c.ops[p].state = "blocked"
  BY <1>4, <1>5
<1>8. Pending(d) = Pending(c) /\ Blocked(d) = Blocked(c)
  BY <1>4, <1>7 DEF Pending, Blocked, InState
<1> QED  BY <1>3, <1>4, <1>5, <1>6, <1>8 DEF Refreshes

(***************************************************************************)
(* The approval of an operation.                                           *)
(***************************************************************************)
Approves(c, d, n) ==
    /\ n = Len(c.ops) + 1 /\ Pending(c) = {}
    /\ d.hist = c.hist /\ d.registered = c.registered
    /\ DOMAIN d.ops = DOMAIN c.ops \cup {n}
    /\ \A o \in DOMAIN c.ops : d.ops[o] = c.ops[o]
    /\ d.ops[n].state = "queued" /\ d.ops[n].sel.gen = Len(c.hist)
    /\ \/ d.ops[n].kind = "recover" /\ d.ops[n].recovers \in Blocked(c)
       \/ d.ops[n].kind # "recover" /\ Blocked(c) = {}

LEMMA ApprovedStates ==
    ASSUME NEW c \in Databases, NEW d, NEW n, Approves(c, d, n)
    PROVE  /\ n \notin DOMAIN c.ops /\ Pending(d) = {n} /\ Blocked(d) = Blocked(c)
           /\ Accepted(d) = Accepted(c)
<1>1. c.ops \in Seq(Operations)  BY DEF Databases
<1>2. n \notin DOMAIN c.ops  BY <1>1 DEF Approves
<1>3. \A o : o \in Pending(d) <=> o = n  BY AboutPending DEF Approves
<1>4. \A o : o \in Blocked(d) <=> o \in Blocked(c)  BY <1>2, AboutPending DEF Approves
<1> QED  BY <1>2, <1>3, <1>4 DEF Approves, Accepted

LEMMA ApprovedDurable ==
    ASSUME NEW c \in Databases, NEW d, NEW n, Approves(c, d, n),
           NEW j, NEW s, NEW h, Durable(c, j, s, h)
    PROVE  Durable(d, j, s, h)
<1>1. /\ n \notin DOMAIN c.ops /\ Pending(d) = {n} /\ Blocked(d) = Blocked(c)
      /\ Accepted(d) = Accepted(c)
  BY ApprovedStates
<1>2. /\ DOMAIN s \subseteq DOMAIN j.receipts /\ DOMAIN j.receipts \subseteq DOMAIN c.ops
      /\ j.marks \subseteq DOMAIN c.ops /\ DOMAIN c.ops \subseteq DOMAIN s
  BY DEF Durable, Written, Approves
<1>3. \A o \in Blocked(c) : o \in DOMAIN c.ops  BY AboutPending
<1>4. OneAtATime(d)
  <2>1. \A o, p \in Blocked(d) : o = p  BY <1>1 DEF Durable, OneAtATime
  <2>2. d.ops[n].kind = "recover" => d.ops[n].recovers \in Blocked(d)  BY <1>1 DEF Approves
  <2>3. Blocked(d) # {} => d.ops[n].kind = "recover"  BY <1>1 DEF Approves
  <2>4. d.ops[n].sel.gen = Len(d.hist)  BY DEF Approves
  <2> QED  BY <1>1, <2>1, <2>2, <2>3, <2>4 DEF OneAtATime
<1>5. Numbered(d)  BY DEF Durable, Numbered, Approves
<1>6. BootFits(d)  BY <1>1 DEF Durable, BootFits, Approves
<1>7. Written(d, j, s)  BY <1>1, <1>2 DEF Durable, Written, Approves
<1>8. Current(d, j, s)
  <2>1. j.current = Accepted(d)  BY <1>1, NothingPending DEF Durable, Approves
  <2> QED  BY <1>1, <1>2, <2>1 DEF Current
<1>9. Fitted(d, j, h)
  <2>1. n \notin DOMAIN j.receipts  BY <1>1, <1>2
  <2>2. d.ops[n].kind = "recover" \/ HostFits(h, Accepted(d))
    BY <1>1 DEF Approves, Durable, Fitted
  <2> QED  BY <1>1, <2>1, <2>2 DEF Fitted
<1>10. Labelled(d, j, s, h)  BY <1>1, <1>2 DEF Durable, Labelled, Approves
<1> QED  BY <1>4, <1>5, <1>6, <1>7, <1>8, <1>9, <1>10 DEF Durable

\* No process works for an operation while none is open.
LEMMA NobodyWorks ==
    ASSUME NEW c, NEW j, NEW s, NEW h, NEW q,
           Written(c, j, s), Pending(c) \subseteq DOMAIN s, Helping(c, j, s, h, q)
    PROVE  q.pc \notin Early \cup Answering
BY DEF Written, Helping

LEMMA IdleHelps ==
    ASSUME NEW c, NEW j, NEW s, NEW h, NEW q, q.pc \notin Early \cup Answering,
           q.pc = "unmark" => q.op \in DOMAIN s, Booting(c, j, h, q)
    PROVE  Helping(c, j, s, h, q)
BY DEF Helping, Executing, Committing, Early, Answering

LEMMA ApprovedHelping ==
    ASSUME NEW c \in Databases, NEW d, NEW n, Approves(c, d, n),
           NEW j, NEW s, NEW h, Durable(c, j, s, h), Serving(c, h),
           NEW q, Helping(c, j, s, h, q)
    PROVE  Serving(d, h) /\ Helping(d, j, s, h, q)
<1>1. /\ n \notin DOMAIN c.ops /\ Pending(d) = {n} /\ Accepted(d) = Accepted(c)
  BY ApprovedStates
<1>2. \A o \in InState(c, {"switching", "blocked"}) :
         o \in InState(d, {"switching", "blocked"}) /\ d.ops[o] = c.ops[o]
  BY DEF InState, Approves
<1>3. Serving(d, h)  BY <1>1, <1>2 DEF Serving
<1>4. q.pc \notin Early \cup Answering  BY NobodyWorks DEF Durable, Approves
<1>5. n \notin DOMAIN j.receipts  BY <1>1 DEF Durable, Written
<1>6. Booting(d, j, h, q)  BY <1>1, <1>5 DEF Helping, Booting
<1>7. q.pc = "unmark" => q.op \in DOMAIN s  BY DEF Helping, Committing
<1> QED  BY <1>3, <1>4, <1>6, <1>7, IdleHelps

(***************************************************************************)
(* The settlement of an operation from its receipt.                        *)
(***************************************************************************)
Settles(c, d, o, rcpt) ==
    /\ d.hist = IF rcpt.snap # None THEN Append(c.hist, rcpt.snap) ELSE c.hist
    /\ d.registered = IF rcpt.snap # None /\ ~rcpt.snap.retired
                      THEN rcpt.snap.sel.reg ELSE c.registered
    /\ DOMAIN d.ops = DOMAIN c.ops
    /\ \A p \in DOMAIN c.ops :
          /\ d.ops[p].kind = c.ops[p].kind /\ d.ops[p].sel = c.ops[p].sel
          /\ d.ops[p].recovers = c.ops[p].recovers
    /\ d.ops[o].state = rcpt.state
    /\ \A p \in DOMAIN c.ops : p # o =>
          IF c.ops[o].kind = "recover" /\ rcpt.state = "succeeded" /\ p = c.ops[o].recovers
          THEN d.ops[p].state \in {"succeeded", "recovered", "failed"}
               /\ (rcpt.snap # None => d.ops[p].state = "succeeded")
          ELSE d.ops[p].state = c.ops[p].state

\* A consumed receipt says no more than the one that was published.
LEMMA ConsumedIsSound ==
    ASSUME NEW c, NEW o, NEW b, Sound(c, o, b)
    PROVE  /\ Sound(c, o, Consumed(c, o, b))
           /\ Consumed(c, o, b).snap = b.snap
           /\ \/ Consumed(c, o, b).state = b.state
              \/ b.state = "succeeded" /\ Consumed(c, o, b).state = "failed" /\ c.ops[o].kind = "rehearse"
<1> DEFINE rcpt == Consumed(c, o, b)
<1>1. b \in Receipts  BY DEF Sound
<1>2. \/ rcpt = b
      \/ b.state = "succeeded" /\ c.ops[o].kind = "rehearse" /\ rcpt = [b EXCEPT !.state = "failed"]
  BY DEF Consumed
<1>3. rcpt \in Receipts /\ rcpt.snap = b.snap  BY <1>1, <1>2 DEF Receipts
<1>4. \/ rcpt.state = b.state
      \/ b.state = "succeeded" /\ rcpt.state = "failed" /\ c.ops[o].kind = "rehearse"
  BY <1>1, <1>2 DEF Receipts
<1> HIDE DEF rcpt
<1>5. Sound(c, o, rcpt)  BY <1>3, <1>4 DEF Sound
<1> QED  BY <1>3, <1>4, <1>5 DEF rcpt

LEMMA SettledSettles ==
    ASSUME NEW c \in Databases, NEW o, NEW rcpt, o \in Pending(c), Sound(c, o, rcpt)
    PROVE  Settles(c, Settled(c, o, rcpt), o, rcpt)
<1> DEFINE d == Settled(c, o, rcpt)
           hist == IF Appends(c, o, rcpt) THEN Append(c.hist, rcpt.snap) ELSE c.hist
           target == IF c.ops[o].kind = "recover" /\ rcpt.state = "succeeded"
                     THEN {c.ops[o].recovers} ELSE {}
           result == Resolution([c EXCEPT !.hist = hist], rcpt)
           row(p) == IF p = o THEN [c.ops[p] EXCEPT !.state = rcpt.state]
                     ELSE IF p \in target THEN [c.ops[p] EXCEPT !.state = result] ELSE c.ops[p]
<1>1. o \in DOMAIN c.ops  BY AboutPending DEF Sound
<1>2. c.ops[o] \in Operations  BY <1>1, OperationType
<1>3. Appends(c, o, rcpt) <=> rcpt.snap # None
  BY <1>2 DEF Appends, Sound, Operations, Marked, AnyKind
<1>4. /\ d.hist = hist
      /\ d.registered = IF Appends(c, o, rcpt) /\ ~rcpt.snap.retired
                        THEN rcpt.snap.sel.reg ELSE c.registered
      /\ d.ops = [p \in DOMAIN c.ops |-> row(p)]
  BY DEF Settled, Databases
<1>5. /\ result \in {"succeeded", "recovered", "failed"}
      /\ rcpt.snap # None => result = "succeeded"
  BY DEF Resolution
<1>6. \A p \in DOMAIN c.ops : DOMAIN c.ops[p] = {"kind", "state", "sel", "session", "recovers", "rehearsal"}
  BY OperationType DEF Operations
<1> HIDE DEF d, result, hist
<1>7. \A p \in DOMAIN c.ops : d.ops[p] = row(p)  BY <1>4
<1>8. \A p \in DOMAIN c.ops :
         /\ row(p).kind = c.ops[p].kind /\ row(p).sel = c.ops[p].sel
         /\ row(p).recovers = c.ops[p].recovers
         /\ row(p).state = IF p = o THEN rcpt.state
                           ELSE IF p \in target THEN result ELSE c.ops[p].state
  BY <1>6
<1> HIDE DEF row
<1>9. d.hist = IF rcpt.snap # None THEN Append(c.hist, rcpt.snap) ELSE c.hist
  BY <1>3, <1>4 DEF hist
<1>10. d.registered = IF rcpt.snap # None /\ ~rcpt.snap.retired
                      THEN rcpt.snap.sel.reg ELSE c.registered
  BY <1>3, <1>4
<1>11. DOMAIN d.ops = DOMAIN c.ops  BY <1>4
<1>12. d.ops[o].state = rcpt.state  BY <1>1, <1>7, <1>8
<1>13. ASSUME NEW p \in DOMAIN c.ops, p # o
       PROVE  IF c.ops[o].kind = "recover" /\ rcpt.state = "succeeded" /\ p = c.ops[o].recovers
              THEN d.ops[p].state \in {"succeeded", "recovered", "failed"}
                   /\ (rcpt.snap # None => d.ops[p].state = "succeeded")
              ELSE d.ops[p].state = c.ops[p].state
  BY <1>5, <1>7, <1>8, <1>13
<1> QED  BY <1>7, <1>8, <1>9, <1>10, <1>11, <1>12, <1>13 DEF Settles, d

LEMMA SettledStates ==
    ASSUME NEW c \in Databases, NEW d, NEW o, NEW rcpt, OneAtATime(c), Numbered(c),
           o \in Pending(c), Sound(c, o, rcpt), Settles(c, d, o, rcpt)
    PROVE  /\ Pending(d) = {}
           /\ \A p : p \in Blocked(d) <=>
                \/ p = o /\ rcpt.state = "blocked"
                \/ p \in Blocked(c) /\ (c.ops[o].kind = "recover" => rcpt.state # "succeeded")
           /\ Accepted(d) = IF rcpt.snap # None THEN rcpt.snap ELSE Accepted(c)
<1>1. o \in DOMAIN c.ops /\ c.ops[o].state \in {"queued", "switching"}
  BY AboutPending DEF Sound
<1>2. \A p \in Pending(c) : p = o  BY DEF OneAtATime, Sound
<1>3. rcpt.state \in {"succeeded", "failed", "blocked", "recovered"}  BY DEF Sound, Receipts
<1>4. ASSUME NEW p \in Pending(d)  PROVE FALSE
  <2>1. p \in DOMAIN c.ops /\ d.ops[p].state \in {"queued", "switching"}
    BY <1>4, AboutPending DEF Settles
  <2>2. p # o  BY <1>3, <2>1 DEF Settles
  <2>3. p \notin Pending(c)  BY <1>2, <2>2
  <2> QED  BY <2>1, <2>2, <2>3, AboutPending DEF Settles
<1>5. Accepted(d) = IF rcpt.snap # None THEN rcpt.snap ELSE Accepted(c)
  <2>1. c.hist \in Seq(Snapshots)  BY DEF Databases
  <2>2. CASE rcpt.snap = None  BY <2>2 DEF Settles, Accepted
  <2>3. CASE rcpt.snap # None
    <3>1. d.hist = Append(c.hist, rcpt.snap)  BY <2>3 DEF Settles
    <3>2. rcpt.snap \in Snapshots  BY <2>3 DEF Sound, Receipts
    <3>3. Len(d.hist) = Len(c.hist) + 1 /\ d.hist # <<>> /\ d.hist[Len(c.hist) + 1] = rcpt.snap
      BY <2>1, <3>1, <3>2
    <3> QED  BY <2>3, <3>3 DEF Accepted
  <2> QED  BY <2>2, <2>3
<1>6. ASSUME NEW p
      PROVE  p \in Blocked(d) <=>
                \/ p = o /\ rcpt.state = "blocked"
                \/ p \in Blocked(c) /\ (c.ops[o].kind = "recover" => rcpt.state # "succeeded")
  <2>1. CASE p = o
    <3>1. o \notin Blocked(c)  BY <1>1, AboutPending
    <3> QED  BY <1>1, <2>1, <3>1, AboutPending DEF Settles
  <2>2. CASE p # o
    <3>1. p \in Blocked(c) => c.ops[o].kind = "recover" /\ p = c.ops[o].recovers
      BY DEF OneAtATime, Sound
    <3>2. p \in Blocked(d) => p \in DOMAIN c.ops /\ d.ops[p].state = "blocked"
      BY AboutPending DEF Settles
    <3>3. p \in Blocked(c) => p \in DOMAIN c.ops /\ c.ops[p].state = "blocked"
      BY AboutPending
    <3>4. ASSUME p \in Blocked(d)
          PROVE  p \in Blocked(c) /\ (c.ops[o].kind = "recover" => rcpt.state # "succeeded")
      <4>1. d.ops[p].state = c.ops[p].state  BY <2>2, <3>2, <3>4 DEF Settles
      <4>2. p \in Blocked(c)  BY <3>2, <3>4, <4>1, AboutPending
      <4>3. ~(c.ops[o].kind = "recover" /\ rcpt.state = "succeeded")
        BY <2>2, <3>1, <3>2, <3>4, <4>2 DEF Settles
      <4> QED  BY <4>2, <4>3
    <3>5. ASSUME p \in Blocked(c), c.ops[o].kind = "recover" => rcpt.state # "succeeded"
          PROVE  p \in Blocked(d)
      <4>1. d.ops[p].state = "blocked"  BY <2>2, <3>3, <3>5 DEF Settles
      <4> QED  BY <3>3, <3>5, <4>1, AboutPending DEF Settles
    <3> QED  BY <2>2, <3>4, <3>5
  <2> QED  BY <2>1, <2>2
<1> QED  BY <1>4, <1>5, <1>6

LEMMA SettledNumbered ==
    ASSUME NEW c \in Databases, NEW d, NEW o, NEW rcpt, OneAtATime(c), Numbered(c),
           o \in Pending(c), Sound(c, o, rcpt), Settles(c, d, o, rcpt)
    PROVE  Numbered(d)
<1>1. o \in DOMAIN c.ops /\ c.ops[o].state \in {"queued", "switching"}
  BY AboutPending DEF Sound
<1>2. \A b \in Blocked(c) : b \in DOMAIN c.ops /\ c.ops[b].state = "blocked"  BY AboutPending
<1>3. c.ops[o].kind = "recover" => c.ops[o].recovers \in Blocked(c)
  BY DEF OneAtATime, Sound
<1>4. \A p \in DOMAIN c.ops : c.ops[p].state = "succeeded" =>
         p # o /\ (c.ops[o].kind = "recover" => p # c.ops[o].recovers)
  BY <1>1, <1>2, <1>3
<1>5. \A p \in DOMAIN c.ops : c.ops[p].state = "succeeded" => d.ops[p].state = "succeeded"
  BY <1>4 DEF Settles
<1>6. CASE rcpt.snap = None
  <2>1. d.hist = c.hist /\ DOMAIN d.ops = DOMAIN c.ops  BY <1>6 DEF Settles
  <2>2. \A i \in DOMAIN c.hist :
           c.hist[i].op \in DOMAIN c.ops /\ d.ops[c.hist[i].op].state = "succeeded"
    BY <1>5 DEF Numbered
  <2> QED  BY <2>1, <2>2 DEF Numbered
<1>7. CASE rcpt.snap # None
  <2> DEFINE n == Len(c.hist) + 1
             snap == rcpt.snap
  <2>1. c.hist \in Seq(Snapshots) /\ snap \in Snapshots
    BY <1>7 DEF Databases, Sound, Receipts
  <2>2. d.hist = Append(c.hist, snap)  BY <1>7 DEF Settles
  <2>3. /\ DOMAIN d.hist = DOMAIN c.hist \cup {n} /\ DOMAIN c.hist = 1 .. (n - 1)
        /\ d.hist[n] = snap /\ \A i \in DOMAIN c.hist : d.hist[i] = c.hist[i]
    BY <2>1, <2>2
  <2>4. snap.gen = n  BY <1>7 DEF Sound, OneAtATime
  <2>5. snap.op = o \/ (c.ops[o].kind = "recover" /\ snap.op = c.ops[o].recovers)
    BY <1>7 DEF Sound
  <2>6. rcpt.state = "succeeded"  BY <1>7 DEF Sound
  <2>7. snap.op \in DOMAIN c.ops /\ c.ops[snap.op].state # "succeeded"
    BY <1>1, <1>2, <1>3, <2>5
  <2>8. d.ops[snap.op].state = "succeeded"
    <3>1. CASE snap.op = o  BY <2>6, <3>1 DEF Settles
    <3>2. CASE snap.op # o  BY <1>7, <2>5, <2>6, <2>7, <3>2 DEF Settles
    <3> QED  BY <3>1, <3>2
  <2>9. ASSUME NEW i \in DOMAIN d.hist
        PROVE  /\ d.hist[i].gen = i
               /\ d.hist[i].op \in DOMAIN d.ops /\ d.ops[d.hist[i].op].state = "succeeded"
               /\ \A k \in 1..(i - 1) : d.hist[k].op # d.hist[i].op
    <3> HIDE DEF snap, n
    <3>1. CASE i \in DOMAIN c.hist
      <4>1. \A k \in 1..(i - 1) : k \in DOMAIN c.hist  BY <2>1, <3>1
      <4>2. c.hist[i].op \in DOMAIN c.ops /\ c.ops[c.hist[i].op].state = "succeeded"
            /\ c.hist[i].gen = i /\ \A k \in 1..(i - 1) : c.hist[k].op # c.hist[i].op
        BY <3>1 DEF Numbered
      <4> QED  BY <1>5, <2>3, <3>1, <4>1, <4>2 DEF Settles
    <3>2. CASE i = n
      <4>1. \A k \in 1..(i - 1) : c.hist[k].op # snap.op /\ d.hist[k] = c.hist[k]
        BY <2>3, <2>7, <3>2 DEF Numbered
      <4> QED  BY <2>3, <2>4, <2>7, <2>8, <3>2, <4>1 DEF Settles
    <3> QED  BY <2>3, <3>1, <3>2
  <2> QED  BY <2>9 DEF Numbered
<1> QED  BY <1>6, <1>7

\* The receipt a reconciler consumes; b is what the spool holds.
LEMMA SettledDurable ==
    ASSUME NEW c \in Databases, NEW d, NEW o, NEW b, NEW rcpt, NEW j, NEW s, NEW h,
           Durable(c, j, s, h), o \in DOMAIN s, j.receipts[o] = b,
           o \in Pending(c), Sound(c, o, rcpt), rcpt.snap = b.snap,
           \/ rcpt.state = b.state
           \/ b.state = "succeeded" /\ rcpt.state = "failed" /\ c.ops[o].kind = "rehearse",
           Settles(c, d, o, rcpt)
    PROVE  /\ Durable(d, j, s, h) /\ SameOperations(c, d) /\ Pending(d) = {}
           /\ rcpt.snap # None \/ Decided(c, o, b) => HostFits(h, Accepted(d))
<1>1. OneAtATime(c) /\ Numbered(c) /\ o \in Pending(c) /\ o \in DOMAIN c.ops
  BY AboutPending DEF Durable, Sound
<1>2. /\ Pending(d) = {}
      /\ \A p : p \in Blocked(d) <=>
                \/ p = o /\ rcpt.state = "blocked"
                \/ p \in Blocked(c) /\ (c.ops[o].kind = "recover" => rcpt.state # "succeeded")
      /\ Accepted(d) = IF rcpt.snap # None THEN rcpt.snap ELSE Accepted(c)
  BY <1>1, SettledStates
<1>3. Blocked(c) # {} => c.ops[o].kind = "recover"  BY <1>1 DEF OneAtATime
<1>4. c.ops[o].kind = "recover" => rcpt.state \in {"succeeded", "failed"}  BY DEF Sound
<1>5. o \in DOMAIN j.receipts  BY DEF Durable, Written
<1>6. OneAtATime(d)
  <2>1. \A p, q \in Blocked(d) : p = q
    BY <1>2, <1>3, <1>4, <1>1 DEF OneAtATime
  <2> QED  BY <1>2, <2>1 DEF OneAtATime
<1>7. Numbered(d)  BY <1>1, SettledNumbered
<1>8. BootFits(d)
  BY <1>2 DEF Settles, BootFits, Durable, IsRunning
<1>9. Written(d, j, s)
  <2>1. \A p \in Pending(c) : p = o  BY <1>1 DEF OneAtATime
  <2> QED  BY <2>1 DEF Settles, Durable, Written
<1>10. Accepted(d) = Outcome(c, b)  BY <1>2 DEF Outcome
<1>11. Current(d, j, s)
  <2>1. j.current = Accepted(d)
    <3>1. CASE b.snap # None  BY <1>1, <1>2, <3>1 DEF Durable, Current
    <3>2. CASE b.snap = None
      <4>1. \A p \in Pending(c) : p = o  BY <1>1 DEF OneAtATime
      <4> QED  BY <1>2, <3>2, <4>1 DEF Durable, Current
    <3> QED  BY <3>1, <3>2
  <2> QED  BY <1>2, <2>1 DEF Current
<1>12. Settling(c, j, h, o, b)  BY <1>1, <1>5 DEF Durable, Fitted
<1>13. rcpt.snap # None => Decided(c, o, b)  BY DEF Sound, Decided
<1>14. rcpt.snap # None \/ Decided(c, o, b) => HostFits(h, Accepted(d))
  BY <1>10, <1>12, <1>13 DEF Settling
<1>15. Fitted(d, j, h)
  <2>1. ASSUME Blocked(d) = {}  PROVE Decided(c, o, b)
    <3>1. rcpt.state # "blocked"  BY <1>2, <2>1
    <3>2. CASE c.ops[o].kind = "recover"
      <4>1. c.ops[o].recovers \in Blocked(c)  BY <1>1, <3>2 DEF OneAtATime
      <4>2. rcpt.state = "succeeded"  BY <1>2, <2>1, <4>1
      <4> QED  BY <3>2, <4>2 DEF Decided
    <3>3. CASE c.ops[o].kind # "recover"
      BY <3>1, <3>3 DEF Decided, Sound, Receipts
    <3> QED  BY <3>2, <3>3
  <2> QED  BY <1>2, <1>14, <2>1 DEF Fitted
<1>16. Labelled(d, j, s, h)  BY <1>2 DEF Labelled, Durable, Settles
<1>17. SameOperations(c, d)  BY DEF SameOperations, Settles
<1> QED  BY <1>2, <1>6, <1>7, <1>8, <1>9, <1>11, <1>14, <1>15, <1>16, <1>17 DEF Durable

LEMMA SettledServing ==
    ASSUME NEW c \in Databases, NEW d, NEW o, NEW b, NEW rcpt, NEW h,
           o \in Pending(c), Sound(c, o, rcpt), rcpt.snap = b.snap,
           rcpt.state = b.state \/ c.ops[o].kind = "rehearse",
           Settles(c, d, o, rcpt), Serving(c, h), Accepted(d) = Outcome(c, b),
           rcpt.snap # None \/ Decided(c, o, b) => HostFits(h, Accepted(d)),
           OneAtATime(c)
    PROVE  Serving(d, h)
<1> SUFFICES ASSUME h.container # None, h.container.up
             PROVE  \/ IsRunning(Accepted(d)) /\ IsOf(h.container, Accepted(d))
                    \/ \E p \in InState(d, {"switching", "blocked"}) :
                          /\ d.ops[p].kind \in Switches
                          /\ IsOf(h.container, [op |-> p, sel |-> d.ops[p].sel])
  BY DEF Serving
<1>1. CASE HostFits(h, Accepted(d))  BY <1>1 DEF HostFits
<1>2. CASE ~HostFits(h, Accepted(d))
  <2>1. rcpt.snap = None /\ ~Decided(c, o, b)  BY <1>2
  <2>2. Accepted(d) = Accepted(c)  BY <2>1 DEF Outcome
  <2>3. CASE IsRunning(Accepted(c)) /\ IsOf(h.container, Accepted(c))  BY <2>2, <2>3
  <2>4. ASSUME NEW p \in InState(c, {"switching", "blocked"}), c.ops[p].kind \in Switches,
               IsOf(h.container, [op |-> p, sel |-> c.ops[p].sel])
        PROVE  p \in InState(d, {"switching", "blocked"}) /\ d.ops[p].kind \in Switches
               /\ d.ops[p].sel = c.ops[p].sel
    <3>1. p \in DOMAIN c.ops /\ c.ops[p].state \in {"switching", "blocked"}  BY DEF InState
    <3>2. rcpt.state \in {"succeeded", "failed", "blocked", "recovered"}
      BY DEF Sound, Receipts
    <3>3. d.ops[p].state \in {"switching", "blocked"}
      <4>1. CASE p = o
        <5>1. c.ops[o].kind \notin {"rehearse", "recover"}  BY <2>4, <4>1 DEF Switches
        <5>2. rcpt.state = "blocked"  BY <2>1, <3>2, <5>1 DEF Decided
        <5> QED  BY <4>1, <5>2 DEF Settles
      <4>2. CASE p # o
        <5>1. c.ops[o].kind = "recover" => rcpt.state # "succeeded"  BY <2>1 DEF Decided
        <5> QED  BY <3>1, <4>2, <5>1 DEF Settles
      <4> QED  BY <4>1, <4>2
    <3> QED  BY <2>4, <3>1, <3>3 DEF InState, Settles
  <2> QED  BY <2>3, <2>4 DEF Serving
<1> QED  BY <1>1, <1>2

LEMMA SettledHelping ==
    ASSUME NEW c \in Databases, NEW d, NEW o, NEW j, NEW s, NEW h, NEW q,
           Durable(c, j, s, h), Durable(d, j, s, h), o \in Pending(c), o \in DOMAIN s,
           Pending(d) = {}, Helping(c, j, s, h, q)
    PROVE  Helping(d, j, s, h, q)
<1>1. Pending(c) \subseteq DOMAIN s  BY DEF Durable, OneAtATime
<1>2. q.pc \notin Early \cup Answering  BY <1>1, NobodyWorks DEF Durable
<1>3. j.current = Accepted(d)  BY NothingPending DEF Durable
<1>4. Booting(d, j, h, q)  BY <1>3 DEF Helping, Booting
<1>5. q.pc = "unmark" => q.op \in DOMAIN s  BY DEF Helping, Committing
<1> QED  BY <1>2, <1>4, <1>5, IdleHelps
-----------------------------------------------------------------------------
(***************************************************************************)
(* Steps of the helper and the host.  c is the database, or the one a      *)
(* power loss would leave; j, s and h are journal, spool receipts, host.   *)
(***************************************************************************)
\* The operation o a process works for is the open one, and until the journal
\* has its receipt the journal's installation is the accepted one.
LEMMA AtWork ==
    ASSUME NEW c \in Databases, NEW j, NEW s, NEW h, Durable(c, j, s, h),
           NEW o \in DOMAIN c.ops, o \notin DOMAIN s
    PROVE  /\ o \in Pending(c) /\ \A p \in Pending(c) : p = o
           /\ c.ops[o].sel.gen = Len(c.hist)
           /\ \A p \in DOMAIN c.ops : c.ops[p].state = "succeeded" => p # o
           /\ o \notin DOMAIN j.receipts => j.current = Accepted(c)
<1>1. o \in Pending(c)  BY DEF Durable, Written
<1>2. \A p \in Pending(c) : p = o  BY <1>1 DEF Durable, OneAtATime
<1>3. c.ops[o].sel.gen = Len(c.hist)  BY <1>1 DEF Durable, OneAtATime
<1>4. c.ops[o].state # "succeeded"  BY <1>1, AboutPending
<1>5. o \notin DOMAIN j.receipts => j.current = Accepted(c)  BY <1>2 DEF Durable, Current
<1> QED  BY <1>1, <1>2, <1>3, <1>4, <1>5

\* The supervisor follows its container, and only a unit brings it back.
SameHost(h, g) ==
    /\ g.unit = h.unit /\ g.backup = h.backup
    /\ g.container = None <=> h.container = None
    /\ h.container # None =>
          /\ g.container.op = h.container.op /\ g.container.rel = h.container.rel
          /\ g.container.reg = h.container.reg
          /\ g.container.up => h.container.up
    /\ h.supervisor = "off" /\ ~h.unit => g.supervisor = "off"

LEMMA SameHostDurable ==
    ASSUME NEW c, NEW j, NEW s, NEW h, NEW g, Durable(c, j, s, h), SameHost(h, g)
    PROVE  Durable(c, j, s, g)
<1>1. \A snap : HostFits(h, snap) => HostFits(g, snap)  BY DEF HostFits, SameHost, IsOf
<1>2. \A o, rcpt : Settling(c, j, h, o, rcpt) => Settling(c, j, g, o, rcpt)
  BY <1>1 DEF Settling, SameHost
<1>3. Fitted(c, j, g)  BY <1>1, <1>2 DEF Durable, Fitted
<1>4. Labelled(c, j, s, g)  BY DEF Durable, Labelled, BackedUp, SameHost
<1> QED  BY <1>3, <1>4 DEF Durable

LEMMA SameHostServing ==
    ASSUME NEW c, NEW h, NEW g, Serving(c, h), SameHost(h, g)
    PROVE  Serving(c, g)
BY DEF Serving, SameHost, IsOf

\* What the helper does to the host for the operation it has marked.
LEMMA WorkDurable ==
    ASSUME NEW c \in Databases, NEW j, NEW s, NEW h, NEW g, Durable(c, j, s, h),
           NEW o \in DOMAIN c.ops, o \notin DOMAIN j.receipts,
           c.ops[o].kind = "recover" \/ o \in j.marks,
           g.backup = h.backup,
           g.container # None =>
              \/ h.container # None /\ g.container.op = h.container.op
              \/ j.current # None /\ g.container.op = j.current.op
              \/ g.container.op = o /\ o \in j.marks
    PROVE  Durable(c, j, s, g)
<1>1. o \notin DOMAIN s  BY DEF Durable, Written
<1>2. /\ o \in Pending(c) /\ \A p \in Pending(c) : p = o
      /\ \A p \in DOMAIN c.ops : c.ops[p].state = "succeeded" => p # o
      /\ j.current = Accepted(c)
  BY <1>1, AtWork
<1>3. j.current # None => j.current.op \in DOMAIN c.ops /\ j.current.op # o
  BY <1>2, AcceptedFacts DEF Durable
<1>4. Fitted(c, j, g)  BY <1>2 DEF Fitted
<1>5. Labelled(c, j, s, g)  BY <1>2, <1>3 DEF Durable, Labelled, BackedUp
<1> QED  BY <1>4, <1>5 DEF Durable

\* The backup before the marker.
LEMMA BackupDurable ==
    ASSUME NEW c \in Databases, NEW j, NEW s, NEW h, NEW g, Durable(c, j, s, h),
           NEW o \in DOMAIN c.ops, o \notin DOMAIN s,
           g.container = h.container, g.unit = h.unit, g.supervisor = h.supervisor,
           g.backup # None, g.backup.op = o, g.backup.gen = c.ops[o].sel.gen + 1
    PROVE  Durable(c, j, s, g)
<1>1. \A p \in Pending(c) : p = o  BY AtWork
<1>2. \A snap : HostFits(h, snap) => HostFits(g, snap)  BY DEF HostFits
<1>3. \A p, rcpt : Settling(c, j, h, p, rcpt) => Settling(c, j, g, p, rcpt)
  BY <1>2 DEF Settling
<1>4. Fitted(c, j, g)  BY <1>2, <1>3 DEF Durable, Fitted
<1>5. Labelled(c, j, s, g)  BY <1>1 DEF Durable, Labelled, BackedUp
<1> QED  BY <1>4, <1>5 DEF Durable

LEMMA MarkDurable ==
    ASSUME NEW c \in Databases, NEW j, NEW k, NEW s, NEW h, Durable(c, j, s, h),
           NEW o \in DOMAIN c.ops, o \notin DOMAIN s,
           c.ops[o].kind \in Marked, BackedUp(c, h, o),
           k.receipts = j.receipts, k.current = j.current, k.marks = j.marks \cup {o}
    PROVE  Durable(c, k, s, h)
<1>1. \A p \in Pending(c) : p = o  BY AtWork
<1>2. Written(c, k, s)  BY DEF Durable, Written
<1>3. Current(c, k, s)  BY DEF Durable, Current
<1>4. Fitted(c, k, h)  BY <1>1 DEF Durable, Fitted, Settling
<1>5. Labelled(c, k, s, h)  BY <1>1 DEF Durable, Labelled
<1> QED  BY <1>2, <1>3, <1>4, <1>5 DEF Durable

LEMMA UnmarkDurable ==
    ASSUME NEW c \in Databases, NEW j, NEW k, NEW s, NEW h, Durable(c, j, s, h),
           NEW o \in DOMAIN s,
           k.receipts = j.receipts, k.current = j.current, k.marks = j.marks \ {o}
    PROVE  Durable(c, k, s, h)
<1>1. o \in DOMAIN j.receipts  BY DEF Durable, Written
<1>2. Written(c, k, s)  BY DEF Durable, Written
<1>3. Current(c, k, s)  BY DEF Durable, Current
<1>4. Fitted(c, k, h)  BY <1>1 DEF Durable, Fitted, Settling
<1>5. Labelled(c, k, s, h)  BY DEF Durable, Labelled
<1> QED  BY <1>2, <1>3, <1>4, <1>5 DEF Durable

\* The commit point: the journal's receipt.
LEMMA JournalDurable ==
    ASSUME NEW c \in Databases, NEW j, NEW k, NEW s, NEW h, Durable(c, j, s, h),
           NEW o \in DOMAIN c.ops, o \notin DOMAIN s, o \notin DOMAIN j.receipts,
           NEW rcpt, Sound(c, o, rcpt), Settling(c, j, h, o, rcpt),
           k.receipts = Put(j.receipts, o, rcpt), k.current = j.current, k.marks = j.marks
    PROVE  Durable(c, k, s, h)
<1>1. o \in Pending(c) /\ \A p \in Pending(c) : p = o  BY AtWork
<1>2. /\ DOMAIN k.receipts = DOMAIN j.receipts \cup {o} /\ k.receipts[o] = rcpt
      /\ \A p \in DOMAIN j.receipts : k.receipts[p] = j.receipts[p]
  BY DEF Put
<1>3. Written(c, k, s)  BY <1>2 DEF Durable, Written
<1>4. j.current = Accepted(c)  BY AtWork
<1>5. Current(c, k, s)  BY <1>1, <1>2, <1>4 DEF Durable, Current
<1>6. Settling(c, k, h, o, rcpt)  BY DEF Settling
<1>7. Fitted(c, k, h)  BY <1>1, <1>2, <1>6 DEF Fitted
<1>8. Labelled(c, k, s, h)  BY DEF Durable, Labelled
<1> QED  BY <1>3, <1>5, <1>7, <1>8 DEF Durable

\* The current record follows the receipt.
LEMMA RecordDurable ==
    ASSUME NEW c \in Databases, NEW j, NEW k, NEW s, NEW h, Durable(c, j, s, h),
           NEW o \in DOMAIN c.ops, o \notin DOMAIN s, o \in DOMAIN j.receipts,
           k.receipts = j.receipts, k.marks = j.marks,
           k.current = IF /\ j.receipts[o].state = "succeeded" /\ j.receipts[o].snap # None
                          /\ j.receipts[o].snap.gen = Generation(j.current) + 1
                       THEN j.receipts[o].snap ELSE j.current
    PROVE  /\ Durable(c, k, s, h)
           /\ j.receipts[o].snap # None => k.current = j.receipts[o].snap
<1>1. o \in Pending(c) /\ (\A p \in Pending(c) : p = o) /\ c.ops[o].sel.gen = Len(c.hist)
  BY AtWork
<1>2. Sound(c, o, j.receipts[o])  BY <1>1 DEF Durable, Current
<1>3. j.receipts[o].snap # None => k.current = j.receipts[o].snap
  <2> SUFFICES ASSUME j.receipts[o].snap # None  PROVE k.current = j.receipts[o].snap
    OBVIOUS
  <2>1. CASE j.current = Accepted(c)
    <3>1. Generation(j.current) = Len(c.hist)  BY <2>1, AcceptedFacts DEF Durable
    <3> QED  BY <1>1, <1>2, <3>1 DEF Sound
  <2>2. CASE j.current # Accepted(c)
    <3>1. j.current = j.receipts[o].snap  BY <1>1, <2>2 DEF Durable, Current
    <3> QED  BY <3>1
  <2> QED  BY <2>1, <2>2
<1>4. k.current = j.current \/ (k.current = j.receipts[o].snap /\ j.receipts[o].snap # None)
  OBVIOUS
<1>5. Written(c, k, s)  BY DEF Durable, Written
<1>6. Current(c, k, s)  BY <1>1, <1>2, <1>4 DEF Durable, Current
<1>7. Settling(c, k, h, o, j.receipts[o])
  <2>1. Settling(c, j, h, o, j.receipts[o])  BY <1>1 DEF Durable, Fitted
  <2> QED  BY <1>3, <2>1 DEF Settling
<1>8. Fitted(c, k, h)  BY <1>1, <1>7 DEF Fitted
<1>9. Labelled(c, k, s, h)  BY DEF Durable, Labelled
<1> QED  BY <1>3, <1>5, <1>6, <1>8, <1>9 DEF Durable

\* The spool's copy of a receipt whose record is written.
LEMMA SpoolDurable ==
    ASSUME NEW c \in Databases, NEW j, NEW s, NEW t, NEW h, Durable(c, j, s, h),
           NEW o \in DOMAIN c.ops, o \notin DOMAIN s, o \in DOMAIN j.receipts,
           j.receipts[o].snap # None => j.current = j.receipts[o].snap,
           DOMAIN t = DOMAIN s \cup {o}
    PROVE  Durable(c, j, t, h)
<1>1. o \in Pending(c) /\ \A p \in Pending(c) : p = o  BY AtWork
<1>2. Written(c, j, t)  BY DEF Durable, Written
<1>3. Current(c, j, t)  BY <1>1 DEF Durable, Current
<1>4. Labelled(c, j, t, h)  BY DEF Durable, Labelled
<1> QED  BY <1>2, <1>3, <1>4 DEF Durable

\* A boot of the accepted generation puts its own container there, or none.
LEMMA BootDurable ==
    ASSUME NEW c \in Databases, NEW j, NEW s, NEW h, NEW g, Durable(c, j, s, h),
           IsRunning(j.current), h.unit, g.unit, g.backup = h.backup,
           g.container = None \/ IsOf(g.container, j.current),
           j.current.op \in DOMAIN c.ops, j.current.op \in Pending(c) => j.current.op \in DOMAIN s,
           \A o \in Pending(c) \cap DOMAIN j.receipts :
              j.receipts[o].snap # None => j.current = j.receipts[o].snap
    PROVE  Durable(c, j, s, g)
<1>1. HostFits(g, j.current)  BY DEF HostFits
<1>2. \A o \in Pending(c) \ DOMAIN j.receipts : j.current = Accepted(c)
  BY DEF Durable, Current, OneAtATime
<1>3. Pending(c) = {} => j.current = Accepted(c)  BY DEF Durable, Current
<1>4. \A o \in Pending(c) \cap DOMAIN j.receipts : Outcome(c, j.receipts[o]) = j.current
  BY DEF Durable, Current, OneAtATime, Outcome
<1>5. \A o \in Pending(c) \cap DOMAIN j.receipts : Settling(c, j, g, o, j.receipts[o])
  BY <1>1, <1>4 DEF Settling
<1>6. Fitted(c, j, g)  BY <1>1, <1>2, <1>3, <1>5 DEF Fitted
<1>7. Labelled(c, j, s, g)  BY DEF Durable, Labelled, BackedUp, IsOf
<1> QED  BY <1>6, <1>7 DEF Durable
-----------------------------------------------------------------------------
(***************************************************************************)
(* The steps of the specification.  First what the process under the lock  *)
(* knows, then one lemma for each way a step may end.                      *)
(***************************************************************************)
LEMMA Working ==
    ASSUME Inv, run.pc \in Early \cup Answering
    PROVE  /\ run.op \in DOMAIN core.ops /\ run.op \in DOMAIN undo.ops
           /\ run.op \notin DOMAIN spool.receipts
           /\ run.op \in Nat /\ core.ops[run.op] \in Operations
           /\ core.ops[run.op].sel \in Selections
           /\ undo.ops[run.op].kind = core.ops[run.op].kind
           /\ undo.ops[run.op].sel = core.ops[run.op].sel
           /\ run.op \in Pending(core) /\ (\A p \in Pending(core) : p = run.op)
           /\ core.ops[run.op].sel.gen = Len(core.hist)
<1>1. run.op \in DOMAIN core.ops /\ run.op \notin DOMAIN spool.receipts
  BY DEF Inv, Helping
<1>2. /\ run.op \in DOMAIN undo.ops
      /\ undo.ops[run.op].kind = core.ops[run.op].kind
      /\ undo.ops[run.op].sel = core.ops[run.op].sel
  BY <1>1 DEF Inv, Disk, SameOperations
<1>3. core \in Databases  BY DEF Inv, TypeOK
<1>4. Durable(core, journal, spool.receipts, host)  BY DEF Inv, Disk
<1>5. /\ run.op \in Pending(core) /\ (\A p \in Pending(core) : p = run.op)
      /\ core.ops[run.op].sel.gen = Len(core.hist)
  BY <1>1, <1>3, <1>4, AtWork
<1> QED  BY <1>1, <1>2, <1>3, <1>5, OperationType

LEMMA Undecided ==
    ASSUME Inv, run.pc \in Early
    PROVE  /\ run.op \notin DOMAIN journal.receipts
           /\ journal.current = Accepted(core) /\ journal.current = Accepted(undo)
           /\ run.was = journal.current /\ ~run.replay
           /\ core.ops[run.op].kind \in KindsAt[run.pc]
           /\ run.rcpt # None => run.pc = "attest" /\ core.ops[run.op].kind = "recover"
           /\ run.op \in journal.marks => core.ops[run.op].kind \in Marked
<1>1. /\ run.op \in DOMAIN core.ops /\ run.op \in DOMAIN undo.ops
      /\ run.op \notin DOMAIN spool.receipts
  BY Working
<1>2. /\ run.op \notin DOMAIN journal.receipts
      /\ run.was = journal.current /\ ~run.replay
      /\ core.ops[run.op].kind \in KindsAt[run.pc]
      /\ run.rcpt # None => run.pc = "attest" /\ core.ops[run.op].kind = "recover"
  BY DEF Inv, Helping, Executing
<1>3. journal.current = Accepted(core)  BY <1>1, <1>2, AtWork DEF Inv, Disk, TypeOK
<1>4. journal.current = Accepted(undo)  BY <1>1, <1>2, AtWork DEF Inv, Disk, TypeOK
<1>5. run.op \in journal.marks => core.ops[run.op].kind \in Marked
  BY DEF Inv, Disk, Durable, Written
<1> QED  BY <1>2, <1>3, <1>4, <1>5

\* The process stops: it is killed, it finishes, or it gives its request up.
LEMMA IdleRunHelps ==
    ASSUME NEW c, NEW j, NEW s, NEW h, NEW pc, pc \in {"idle", "pass"},
           NEW q, q = [IdleRun EXCEPT !.pc = pc]
    PROVE  Helping(c, j, s, h, q) /\ IsRun(q)
<1>1. q.pc = pc /\ IsRun(q)  BY DEF IdleRun, IsRun
<1> QED  BY <1>1 DEF Helping, Executing, Committing, Booting, Early, Answering

LEMMA IdleHelping ==
    ASSUME NEW c, NEW j, NEW s, NEW h
    PROVE  Helping(c, j, s, h, IdleRun) /\ IsRun(IdleRun)
<1>1. IdleRun.pc = "idle" /\ IsRun(IdleRun)  BY DEF IdleRun, IsRun
<1> QED  BY <1>1 DEF Helping, Executing, Committing, Booting, Early, Answering

\* A process that only moves on changes nothing else.
LEMMA RunMoves ==
    ASSUME Inv, UNCHANGED <<core, undo, rec, policy, spool, journal, host, data>>,
           IsRun(run'), Helping(core, journal, spool.receipts, host, run')
    PROVE  Inv'
BY DEF Inv, TypeOK, Disk, Reconciling

\* An answer: what the receipt says is sound, and the host fits it.
LEMMA AnswerHelps ==
    ASSUME Inv, run.pc \in Early, NEW rcpt, Answer(rcpt), NEW g,
           Sound(core, run.op, rcpt), Settling(core, journal, g, run.op, rcpt)
    PROVE  IsRun(run') /\ Helping(core, journal, spool.receipts, g, run')
<1>1. IsRun(run)  BY DEF Inv, TypeOK
<1>2. run'.pc = "journal" /\ run'.op = run.op /\ run'.rcpt = rcpt /\ IsRun(run')
  BY <1>1 DEF Answer, IsRun
<1>3. /\ run.op \in DOMAIN core.ops /\ run.op \notin DOMAIN spool.receipts
      /\ run.op \notin DOMAIN journal.receipts
  BY Working, Undecided
<1> QED  BY <1>2, <1>3 DEF Helping, Executing, Committing, Booting, Early, Answering

\* The answer "blocked" or, for a recovery, "failed" promises nothing of the host.
LEMMA BlockedHelps ==
    ASSUME Inv, run.pc \in Early, core.ops[run.op].kind \in Marked,
           Answer(Receipt("blocked", None)), NEW g
    PROVE  IsRun(run') /\ Helping(core, journal, spool.receipts, g, run')
<1> DEFINE rcpt == Receipt("blocked", None)
<1>1. rcpt \in Receipts /\ rcpt.state = "blocked" /\ rcpt.snap = None
  BY DEF Receipt, Receipts
<1> HIDE DEF rcpt
<1>2. Sound(core, run.op, rcpt)  BY <1>1 DEF Sound, Marked
<1>3. Settling(core, journal, g, run.op, rcpt)  BY <1>1 DEF Settling, Decided
<1>4. Answer(rcpt)  BY DEF rcpt
<1> QED  BY <1>2, <1>3, <1>4, AnswerHelps

LEMMA ExceptHelps ==
    ASSUME Inv, run.pc \in Early, Except
    PROVE  IsRun(run') /\ Helping(core, journal, spool.receipts, host, run')
<1>1. CASE Kind = "recover" \/ run.op \notin journal.marks
  <2> DEFINE rcpt == Receipt("failed", None)
  <2>1. rcpt \in Receipts /\ rcpt.state = "failed" /\ rcpt.snap = None
    BY DEF Receipt, Receipts
  <2>2. Answer(rcpt)  BY <1>1 DEF Except
  <2> HIDE DEF rcpt
  <2>3. Sound(core, run.op, rcpt)  BY <2>1 DEF Sound
  <2>4. Settling(core, journal, host, run.op, rcpt)
    <3>1. CASE Kind = "recover"  BY <2>1, <3>1 DEF Settling, Decided, Kind
    <3>2. CASE Kind # "recover"
      <4>1. HostFits(host, Accepted(core))
        BY <1>1, <3>2, Working, Undecided DEF Inv, Disk, Durable, Fitted, Kind
      <4> QED  BY <2>1, <4>1 DEF Settling, Outcome
    <3> QED  BY <3>1, <3>2
  <2> QED  BY <2>2, <2>3, <2>4, AnswerHelps
<1>2. CASE ~(Kind = "recover" \/ run.op \notin journal.marks)
  <2>1. IsRun(run)  BY DEF Inv, TypeOK
  <2>2. run' = [run EXCEPT !.pc = "fallback"]  BY <1>2 DEF Except, Goto
  <2>3. /\ run'.pc = "fallback" /\ run'.op = run.op /\ run'.was = run.was
        /\ run'.rcpt = run.rcpt /\ run'.replay = run.replay /\ IsRun(run')
    BY <2>1, <2>2 DEF IsRun
  <2>4. core.ops[run.op].kind \in KindsAt["fallback"] /\ run.rcpt = None
    BY <1>2, Undecided DEF KindsAt, Kind
  <2>5. run.op \in DOMAIN core.ops /\ run.op \notin DOMAIN spool.receipts  BY Working
  <2>6. run.op \notin DOMAIN journal.receipts /\ run.was = journal.current /\ ~run.replay
    BY Undecided
  <2> QED  BY <1>2, <2>3, <2>4, <2>5, <2>6
      DEF Helping, Executing, Committing, Booting, Early, Answering, Admitting, Marking
<1> QED  BY <1>1, <1>2

LEMMA ExceptMoves ==
    ASSUME Inv, run.pc \in Early, Except,
           UNCHANGED <<core, undo, rec, policy, spool, journal, host, data>>
    PROVE  Inv'
BY ExceptHelps, RunMoves

LEMMA BlockedMoves ==
    ASSUME Inv, run.pc \in Early, core.ops[run.op].kind \in Marked,
           Answer(Receipt("blocked", None)),
           UNCHANGED <<core, undo, rec, policy, spool, journal, host, data>>
    PROVE  Inv'
BY BlockedHelps, RunMoves

\* A step that changes the host.
LEMMA HostMoves ==
    ASSUME Inv, UNCHANGED <<core, undo, rec, policy, journal, data>>,
           DOMAIN spool' = DOMAIN spool, spool'.receipts = spool.receipts,
           host' \in Hosts, host'.supervisor # "off" => host'.unit,
           Durable(core, journal, spool.receipts, host'),
           Durable(undo, journal, spool.receipts, host'),
           Serving(core, host'),
           IsRun(run'), Helping(core, journal, spool.receipts, host', run')
    PROVE  Inv'
<1>1. TypeOK'  BY DEF Inv, TypeOK
<1>2. Disk'  BY DEF Inv, Disk, Shared
<1>3. Serving(core, host)'  OBVIOUS
<1>4. Reconciling'  BY DEF Inv, Reconciling
<1>5. Helping(core, journal, spool.receipts, host, run)'  OBVIOUS
<1> QED  BY <1>1, <1>2, <1>3, <1>4, <1>5 DEF Inv

\* The host after a step of the helper for the operation it holds and marked.
LEMMA HelperMoves ==
    ASSUME Inv, UNCHANGED <<core, undo, rec, policy, spool, journal, data>>,
           run.pc \in Early,
           core.ops[run.op].kind = "recover" \/ run.op \in journal.marks,
           host' \in Hosts, host'.supervisor # "off" => host'.unit,
           host'.backup = host.backup,
           host'.container # None =>
              \/ host.container # None /\ host'.container.op = host.container.op
              \/ journal.current # None /\ host'.container.op = journal.current.op
              \/ host'.container.op = run.op /\ run.op \in journal.marks,
           Serving(core, host'),
           IsRun(run'), Helping(core, journal, spool.receipts, host', run')
    PROVE  Inv'
<1>1. /\ run.op \in DOMAIN core.ops /\ run.op \in DOMAIN undo.ops
      /\ undo.ops[run.op].kind = core.ops[run.op].kind
      /\ run.op \notin DOMAIN journal.receipts
  BY Working, Undecided
<1>2. core \in Databases /\ undo \in Databases  BY DEF Inv, TypeOK
<1>3. Durable(core, journal, spool.receipts, host) /\ Durable(undo, journal, spool.receipts, host)
  BY DEF Inv, Disk
<1>4. Durable(core, journal, spool.receipts, host')  BY <1>1, <1>2, <1>3, WorkDurable
<1>5. Durable(undo, journal, spool.receipts, host')  BY <1>1, <1>2, <1>3, WorkDurable
<1> QED  BY <1>4, <1>5, HostMoves

\* Services that stop, change their supervision or lose their unit serve nothing new.
LEMMA StoppedServes ==
    ASSUME NEW c, NEW h, NEW g, Serving(c, h), g.container = h.container \/ g.container = None
    PROVE  Serving(c, g)
BY DEF Serving

LEMMA AcceptedServes ==
    ASSUME NEW c, NEW g, IsRunning(Accepted(c)), IsOf(g.container, Accepted(c))
    PROVE  Serving(c, g)
BY DEF Serving

\* A container is that of the operation and selection it was started with.
LEMMA ContainerIs ==
    ASSUME NEW o \in Nat, NEW sel \in Selections
    PROVE  /\ ContainerOf(o, sel) \in Containers /\ ContainerOf(o, sel) # None
           /\ ContainerOf(o, sel).op = o
           /\ ContainerOf(o, sel).rel = sel.rel /\ ContainerOf(o, sel).reg = sel.reg
<1>1. DOMAIN ContainerOf(o, sel) = {"rel", "reg", "op", "up"}  BY DEF ContainerOf
<1>2. DOMAIN None = {"none"}  BY DEF None
<1>3. "op" \notin DOMAIN None  BY <1>2
<1> QED  BY <1>1, <1>3 DEF ContainerOf, Containers, Selections

\* The process goes on to another step of the same operation.
LEMMA GotoHelps ==
    ASSUME Inv, run.pc \in Early, NEW pc \in Early, Goto(pc), NEW k, NEW g,
           k.receipts = journal.receipts, k.current = journal.current,
           core.ops[run.op].kind \in KindsAt[pc],
           pc \in Admitting \/ (pc = "restore" /\ core.ops[run.op].kind = "recover")
              => core.ops[run.op].state = "switching",
           pc \in Marking => run.op \in k.marks,
           pc \in {"attest", "restore"} /\ core.ops[run.op].kind # "recover" => run.op \in k.marks,
           pc = "mark" => BackedUp(core, g, run.op),
           pc = "probe" => IsOfOp(core, g, run.op),
           pc = "archive" => Gone(g),
           pc = "restore" => IsRunning(journal.current),
           pc = "attest" => Attested(core, g, run.op, run.rcpt),
           run.rcpt # None => pc = "attest" /\ core.ops[run.op].kind = "recover"
    PROVE  IsRun(run') /\ Helping(core, k, spool.receipts, g, run')
<1>1. IsRun(run)  BY DEF Inv, TypeOK
<1>2. /\ run'.pc = pc /\ run'.op = run.op /\ run'.was = run.was
      /\ run'.rcpt = run.rcpt /\ run'.replay = run.replay /\ IsRun(run')
  BY <1>1 DEF Goto, IsRun
<1>3. /\ run.op \in DOMAIN core.ops /\ run.op \notin DOMAIN spool.receipts
      /\ run.op \notin DOMAIN journal.receipts
      /\ run.was = journal.current /\ ~run.replay
  BY Working, Undecided
<1>4. Executing(core, k, g, run')  BY <1>2, <1>3 DEF Executing
<1>5. Committing(core, k, spool.receipts, g, run') /\ Booting(core, k, g, run')
  BY <1>2 DEF Committing, Booting, Early
<1> QED  BY <1>2, <1>3, <1>4, <1>5 DEF Helping

LEMMA RehearseKeeps == ASSUME Inv, Rehearse PROVE Inv'
<1>1. run.pc = "begin" /\ run.pc \in Early /\ Kind \notin {"recover", "retire"}
  BY DEF Rehearse, Early
<1>2. UNCHANGED <<core, undo, rec, policy, spool, journal, host, data>>  BY DEF Rehearse
<1>3. Kind \in AnyKind  BY <1>1, Working DEF Kind, Operations
<1>4. CASE Goto("hint") /\ Kind # "rehearse"
  <2>1. Kind \in KindsAt["hint"]  BY <1>1, <1>3, <1>4 DEF KindsAt, AnyKind, Switches
  <2>2. run.rcpt = None  BY <1>1, Undecided
  <2>3. IsRun(run') /\ Helping(core, journal, spool.receipts, host, run')
    BY <1>1, <1>4, <2>1, <2>2, GotoHelps DEF Early, Admitting, Marking, Kind
  <2> QED  BY <1>2, <2>3, RunMoves
<1>5. CASE Answer(Receipt("succeeded", None)) /\ Kind = "rehearse"
  <2> DEFINE rcpt == Receipt("succeeded", None)
  <2>1. rcpt \in Receipts /\ rcpt.state = "succeeded" /\ rcpt.snap = None
    BY DEF Receipt, Receipts
  <2>2. Answer(rcpt)  BY <1>5
  <2> HIDE DEF rcpt
  <2>3. Sound(core, run.op, rcpt)  BY <1>5, <2>1 DEF Sound, Marked, Kind
  <2>4. run.op \notin journal.marks  BY <1>1, <1>5, Undecided DEF Marked, Kind
  <2>5. HostFits(host, Accepted(core))
    BY <1>1, <1>5, <2>4, Working, Undecided DEF Inv, Disk, Durable, Fitted, Kind
  <2>6. Settling(core, journal, host, run.op, rcpt)  BY <2>1, <2>5 DEF Settling, Outcome
  <2> QED  BY <1>1, <1>2, <2>2, <2>3, <2>6, AnswerHelps, RunMoves
<1>6. CASE Except  BY <1>1, <1>2, <1>6, ExceptMoves
<1> QED  BY <1>4, <1>5, <1>6 DEF Rehearse

LEMMA PublishHintKeeps == ASSUME Inv, PublishHint PROVE Inv'
<1>1. run.pc \in Early  BY DEF PublishHint, Early
<1>2. UNCHANGED <<core, undo, rec, policy, journal, host, data>> /\ Goto("wait")
  BY DEF PublishHint
<1>3. DOMAIN spool' = DOMAIN spool /\ spool'.receipts = spool.receipts
  BY DEF PublishHint, Inv, TypeOK
<1>4. core.ops[run.op].kind \in AnyKind \ {"rehearse"}
  <2>1. CASE run.pc = "hint"
    BY <1>1, <2>1, Undecided DEF KindsAt, Switches, AnyKind
  <2>2. CASE run.pc = "begin" /\ Kind \in {"recover", "retire"}
    BY <2>2 DEF Kind, AnyKind
  <2> QED  BY <2>1, <2>2 DEF PublishHint
<1>5. run.rcpt = None  BY <1>1, Undecided DEF PublishHint
<1>6. IsRun(run') /\ Helping(core, journal, spool.receipts, host, run')
  BY <1>1, <1>2, <1>4, <1>5, GotoHelps DEF Early, Admitting, Marking, KindsAt
<1>7. /\ Durable(core, journal, spool.receipts, host') /\ Durable(undo, journal, spool.receipts, host')
      /\ host' \in Hosts /\ (host'.supervisor # "off" => host'.unit) /\ Serving(core, host')
      /\ Helping(core, journal, spool.receipts, host', run')
  BY <1>2, <1>6 DEF Inv, Disk, Shared, TypeOK
<1> QED  BY <1>2, <1>3, <1>6, <1>7, HostMoves

LEMMA AdmittedKeeps == ASSUME Inv, Admitted PROVE Inv'
<1>1. run.pc = "wait" /\ run.pc \in Early /\ core.ops[run.op].state = "switching"
  BY DEF Admitted, Early
<1>2. UNCHANGED <<core, undo, rec, policy, spool, journal, host, data>>  BY DEF Admitted
<1>3. Kind \in AnyKind \ {"rehearse"} /\ run.rcpt = None
  BY <1>1, Undecided DEF KindsAt, Kind
<1> DEFINE pc == IF Kind = "recover" THEN "recover" ELSE IF Kind = "retire" THEN "mark" ELSE "backup"
<1>4. Goto(pc)  BY DEF Admitted
<1>5. /\ pc \in {"recover", "mark", "backup"} /\ Kind \in KindsAt[pc]
      /\ pc = "mark" => Kind = "retire"
  BY <1>3 DEF KindsAt, AnyKind, Marked, Switches
<1> HIDE DEF pc
<1>6. pc = "mark" => BackedUp(core, host, run.op)  BY <1>5 DEF BackedUp, Switches, Kind
<1>7. pc \in Early /\ pc \notin Marking /\ pc \notin {"attest", "restore", "probe", "archive"}
  BY <1>5 DEF Early, Marking
<1>8. IsRun(run') /\ Helping(core, journal, spool.receipts, host, run')
  BY <1>1, <1>3, <1>4, <1>5, <1>6, <1>7, GotoHelps DEF Kind
<1> QED  BY <1>2, <1>8, RunMoves

\* A request given up, a pass that ends, a helper that is killed.
LEMMA StopsKeep ==
    ASSUME Inv, AdmissionTimeout \/ EndPass \/ HelperDies
    PROVE  Inv'
<1>1. UNCHANGED <<core, undo, rec, policy, spool, journal, host, data>> /\ run' = IdleRun
  BY DEF AdmissionTimeout, EndPass, HelperDies
<1> QED  BY <1>1, IdleHelping, RunMoves

LEMMA CommitFailsKeeps ==
    ASSUME Inv, CommitFails, FailingCommits \cap {"recover", "retire"} = {}
    PROVE  Inv'
<1>1. UNCHANGED <<core, undo, rec, policy, spool, journal, host, data>> /\ run' = IdleRun
  BY DEF CommitFails
<1> QED  BY <1>1, IdleHelping, RunMoves

LEMMA PreSwitchBackupKeeps == ASSUME Inv, PreSwitchBackup PROVE Inv'
<1>1. run.pc = "backup" /\ run.pc \in Early  BY DEF PreSwitchBackup, Early
<1>2. UNCHANGED <<core, undo, rec, policy, spool, journal, data>>  BY DEF PreSwitchBackup
<1>3. Kind \in Switches /\ run.rcpt = None /\ core.ops[run.op].state = "switching"
  BY <1>1, Undecided DEF KindsAt, Kind, Inv, Helping, Executing, Admitting
<1>4. /\ run.op \in Nat /\ core.ops[run.op].sel \in Selections
      /\ run.op \in DOMAIN core.ops /\ run.op \in DOMAIN undo.ops
      /\ undo.ops[run.op].sel = core.ops[run.op].sel /\ run.op \notin DOMAIN spool.receipts
      /\ core.ops[run.op].sel.gen = Len(core.hist) /\ run.op \in Pending(core)
  BY <1>1, Working
<1>5. CASE Except /\ UNCHANGED host  BY <1>1, <1>2, <1>5, ExceptMoves
<1>6. CASE Answer(Receipt("blocked", None)) /\ UNCHANGED host
  BY <1>1, <1>2, <1>3, <1>6, BlockedMoves DEF Switches, Marked, Kind
<1>7. CASE /\ HostAuthority(run.op) /\ Recognised /\ Goto("mark")
           /\ host' = IF Switched \/ run.was = None THEN host
                      ELSE [host EXCEPT !.backup = BackupOf(run.op)]
  <2>1. core.ops[run.op].kind \in KindsAt["mark"]  BY <1>3 DEF KindsAt, Marked, Switches, Kind
  <2>2. host \in Hosts /\ data \in Nat /\ core \in Databases /\ undo \in Databases
    BY DEF Inv, TypeOK
  <2>3. /\ Durable(core, journal, spool.receipts, host)
        /\ Durable(undo, journal, spool.receipts, host)
    BY DEF Inv, Disk
  <2>4. CASE Switched
    <3>1. host' = host  BY <1>7, <2>4
    <3>2. host.container # None /\ host.container.op = run.op
      BY <2>4 DEF Switched, StartedBy
    <3>3. BackedUp(core, host, run.op)  BY <1>4, <2>3, <3>2 DEF Durable, Labelled
    <3>4. IsRun(run') /\ Helping(core, journal, spool.receipts, host, run')
      BY <1>1, <1>3, <1>7, <2>1, <3>3, GotoHelps DEF Early, Marking
    <3> QED  BY <1>2, <3>1, <3>4, RunMoves
  <2>5. CASE ~Switched /\ run.was = None
    <3>1. host' = host  BY <1>7, <2>5
    <3>2. Accepted(core) = None  BY <1>1, <2>5, Undecided
    <3>3. Len(core.hist) = 0  BY <2>2, <3>2, AcceptedType
    <3>4. BackedUp(core, host, run.op)  BY <1>4, <3>3 DEF BackedUp
    <3>5. IsRun(run') /\ Helping(core, journal, spool.receipts, host, run')
      BY <1>1, <1>3, <1>7, <2>1, <3>4, GotoHelps DEF Early, Marking
    <3> QED  BY <1>2, <3>1, <3>5, RunMoves
  <2>6. CASE ~Switched /\ run.was # None
    <3> DEFINE b == BackupOf(run.op)
    <3>1. host' = [host EXCEPT !.backup = b]  BY <1>7, <2>6
    <3>2. b \in Backups /\ b.op = run.op /\ b.gen = core.ops[run.op].sel.gen + 1
      BY <1>4, <2>2 DEF BackupOf, Backups, Selections
    <3>3. b # None
      <4>1. DOMAIN b = {"gen", "op", "data"}  BY DEF BackupOf
      <4>2. DOMAIN None = {"none"}  BY DEF None
      <4>3. "op" \notin DOMAIN None  BY <4>2
      <4> QED  BY <4>1, <4>3
    <3> HIDE DEF b
    <3>4. /\ host'.container = host.container /\ host'.unit = host.unit
          /\ host'.supervisor = host.supervisor /\ host'.backup = b /\ host' \in Hosts
      BY <2>2, <3>1, <3>2 DEF Hosts
    <3>5. Durable(core, journal, spool.receipts, host')
      BY <1>4, <2>2, <2>3, <3>2, <3>3, <3>4, BackupDurable
    <3>6. Durable(undo, journal, spool.receipts, host')
      BY <1>4, <2>2, <2>3, <3>2, <3>3, <3>4, BackupDurable
    <3>7. BackedUp(core, host', run.op)  BY <3>2, <3>3, <3>4 DEF BackedUp
    <3>8. IsRun(run') /\ Helping(core, journal, spool.receipts, host', run')
      BY <1>1, <1>3, <1>7, <2>1, <3>7, GotoHelps DEF Early, Marking
    <3>9. Serving(core, host')  BY <3>4 DEF Inv, Serving
    <3>10. host'.supervisor # "off" => host'.unit  BY <3>4 DEF Inv, Disk, Shared
    <3> QED  BY <1>2, <3>4, <3>5, <3>6, <3>8, <3>9, <3>10, HostMoves
  <2> QED  BY <2>4, <2>5, <2>6
<1> QED  BY <1>5, <1>6, <1>7 DEF PreSwitchBackup

LEMMA MarkKeeps == ASSUME Inv, Mark PROVE Inv'
<1>1. run.pc = "mark" /\ run.pc \in Early  BY DEF Mark, Early
<1>2. UNCHANGED <<core, undo, rec, policy, spool, host, data>>  BY DEF Mark
<1>3. /\ Kind \in Marked /\ run.rcpt = None /\ core.ops[run.op].state = "switching"
      /\ BackedUp(core, host, run.op)
  BY <1>1, Undecided DEF KindsAt, Kind, Inv, Helping, Executing, Admitting
<1>4. CASE Answer(Receipt("blocked", None)) /\ UNCHANGED journal
  BY <1>1, <1>2, <1>3, <1>4, BlockedMoves DEF Kind
<1>5. CASE /\ journal' = [journal EXCEPT !.marks = @ \cup {run.op}]
           /\ Goto(IF Switched THEN "start" ELSE "stop")
  <2>1. IsJournal(journal)  BY DEF Inv, TypeOK
  <2>2. /\ journal'.receipts = journal.receipts /\ journal'.current = journal.current
        /\ journal'.marks = journal.marks \cup {run.op} /\ DOMAIN journal' = DOMAIN journal
    BY <1>5, <2>1 DEF IsJournal
  <2>3. IsJournal(journal')  BY <2>1, <2>2 DEF IsJournal
  <2>4. core \in Databases /\ undo \in Databases  BY DEF Inv, TypeOK
  <2>5. /\ run.op \in DOMAIN core.ops /\ run.op \in DOMAIN undo.ops
        /\ undo.ops[run.op].kind = core.ops[run.op].kind
        /\ undo.ops[run.op].sel = core.ops[run.op].sel
        /\ run.op \notin DOMAIN spool.receipts
    BY <1>1, Working
  <2>6. BackedUp(undo, host, run.op)  BY <1>3, <2>5 DEF BackedUp
  <2>7. Durable(core, journal', spool.receipts, host)
    BY <1>3, <2>2, <2>4, <2>5, MarkDurable DEF Inv, Disk, Kind
  <2>8. Durable(undo, journal', spool.receipts, host)
    BY <1>3, <2>2, <2>4, <2>5, <2>6, MarkDurable DEF Inv, Disk, Kind
  <2> DEFINE pc == IF Switched THEN "start" ELSE "stop"
  <2>9. Goto(pc)  BY <1>5
  <2>10. pc \in {"start", "stop"} /\ Kind \in KindsAt[pc]
    BY <1>3 DEF KindsAt, Marked, Switches, Switched
  <2> HIDE DEF pc
  <2>11. pc \in Early /\ pc \notin {"attest", "restore", "mark", "probe", "archive"}
    BY <2>10 DEF Early
  <2>12. run.op \in journal'.marks  BY <2>2
  <2>13. IsRun(run') /\ Helping(core, journal', spool.receipts, host, run')
    BY <1>1, <1>3, <2>2, <2>9, <2>10, <2>11, <2>12, GotoHelps DEF Kind
  <2>14. Disk'  BY <1>2, <2>2, <2>7, <2>8 DEF Inv, Disk, Shared
  <2> QED  BY <1>2, <2>3, <2>13, <2>14 DEF Inv, TypeOK, Reconciling
<1> QED  BY <1>4, <1>5 DEF Mark

LEMMA StopKeeps == ASSUME Inv, Stop PROVE Inv'
<1>1. run.pc = "stop" /\ run.pc \in Early /\ host' = Stopped(host)  BY DEF Stop, Early
<1>2. UNCHANGED <<core, undo, rec, policy, spool, journal, data>>  BY DEF Stop
<1>3. /\ Kind \in Marked /\ run.rcpt = None /\ core.ops[run.op].state = "switching"
      /\ run.op \in journal.marks
  BY <1>1, Undecided DEF KindsAt, Kind, Inv, Helping, Executing, Admitting, Marking
<1>4. /\ host' \in Hosts /\ host'.container = None /\ host'.supervisor = "off"
      /\ host'.backup = host.backup
  BY <1>1 DEF Stopped, Inv, TypeOK, Hosts
<1>5. Gone(host')  BY <1>4 DEF Gone
<1> DEFINE pc == IF Kind = "retire" THEN "archive" ELSE "start"
<1>6. Goto(pc)  BY DEF Stop
<1>7. pc \in {"archive", "start"} /\ Kind \in KindsAt[pc]
  BY <1>3 DEF KindsAt, Marked, Switches
<1> HIDE DEF pc
<1>8. pc \in Early /\ pc \notin {"attest", "restore", "mark", "probe"}
  BY <1>7 DEF Early
<1>9. IsRun(run') /\ Helping(core, journal, spool.receipts, host', run')
  BY <1>1, <1>3, <1>5, <1>6, <1>7, <1>8, GotoHelps DEF Kind
<1>10. Serving(core, host')  BY <1>4 DEF Serving
<1> QED  BY <1>1, <1>2, <1>3, <1>4, <1>9, <1>10, HelperMoves

LEMMA StartKeeps == ASSUME Inv, Start PROVE Inv'
<1>1. run.pc = "start" /\ run.pc \in Early  BY DEF Start, Early
<1>2. UNCHANGED <<core, undo, rec, policy, spool, journal, data>>  BY DEF Start
<1>3. /\ Kind \in Switches /\ run.rcpt = None /\ core.ops[run.op].state = "switching"
      /\ run.op \in journal.marks
  BY <1>1, Undecided DEF KindsAt, Kind, Inv, Helping, Executing, Admitting, Marking
<1>4. CASE Except /\ UNCHANGED host  BY <1>1, <1>2, <1>4, ExceptMoves
<1>5. CASE /\ host' = [host EXCEPT !.container = ContainerOf(run.op, core.ops[run.op].sel)]
           /\ Goto("probe")
  <2> DEFINE new == ContainerOf(run.op, core.ops[run.op].sel)
  <2>1. run.op \in Nat /\ core.ops[run.op].sel \in Selections /\ run.op \in DOMAIN core.ops
    BY <1>1, Working
  <2>2. /\ new \in Containers /\ new # None /\ new.op = run.op
        /\ new.rel = core.ops[run.op].sel.rel /\ new.reg = core.ops[run.op].sel.reg
    BY <2>1, ContainerIs
  <2>3. host' = [host EXCEPT !.container = new]  BY <1>5
  <2> HIDE DEF new
  <2>4. /\ host' \in Hosts /\ host'.container = new /\ host'.supervisor = host.supervisor
        /\ host'.unit = host.unit /\ host'.backup = host.backup
    BY <2>2, <2>3 DEF Inv, TypeOK, Hosts
  <2>5. IsOfOp(core, host', run.op)  BY <2>2, <2>4 DEF IsOfOp, IsOf
  <2>6. core.ops[run.op].kind \in KindsAt["probe"]  BY <1>3 DEF KindsAt, Kind
  <2>7. IsRun(run') /\ Helping(core, journal, spool.receipts, host', run')
    BY <1>1, <1>3, <1>5, <2>5, <2>6, GotoHelps DEF Early
  <2>8. run.op \in InState(core, {"switching", "blocked"})  BY <1>3, <2>1 DEF InState
  <2>9. Serving(core, host')  BY <1>3, <2>5, <2>8 DEF Serving, IsOfOp, Kind
  <2>10. host'.supervisor # "off" => host'.unit  BY <2>4 DEF Inv, Disk, Shared
  <2> QED  BY <1>1, <1>2, <1>3, <2>2, <2>4, <2>7, <2>9, <2>10, HelperMoves
<1> QED  BY <1>4, <1>5 DEF Start

LEMMA UnitsAre ==
    ASSUME NEW h \in Hosts, NEW installed \in BOOLEAN
    PROVE  /\ WithUnits(h, installed) \in Hosts /\ WithUnits(h, installed).unit = installed
           /\ WithUnits(h, installed).container = h.container
           /\ WithUnits(h, installed).supervisor = h.supervisor
           /\ WithUnits(h, installed).backup = h.backup
           /\ Stopped(h) \in Hosts /\ Stopped(h).container = None
           /\ Stopped(h).supervisor = "off" /\ Stopped(h).unit = h.unit
           /\ Stopped(h).backup = h.backup
BY DEF WithUnits, Stopped, Hosts

LEMMA ProbeKeeps == ASSUME Inv, Probe PROVE Inv'
<1>1. run.pc = "probe" /\ run.pc \in Early  BY DEF Probe, Early
<1>2. UNCHANGED <<core, undo, rec, policy, spool, journal, data>>  BY DEF Probe
<1>3. /\ Kind \in Switches /\ run.rcpt = None /\ core.ops[run.op].state = "switching"
      /\ run.op \in journal.marks /\ IsOfOp(core, host, run.op)
  BY <1>1, Undecided DEF KindsAt, Kind, Inv, Helping, Executing, Admitting, Marking
<1>4. CASE Except /\ UNCHANGED host  BY <1>1, <1>2, <1>4, ExceptMoves
<1>5. CASE host' = WithUnits(host, TRUE) /\ Goto("attest")
  <2>1. /\ host' \in Hosts /\ host'.container = host.container /\ host'.unit = TRUE
        /\ host'.backup = host.backup
    BY <1>5, UnitsAre DEF Inv, TypeOK
  <2>2. Attested(core, host', run.op, run.rcpt)
    BY <1>3, <2>1 DEF Attested, IsOfOp, Switches, Kind
  <2>3. core.ops[run.op].kind \in KindsAt["attest"]  BY <1>3 DEF KindsAt, Kind, Marked, Switches
  <2>4. IsRun(run') /\ Helping(core, journal, spool.receipts, host', run')
    BY <1>1, <1>3, <1>5, <2>2, <2>3, GotoHelps DEF Early
  <2>5. Serving(core, host')  BY <2>1, StoppedServes DEF Inv
  <2> QED  BY <1>1, <1>2, <1>3, <2>1, <2>4, <2>5, HelperMoves
<1> QED  BY <1>4, <1>5 DEF Probe

LEMMA ArchiveKeeps == ASSUME Inv, Archive PROVE Inv'
<1>1. run.pc = "archive" /\ run.pc \in Early  BY DEF Archive, Early
<1>2. UNCHANGED <<core, undo, rec, policy, spool, journal, data>>  BY DEF Archive
<1>3. /\ Kind = "retire" /\ run.rcpt = None /\ core.ops[run.op].state = "switching"
      /\ run.op \in journal.marks /\ Gone(host)
  BY <1>1, Undecided DEF KindsAt, Kind, Inv, Helping, Executing, Admitting, Marking
<1>4. CASE Except /\ UNCHANGED host  BY <1>1, <1>2, <1>4, ExceptMoves
<1>5. CASE host' = WithUnits(host, FALSE) /\ Goto("attest")
  <2>1. /\ host' \in Hosts /\ host'.container = host.container /\ host'.unit = FALSE
        /\ host'.supervisor = host.supervisor /\ host'.backup = host.backup
    BY <1>5, UnitsAre DEF Inv, TypeOK
  <2>2. Attested(core, host', run.op, run.rcpt)
    BY <1>3, <2>1 DEF Attested, Gone, Switches, Kind
  <2>3. core.ops[run.op].kind \in KindsAt["attest"]  BY <1>3 DEF KindsAt, Kind, Marked
  <2>4. IsRun(run') /\ Helping(core, journal, spool.receipts, host', run')
    BY <1>1, <1>3, <1>5, <2>2, <2>3, GotoHelps DEF Early
  <2>5. Serving(core, host')  BY <2>1, StoppedServes DEF Inv
  <2> QED  BY <1>1, <1>2, <1>3, <2>1, <2>4, <2>5, HelperMoves DEF Gone
<1> QED  BY <1>4, <1>5 DEF Archive

\* The receipt "succeeded" of a switch or a retirement, and of a recovery.
LEMMA SucceededHelps ==
    ASSUME Inv, run.pc \in Early, NEW snap, Answer(Receipt("succeeded", snap)),
           snap \in Snapshots, snap.gen = core.ops[run.op].sel.gen + 1,
           snap.op = IF core.ops[run.op].kind = "recover"
                     THEN core.ops[run.op].recovers ELSE run.op,
           snap.retired <=> core.ops[run.op].kind = "retire",
           core.ops[run.op].kind # "rehearse", HostFits(host, snap),
           core.ops[run.op].kind \in Switches => host.container # None
    PROVE  IsRun(run') /\ Helping(core, journal, spool.receipts, host, run')
<1> DEFINE rcpt == Receipt("succeeded", snap)
<1>1. rcpt \in Receipts /\ rcpt.state = "succeeded" /\ rcpt.snap = snap
  BY DEF Receipt, Receipts
<1>2. Answer(rcpt) /\ snap # None  BY SnapshotIsSomething
<1> HIDE DEF rcpt
<1>3. Sound(core, run.op, rcpt)  BY <1>1, <1>2 DEF Sound
<1>4. Settling(core, journal, host, run.op, rcpt)  BY <1>1, <1>2 DEF Settling, Outcome
<1> QED  BY <1>2, <1>3, <1>4, AnswerHelps

LEMMA AttestKeeps == ASSUME Inv, Attest PROVE Inv'
<1>1. run.pc = "attest" /\ run.pc \in Early  BY DEF Attest, Early
<1>2. UNCHANGED <<core, undo, rec, policy, spool, journal, host, data>>  BY DEF Attest
<1>3. CASE ~HostAuthority(run.op)  BY <1>1, <1>2, <1>3, ExceptMoves DEF Attest
<1>4. CASE HostAuthority(run.op)
  <2>1. /\ Kind \in Marked \cup {"recover"} /\ Attested(core, host, run.op, run.rcpt)
        /\ run.rcpt # None => Kind = "recover"
    BY <1>1, Undecided DEF KindsAt, Kind, Inv, Helping, Executing
  <2>2. /\ run.op \in Nat /\ core.ops[run.op].sel \in Selections
        /\ core.ops[run.op] \in Operations
    BY <1>1, Working
  <2>3. CASE Kind = "retire"
    <3> DEFINE snap == NewSnapshot(run.op, core.ops[run.op].sel, TRUE, run.was.op)
    <3>1. IsRunning(Accepted(core))
      BY <1>4, <2>3 DEF HostAuthority, ReadAuthority, Selectable, Kind
    <3>2. run.was = Accepted(core)  BY <1>1, Undecided
    <3>3. run.was.op \in Nat
      BY <3>1, <3>2, AcceptedType DEF Inv, TypeOK, IsRunning, Snapshots
    <3>4. snap \in Snapshots  BY <2>2, <3>3 DEF NewSnapshot, Snapshots, Selections
    <3>5. /\ snap.gen = core.ops[run.op].sel.gen + 1 /\ snap.retired
          /\ snap.op = run.op
      BY DEF NewSnapshot
    <3>6. Answer(Receipt("succeeded", snap))  BY <1>4, <2>3 DEF Attest
    <3> HIDE DEF snap
    <3>7. HostFits(host, snap)
      BY <2>1, <2>3, <3>5 DEF HostFits, IsRunning, Attested, Gone, Kind
    <3>8. IsRun(run') /\ Helping(core, journal, spool.receipts, host, run')
      BY <1>1, <2>3, <3>4, <3>5, <3>6, <3>7, SucceededHelps DEF Kind, Switches
    <3> QED  BY <1>2, <3>8, RunMoves
  <2>4. CASE Kind \in Switches
    <3> DEFINE snap == NewSnapshot(run.op, core.ops[run.op].sel, FALSE, 0)
    <3>1. snap \in Snapshots  BY <2>2 DEF NewSnapshot, Snapshots, Selections
    <3>2. /\ snap.gen = core.ops[run.op].sel.gen + 1 /\ ~snap.retired
          /\ snap.op = run.op /\ snap.sel = core.ops[run.op].sel
      BY DEF NewSnapshot
    <3>3. Answer(Receipt("succeeded", snap))  BY <1>4, <2>4 DEF Attest, Switches
    <3> HIDE DEF snap
    <3>4. HostFits(host, snap) /\ host.container # None
      BY <2>1, <2>4, <3>1, <3>2, SnapshotIsSomething
      DEF HostFits, IsRunning, Attested, IsOfOp, IsOf, Kind
    <3>5. IsRun(run') /\ Helping(core, journal, spool.receipts, host, run')
      BY <1>1, <2>4, <3>1, <3>2, <3>3, <3>4, SucceededHelps DEF Kind, Switches
    <3> QED  BY <1>2, <3>5, RunMoves
  <2>5. CASE Kind = "recover" /\ run.rcpt = None
    <3> DEFINE rcpt == Receipt("succeeded", None)
    <3>1. rcpt \in Receipts /\ rcpt.state = "succeeded" /\ rcpt.snap = None
      BY DEF Receipt, Receipts
    <3>2. Answer(rcpt)  BY <1>4, <2>5 DEF Attest
    <3> HIDE DEF rcpt
    <3>3. HostFits(host, Accepted(core))  BY <2>1, <2>5 DEF Attested, Kind
    <3>4. Sound(core, run.op, rcpt)  BY <2>5, <3>1 DEF Sound, Kind, Marked
    <3>5. Settling(core, journal, host, run.op, rcpt)  BY <3>1, <3>3 DEF Settling, Outcome
    <3> QED  BY <1>1, <1>2, <3>2, <3>4, <3>5, AnswerHelps, RunMoves
  <2>6. CASE Kind = "recover" /\ run.rcpt # None
    <3>1. /\ run.rcpt = NewSnapshot(core.ops[run.op].recovers, core.ops[run.op].sel, FALSE, 0)
          /\ HostFits(host, run.rcpt)
      BY <2>1, <2>6 DEF Attested, Kind
    <3>2. core.ops[run.op].recovers \in Nat  BY <2>2 DEF Operations
    <3>3. run.rcpt \in Snapshots
      BY <2>2, <3>1, <3>2 DEF NewSnapshot, Snapshots, Selections
    <3>4. /\ run.rcpt.gen = core.ops[run.op].sel.gen + 1
          /\ run.rcpt.op = core.ops[run.op].recovers /\ ~run.rcpt.retired
      BY <3>1 DEF NewSnapshot
    <3>5. Answer(Receipt("succeeded", run.rcpt))  BY <1>4, <2>6 DEF Attest
    <3>6. IsRun(run') /\ Helping(core, journal, spool.receipts, host, run')
      BY <1>1, <2>6, <3>1, <3>3, <3>4, <3>5, SucceededHelps DEF Kind, Switches
    <3> QED  BY <1>2, <3>6, RunMoves
  <2> QED  BY <2>1, <2>3, <2>4, <2>5, <2>6 DEF Marked, Switches
<1> QED  BY <1>3, <1>4

\* The receipt "recovered": the host fits the accepted generation again.
LEMMA RecoveredHelps ==
    ASSUME Inv, run.pc \in Early, core.ops[run.op].kind \in Marked,
           Answer(Receipt("recovered", None)), NEW g, HostFits(g, Accepted(core))
    PROVE  IsRun(run') /\ Helping(core, journal, spool.receipts, g, run')
<1> DEFINE rcpt == Receipt("recovered", None)
<1>1. rcpt \in Receipts /\ rcpt.state = "recovered" /\ rcpt.snap = None
  BY DEF Receipt, Receipts
<1>2. Answer(rcpt)  OBVIOUS
<1> HIDE DEF rcpt
<1>3. Sound(core, run.op, rcpt)  BY <1>1 DEF Sound, Marked
<1>4. Settling(core, journal, g, run.op, rcpt)  BY <1>1 DEF Settling, Outcome
<1> QED  BY <1>2, <1>3, <1>4, AnswerHelps

LEMMA FallbackKeeps == ASSUME Inv, Fallback PROVE Inv'
<1>1. run.pc = "fallback" /\ run.pc \in Early  BY DEF Fallback, Early
<1>2. UNCHANGED <<core, undo, rec, policy, spool, journal, data>>  BY DEF Fallback
<1>3. /\ Kind \in Marked /\ run.rcpt = None /\ run.op \in journal.marks
      /\ journal.current = Accepted(core) /\ run.was = journal.current
  BY <1>1, Undecided DEF KindsAt, Kind, Inv, Helping, Executing, Marking
<1>4. host \in Hosts  BY DEF Inv, TypeOK
<1>5. CASE Answer(Receipt("blocked", None)) /\ UNCHANGED host
  BY <1>1, <1>2, <1>3, <1>5, BlockedMoves DEF Kind
<1>6. CASE /\ IsRetired(run.was) /\ host' = WithUnits(Stopped(host), FALSE)
           /\ Answer(Receipt("recovered", None))
  <2>1. /\ host' \in Hosts /\ host'.container = None /\ ~host'.unit
        /\ host'.supervisor = "off" /\ host'.backup = host.backup
    BY <1>4, <1>6, UnitsAre
  <2>2. HostFits(host', Accepted(core))
    BY <1>3, <1>6, <2>1 DEF HostFits, IsRunning, IsRetired
  <2>3. IsRun(run') /\ Helping(core, journal, spool.receipts, host', run')
    BY <1>1, <1>3, <1>6, <2>2, RecoveredHelps DEF Kind
  <2>4. Serving(core, host')  BY <2>1 DEF Serving
  <2> QED  BY <1>1, <1>2, <1>3, <2>1, <2>3, <2>4, HelperMoves
<1>7. CASE IsRunning(run.was) /\ host' = Stopped(host) /\ Goto("restore")
  <2>1. /\ host' \in Hosts /\ host'.container = None
        /\ host'.supervisor = "off" /\ host'.backup = host.backup
    BY <1>4, <1>7, UnitsAre
  <2>2. core.ops[run.op].kind \in KindsAt["restore"]  BY <1>3 DEF KindsAt, Kind
  <2>3. IsRun(run') /\ Helping(core, journal, spool.receipts, host', run')
    BY <1>1, <1>3, <1>7, <2>2, GotoHelps DEF Early, Admitting, Marking, Marked, Kind
  <2>4. Serving(core, host')  BY <2>1 DEF Serving
  <2> QED  BY <1>1, <1>2, <1>3, <2>1, <2>3, <2>4, HelperMoves
<1> QED  BY <1>5, <1>6, <1>7 DEF Fallback

LEMMA RestoreKeeps == ASSUME Inv, Restore PROVE Inv'
<1>1. run.pc = "restore" /\ run.pc \in Early  BY DEF Restore, Early
<1>2. UNCHANGED <<core, undo, rec, policy, spool, journal, data>>  BY DEF Restore
<1>3. /\ Kind \in Marked \cup {"recover"} /\ run.rcpt = None
      /\ Kind # "recover" => run.op \in journal.marks
      /\ journal.current = Accepted(core) /\ IsRunning(journal.current)
  BY <1>1, Undecided DEF KindsAt, Kind, Inv, Helping, Executing
<1>4. CASE /\ host' = WithUnits([host EXCEPT !.container = RestoredContainer], TRUE)
           /\ IF Kind = "recover" THEN Goto("attest") ELSE Answer(Receipt("recovered", None))
  <2> DEFINE old == RestoredContainer
             mid == [host EXCEPT !.container = old]
  <2>1. journal.current \in Snapshots /\ journal.current # None
    BY <1>3 DEF Inv, TypeOK, IsJournal, IsRunning
  <2>2. /\ old \in Containers /\ old # None /\ old.op = journal.current.op
        /\ IsOf(old, journal.current)
    BY <2>1, ContainerIs DEF RestoredContainer, IsOf, Snapshots
  <2>3. host' = WithUnits(mid, TRUE)  BY <1>4
  <2> HIDE DEF old
  <2>4. mid \in Hosts /\ mid.container = old /\ mid.backup = host.backup
    BY <2>2 DEF Inv, TypeOK, Hosts
  <2> HIDE DEF mid
  <2>5. /\ host' \in Hosts /\ host'.container = old /\ host'.unit = TRUE
        /\ host'.backup = host.backup
    BY <2>3, <2>4, UnitsAre
  <2>6. HostFits(host', Accepted(core))  BY <1>3, <2>2, <2>5 DEF HostFits
  <2>7. IsRun(run') /\ Helping(core, journal, spool.receipts, host', run')
    <3>1. CASE Kind = "recover"
      <4>1. Attested(core, host', run.op, run.rcpt)
        BY <1>3, <2>6, <3>1 DEF Attested, Kind, Switches
      <4>2. core.ops[run.op].kind \in KindsAt["attest"]  BY <1>3 DEF KindsAt, Kind
      <4>3. core.ops[run.op].state = "switching"
        BY <1>1, <3>1 DEF Inv, Helping, Executing, Kind
      <4> QED  BY <1>1, <1>3, <1>4, <3>1, <4>1, <4>2, <4>3, GotoHelps DEF Early, Marking, Kind
    <3>2. CASE Kind # "recover"
      BY <1>1, <1>3, <1>4, <2>6, <3>2, RecoveredHelps DEF Kind
    <3> QED  BY <3>1, <3>2
  <2>8. Serving(core, host')  BY <1>3, <2>2, <2>5, AcceptedServes
  <2> QED  BY <1>1, <1>2, <1>3, <2>2, <2>1, <2>5, <2>7, <2>8, HelperMoves DEF Kind
<1>5. CASE Kind = "recover" /\ Except /\ UNCHANGED host  BY <1>1, <1>2, <1>5, ExceptMoves
<1>6. CASE Kind # "recover" /\ Answer(Receipt("blocked", None)) /\ UNCHANGED host
  BY <1>1, <1>2, <1>3, <1>6, BlockedMoves DEF Kind
<1> QED  BY <1>4, <1>5, <1>6 DEF Restore

\* What a recovery finds: its operation is blocked, and a container that is up
\* is that operation's or the accepted generation's own.
LEMMA RecoverKeeps == ASSUME Inv, Recover PROVE Inv'
<1> DEFINE target == core.ops[run.op].recovers
           sel == core.ops[run.op].sel
           candidate == /\ Up /\ host.container.op = target /\ host.container.rel = sel.rel
                        /\ core.ops[target].sel = sel
           adoptable == /\ Running /\ Up
                        /\ StartedBy(journal.current.sel.rel, journal.current.op)
<1>1. run.pc = "recover" /\ run.pc \in Early  BY DEF Recover, Early
<1>2. UNCHANGED <<core, undo, rec, policy, spool, journal, data>>  BY DEF Recover
<1>3. /\ Kind = "recover" /\ run.rcpt = None /\ core.ops[run.op].state = "switching"
      /\ journal.current = Accepted(core) /\ ~run.replay /\ run.was = journal.current
      /\ run.op \notin DOMAIN journal.receipts
  BY <1>1, Undecided DEF KindsAt, Kind, Inv, Helping, Executing, Admitting
<1>4. /\ run.op \in Nat /\ sel \in Selections /\ core.ops[run.op] \in Operations
      /\ run.op \in DOMAIN core.ops /\ run.op \in Pending(core)
      /\ run.op \notin DOMAIN spool.receipts
  BY <1>1, Working
<1>5. target \in DOMAIN core.ops /\ core.ops[target].state = "blocked"
  BY <1>3, <1>4, AboutPending DEF Inv, Disk, Durable, OneAtATime, Kind
<1>6. host \in Hosts /\ core \in Databases  BY DEF Inv, TypeOK
<1>7. /\ Running <=> IsRunning(Accepted(core))
      /\ IsRunning(Accepted(core)) =>
            core.ops[Accepted(core).op].state = "succeeded"
  BY <1>3, <1>6, AcceptedFacts DEF Running, IsRunning, Inv, Disk, Durable
<1>8. Up <=> host.container # None /\ host.container.up
  BY <1>6 DEF Up, Hosts, Containers
<1>9. CASE Except /\ UNCHANGED host  BY <1>1, <1>2, <1>9, ExceptMoves
<1>10. CASE /\ candidate /\ host' = WithUnits(host, TRUE)
            /\ run' = [run EXCEPT !.pc = "attest", !.rcpt = NewSnapshot(target, sel, FALSE, 0)]
  <2> DEFINE snap == NewSnapshot(target, sel, FALSE, 0)
  <2>1. /\ host' \in Hosts /\ host'.container = host.container /\ host'.unit = TRUE
        /\ host'.backup = host.backup
    BY <1>6, <1>10, UnitsAre
  <2>2. host.container.reg = sel.reg
    <3>1. ASSUME IsRunning(Accepted(core)), IsOf(host.container, Accepted(core))
          PROVE  FALSE
      BY <1>5, <1>7, <1>10, <3>1 DEF IsOf
    <3>2. ASSUME NEW o \in InState(core, {"switching", "blocked"}),
                 IsOf(host.container, [op |-> o, sel |-> core.ops[o].sel])
          PROVE  host.container.reg = sel.reg
      BY <1>10, <3>2 DEF IsOf
    <3> QED  BY <1>8, <1>10, <3>1, <3>2 DEF Inv, Serving
  <2>3. /\ snap.op = target /\ snap.sel = sel /\ ~snap.retired
        /\ DOMAIN snap = {"op", "gen", "sel", "retired", "last"}
    BY DEF NewSnapshot
  <2>4. snap # None
    <3>1. snap \in Snapshots
      BY <1>4 DEF NewSnapshot, Snapshots, Selections, Operations
    <3> QED  BY <3>1, SnapshotIsSomething
  <2>5. run' = [run EXCEPT !.pc = "attest", !.rcpt = snap]  BY <1>10
  <2>6. snap = NewSnapshot(core.ops[run.op].recovers, core.ops[run.op].sel, FALSE, 0)
    OBVIOUS
  <2> HIDE DEF snap
  <2>7. HostFits(host', snap)
    BY <1>10, <2>1, <2>2, <2>3, <2>4 DEF HostFits, IsRunning, IsOf
  <2>8. /\ run'.pc = "attest" /\ run'.op = run.op /\ run'.was = run.was
        /\ run'.rcpt = snap /\ run'.replay = run.replay /\ IsRun(run')
    BY <2>5 DEF Inv, TypeOK, IsRun
  <2>9. Attested(core, host', run.op, snap)
    BY <1>3, <2>4, <2>6, <2>7 DEF Attested, Kind, Switches
  <2>10. core.ops[run.op].kind \in KindsAt["attest"]  BY <1>3 DEF KindsAt, Kind
  <2>11. Helping(core, journal, spool.receipts, host', run')
    BY <1>3, <1>4, <2>8, <2>9, <2>10
    DEF Helping, Executing, Committing, Booting, Early, Answering, Marking, Kind
  <2>12. Serving(core, host')  BY <2>1, StoppedServes DEF Inv
  <2> QED  BY <1>1, <1>2, <1>3, <2>1, <2>8, <2>11, <2>12, HelperMoves DEF Kind
<1>11. CASE adoptable /\ host' = WithUnits(host, TRUE) /\ Goto("attest")
  <2>1. /\ host' \in Hosts /\ host'.container = host.container /\ host'.unit = TRUE
        /\ host'.backup = host.backup
    BY <1>6, <1>11, UnitsAre
  <2>2. /\ host.container # None /\ host.container.up
        /\ host.container.op = Accepted(core).op /\ IsRunning(Accepted(core))
        /\ host.container.rel = Accepted(core).sel.rel
    BY <1>3, <1>7, <1>8, <1>11 DEF StartedBy
  <2>3. IsOf(host.container, Accepted(core))
    <3>1. ASSUME NEW o \in InState(core, {"switching", "blocked"}),
                 IsOf(host.container, [op |-> o, sel |-> core.ops[o].sel])
          PROVE  FALSE
      BY <1>7, <2>2, <3>1 DEF IsOf, InState
    <3> QED  BY <2>2, <3>1 DEF Inv, Serving
  <2>4. HostFits(host', Accepted(core))  BY <2>1, <2>2, <2>3 DEF HostFits
  <2>5. Attested(core, host', run.op, run.rcpt)
    BY <1>3, <2>4 DEF Attested, Kind, Switches
  <2>6. core.ops[run.op].kind \in KindsAt["attest"]  BY <1>3 DEF KindsAt, Kind
  <2>7. IsRun(run') /\ Helping(core, journal, spool.receipts, host', run')
    BY <1>1, <1>3, <1>11, <2>5, <2>6, GotoHelps DEF Early, Marking, Kind
  <2>8. Serving(core, host')  BY <2>1, StoppedServes DEF Inv
  <2> QED  BY <1>1, <1>2, <1>3, <2>1, <2>7, <2>8, HelperMoves DEF Kind
<1>12. CASE Running /\ host' = Stopped(host) /\ Goto("restore")
  <2>1. /\ host' \in Hosts /\ host'.container = None
        /\ host'.supervisor = "off" /\ host'.backup = host.backup
    BY <1>6, <1>12, UnitsAre
  <2>2. core.ops[run.op].kind \in KindsAt["restore"]  BY <1>3 DEF KindsAt, Kind
  <2>3. IsRunning(journal.current)  BY <1>3, <1>7, <1>12
  <2>4. IsRun(run') /\ Helping(core, journal, spool.receipts, host', run')
    BY <1>1, <1>3, <1>12, <2>2, <2>3, GotoHelps DEF Early, Marking, Kind
  <2>5. Serving(core, host')  BY <2>1 DEF Serving
  <2> QED  BY <1>1, <1>2, <1>3, <2>1, <2>4, <2>5, HelperMoves DEF Kind
<1>13. CASE ~Running /\ host' = WithUnits(Stopped(host), FALSE) /\ Goto("attest")
  <2>1. /\ host' \in Hosts /\ host'.container = None /\ ~host'.unit
        /\ host'.supervisor = "off" /\ host'.backup = host.backup
    BY <1>6, <1>13, UnitsAre
  <2>2. HostFits(host', Accepted(core))  BY <1>7, <1>13, <2>1 DEF HostFits
  <2>3. Attested(core, host', run.op, run.rcpt)
    BY <1>3, <2>2 DEF Attested, Kind, Switches
  <2>4. core.ops[run.op].kind \in KindsAt["attest"]  BY <1>3 DEF KindsAt, Kind
  <2>5. IsRun(run') /\ Helping(core, journal, spool.receipts, host', run')
    BY <1>1, <1>3, <1>13, <2>3, <2>4, GotoHelps DEF Early, Marking, Kind
  <2>6. Serving(core, host')  BY <2>1 DEF Serving
  <2> QED  BY <1>1, <1>2, <1>3, <2>1, <2>5, <2>6, HelperMoves DEF Kind
<1> QED  BY <1>9, <1>10, <1>11, <1>12, <1>13 DEF Recover

LEMMA ExecuteKeeps == ASSUME Inv, NEW o, Execute(o) PROVE Inv'
<1> DEFINE begun == [IdleRun EXCEPT !.pc = "begin", !.op = o, !.was = journal.current]
           said == Receipt(IF o \in journal.marks THEN "blocked" ELSE "failed", None)
<1>1. UNCHANGED <<core, undo, rec, policy, spool, journal, host, data>>  BY DEF Execute
<1>2. /\ begun.pc = "begin" /\ begun.op = o /\ begun.was = journal.current
      /\ begun.rcpt = None /\ ~begun.replay /\ IsRun(begun)
  BY DEF IdleRun, IsRun
<1>3. o \in DOMAIN core.ops /\ o \notin DOMAIN spool.receipts
  BY AboutPending DEF Execute, Executable, Inv, Disk, Durable, Written
<1>4. core.ops[o].kind \in AnyKind  BY <1>3, OperationType DEF Inv, TypeOK, Operations
<1>5. CASE /\ o \in DOMAIN journal.receipts
           /\ run' = [begun EXCEPT !.pc = "record", !.rcpt = journal.receipts[o], !.replay = TRUE]
  <2> HIDE DEF begun
  <2>1. /\ run'.pc = "record" /\ run'.op = o /\ run'.rcpt = journal.receipts[o] /\ IsRun(run')
    BY <1>2, <1>5 DEF IsRun
  <2>2. Helping(core, journal, spool.receipts, host, run')
    BY <1>3, <1>5, <2>1 DEF Helping, Executing, Committing, Booting, Early, Answering
  <2> QED  BY <1>1, <2>1, <2>2, RunMoves
<1>6. CASE o \notin DOMAIN journal.receipts /\ run' = begun
  <2> HIDE DEF begun
  <2>1. core.ops[o].kind \in KindsAt["begin"]  BY <1>4 DEF KindsAt
  <2>2. Helping(core, journal, spool.receipts, host, run')
    BY <1>2, <1>3, <1>6, <2>1
    DEF Helping, Executing, Committing, Booting, Early, Answering, Admitting, Marking
  <2> QED  BY <1>1, <1>2, <1>6, <2>2, RunMoves
<1>7. CASE /\ o \notin DOMAIN journal.receipts
           /\ run' = [begun EXCEPT !.pc = "journal", !.rcpt = said]
  <2> HIDE DEF begun
  <2>1. /\ said \in Receipts /\ said.snap = None
        /\ said.state = IF o \in journal.marks THEN "blocked" ELSE "failed"
    BY DEF Receipt, Receipts
  <2> HIDE DEF said
  <2>2. run'.pc = "journal" /\ run'.op = o /\ run'.rcpt = said /\ IsRun(run')
    BY <1>2, <1>7 DEF IsRun
  <2>3. o \in journal.marks => core.ops[o].kind \in Marked
    BY DEF Inv, Disk, Durable, Written
  <2>4. Sound(core, o, said)  BY <2>1, <2>3 DEF Sound, Marked
  <2>5. Settling(core, journal, host, o, said)
    <3>1. o \in Pending(core)  BY <1>3, AtWork DEF Inv, Disk, TypeOK
    <3>2. o \notin journal.marks /\ core.ops[o].kind # "recover" => HostFits(host, Accepted(core))
      BY <1>7, <3>1 DEF Inv, Disk, Durable, Fitted
    <3> QED  BY <2>1, <3>2 DEF Settling, Decided, Outcome
  <2>6. Helping(core, journal, spool.receipts, host, run')
    BY <1>3, <1>7, <2>2, <2>4, <2>5
    DEF Helping, Executing, Committing, Booting, Early, Answering
  <2> QED  BY <1>1, <2>2, <2>6, RunMoves
<1> QED  BY <1>5, <1>6, <1>7 DEF Execute

\* A change of supervision, or a container that stops.
LEMMA SameHostHelping ==
    ASSUME NEW c, NEW j, NEW s, NEW h, NEW g, NEW q, Helping(c, j, s, h, q),
           SameHost(h, g), Gone(h) => Gone(g)
    PROVE  Helping(c, j, s, g, q)
<1>1. \A snap : HostFits(h, snap) => HostFits(g, snap)  BY DEF HostFits, SameHost, IsOf
<1>2. \A o, rcpt : Settling(c, j, h, o, rcpt) => Settling(c, j, g, o, rcpt)
  BY <1>1 DEF Settling, SameHost
<1>3. \A o : IsOfOp(c, h, o) => IsOfOp(c, g, o)  BY DEF IsOfOp, IsOf, SameHost
<1>4. \A o : BackedUp(c, h, o) => BackedUp(c, g, o)  BY DEF BackedUp, SameHost
<1>5. \A o, rcpt : Attested(c, h, o, rcpt) => Attested(c, g, o, rcpt)
  BY <1>1, <1>3 DEF Attested, SameHost
<1>6. Executing(c, j, g, q)  BY <1>3, <1>4, <1>5 DEF Helping, Executing
<1>7. Committing(c, j, s, g, q)  BY <1>2 DEF Helping, Committing
<1>8. Booting(c, j, g, q)  BY DEF Helping, Booting, SameHost
<1> QED  BY <1>6, <1>7, <1>8 DEF Helping

LEMMA SameHostMoves ==
    ASSUME Inv, UNCHANGED <<core, undo, rec, policy, journal, data>>,
           DOMAIN spool' = DOMAIN spool, spool'.receipts = spool.receipts,
           host' \in Hosts, host'.supervisor # "off" => host'.unit, SameHost(host, host'),
           IsRun(run'), Helping(core, journal, spool.receipts, host', run')
    PROVE  Inv'
<1>1. /\ Durable(core, journal, spool.receipts, host')
      /\ Durable(undo, journal, spool.receipts, host')
  BY SameHostDurable DEF Inv, Disk
<1>2. Serving(core, host')  BY SameHostServing DEF Inv
<1> QED  BY <1>1, <1>2, HostMoves

LEMMA SupervisorIs ==
    ASSUME NEW h \in Hosts, NEW g, NEW x \in {"up", "starting", "off"},
           g = [h EXCEPT !.supervisor = x], x # "off" => h.unit
    PROVE  /\ g \in Hosts /\ SameHost(h, g) /\ (g.supervisor # "off" => g.unit)
           /\ g.container = h.container /\ g.unit = h.unit
<1>1. /\ g \in Hosts /\ g.supervisor = x /\ g.container = h.container
      /\ g.unit = h.unit /\ g.backup = h.backup
  BY DEF Hosts
<1> QED  BY <1>1 DEF SameHost

LEMMA PassKeeps == ASSUME Inv, Pass PROVE Inv'
<1>1. UNCHANGED <<core, undo, rec, policy, journal, data>>  BY DEF Pass
<1>2. DOMAIN spool' = DOMAIN spool /\ spool'.receipts = spool.receipts
  BY DEF Pass, SweepMarkers, Inv, TypeOK
<1>3. IsRun(run') /\ Helping(core, journal, spool.receipts, host', run')
  BY IdleRunHelps DEF Pass
<1>4. host \in Hosts  BY DEF Inv, TypeOK
<1>5. CASE host' = host
  BY <1>1, <1>2, <1>3, <1>4, <1>5, SameHostMoves DEF SameHost, Inv, Disk, Shared
<1>6. CASE host.unit /\ host' = [host EXCEPT !.supervisor = "starting"]
  <2>1. host' \in Hosts /\ SameHost(host, host') /\ (host'.supervisor # "off" => host'.unit)
    BY <1>4, <1>6, SupervisorIs
  <2> QED  BY <1>1, <1>2, <1>3, <2>1, SameHostMoves
<1> QED  BY <1>5, <1>6 DEF Pass, SweepMarkers
-----------------------------------------------------------------------------
(* The commit: journal receipt, current record, spool copy, marker.        *)

LEMMA JournalMoves ==
    ASSUME Inv, UNCHANGED <<core, undo, rec, policy, spool, host, data>>,
           IsJournal(journal'),
           Durable(core, journal', spool.receipts, host),
           Durable(undo, journal', spool.receipts, host),
           \A o \in DOMAIN spool.receipts :
              o \in DOMAIN journal'.receipts /\ journal'.receipts[o] = spool.receipts[o],
           IsRun(run'), Helping(core, journal', spool.receipts, host, run')
    PROVE  Inv'
<1>1. TypeOK'  BY DEF Inv, TypeOK
<1>2. Disk'  BY DEF Inv, Disk, Shared
<1>3. Serving(core, host)'  BY DEF Inv
<1>4. Reconciling'  BY DEF Inv, Reconciling
<1>5. Helping(core, journal, spool.receipts, host, run)'  OBVIOUS
<1> QED  BY <1>1, <1>2, <1>3, <1>4, <1>5 DEF Inv

LEMMA CommitJournalKeeps == ASSUME Inv, CommitJournal PROVE Inv'
<1> DEFINE o == run.op
           rcpt == run.rcpt
<1>1. run.pc = "journal" /\ run.pc \in Answering  BY DEF CommitJournal, Answering
<1>2. UNCHANGED <<core, undo, rec, policy, spool, host, data>>  BY DEF CommitJournal
<1>3. /\ o \notin DOMAIN journal.receipts
      /\ Sound(core, o, rcpt) /\ Settling(core, journal, host, o, rcpt)
  BY <1>1 DEF Inv, Helping, Committing
<1>4. /\ o \in DOMAIN core.ops /\ o \in DOMAIN undo.ops /\ o \notin DOMAIN spool.receipts
      /\ o \in Nat /\ o \in Pending(core)
  BY <1>1, Working
<1>5. IsJournal(journal) /\ IsRun(run) /\ core \in Databases /\ undo \in Databases
  BY DEF Inv, TypeOK
<1>6. /\ Durable(core, journal, spool.receipts, host)
      /\ Durable(undo, journal, spool.receipts, host)
      /\ SameOperations(undo, core) /\ Shared(journal, spool.receipts, host)
  BY DEF Inv, Disk
<1>7. journal' = [journal EXCEPT !.receipts = Put(@, o, rcpt)]
  BY <1>3 DEF CommitJournal
<1>8. /\ journal'.receipts = Put(journal.receipts, o, rcpt)
      /\ journal'.current = journal.current /\ journal'.marks = journal.marks
      /\ DOMAIN journal' = DOMAIN journal
  BY <1>5, <1>7 DEF IsJournal
<1>9. /\ DOMAIN journal'.receipts = DOMAIN journal.receipts \cup {o}
      /\ journal'.receipts[o] = rcpt
      /\ \A p \in DOMAIN journal.receipts : journal'.receipts[p] = journal.receipts[p]
  BY <1>3, <1>8 DEF Put
<1>10. rcpt \in Receipts  BY <1>3 DEF Sound
<1>11. IsJournal(journal')  BY <1>4, <1>5, <1>8, <1>9, <1>10 DEF IsJournal
<1>12. Sound(undo, o, rcpt)  BY <1>3, <1>4, <1>6 DEF Sound, SameOperations
<1>13. Settling(undo, journal, host, o, rcpt)
  <2>1. journal.current = Accepted(core)  BY <1>3, <1>4, <1>5, <1>6, AtWork
  <2>2. journal.current = Accepted(undo)  BY <1>3, <1>4, <1>5, <1>6, AtWork
  <2>3. core.ops[o].kind = undo.ops[o].kind  BY <1>4, <1>6 DEF SameOperations
  <2> QED  BY <1>3, <2>1, <2>2, <2>3 DEF Settling, Decided, Outcome
<1> HIDE DEF rcpt, o
<1>14. Durable(core, journal', spool.receipts, host)
  BY <1>3, <1>4, <1>5, <1>6, <1>8, JournalDurable
<1>15. Durable(undo, journal', spool.receipts, host)
  BY <1>3, <1>4, <1>5, <1>6, <1>8, <1>12, <1>13, JournalDurable
<1>16. run'.pc = "record" /\ run'.op = o /\ run'.rcpt = rcpt /\ IsRun(run')
  BY <1>5 DEF CommitJournal, Goto, IsRun, o, rcpt
<1>17. Helping(core, journal', spool.receipts, host, run')
  BY <1>4, <1>9, <1>16 DEF Helping, Executing, Committing, Booting, Early, Answering
<1>18. \A p \in DOMAIN spool.receipts :
          p \in DOMAIN journal'.receipts /\ journal'.receipts[p] = spool.receipts[p]
  BY <1>6, <1>9 DEF Shared
<1> QED  BY <1>2, <1>11, <1>14, <1>15, <1>16, <1>17, <1>18, JournalMoves

LEMMA CommitRecordKeeps == ASSUME Inv, CommitRecord PROVE Inv'
<1> DEFINE o == run.op
           rcpt == run.rcpt
<1>1. run.pc = "record" /\ run.pc \in Answering  BY DEF CommitRecord, Answering
<1>2. UNCHANGED <<core, undo, rec, policy, spool, host, data>>  BY DEF CommitRecord
<1>3. o \in DOMAIN journal.receipts /\ journal.receipts[o] = rcpt
  BY <1>1 DEF Inv, Helping, Committing
<1>4. o \in DOMAIN core.ops /\ o \in DOMAIN undo.ops /\ o \notin DOMAIN spool.receipts
  BY <1>1, Working
<1>5. IsJournal(journal) /\ IsRun(run) /\ core \in Databases /\ undo \in Databases
  BY DEF Inv, TypeOK
<1>6. /\ Durable(core, journal, spool.receipts, host)
      /\ Durable(undo, journal, spool.receipts, host)
      /\ Shared(journal, spool.receipts, host)
  BY DEF Inv, Disk
<1>7. rcpt \in Receipts  BY <1>3, <1>5 DEF IsJournal
<1>8. /\ journal'.receipts = journal.receipts /\ journal'.marks = journal.marks
      /\ DOMAIN journal' = DOMAIN journal
      /\ journal'.current = IF /\ rcpt.state = "succeeded" /\ rcpt.snap # None
                               /\ rcpt.snap.gen = Generation(journal.current) + 1
                            THEN rcpt.snap ELSE journal.current
  BY <1>5 DEF CommitRecord, IsJournal
<1>9. IsJournal(journal')  BY <1>5, <1>7, <1>8 DEF IsJournal, Receipts
<1> HIDE DEF rcpt, o
<1>10. /\ Durable(core, journal', spool.receipts, host)
       /\ rcpt.snap # None => journal'.current = rcpt.snap
  BY <1>3, <1>4, <1>5, <1>6, <1>8, RecordDurable
<1>11. Durable(undo, journal', spool.receipts, host)
  BY <1>3, <1>4, <1>5, <1>6, <1>8, RecordDurable
<1>12. run'.pc = "spool" /\ run'.op = o /\ run'.rcpt = rcpt /\ IsRun(run')
  BY <1>5 DEF CommitRecord, Goto, IsRun, o, rcpt
<1>13. Helping(core, journal', spool.receipts, host, run')
  BY <1>3, <1>4, <1>8, <1>10, <1>12
  DEF Helping, Executing, Committing, Booting, Early, Answering
<1>14. \A p \in DOMAIN spool.receipts :
          p \in DOMAIN journal'.receipts /\ journal'.receipts[p] = spool.receipts[p]
  BY <1>6, <1>8 DEF Shared
<1> QED  BY <1>2, <1>9, <1>10, <1>11, <1>12, <1>13, <1>14, JournalMoves

LEMMA CommitSpoolKeeps == ASSUME Inv, CommitSpool PROVE Inv'
<1> DEFINE o == run.op
           rcpt == run.rcpt
<1>1. run.pc = "spool" /\ run.pc \in Answering  BY DEF CommitSpool, Answering
<1>2. UNCHANGED <<core, undo, rec, policy, journal, host, data>>  BY DEF CommitSpool
<1>3. /\ o \in DOMAIN journal.receipts /\ journal.receipts[o] = rcpt
      /\ rcpt.snap # None => journal.current = rcpt.snap
  BY <1>1 DEF Inv, Helping, Committing
<1>4. o \in DOMAIN core.ops /\ o \in DOMAIN undo.ops /\ o \notin DOMAIN spool.receipts
  BY <1>1, Working
<1>5. IsRun(run) /\ core \in Databases /\ undo \in Databases
      /\ DOMAIN spool = {"requests", "hints", "receipts"}
  BY DEF Inv, TypeOK
<1>6. /\ Durable(core, journal, spool.receipts, host)
      /\ Durable(undo, journal, spool.receipts, host)
      /\ SameOperations(undo, core) /\ Shared(journal, spool.receipts, host)
  BY DEF Inv, Disk
<1>7. spool' = [spool EXCEPT !.receipts = Put(@, o, rcpt)] /\ Goto("unmark")
  BY <1>4 DEF CommitSpool
<1>8. spool'.receipts = Put(spool.receipts, o, rcpt) /\ DOMAIN spool' = DOMAIN spool
  BY <1>5, <1>7
<1>9. /\ DOMAIN spool'.receipts = DOMAIN spool.receipts \cup {o}
      /\ spool'.receipts[o] = rcpt
      /\ \A p \in DOMAIN spool.receipts : p # o => spool'.receipts[p] = spool.receipts[p]
  BY <1>8 DEF Put
<1> HIDE DEF rcpt, o
<1>10. Durable(core, journal, spool'.receipts, host)
  BY <1>3, <1>4, <1>5, <1>6, <1>9, SpoolDurable
<1>11. Durable(undo, journal, spool'.receipts, host)
  BY <1>3, <1>4, <1>5, <1>6, <1>9, SpoolDurable
<1>12. run'.pc = "unmark" /\ run'.op = o /\ IsRun(run')
  BY <1>5, <1>7 DEF Goto, IsRun, o
<1>13. Helping(core, journal, spool'.receipts, host, run')
  BY <1>9, <1>12 DEF Helping, Executing, Committing, Booting, Early, Answering
<1>14. Shared(journal, spool'.receipts, host)
  BY <1>3, <1>4, <1>6, <1>9 DEF Shared
<1>15. TypeOK'  BY <1>2, <1>5, <1>8, <1>12 DEF Inv, TypeOK
<1>16. Disk'  BY <1>2, <1>6, <1>10, <1>11, <1>14 DEF Disk
<1>17. Serving(core, host)' /\ Reconciling'
  BY <1>2, <1>9 DEF Inv, Reconciling
<1>18. Helping(core, journal, spool.receipts, host, run)'  BY <1>2, <1>13
<1> QED  BY <1>15, <1>16, <1>17, <1>18 DEF Inv

LEMMA CommitUnmarkKeeps == ASSUME Inv, CommitUnmark PROVE Inv'
<1>1. UNCHANGED <<core, undo, rec, policy, spool, host, data>> /\ run' = IdleRun
  BY DEF CommitUnmark
<1>2. run.op \in DOMAIN spool.receipts  BY DEF CommitUnmark, Inv, Helping, Committing
<1>3. IsJournal(journal) /\ core \in Databases /\ undo \in Databases  BY DEF Inv, TypeOK
<1>4. /\ journal'.receipts = journal.receipts /\ journal'.current = journal.current
      /\ journal'.marks = journal.marks \ {run.op} /\ DOMAIN journal' = DOMAIN journal
  BY <1>3 DEF CommitUnmark, IsJournal
<1>5. IsJournal(journal')  BY <1>3, <1>4 DEF IsJournal
<1>6. /\ Durable(core, journal, spool.receipts, host)
      /\ Durable(undo, journal, spool.receipts, host)
      /\ Shared(journal, spool.receipts, host)
  BY DEF Inv, Disk
<1>7. Durable(core, journal', spool.receipts, host)
  BY <1>2, <1>3, <1>4, <1>6, UnmarkDurable
<1>8. Durable(undo, journal', spool.receipts, host)
  BY <1>2, <1>3, <1>4, <1>6, UnmarkDurable
<1>9. IsRun(run') /\ Helping(core, journal', spool.receipts, host, run')
  BY <1>1, IdleHelping
<1>10. \A p \in DOMAIN spool.receipts :
          p \in DOMAIN journal'.receipts /\ journal'.receipts[p] = spool.receipts[p]
  BY <1>4, <1>6 DEF Shared
<1> QED  BY <1>1, <1>5, <1>7, <1>8, <1>9, <1>10, JournalMoves
-----------------------------------------------------------------------------
(* The app unit and the environment.                                       *)

\* A boot is granted only if no receipt of an open operation changes what is
\* installed: a retirement would have stopped the supervisor, and a switch
\* left a container that is not the accepted generation's.
LEMMA BootGrantedFinds ==
    ASSUME Inv, host.supervisor = "starting", BootGranted
    PROVE  /\ journal.current = Accepted(core) /\ IsRunning(journal.current) /\ host.unit
           /\ \A o \in Pending(core) \cap DOMAIN journal.receipts : journal.receipts[o].snap = None
<1>1. journal.current = Accepted(core)  BY DEF BootGranted
<1>2. InState(core, {"switching", "blocked"}) = {} /\ IsRunning(Accepted(core))
  BY DEF BootGranted, InstalledAuthority
<1>3. host.unit  BY DEF Inv, Disk, Shared
<1>4. core \in Databases /\ Durable(core, journal, spool.receipts, host)
  BY DEF Inv, TypeOK, Disk
<1>5. /\ Generation(Accepted(core)) = Len(core.hist) /\ Len(core.hist) \in Nat
      /\ core.ops[Accepted(core).op].state = "succeeded"
  BY <1>2, <1>4, AcceptedFacts, AcceptedType DEF Durable, IsRunning
<1>6. ASSUME NEW o \in Pending(core) \cap DOMAIN journal.receipts,
             journal.receipts[o].snap # None
      PROVE  FALSE
  <2> DEFINE rcpt == journal.receipts[o]
             snap == rcpt.snap
  <2>1. Sound(core, o, rcpt)  BY <1>4 DEF Durable, Current
  <2>2. Settling(core, journal, host, o, rcpt)  BY <1>4 DEF Durable, Fitted
  <2>3. core.ops[o].sel.gen = Len(core.hist)  BY <1>4 DEF Durable, OneAtATime
  <2>4. o \in DOMAIN core.ops  BY AboutPending
  <2>5. core.ops[o].kind \in AnyKind  BY <1>4, <2>4, OperationType DEF Operations
  <2>6. core.ops[o].kind # "recover"
    <3>1. Blocked(core) = {}  BY <1>2 DEF Blocked, InState
    <3> QED  BY <1>4, <3>1 DEF Durable, OneAtATime
  <2>7. core.ops[o].kind # "rehearse" /\ rcpt.state = "succeeded"  BY <1>6, <2>1 DEF Sound
  <2>8. HostFits(host, snap)  BY <1>6, <2>2, <2>7 DEF Settling, Decided, Outcome
  <2>9. journal.current # snap
    <3>1. snap.gen = Len(core.hist) + 1  BY <1>6, <2>1, <2>3 DEF Sound
    <3>2. journal.current.gen = Len(core.hist)
      BY <1>1, <1>2, <1>5 DEF Generation, IsRunning
    <3> HIDE DEF snap
    <3> QED  BY <1>5, <3>1, <3>2
  <2>10. IsRunning(snap)  BY <2>8 DEF HostFits
  <2>11. core.ops[o].kind \in Switches => host.container # None
    BY <1>6, <2>2, <2>7, <2>9 DEF Settling, Decided
  <2>12. snap.op = o /\ core.ops[o].state # "succeeded"
    BY <1>6, <2>1, <2>6, AboutPending DEF Sound
  <2>13. host.container = None
    <3> SUFFICES ASSUME host.container # None  PROVE FALSE
      OBVIOUS
    <3>1. host.container.op = journal.current.op  BY DEF BootGranted, StartedBy
    <3>2. host.container.op = snap.op  BY <2>8, <2>10 DEF HostFits, IsOf
    <3> HIDE DEF snap
    <3> QED  BY <1>1, <1>5, <2>12, <3>1, <3>2
  <2>14. core.ops[o].kind = "retire"
    BY <2>5, <2>6, <2>7, <2>11, <2>13 DEF AnyKind, Switches
  <2> QED  BY <1>6, <2>1, <2>10, <2>14 DEF Sound, IsRunning
<1> QED  BY <1>1, <1>2, <1>3, <1>6

\* An idle process relies on nothing.
LEMMA IdleRunStays ==
    ASSUME NEW c, NEW j, NEW s, NEW h, NEW q, q.pc = "idle"
    PROVE  Helping(c, j, s, h, q)
BY DEF Helping, Executing, Committing, Booting, Early, Answering

LEMMA BootKeeps == ASSUME Inv, Boot PROVE Inv'
<1>1. UNCHANGED <<core, undo, rec, policy, spool, journal, data>>  BY DEF Boot
<1>2. run.pc = "idle" /\ host.supervisor = "starting"  BY DEF Boot, HostIdle
<1>3. host \in Hosts /\ IsRun(run)  BY DEF Inv, TypeOK
<1>4. host.unit  BY <1>2 DEF Inv, Disk, Shared
<1>5. ASSUME NEW x \in {"up", "off"}, host' = [host EXCEPT !.supervisor = x], UNCHANGED run
      PROVE  Inv'
  <2>1. host' \in Hosts /\ SameHost(host, host') /\ (host'.supervisor # "off" => host'.unit)
    BY <1>3, <1>4, <1>5, SupervisorIs
  <2>2. IsRun(run') /\ Helping(core, journal, spool.receipts, host', run')
    BY <1>2, <1>3, <1>5, IdleRunStays
  <2> QED  BY <1>1, <2>1, <2>2, SameHostMoves
<1>6. CASE BootGranted /\ run' = [IdleRun EXCEPT !.pc = "boot"] /\ UNCHANGED host
  <2>1. run'.pc = "boot" /\ IsRun(run')  BY <1>6 DEF IdleRun, IsRun
  <2>2. Booting(core, journal, host, run')
    BY <1>2, <1>6, BootGrantedFinds DEF Booting
  <2>3. Helping(core, journal, spool.receipts, host, run')
    BY <2>1, <2>2, IdleHelps DEF Early, Answering
  <2> QED  BY <1>1, <1>6, <2>1, <2>3, RunMoves
<1> QED  BY <1>5, <1>6 DEF Boot

LEMMA BootStartKeeps == ASSUME Inv, BootStart PROVE Inv'
<1>1. UNCHANGED <<core, undo, rec, policy, spool, journal, data>> /\ run' = IdleRun
  BY DEF BootStart
<1>2. host \in Hosts /\ core \in Databases /\ undo \in Databases  BY DEF Inv, TypeOK
<1>3. /\ journal.current = Accepted(core) /\ IsRunning(journal.current) /\ host.unit
      /\ \A o \in Pending(core) \cap DOMAIN journal.receipts : journal.receipts[o].snap = None
  BY DEF BootStart, Inv, Helping, Booting
<1>4. /\ Durable(core, journal, spool.receipts, host)
      /\ Durable(undo, journal, spool.receipts, host)
      /\ SameOperations(undo, core)
      /\ (host.supervisor # "off" => host.unit)
  BY DEF Inv, Disk, Shared
<1>5. journal.current \in Snapshots /\ journal.current # None
  BY <1>3 DEF Inv, TypeOK, IsJournal, IsRunning
<1>6. /\ journal.current.op \in DOMAIN core.ops
      /\ core.ops[journal.current.op].state = "succeeded"
  BY <1>2, <1>3, <1>4, AcceptedFacts DEF Durable, IsRunning
<1>7. /\ journal.current.op \notin Pending(core)
      /\ journal.current.op \in DOMAIN spool.receipts
  BY <1>4, <1>6, AboutPending DEF Durable, Written
<1>8. \A o \in Pending(undo) \cap DOMAIN journal.receipts :
         journal.receipts[o].snap # None => journal.current = journal.receipts[o].snap
  <2> TAKE o \in Pending(undo) \cap DOMAIN journal.receipts
  <2>1. CASE o \in Pending(core)  BY <1>3, <2>1
  <2>2. CASE o \notin Pending(core)
    <3>1. o \in DOMAIN core.ops  BY <1>4, AboutPending DEF SameOperations
    <3>2. o \in DOMAIN spool.receipts  BY <1>4, <2>2, <3>1 DEF Durable, Written
    <3> QED  BY <1>4, <3>2 DEF Durable, Current
  <2> QED  BY <2>1, <2>2
<1>9. journal.current.op \in DOMAIN undo.ops  BY <1>4, <1>6 DEF SameOperations
<1>10. ASSUME host' \in Hosts, host'.unit, host'.backup = host.backup,
              host'.container = None \/ IsOf(host'.container, journal.current)
       PROVE  Inv'
  <2>1. Durable(core, journal, spool.receipts, host')
    <3>1. \A o \in Pending(core) \cap DOMAIN journal.receipts :
             journal.receipts[o].snap # None => journal.current = journal.receipts[o].snap
      BY <1>3
    <3> QED  BY ONLY <1>2, <1>3, <1>4, <1>6, <1>7, <1>10, <3>1, BootDurable
  <2>2. Durable(undo, journal, spool.receipts, host')
    BY ONLY <1>2, <1>3, <1>4, <1>7, <1>8, <1>9, <1>10, BootDurable
  <2>3. Serving(core, host')  BY <1>3, <1>10 DEF Serving
  <2>4. IsRun(run') /\ Helping(core, journal, spool.receipts, host', run')
    BY <1>1, IdleHelping
  <2> QED  BY <1>1, <1>10, <2>1, <2>2, <2>3, <2>4, HostMoves
<1>11. CASE host' = [host EXCEPT !.container = RestoredContainer, !.supervisor = "up"]
  <2> DEFINE new == RestoredContainer
  <2>1. new \in Containers /\ IsOf(new, journal.current)
    BY <1>5, ContainerIs DEF RestoredContainer, IsOf, Snapshots
  <2>2. host' = [host EXCEPT !.container = new, !.supervisor = "up"]  BY <1>11
  <2> HIDE DEF new
  <2>3. /\ host' \in Hosts /\ host'.unit = host.unit /\ host'.backup = host.backup
        /\ host'.container = new
    BY <1>2, <2>1, <2>2 DEF Hosts
  <2> QED  BY <1>3, <1>10, <2>1, <2>3
<1>12. CASE host' = [host EXCEPT !.container = None]
  <2>1. /\ host' \in Hosts /\ host'.unit = host.unit /\ host'.backup = host.backup
        /\ host'.container = None
    BY <1>2, <1>12 DEF Hosts
  <2> QED  BY <1>3, <1>10, <2>1
<1> QED  BY <1>11, <1>12 DEF BootStart

LEMMA ContainerExitsKeeps == ASSUME Inv, ContainerExits PROVE Inv'
<1>1. UNCHANGED <<core, undo, rec, policy, spool, journal, run, data>>  BY DEF ContainerExits
<1>2. host \in Hosts  BY DEF Inv, TypeOK
<1>3. host.container # None /\ host.container \in Containers
  BY <1>2 DEF ContainerExits, Up, Hosts
<1> DEFINE new == [host.container EXCEPT !.up = FALSE]
           x == IF host.supervisor = "up" THEN "starting" ELSE host.supervisor
<1>4. /\ new \in Containers /\ new.op = host.container.op /\ new.rel = host.container.rel
      /\ new.reg = host.container.reg /\ new.up = FALSE
      /\ DOMAIN new = {"rel", "reg", "op", "up"}
  BY <1>3 DEF Containers
<1>5. new # None
  <2>1. DOMAIN None = {"none"}  BY DEF None
  <2>2. "op" \notin DOMAIN None  BY <2>1
  <2> HIDE DEF new
  <2> QED  BY <1>4, <2>2
<1>6. x \in {"up", "starting", "off"} /\ (x = "off" <=> host.supervisor = "off")
  BY <1>2 DEF Hosts
<1>7. /\ host'.container = new /\ host'.supervisor = x /\ host'.unit = host.unit
      /\ host'.backup = host.backup /\ DOMAIN host' = DOMAIN host
      /\ host' = [host EXCEPT !.container = new, !.supervisor = x]
  BY <1>2 DEF ContainerExits, Hosts
<1> HIDE DEF new, x
<1>8. host' \in Hosts  BY <1>2, <1>4, <1>6, <1>7 DEF Hosts
<1>9. SameHost(host, host')  BY <1>3, <1>4, <1>5, <1>6, <1>7 DEF SameHost
<1>10. ~Gone(host)  BY <1>3 DEF Gone
<1>11. Helping(core, journal, spool.receipts, host', run)
  BY <1>9, <1>10, SameHostHelping DEF Inv
<1>12. host'.supervisor # "off" => host'.unit  BY <1>6, <1>7 DEF Inv, Disk, Shared
<1> QED  BY <1>1, <1>8, <1>9, <1>11, <1>12, SameHostMoves DEF Inv, TypeOK

LEMMA HostRestartsKeeps == ASSUME Inv, HostRestarts PROVE Inv'
<1>1. UNCHANGED <<policy, spool, journal, data>> /\ run' = IdleRun  BY DEF HostRestarts
<1>2. PICK c \in {core, undo} : core' = c /\ undo' = c  BY DEF HostRestarts
<1>3. host \in Hosts /\ c \in Databases  BY <1>2 DEF Inv, TypeOK
<1>4. Durable(c, journal, spool.receipts, host) /\ Shared(journal, spool.receipts, host)
  BY <1>2 DEF Inv, Disk
<1> DEFINE new == IF host.container = None THEN None ELSE [host.container EXCEPT !.up = FALSE]
           x == IF host.unit THEN "starting" ELSE "off"
<1>5. host.container # None =>
         /\ new \in Containers /\ new.op = host.container.op /\ new.rel = host.container.rel
         /\ new.reg = host.container.reg /\ new.up = FALSE
         /\ DOMAIN new = {"rel", "reg", "op", "up"}
  BY <1>3 DEF Hosts, Containers
<1>6. new = None <=> host.container = None
  <2>1. DOMAIN None = {"none"}  BY DEF None
  <2>2. "op" \notin DOMAIN None  BY <2>1
  <2>3. host.container = None => new = None  OBVIOUS
  <2> HIDE DEF new
  <2> QED  BY <1>5, <2>2, <2>3
<1>7. host' = [host EXCEPT !.container = new, !.supervisor = x]
  BY DEF HostRestarts
<1> HIDE DEF new
<1>8. /\ host'.container = new /\ host'.supervisor = x /\ host'.unit = host.unit
      /\ host'.backup = host.backup /\ host' \in Hosts
  BY <1>3, <1>5, <1>6, <1>7 DEF Hosts
<1>9. SameHost(host, host')  BY <1>5, <1>6, <1>8 DEF SameHost
<1>10. Durable(c, journal, spool.receipts, host')  BY <1>4, <1>9, SameHostDurable
<1>11. SameOperations(c, c)  BY DEF SameOperations
<1>12. Shared(journal, spool.receipts, host')  BY <1>4, <1>8 DEF Shared
<1>13. Serving(core', host')  BY <1>5, <1>6, <1>8 DEF Serving
<1>14. Helping(core', journal, spool.receipts, host', run') /\ IsRun(run')
  BY <1>1, IdleHelping
<1>15. /\ DOMAIN rec' = Reconcilers
       /\ \A r \in Reconcilers : DOMAIN rec'[r] = {"pc", "op"} /\ rec'[r].pc = "idle"
  BY DEF HostRestarts
<1>16. TypeOK'  BY <1>1, <1>2, <1>3, <1>8, <1>14, <1>15 DEF Inv, TypeOK
<1>17. Disk'  BY <1>1, <1>2, <1>10, <1>11, <1>12 DEF Disk
<1>18. Reconciling'  BY <1>15 DEF Reconciling
<1> QED  BY <1>1, <1>13, <1>14, <1>16, <1>17, <1>18 DEF Inv

LEMMA GatewayKeeps == ASSUME Inv, GatewayAdmits \/ AppWrites PROVE Inv'
<1>1. UNCHANGED <<core, undo, rec, policy, spool, journal, host, run>>
  BY DEF GatewayAdmits, AppWrites
<1>2. data' \in Nat  BY DEF GatewayAdmits, AppWrites, Inv, TypeOK
<1>3. TypeOK'  BY <1>1, <1>2 DEF Inv, TypeOK
<1>4. Disk' /\ Serving(core, host)' /\ Reconciling'
  BY <1>1 DEF Inv, Disk, Reconciling
<1>5. Helping(core, journal, spool.receipts, host, run)'  BY <1>1 DEF Inv
<1> QED  BY <1>3, <1>4, <1>5 DEF Inv
-----------------------------------------------------------------------------
(* The reconcilers.                                                        *)

LEMMA DatabaseMoves ==
    ASSUME Inv, NEW d, core' = d, undo' \in {core, d}, d \in Databases,
           UNCHANGED <<policy, spool, journal, host, run, data>>,
           DOMAIN rec' = Reconcilers, \A r \in Reconcilers : DOMAIN rec'[r] = {"pc", "op"},
           Reconciling',
           Durable(d, journal, spool.receipts, host), undo' = core => SameOperations(core, d),
           Serving(d, host), Helping(d, journal, spool.receipts, host, run)
    PROVE  Inv'
<1>1. TypeOK'  BY DEF Inv, TypeOK
<1>2. SameOperations(d, d)  BY DEF SameOperations
<1>3. Disk'  BY <1>2 DEF Inv, Disk
<1>4. Serving(core, host)'  OBVIOUS
<1>5. Helping(core, journal, spool.receipts, host, run)'  OBVIOUS
<1> QED  BY <1>1, <1>3, <1>4, <1>5 DEF Inv

LEMMA RefreshMoves ==
    ASSUME Inv, NEW d \in Databases, Refreshes(core, d), core' = d, undo' \in {core, d},
           UNCHANGED <<policy, spool, journal, host, run, data>>,
           DOMAIN rec' = Reconcilers, \A r \in Reconcilers : DOMAIN rec'[r] = {"pc", "op"},
           Reconciling'
    PROVE  Inv'
<1>1. Durable(d, journal, spool.receipts, host) /\ SameOperations(core, d)
  BY RefreshedDurable DEF Inv, Disk
<1>2. Serving(d, host)  BY RefreshedServing DEF Inv
<1>3. Helping(d, journal, spool.receipts, host, run)  BY RefreshedHelping DEF Inv
<1> QED  BY <1>1, <1>2, <1>3, DatabaseMoves

\* A step of the reconcilers alone, or of the requests and hints they share.
LEMMA ReconcilerMoves ==
    ASSUME Inv, UNCHANGED <<core, undo, policy, journal, host, run, data>>,
           DOMAIN spool' = DOMAIN spool, spool'.receipts = spool.receipts,
           DOMAIN rec' = Reconcilers, \A r \in Reconcilers : DOMAIN rec'[r] = {"pc", "op"},
           Reconciling'
    PROVE  Inv'
<1>1. TypeOK'  BY DEF Inv, TypeOK
<1>2. Disk' /\ Serving(core, host)'  BY DEF Inv, Disk
<1>3. Helping(core, journal, spool.receipts, host, run)'  BY DEF Inv
<1> QED  BY <1>1, <1>2, <1>3 DEF Inv

LEMMA ReconcileReadKeeps ==
    ASSUME Inv, NEW r \in Reconcilers, NEW o, ReconcileRead(r, o)
    PROVE  Inv'
<1> DEFINE step == [pc |-> IF o \in DOMAIN spool.receipts THEN "settle" ELSE "publish", op |-> o]
<1>1. rec' = [rec EXCEPT ![r] = step]  BY DEF ReconcileRead
<1>2. DOMAIN step = {"pc", "op"} /\ (step.pc = "settle" => step.op \in DOMAIN spool.receipts)
  OBVIOUS
<1> HIDE DEF step
<1>3. UNCHANGED <<policy, spool, journal, host, run, data>>  BY DEF ReconcileRead
<1>4. /\ DOMAIN rec' = Reconcilers
      /\ \A x \in Reconcilers : DOMAIN rec'[x] = {"pc", "op"}
      /\ Reconciling'
  BY <1>1, <1>2, <1>3 DEF Inv, TypeOK, Reconciling
<1>5. CASE UNCHANGED <<core, undo>>
  BY <1>3, <1>4, <1>5, ReconcilerMoves
<1>6. CASE /\ core.ops[o].state = "queued" /\ Commit([core EXCEPT !.ops[o].state = "switching"])
  <2> DEFINE d == [core EXCEPT !.ops[o].state = "switching"]
  <2>1. core \in Databases /\ BootFits(core) /\ o \in Pending(core)
    BY DEF Inv, TypeOK, Disk, Durable, ReconcileRead
  <2>2. core' = d /\ undo' \in {core, d}  BY <1>6 DEF Commit
  <2>3. d \in Databases
    <3> DEFINE e == [core.ops[o] EXCEPT !.state = "switching"]
               ops == [core.ops EXCEPT ![o] = e]
    <3>1. core.ops \in Seq(Operations)  BY <2>1 DEF Databases
    <3>2. e \in Operations  BY <2>1, OperationType, AboutPending DEF Operations
    <3> HIDE DEF e
    <3>3. ops \in Seq(Operations)
      <4>1. ops = [p \in DOMAIN core.ops |-> IF p = o THEN e ELSE core.ops[p]]  OBVIOUS
      <4>2. \A p \in DOMAIN core.ops : core.ops[p] \in Operations  BY <2>1, OperationType
      <4> HIDE DEF ops
      <4> QED  BY <3>1, <3>2, <4>1, <4>2
    <3>4. d = [core EXCEPT !.ops = ops]  BY <2>1 DEF e, Databases
    <3> HIDE DEF ops, d
    <3> QED  BY <2>1, <3>3, <3>4 DEF Databases
  <2> HIDE DEF d
  <2>4. Refreshes(core, d)  BY <1>6, <2>1, SwitchingRefreshes DEF d
  <2> QED  BY <1>3, <1>4, <2>2, <2>3, <2>4, RefreshMoves
<1> QED  BY <1>5, <1>6 DEF ReconcileRead

LEMMA ReconcilePublishKeeps ==
    ASSUME Inv, NEW r \in Reconcilers, ReconcilePublish(r) \/ ReconcileUnlink(r)
    PROVE  Inv'
<1>1. UNCHANGED <<core, undo, policy, journal, host, run, data>>
  BY DEF ReconcilePublish, ReconcileUnlink
<1>2. DOMAIN spool' = DOMAIN spool /\ spool'.receipts = spool.receipts
  BY DEF ReconcilePublish, ReconcileUnlink, Inv, TypeOK
<1>3. rec' = [rec EXCEPT ![r] = [pc |-> "idle", op |-> 0]]
  BY DEF ReconcilePublish, ReconcileUnlink
<1>4. /\ DOMAIN rec' = Reconcilers
      /\ \A x \in Reconcilers : DOMAIN rec'[x] = {"pc", "op"}
      /\ Reconciling'
  BY <1>2, <1>3 DEF Inv, TypeOK, Reconciling
<1> QED  BY <1>1, <1>2, <1>4, ReconcilerMoves

LEMMA SettledType ==
    ASSUME NEW c \in Databases, NEW o \in Pending(c), NEW rcpt, Sound(c, o, rcpt)
    PROVE  Settled(c, o, rcpt) \in Databases
<1> DEFINE hist == IF Appends(c, o, rcpt) THEN Append(c.hist, rcpt.snap) ELSE c.hist
           target == IF c.ops[o].kind = "recover" /\ rcpt.state = "succeeded"
                     THEN {c.ops[o].recovers} ELSE {}
           result == Resolution([c EXCEPT !.hist = hist], rcpt)
           row(p) == IF p = o THEN [c.ops[p] EXCEPT !.state = rcpt.state]
                     ELSE IF p \in target THEN [c.ops[p] EXCEPT !.state = result] ELSE c.ops[p]
           ops == [p \in DOMAIN c.ops |-> row(p)]
           reg == IF Appends(c, o, rcpt) /\ ~rcpt.snap.retired
                  THEN rcpt.snap.sel.reg ELSE c.registered
<1>1. rcpt \in Receipts  BY DEF Sound
<1>2. c.ops \in Seq(Operations) /\ c.hist \in Seq(Snapshots)  BY DEF Databases
<1>3. \A p \in DOMAIN c.ops : c.ops[p] \in Operations  BY OperationType
<1>4. Appends(c, o, rcpt) => rcpt.snap \in Snapshots
  <2>1. o \in DOMAIN c.ops  BY AboutPending
  <2> QED  BY <1>1, <1>3, <2>1 DEF Appends, Sound, Receipts, Operations, Marked, AnyKind
<1>5. hist \in Seq(Snapshots)  BY <1>2, <1>4
<1>6. result \in {"succeeded", "recovered", "failed"}  BY DEF Resolution
<1>7. reg \in AnyRegistration
  BY <1>4 DEF Databases, Snapshots, Selections
<1>8. Settled(c, o, rcpt) = [c EXCEPT !.hist = hist, !.registered = reg, !.ops = ops]
  BY DEF Settled, Databases
<1> HIDE DEF hist, result, reg
<1>9. \A p \in DOMAIN c.ops : row(p) \in Operations
  BY <1>1, <1>3, <1>6 DEF Operations, Receipts
<1> HIDE DEF row
<1>10. ops \in Seq(Operations)  BY <1>2, <1>9
<1> HIDE DEF ops
<1> QED  BY <1>5, <1>7, <1>8, <1>10 DEF Databases

LEMMA ReconcileSettleKeeps ==
    ASSUME Inv, NEW r \in Reconcilers, ReconcileSettle(r)
    PROVE  Inv'
<1> DEFINE o == rec[r].op
           b == spool.receipts[o]
           rcpt == Consumed(core, o, b)
<1>1. UNCHANGED <<policy, spool, journal, host, run, data>>  BY DEF ReconcileSettle
<1>2. o \in DOMAIN spool.receipts  BY DEF ReconcileSettle, Inv, Reconciling
<1>3. core \in Databases /\ Durable(core, journal, spool.receipts, host)
      /\ o \in DOMAIN journal.receipts /\ journal.receipts[o] = b
  BY <1>2 DEF Inv, TypeOK, Disk, Shared
<1>4. /\ DOMAIN rec' = Reconcilers
      /\ \A x \in Reconcilers : DOMAIN rec'[x] = {"pc", "op"}
      /\ Reconciling'
  <2>1. CASE rec' = [rec EXCEPT ![r].pc = "unlink"]
    BY <1>1, <2>1 DEF Inv, TypeOK, Reconciling
  <2>2. CASE rec' = [rec EXCEPT ![r] = [pc |-> "idle", op |-> 0]]
    BY <1>1, <2>2 DEF Inv, TypeOK, Reconciling
  <2> QED  BY <2>1, <2>2 DEF ReconcileSettle
<1>5. CASE UNCHANGED <<core, undo>>
  BY <1>1, <1>4, <1>5, ReconcilerMoves
<1>6. CASE o \in Pending(core) /\ Commit(Settled(core, o, rcpt))
  <2> DEFINE d == Settled(core, o, rcpt)
  <2>1. core' = d /\ undo' \in {core, d}  BY <1>6 DEF Commit
  <2>2. Sound(core, o, b)  BY <1>3, <1>6 DEF Durable, Current
  <2>3. /\ Sound(core, o, rcpt) /\ rcpt.snap = b.snap
        /\ \/ rcpt.state = b.state
           \/ b.state = "succeeded" /\ rcpt.state = "failed" /\ core.ops[o].kind = "rehearse"
    BY <2>2, ConsumedIsSound
  <2> HIDE DEF rcpt, b, o
  <2>4. Settles(core, d, o, rcpt)  BY <1>3, <1>6, <2>3, SettledSettles
  <2>5. d \in Databases  BY <1>3, <1>6, <2>3, SettledType
  <2> HIDE DEF d
  <2>6. /\ Durable(d, journal, spool.receipts, host) /\ SameOperations(core, d)
        /\ Pending(d) = {}
        /\ rcpt.snap # None \/ Decided(core, o, b) => HostFits(host, Accepted(d))
    BY <1>2, <1>3, <1>6, <2>3, <2>4, SettledDurable
  <2>7. OneAtATime(core) /\ Numbered(core)  BY <1>3 DEF Durable
  <2>8. Accepted(d) = Outcome(core, b)
    BY <1>3, <1>6, <2>3, <2>4, <2>7, SettledStates DEF Outcome
  <2>9. Serving(d, host)
    BY <1>3, <1>6, <2>3, <2>4, <2>6, <2>7, <2>8, SettledServing DEF Inv
  <2>10. Helping(d, journal, spool.receipts, host, run)
    BY <1>2, <1>3, <1>6, <2>6, SettledHelping DEF Inv
  <2> QED  BY <1>1, <1>4, <2>1, <2>5, <2>6, <2>9, <2>10, DatabaseMoves
<1> QED  BY <1>5, <1>6 DEF ReconcileSettle
-----------------------------------------------------------------------------
(* The administrator and the operator.                                     *)

\* The thread of a request reconciles afterwards; the request itself leaves
\* the reconcilers alone.
LEMMA KeepRefreshes ==
    ASSUME Inv, NEW d \in Databases, Keep(d), d.ops = core.ops, d.hist = core.hist,
           d.registered = core.registered \/ Accepted(core) = None,
           UNCHANGED <<rec, policy, spool, journal, host, run, data>>
    PROVE  Inv'
<1>1. Refreshes(core, d)  BY SettingsRefresh DEF Inv, Disk, Durable
<1>2. /\ DOMAIN rec' = Reconcilers
      /\ \A x \in Reconcilers : DOMAIN rec'[x] = {"pc", "op"}
      /\ Reconciling'
  BY DEF Inv, TypeOK, Reconciling
<1> QED  BY <1>1, <1>2, RefreshMoves DEF Keep

LEMMA ProposeKeeps ==
    ASSUME Inv, NEW reg \in Registrations, Propose(reg), Accepted(core) # None,
           UNCHANGED <<rec, policy, spool, journal, host, run, data>>
    PROVE  Inv'
<1> DEFINE new == [base |-> Accepted(core).gen, reg |-> reg, rejected |-> FALSE]
           d == [core EXCEPT !.change = new]
<1>1. core \in Databases  BY DEF Inv, TypeOK
<1>2. Accepted(core).gen \in Nat  BY <1>1, AcceptedType DEF Snapshots
<1>3. new \in Changes  BY <1>2 DEF Changes, AnyRegistration
<1>4. Keep(d)  BY DEF Propose
<1> HIDE DEF new
<1>5. /\ d \in Databases /\ d.ops = core.ops /\ d.hist = core.hist
      /\ d.registered = core.registered
  BY <1>1, <1>3 DEF Databases
<1> HIDE DEF d
<1> QED  BY <1>4, <1>5, KeepRefreshes

LEMMA UpdateRegistrationKeeps ==
    ASSUME Inv, NEW reg \in Registrations, UpdateRegistration(reg) \/ ProposeSourceRename(reg)
    PROVE  Inv'
<1>1. UNCHANGED <<rec, policy, spool, journal, host, run, data>>
  BY DEF UpdateRegistration, ProposeSourceRename
<1>2. CASE Propose(reg) /\ Accepted(core) # None  BY <1>1, <1>2, ProposeKeeps
<1>3. CASE Accepted(core) = None /\ Keep([core EXCEPT !.registered = reg])
  <2> DEFINE d == [core EXCEPT !.registered = reg]
  <2>1. d \in Databases /\ d.ops = core.ops /\ d.hist = core.hist
    BY DEF Inv, TypeOK, Databases, AnyRegistration
  <2>2. Keep(d)  BY <1>3
  <2> HIDE DEF d
  <2> QED  BY <1>1, <1>3, <2>1, <2>2, KeepRefreshes
<1> QED  BY <1>2, <1>3 DEF UpdateRegistration, ProposeSourceRename, IsRunning

LEMMA RejectKeeps == ASSUME Inv, NEW rel \in Releases, Reject(rel) PROVE Inv'
<1> DEFINE change == IF PendingChange(core) THEN [core.change EXCEPT !.rejected = TRUE]
                     ELSE core.change
           rejected == IF IsRunning(Accepted(core)) /\ Accepted(core).sel.rel = rel
                       THEN core.rejected ELSE core.rejected \cup {rel}
           d == [core EXCEPT !.change = change, !.rejected = rejected]
<1>1. core \in Databases  BY DEF Inv, TypeOK
<1>2. change \in Changes \cup {None}
  BY <1>1 DEF Databases, Changes, PendingChange
<1>3. rejected \in SUBSET AnyRelease  BY <1>1 DEF Databases, AnyRelease
<1>4. Keep(d)  BY DEF Reject
<1> HIDE DEF change, rejected
<1>5. /\ d \in Databases /\ d.ops = core.ops /\ d.hist = core.hist
      /\ d.registered = core.registered
  BY <1>1, <1>2, <1>3 DEF Databases
<1> HIDE DEF d
<1>6. UNCHANGED <<rec, policy, spool, journal, host, run, data>>  BY DEF Reject
<1> QED  BY <1>4, <1>5, <1>6, KeepRefreshes

LEMMA AuthorityKeeps == ASSUME Inv, RotateCredential \/ EndSession PROVE Inv'
<1>1. core \in Databases  BY DEF Inv, TypeOK
<1>2. UNCHANGED <<rec, policy, spool, journal, host, run, data>>
  BY DEF RotateCredential, EndSession
<1>3. CASE RotateCredential
  <2> DEFINE d == [core EXCEPT !.cred = @ + 1]
  <2>1. /\ d \in Databases /\ d.ops = core.ops /\ d.hist = core.hist
        /\ d.registered = core.registered
    BY <1>1 DEF Databases
  <2>2. Keep(d)  BY <1>3 DEF RotateCredential
  <2> HIDE DEF d
  <2> QED  BY <1>2, <2>1, <2>2, KeepRefreshes
<1>4. CASE EndSession
  <2> DEFINE d == [core EXCEPT !.session = @ + 1]
  <2>1. /\ d \in Databases /\ d.ops = core.ops /\ d.hist = core.hist
        /\ d.registered = core.registered
    BY <1>1 DEF Databases
  <2>2. Keep(d)  BY <1>4 DEF EndSession
  <2> HIDE DEF d
  <2> QED  BY <1>2, <2>1, <2>2, KeepRefreshes
<1> QED  BY <1>3, <1>4

LEMMA EditPolicyKeeps == ASSUME Inv, NEW reg \in Registrations, EditPolicy(reg) PROVE Inv'
<1>1. UNCHANGED <<core, undo, rec, spool, journal, host, run, data>> /\ policy' = reg
  BY DEF EditPolicy
<1>2. TypeOK'  BY <1>1 DEF Inv, TypeOK, AnyRegistration
<1>3. Disk' /\ Serving(core, host)' /\ Reconciling'
  BY <1>1 DEF Inv, Disk, Reconciling
<1>4. Helping(core, journal, spool.receipts, host, run)'  BY <1>1 DEF Inv
<1> QED  BY <1>2, <1>3, <1>4 DEF Inv

\* What an approved operation names are a release and a registration.
LEMMA SelectionType ==
    ASSUME NEW c \in Databases, NEW kind, NEW rel \in Releases, NEW pol \in AnyRegistration,
           Selectable(c, kind, rel)
    PROVE  SelectionFor(c, kind, rel, pol) \in Selections
<1>1. Accepted(c) \in Snapshots \cup {None}  BY AcceptedType
<1>2. c.hist \in Seq(Snapshots)  BY DEF Databases
<1>3. Generation(Accepted(c)) \in Nat  BY <1>1 DEF Generation, Snapshots
<1>4. ProposedRegistration(c) \in AnyRegistration
  BY DEF ProposedRegistration, PendingChange, Databases, Changes
<1>5. ApprovedRegistration(c, kind) \in AnyRegistration
  <2>1. CASE kind = "recover"  BY <2>1 DEF ApprovedRegistration, Databases
  <2>2. CASE kind = "rollback"
    <3>1. Len(c.hist) - 1 \in 1 .. Len(c.hist)
      BY <1>2, <2>2 DEF Selectable, HasRollback
    <3>2. c.hist[Len(c.hist) - 1] \in Snapshots  BY <1>2, <3>1
    <3> QED  BY <2>2, <3>2 DEF ApprovedRegistration, Snapshots, Selections
  <2>3. CASE kind = "retire"
    <3>1. Accepted(c) \in Snapshots  BY <1>1, <2>3 DEF Selectable, IsRunning
    <3> QED  BY <2>3, <3>1 DEF ApprovedRegistration, Snapshots, Selections
  <2>4. CASE kind \notin {"recover", "rollback", "retire"}
    BY <1>4, <2>4 DEF ApprovedRegistration
  <2> QED  BY <2>1, <2>2, <2>3, <2>4
<1> QED  BY <1>3, <1>5 DEF SelectionFor, Selections, Databases, AnyRelease

LEMMA RequestApproves ==
    ASSUME Inv, NEW kind, NEW rel \in Releases, NEW rehearsal \in Nat,
           Request(kind, rel, rehearsal)
    PROVE  core' \in Databases /\ undo' = core' /\ Approves(core, core', Len(core.ops) + 1)
<1> DEFINE blocked == CHOOSE o \in Blocked(core) : TRUE
           sel == SelectionFor(core, kind, rel, policy)
           new == [kind |-> kind, state |-> "queued", sel |-> sel, session |-> core.session,
                   recovers |-> IF kind = "recover" THEN blocked ELSE 0,
                   rehearsal |-> rehearsal]
           ops == Append(core.ops, new)
           d == [core EXCEPT !.ops = ops]
           n == Len(core.ops) + 1
<1>1. Keep(d)
  BY DEF Request
<1>2. core \in Databases /\ policy \in AnyRegistration  BY DEF Inv, TypeOK
<1>3. core.ops \in Seq(Operations) /\ core.session \in Nat  BY <1>2 DEF Databases
<1>4. Selectable(core, kind, rel) /\ kind \in AnyKind
  BY DeploymentAssumption DEF Request, AnyKind
<1>5. sel \in Selections  BY <1>2, <1>4, SelectionType
<1>6. sel.gen = Len(core.hist)
  BY <1>2, AcceptedFacts DEF SelectionFor, Inv, Disk, Durable
<1>7. kind = "recover" => blocked \in Blocked(core)
  <2>1. kind = "recover" => Blocked(core) # {}  BY <1>4 DEF Selectable
  <2> QED  BY <2>1
<1>8. kind = "recover" => blocked \in Nat  BY <1>2, <1>7, AboutPending, OperationType
<1> HIDE DEF sel, blocked
<1>9. new \in Operations  BY <1>3, <1>4, <1>5, <1>8 DEF Operations
<1>10. new.state = "queued" /\ new.sel = sel /\ new.kind = kind
       /\ (kind = "recover" => new.recovers = blocked)
  OBVIOUS
<1> HIDE DEF new
<1>11. /\ ops \in Seq(Operations) /\ DOMAIN ops = DOMAIN core.ops \cup {n} /\ ops[n] = new
       /\ \A o \in DOMAIN core.ops : ops[o] = core.ops[o]
  BY <1>3, <1>9
<1> HIDE DEF ops
<1>12. /\ d \in Databases /\ d.ops = ops /\ d.hist = core.hist
       /\ d.registered = core.registered
  BY <1>2, <1>11 DEF Databases
<1> HIDE DEF d, n
<1>13. Pending(core) = {} /\ (kind # "recover" => Blocked(core) = {})
  BY DEF Request, RequireIdle, Pending, Blocked, InState
<1>14. Approves(core, d, n)
  BY <1>6, <1>7, <1>10, <1>11, <1>12, <1>13 DEF Approves, n
<1>15. core' = d /\ undo' = d  BY <1>1 DEF Keep
<1> QED  BY <1>12, <1>14, <1>15 DEF n

LEMMA RequestKeeps ==
    ASSUME Inv, NEW kind, NEW rel \in Releases, NEW rehearsal \in Nat,
           Request(kind, rel, rehearsal)
    PROVE  Inv'
<1>1. UNCHANGED <<rec, policy, spool, journal, host, run, data>>  BY DEF Request
<1>2. core' \in Databases /\ undo' = core' /\ Approves(core, core', Len(core.ops) + 1)
  BY RequestApproves
<1>3. core \in Databases /\ Durable(core, journal, spool.receipts, host)
  BY DEF Inv, TypeOK, Disk
<1>4. Durable(core', journal, spool.receipts, host)  BY <1>2, <1>3, ApprovedDurable
<1>5. Serving(core', host) /\ Helping(core', journal, spool.receipts, host, run)
  BY <1>2, <1>3, ApprovedHelping DEF Inv
<1>6. /\ DOMAIN rec' = Reconcilers
      /\ \A x \in Reconcilers : DOMAIN rec'[x] = {"pc", "op"}
      /\ Reconciling'
  BY <1>1 DEF Inv, TypeOK, Reconciling
<1>7. SameOperations(core', core')  BY DEF SameOperations
<1>8. TypeOK'  BY <1>1, <1>2 DEF Inv, TypeOK
<1>9. Disk'  BY <1>1, <1>2, <1>4, <1>7 DEF Inv, Disk
<1>10. Serving(core, host)' /\ Helping(core, journal, spool.receipts, host, run)'
  BY <1>1, <1>5
<1> QED  BY <1>6, <1>8, <1>9, <1>10 DEF Inv
-----------------------------------------------------------------------------
(***************************************************************************)
(* The beginnings.                                                         *)
(***************************************************************************)
\* Everything is settled, but for a switch blocked at the end, and the history
\* accepts some of what succeeded.
Settled0(ops, accepts) ==
    /\ ops \in Seq(Operations) /\ Len(ops) > 0 /\ accepts \in Seq(Nat)
    /\ \A o \in DOMAIN ops :
          \/ ops[o].state = "succeeded"
          \/ o = Len(ops) /\ ops[o].state = "blocked" /\ ops[o].kind = "deploy"
    /\ \A i \in DOMAIN accepts :
          /\ accepts[i] \in DOMAIN ops /\ ops[accepts[i]].state = "succeeded"
          /\ ops[accepts[i]].sel.gen = i - 1
          /\ ops[accepts[i]].sel.reg = FirstRegistration
          /\ \A k \in 1..(i - 1) : accepts[k] # accepts[i]

LEMMA AcceptIs ==
    ASSUME NEW ops \in Seq(Operations), NEW o \in DOMAIN ops
    PROVE  /\ Accept(ops, o) \in Snapshots
           /\ Accept(ops, o).op = o /\ Accept(ops, o).gen = ops[o].sel.gen + 1
           /\ Accept(ops, o).sel = ops[o].sel
<1>1. ops[o] \in Operations /\ o \in Nat  OBVIOUS
<1>2. ops[o].sel \in Selections /\ ops[o].sel.gen \in Nat  BY <1>1 DEF Operations, Selections
<1> DEFINE sel == ops[o].sel
           retired == ops[o].kind = "retire"
           last == IF retired THEN 1 ELSE 0
<1>3. retired \in BOOLEAN /\ last \in Nat  OBVIOUS
<1>4. Accept(ops, o) = [op |-> o, gen |-> sel.gen + 1, sel |-> sel,
                        retired |-> retired, last |-> last]
  BY DEF Accept, NewSnapshot
<1> HIDE DEF retired, last
<1> QED  BY <1>1, <1>2, <1>3, <1>4 DEF Snapshots

LEMMA BeginsWell ==
    ASSUME NEW from, Settled0(from.ops, from.accepts), Begin(from),
           undo = core, policy = FirstRegistration,
           rec = [r \in Reconcilers |-> [pc |-> "idle", op |-> 0]],
           run = IdleRun, data = 0
    PROVE  Inv
<1> DEFINE ops == from.ops
           accepts == from.accepts
           n == Len(accepts)
           hist == [i \in 1..n |-> Accept(ops, accepts[i])]
           last == IF hist = <<>> THEN None ELSE hist[Len(hist)]
           snap(o) == IF \E i \in DOMAIN hist : accepts[i] = o THEN Accept(ops, o) ELSE None
           rcpts == [o \in DOMAIN ops |-> Receipt(ops[o].state, snap(o))]
           final == Len(ops)
           blocked == ops[final].state = "blocked"
<1>1. /\ core = [ops |-> ops, hist |-> hist, registered |-> FirstRegistration,
                 change |-> None, rejected |-> {}, cred |-> 0, session |-> 0]
      /\ spool = [requests |-> {}, hints |-> {}, receipts |-> rcpts]
      /\ journal = [marks |-> {}, receipts |-> rcpts, current |-> last]
      /\ \E container \in IF blocked THEN {None, ContainerOf(final, ops[final].sel)}
                          ELSE IF IsRunning(last) THEN {ContainerOf(last.op, last.sel)}
                          ELSE {None} :
            host = [container |-> container, unit |-> IsRunning(last),
                    supervisor |-> IF IsRunning(last) /\ ~blocked THEN "up" ELSE "off",
                    backup |-> None]
  BY DEF Begin
<1>0. Settled0(ops, accepts)  OBVIOUS
<1> HIDE DEF ops, accepts
<1>2. /\ ops \in Seq(Operations) /\ final > 0 /\ accepts \in Seq(Nat)
      /\ final \in DOMAIN ops /\ DOMAIN ops = 1..final /\ final \in Nat
      /\ n \in Nat /\ DOMAIN accepts = 1..n
  BY <1>0 DEF Settled0
<1>3. \A i \in 1..n : accepts[i] \in DOMAIN ops  BY <1>0, <1>2 DEF Settled0
<1>4. \A i \in 1..n : Accept(ops, accepts[i]) \in Snapshots  BY <1>2, <1>3, AcceptIs
<1>5. hist \in Seq(Snapshots) /\ Len(hist) = n /\ DOMAIN hist = 1..n
  BY <1>2, <1>4
<1>6. \A i \in 1..n : hist[i] = Accept(ops, accepts[i])  OBVIOUS
<1>7. last = Accepted(core)
  BY <1>1 DEF Accepted
<1>8. \A o \in DOMAIN ops : snap(o) \in Snapshots \cup {None}
  BY <1>2, AcceptIs
<1> HIDE DEF hist, snap, final, n
<1>9. /\ core \in Databases /\ core.ops = ops /\ core.hist = hist
      /\ core.registered = FirstRegistration
  BY <1>1, <1>2, <1>5 DEF Databases, AnyRegistration
<1>10. \A o \in DOMAIN ops : Receipt(ops[o].state, snap(o)) \in Receipts
  <2> TAKE o \in DOMAIN ops
  <2>1. ops[o].state \in {"succeeded", "blocked"}  BY <1>0 DEF Settled0
  <2> QED  BY <1>8, <2>1 DEF Receipt, Receipts
<1>11. /\ DOMAIN rcpts = DOMAIN ops
       /\ \A o \in DOMAIN rcpts : rcpts[o] \in Receipts
  BY <1>10
<1>12. last \in Snapshots \cup {None}  BY <1>7, <1>9, AcceptedType
<1> HIDE DEF rcpts, last
<1>13. /\ journal.marks = {} /\ journal.receipts = rcpts /\ journal.current = last
       /\ spool.receipts = rcpts /\ DOMAIN spool = {"requests", "hints", "receipts"}
       /\ DOMAIN journal = {"marks", "receipts", "current"}
  BY <1>1
<1>14. IsJournal(journal)
  <2>1. DOMAIN ops \subseteq Nat  BY <1>2
  <2> QED  BY <1>11, <1>12, <1>13, <2>1 DEF IsJournal
<1>15. Pending(core) = {} /\ (\A o \in Blocked(core) : o = final /\ ops[o].kind = "deploy")
  BY <1>0, <1>9, AboutPending DEF Settled0, final
<1>16. Numbered(core)
  <2> SUFFICES ASSUME NEW i \in 1..n
      PROVE  /\ hist[i].gen = i
             /\ hist[i].op \in DOMAIN ops /\ ops[hist[i].op].state = "succeeded"
             /\ \A k \in 1..(i - 1) : hist[k].op # hist[i].op
    BY <1>5, <1>9 DEF Numbered
  <2>1. \A k \in 1..n : hist[k].op = accepts[k] /\ hist[k].gen = ops[accepts[k]].sel.gen + 1
    BY <1>2, <1>3, <1>6, AcceptIs
  <2>2. \A k \in 1..(i - 1) : k \in 1..n  BY <1>2
  <2>3. ops[accepts[i]].state = "succeeded" /\ ops[accepts[i]].sel.gen = i - 1
    BY <1>0, <1>2 DEF Settled0
  <2>4. \A k \in 1..(i - 1) : accepts[k] # accepts[i]  BY <1>0, <1>2 DEF Settled0
  <2>5. i \in Int /\ i - 1 + 1 = i  OBVIOUS
  <2>6. hist[i].gen = i  BY <2>1, <2>3, <2>5
  <2>7. hist[i].op \in DOMAIN ops /\ ops[hist[i].op].state = "succeeded"
    BY <1>3, <2>1, <2>3
  <2>8. \A k \in 1..(i - 1) : hist[k].op # hist[i].op  BY <2>1, <2>2, <2>4
  <2> QED  BY <2>6, <2>7, <2>8
<1>17. last # None => /\ last \in Snapshots /\ last.op \in DOMAIN ops
                      /\ last.sel.reg = FirstRegistration
  <2> SUFFICES ASSUME last # None
      PROVE  last \in Snapshots /\ last.op \in DOMAIN ops /\ last.sel.reg = FirstRegistration
    OBVIOUS
  <2>1. n \in 1..n /\ last = hist[n]  BY <1>5, <1>7, <1>9, AcceptedType
  <2>2. last = Accept(ops, accepts[n])  BY <1>6, <2>1
  <2>3. accepts[n] \in DOMAIN ops /\ ops[accepts[n]].sel.reg = FirstRegistration
    BY <1>0, <1>2, <2>1 DEF Settled0
  <2>4. last.op = accepts[n] /\ last.sel = ops[accepts[n]].sel
    BY <1>2, <2>2, <2>3, AcceptIs
  <2> QED  BY <1>12, <2>3, <2>4
<1>18. BootFits(core)  BY <1>7, <1>9, <1>17 DEF BootFits, IsRunning
<1>19. PICK container :
        /\ container \in IF blocked THEN {None, ContainerOf(final, ops[final].sel)}
                          ELSE IF IsRunning(last) THEN {ContainerOf(last.op, last.sel)}
                          ELSE {None}
        /\ host = [container |-> container, unit |-> IsRunning(last),
                   supervisor |-> IF IsRunning(last) /\ ~blocked THEN "up" ELSE "off",
                   backup |-> None]
  BY <1>1
<1>20. /\ host.container = container /\ host.backup = None
       /\ host.unit = IsRunning(last) /\ host.unit \in BOOLEAN
       /\ host.supervisor = IF IsRunning(last) /\ ~blocked THEN "up" ELSE "off"
       /\ DOMAIN host = {"container", "unit", "supervisor", "backup"}
  BY <1>19 DEF IsRunning
<1>21. ops[final].sel \in Selections /\ final \in Nat
  <2>1. ops[final] \in Operations  BY <1>2
  <2> QED  BY <1>2, <2>1 DEF Operations
<1>22. last # None => last.op \in Nat /\ last.sel \in Selections
  BY <1>17 DEF Snapshots
<1>23. container # None =>
          /\ container \in Containers
          /\ \/ /\ blocked /\ IsOf(container, [op |-> final, sel |-> ops[final].sel])
                /\ container.op = final
             \/ /\ ~blocked /\ IsRunning(last) /\ IsOf(container, last)
                /\ container.op = last.op
  BY <1>19, <1>21, <1>22, ContainerIs DEF IsOf, IsRunning
<1>24. host \in Hosts
  <2>1. container \in Containers \cup {None}  BY <1>23
  <2>2. host = [container |-> container, unit |-> host.unit,
                supervisor |-> host.supervisor, backup |-> None]
    BY <1>19
  <2>3. host.supervisor \in {"up", "starting", "off"}  BY <1>20
  <2>4. host.unit \in BOOLEAN  BY <1>20
  <2> QED  BY <2>1, <2>2, <2>3, <2>4 DEF Hosts
<1>25. TypeOK
  BY <1>9, <1>13, <1>14, <1>24, IdleHelping DEF TypeOK, AnyRegistration
<1>26. Blocked(core) = {} => ~blocked  BY <1>2, <1>9, AboutPending
<1>27. HostFits(host, last) \/ blocked
  BY <1>19, <1>20, <1>23 DEF HostFits
<1>28. Durable(core, journal, spool.receipts, host)
  <2>1. OneAtATime(core)  BY <1>15 DEF OneAtATime
  <2>2. Written(core, journal, rcpts)  BY <1>9, <1>11, <1>13 DEF Written
  <2>3. Current(core, journal, rcpts)  BY <1>7, <1>13, <1>15 DEF Current
  <2>4. Fitted(core, journal, host)  BY <1>7, <1>15, <1>26, <1>27 DEF Fitted
  <2>5. Labelled(core, journal, rcpts, host)
    BY <1>2, <1>9, <1>15, <1>17, <1>20, <1>23 DEF Labelled, IsRunning
  <2> QED  BY <1>13, <1>16, <1>18, <2>1, <2>2, <2>3, <2>4, <2>5 DEF Durable
<1>29. Disk
  <2>1. SameOperations(undo, core)  BY DEF SameOperations
  <2>2. Shared(journal, spool.receipts, host)  BY <1>13, <1>20 DEF Shared
  <2> QED  BY <1>28, <2>1, <2>2 DEF Disk
<1>30. Serving(core, host)
  <2>1. blocked => final \in InState(core, {"switching", "blocked"}) /\ ops[final].kind = "deploy"
    BY <1>2, <1>9, <1>15, AboutPending DEF InState
  <2> QED  BY <1>7, <1>9, <1>20, <1>23, <2>1 DEF Serving, Switches
<1>31. Reconciling  BY DEF Reconciling
<1> QED  BY <1>25, <1>29, <1>30, <1>31, IdleHelping DEF Inv

LEMMA FinishedIs ==
    ASSUME NEW kind \in AnyKind, NEW rel \in AnyRelease, NEW gen \in Nat,
           NEW state \in {"succeeded", "blocked"}
    PROVE  /\ Finished(kind, rel, gen, state) \in Operations
           /\ Finished(kind, rel, gen, state).kind = kind
           /\ Finished(kind, rel, gen, state).state = state
           /\ Finished(kind, rel, gen, state).sel.gen = gen
           /\ Finished(kind, rel, gen, state).sel.reg = FirstRegistration
<1>1. FirstRegistration \in AnyRegistration  BY DEF AnyRegistration
<1> QED  BY <1>1 DEF Finished, Operations, Selections

LEMMA BeginningsAreSettled ==
    ASSUME NEW from \in Beginnings PROVE Settled0(from.ops, from.accepts)
<1> DEFINE deployed == Done("deploy", FirstRelease, 0)
           retired == Done("retire", FirstRelease, 1)
           rehearsed0 == Done("rehearse", FirstRelease, 0)
           rehearsed1 == Done("rehearse", NextRelease, 1)
           rehearsed2 == Done("rehearse", NextRelease, 2)
           upgraded == Done("deploy", NextRelease, 1)
           blocked0 == Finished("deploy", FirstRelease, 0, "blocked")
           blocked1 == Finished("deploy", NextRelease, 1, "blocked")
<1>1. FirstRelease \in AnyRelease /\ NextRelease \in AnyRelease  BY DEF AnyRelease
<1>2. \A op \in {deployed, retired, rehearsed0, rehearsed1, rehearsed2, upgraded} :
         /\ op \in Operations /\ op.state = "succeeded" /\ op.sel.reg = FirstRegistration
  BY <1>1, FinishedIs DEF Done, AnyKind
<1>3. /\ deployed.sel.gen = 0 /\ retired.sel.gen = 1 /\ upgraded.sel.gen = 1
  BY <1>1, FinishedIs DEF Done, AnyKind
<1>4. \A op \in {blocked0, blocked1} :
         op \in Operations /\ op.state = "blocked" /\ op.kind = "deploy"
  BY <1>1, FinishedIs DEF AnyKind
<1>5. \/ from = [ops |-> <<rehearsed0>>, accepts |-> <<>>]
      \/ from = [ops |-> <<deployed, rehearsed1>>, accepts |-> <<1>>]
      \/ from = [ops |-> <<deployed, retired, rehearsed2>>, accepts |-> <<1, 2>>]
      \/ from = [ops |-> <<deployed, rehearsed1, upgraded>>, accepts |-> <<1, 3>>]
      \/ from = [ops |-> <<rehearsed0, blocked0>>, accepts |-> <<>>]
      \/ from = [ops |-> <<deployed, rehearsed1, blocked1>>, accepts |-> <<1>>]
  BY DEF Beginnings
<1> HIDE DEF deployed, retired, rehearsed0, rehearsed1, rehearsed2, upgraded, blocked0, blocked1
<1>6. CASE from = [ops |-> <<rehearsed0>>, accepts |-> <<>>]
  BY <1>2, <1>6 DEF Settled0
<1>7. CASE from = [ops |-> <<deployed, rehearsed1>>, accepts |-> <<1>>]
  BY <1>2, <1>3, <1>7 DEF Settled0
<1>8. CASE from = [ops |-> <<deployed, retired, rehearsed2>>, accepts |-> <<1, 2>>]
  BY <1>2, <1>3, <1>8 DEF Settled0
<1>9. CASE from = [ops |-> <<deployed, rehearsed1, upgraded>>, accepts |-> <<1, 3>>]
  BY <1>2, <1>3, <1>9 DEF Settled0
<1>10. CASE from = [ops |-> <<rehearsed0, blocked0>>, accepts |-> <<>>]
  BY <1>2, <1>4, <1>10 DEF Settled0
<1>11. CASE from = [ops |-> <<deployed, rehearsed1, blocked1>>, accepts |-> <<1>>]
  BY <1>2, <1>3, <1>4, <1>11 DEF Settled0
<1> QED  BY <1>5, <1>6, <1>7, <1>8, <1>9, <1>10, <1>11

LEMMA InitHolds == ASSUME Init PROVE Inv
<1>1. PICK from \in Beginnings : Begin(from)  BY DEF Init
<1>2. Settled0(from.ops, from.accepts)  BY BeginningsAreSettled
<1> QED  BY <1>1, <1>2, BeginsWell DEF Init
-----------------------------------------------------------------------------
(***************************************************************************)
(* Every step.  An I/O error in a commit is taken to end the request, as   *)
(* it does for the kinds whose commit is outside execute()'s try block; a  *)
(* recovery or retirement whose commit fails half-way is answered a second *)
(* time, and the second answer may differ from the record of the first.    *)
(***************************************************************************)
CommitsOutsideTry == FailingCommits \cap {"recover", "retire"} = {}

LEMMA AdministratorKeeps == ASSUME Inv, Administrator PROVE Inv'
<1>1. ASSUME NEW kind \in Kinds, NEW rel \in Releases, NEW reh \in Ops \cup {0},
             Request(kind, rel, reh)
      PROVE  Inv'
  <2>1. reh \in Nat  BY DeploymentAssumption DEF Ops
  <2> QED  BY <1>1, <2>1, RequestKeeps
<1>2. ASSUME NEW rel \in Releases, Reject(rel) PROVE Inv'  BY <1>2, RejectKeeps
<1>3. ASSUME NEW reg \in Registrations,
             UpdateRegistration(reg) \/ ProposeSourceRename(reg) \/ EditPolicy(reg)
      PROVE  Inv'
  BY <1>3, UpdateRegistrationKeeps, EditPolicyKeeps
<1>4. CASE RotateCredential \/ EndSession  BY <1>4, AuthorityKeeps
<1> QED  BY <1>1, <1>2, <1>3, <1>4 DEF Administrator

LEMMA ReconcileKeeps == ASSUME Inv, NEW r \in Reconcilers, Reconcile(r) PROVE Inv'
BY ReconcileReadKeeps, ReconcilePublishKeeps, ReconcileSettleKeeps DEF Reconcile

LEMMA HelperKeeps == ASSUME CommitsOutsideTry, Inv, Helper PROVE Inv'
<1>1. CASE Pass \/ EndPass \/ (\E o \in Ops : Execute(o))
  BY <1>1, PassKeeps, StopsKeep, ExecuteKeeps
<1>2. CASE Rehearse \/ PublishHint \/ Admitted \/ AdmissionTimeout
  BY <1>2, RehearseKeeps, PublishHintKeeps, AdmittedKeeps, StopsKeep
<1>3. CASE PreSwitchBackup \/ Mark \/ Stop \/ Start \/ Probe \/ Archive \/ Attest
  BY <1>3, PreSwitchBackupKeeps, MarkKeeps, StopKeeps, StartKeeps, ProbeKeeps,
     ArchiveKeeps, AttestKeeps
<1>4. CASE Fallback \/ Recover \/ Restore  BY <1>4, FallbackKeeps, RecoverKeeps, RestoreKeeps
<1>5. CASE CommitJournal \/ CommitRecord \/ CommitSpool \/ CommitUnmark \/ CommitFails
  BY <1>5, CommitJournalKeeps, CommitRecordKeeps, CommitSpoolKeeps, CommitUnmarkKeeps,
     CommitFailsKeeps DEF CommitsOutsideTry
<1> QED  BY <1>1, <1>2, <1>3, <1>4, <1>5 DEF Helper

LEMMA NextKeeps == ASSUME CommitsOutsideTry, Inv, [Next]_vars PROVE Inv'
<1>1. CASE Administrator  BY <1>1, AdministratorKeeps
<1>2. CASE \E r \in Reconcilers : Reconcile(r)  BY <1>2, ReconcileKeeps
<1>3. CASE Helper  BY <1>3, HelperKeeps
<1>4. CASE Supervisor  BY <1>4, BootKeeps, BootStartKeeps DEF Supervisor
<1>5. CASE Environment
  BY <1>5, ContainerExitsKeeps, StopsKeep, HostRestartsKeeps, GatewayKeeps DEF Environment
<1>6. CASE UNCHANGED vars
  BY <1>6 DEF Inv, TypeOK, Disk, Reconciling, vars
<1> QED  BY <1>1, <1>2, <1>3, <1>4, <1>5, <1>6 DEF Next

LEMMA InvHolds == ASSUME CommitsOutsideTry PROVE Spec => []Inv
<1>1. Init => Inv  BY InitHolds
<1>2. Inv /\ [Next]_vars => Inv'  BY NextKeeps
<1> QED  BY <1>1, <1>2, PTL DEF Spec
-----------------------------------------------------------------------------
(***************************************************************************)
(* What is promised.                                                       *)
(***************************************************************************)
LEMMA InvServes == ASSUME Inv PROVE GatewayServesAccepted
<1> SUFFICES ASSUME Admits(core), Up
    PROVE  IsOf(host.container, Accepted(core))
  BY DEF GatewayServesAccepted, IsOf
<1>1. host.container # None /\ host.container.up  BY DEF Up
<1>2. \A o \in InState(core, {"switching", "blocked"}) : core.ops[o].kind = "rehearse"
  BY DEF Admits
<1> QED  BY <1>1, <1>2 DEF Inv, Serving, Switches

LEMMA InvAgrees == ASSUME Inv PROVE HistoriesAgree
<1>1. core \in Databases  BY DEF Inv, TypeOK
<1>2. /\ Numbered(core) /\ Current(core, journal, spool.receipts) /\ OneAtATime(core)
      /\ Shared(journal, spool.receipts, host)
  BY DEF Inv, Disk, Durable
<1>3. HistoryIsContiguous  BY <1>2 DEF Numbered, HistoryIsContiguous
<1>4. SpoolCopiesJournal  BY <1>2 DEF Shared, SpoolCopiesJournal
<1>5. JournalLeadsByOne
  <2>1. CASE journal.current = Accepted(core)  BY <2>1 DEF JournalLeadsByOne
  <2>2. CASE journal.current # Accepted(core)
    <3>1. PICK o \in Pending(core) \cap DOMAIN journal.receipts :
              journal.receipts[o].snap # None /\ journal.current = journal.receipts[o].snap
      BY <1>2, <2>2 DEF Current
    <3>2. Sound(core, o, journal.receipts[o])  BY <1>2 DEF Current
    <3>3. journal.receipts[o].state = "succeeded"
          /\ journal.current.gen = core.ops[o].sel.gen + 1
      BY <3>1, <3>2 DEF Sound
    <3>4. core.ops[o].sel.gen = Len(core.hist)  BY <1>2 DEF OneAtATime
    <3>5. Generation(Accepted(core)) = Len(core.hist)  BY <1>1, <1>2, AcceptedFacts
    <3>6. Generation(journal.current) = Generation(Accepted(core)) + 1
      BY <3>1, <3>3, <3>4, <3>5 DEF Generation
    <3> QED  BY <3>1, <3>3, <3>6 DEF JournalLeadsByOne
  <2> QED  BY <2>1, <2>2
<1> QED  BY <1>3, <1>4, <1>5 DEF HistoriesAgree

LEMMA InvMatches == ASSUME Inv PROVE HostMatchesAccepted
<1>1. Fitted(core, journal, host) /\ BootFits(core)  BY DEF Inv, Disk, Durable
<1>2. InState(core, {"queued", "switching", "blocked"}) = {} => HostFits(host, Accepted(core))
  BY <1>1 DEF Fitted, Pending, Blocked, InState
<1>3. RetiredStaysDown
  BY <1>2 DEF RetiredStaysDown, HostFits, IsRetired, IsRunning
<1>4. InstalledIsKept  BY <1>2 DEF InstalledIsKept, HostFits, IsOf
<1>5. BootAuthorityIsAccepted  BY <1>1 DEF BootAuthorityIsAccepted, BootFits
<1> QED  BY <1>3, <1>4, <1>5 DEF HostMatchesAccepted

LEMMA InvAdmitted == ASSUME Inv PROVE SwitchIsAdmitted
BY DEF Inv, Helping, Executing, SwitchIsAdmitted, Early, Admitting

LEMMA InvBackedUp == ASSUME Inv PROVE BackupBeforeSwitch
BY DEF Inv, Disk, Durable, Labelled, BackedUp, Switches, BackupBeforeSwitch

LEMMA InvPrepared == ASSUME Inv PROVE SwitchIsPrepared
BY InvAdmitted, InvBackedUp DEF SwitchIsPrepared

\* The gateway admits a request only while the container that is up, if one is,
\* was started from the operation, release and registration accepted last
\* (admission_refusal, execute, recover, boot).
THEOREM GatewayServesAcceptedHolds ==
    ASSUME CommitsOutsideTry PROVE Spec => []GatewayServesAccepted
BY InvHolds, InvServes, PTL

\* The core's history, the journal's installation and the spool's receipts
\* agree after every crash, failed write and lost commit, and whichever
\* reconcilers race on a receipt (reconcile_operation, accepted_row, commit).
THEOREM HistoriesAgreeHolds ==
    ASSUME CommitsOutsideTry PROVE Spec => []HistoriesAgree
BY InvHolds, InvAgrees, PTL

\* Between operations the host has what the accepted generation says and
\* nothing else, and a boot compares it with that generation (lifecycle,
\* retire, tear_down, restore_previous, boot).
THEOREM HostMatchesAcceptedHolds ==
    ASSUME CommitsOutsideTry PROVE Spec => []HostMatchesAccepted
BY InvHolds, InvMatches, PTL

\* From the backup to the attestation the core holds the operation switching,
\* whatever the reconcilers and a power loss do meanwhile, and a marked switch
\* of an installed generation has its own backup, also after the helper died
\* between any two steps (admitted, pre_switch_backup, execute).
THEOREM SwitchIsPreparedHolds ==
    ASSUME CommitsOutsideTry PROVE Spec => []SwitchIsPrepared
BY InvHolds, InvPrepared, PTL
-----------------------------------------------------------------------------
(***************************************************************************)
(* The book of a database.                                                 *)
(***************************************************************************)
Entries == [kind : AnyKind,
            stage : {"queued", "switching", "succeeded", "failed", "blocked", "recovered"},
            target : Nat]
Notes == [op : Nat, retired : BOOLEAN]

LEMMA ReportedIs ==
    /\ \A snap \in Snapshots :
          Reported(snap) = [op |-> snap.op, retired |-> snap.retired] /\ Reported(snap) \in Notes
    /\ Reported(None) = [op |-> 0, retired |-> TRUE]
    /\ \A snap \in Snapshots \cup {None} :
          Reported(snap).retired <=> ~IsRunning(snap)
BY SnapshotIsSomething DEF Reported, Snapshots, Notes, IsRunning

LEMMA SameSequence ==
    ASSUME NEW S, NEW a \in Seq(S), NEW b \in Seq(S), NEW n \in Nat,
           Len(a) = n, Len(b) = n, \A i \in 1 .. n : a[i] = b[i]
    PROVE  a = b
OBVIOUS

LEMMA BookRows ==
    ASSUME NEW c
    PROVE  /\ DOMAIN Book(c).ops = DOMAIN c.ops
           /\ \A o \in DOMAIN c.ops : Book(c).ops[o] = OpEntry(c, o)
BY DEF Book

LEMMA BookOps ==
    ASSUME NEW c \in Databases
    PROVE  Book(c).ops \in Seq(Entries) /\ Len(Book(c).ops) = Len(c.ops)
<1>1. c.ops \in Seq(Operations)  BY DEF Databases
<1>2. \A o \in DOMAIN c.ops : OpEntry(c, o) \in Entries
  <2> TAKE o \in DOMAIN c.ops
  <2>1. o \in Nat /\ c.ops[o] \in Operations  BY OperationType
  <2> QED  BY <2>1 DEF OpEntry, Entries, Operations
<1>3. Book(c).ops = [o \in DOMAIN c.ops |-> OpEntry(c, o)]  BY DEF Book
<1>4. Book(c).ops \in Seq(Entries)  BY <1>1, <1>2, <1>3
<1>5. Len(Book(c).ops) = Len(c.ops)  BY <1>1, <1>3, <1>4
<1> QED  BY <1>4, <1>5

LEMMA BookStages ==
    ASSUME NEW c, NEW stages
    PROVE  Promised!InStage(Book(c), stages) = InState(c, stages)
<1>1. \A o \in DOMAIN c.ops : OpEntry(c, o).stage = c.ops[o].state  BY DEF OpEntry
<1> QED  BY <1>1, BookRows DEF Promised!InStage, InState

LEMMA BookHist ==
    ASSUME NEW c \in Databases
    PROVE  /\ Book(c).hist \in Seq(Notes) /\ Len(Book(c).hist) = Len(c.hist)
           /\ DOMAIN Book(c).hist = DOMAIN c.hist
           /\ \A i \in DOMAIN c.hist : Book(c).hist[i] = Reported(c.hist[i])
           /\ Promised!Latest(Book(c)) = Reported(Accepted(c))
<1>1. c.hist \in Seq(Snapshots)  BY DEF Databases
<1>2. \A i \in DOMAIN c.hist : c.hist[i] \in Snapshots /\ Reported(c.hist[i]) \in Notes
  BY <1>1, ReportedIs
<1>3. Book(c).hist = [i \in DOMAIN c.hist |-> Reported(c.hist[i])]  BY DEF Book
<1>4. Book(c).hist \in Seq(Notes)  BY <1>1, <1>2, <1>3
<1>5. Len(Book(c).hist) = Len(c.hist)  BY <1>1, <1>3, <1>4
<1>6. Promised!Latest(Book(c)) = Reported(Accepted(c))
  <2>1. CASE c.hist = <<>>
    <3>1. Book(c).hist = <<>>  BY <1>4, <1>5, <2>1
    <3> QED  BY <2>1, <3>1, ReportedIs DEF Promised!Latest, Promised!Nothing, Accepted
  <2>2. CASE c.hist # <<>>
    <3>1. Book(c).hist # <<>>  BY <1>1, <1>4, <1>5, <2>2
    <3>2. Len(c.hist) \in DOMAIN c.hist  BY <1>1, <2>2
    <3> QED  BY <1>3, <1>5, <2>2, <3>1, <3>2 DEF Promised!Latest, Accepted
  <2> QED  BY <2>1, <2>2
<1> QED  BY <1>3, <1>4, <1>5, <1>6

\* A book is the same if the operations and the history are.
LEMMA SameBook ==
    ASSUME NEW c, NEW d, d.ops = c.ops, d.hist = c.hist PROVE Book(d) = Book(c)
BY DEF Book, OpEntry

LEMMA BookServes ==
    ASSUME NEW c \in Databases, NEW h, Serving(c, h), Admits(c),
           h.container # None, h.container.up
    PROVE  h.container.op \in Promised!MayServe(Book(c))
<1>1. \A o \in InState(c, {"switching", "blocked"}) : c.ops[o].kind = "rehearse"
  BY DEF Admits
<1>2. IsRunning(Accepted(c)) /\ h.container.op = Accepted(c).op
  BY <1>1 DEF Serving, Switches, IsOf
<1>3. Promised!Undecided(Book(c)) = {}
  <2>1. \A o \in InState(c, {"switching", "blocked"}) :
           o \in DOMAIN c.ops /\ Book(c).ops[o].kind = "rehearse"
    <3>1. \A o \in DOMAIN c.ops : OpEntry(c, o).kind = c.ops[o].kind  BY DEF OpEntry
    <3> QED  BY <1>1, <3>1, BookRows DEF InState
  <2> QED  BY <2>1, BookStages DEF Promised!Undecided
<1>4. Promised!Latest(Book(c)) = Reported(Accepted(c))  BY BookHist
<1>5. Accepted(c) \in Snapshots  BY <1>2, AcceptedType DEF IsRunning
<1>6. Reported(Accepted(c)).op = Accepted(c).op /\ ~Reported(Accepted(c)).retired
  BY <1>2, <1>5, ReportedIs
<1> QED  BY <1>2, <1>3, <1>4, <1>6 DEF Promised!MayServe

(***************************************************************************)
(* Entries.                                                                *)
(***************************************************************************)
LEMMA ApproveEnters ==
    ASSUME NEW c \in Databases, NEW d \in Databases, Approves(c, d, Len(c.ops) + 1)
    PROVE  Promised!Approve(Book(c), Book(d))
<1> DEFINE n == Len(c.ops) + 1
           kind == d.ops[n].kind
           target == IF kind = "recover" THEN d.ops[n].recovers ELSE n
           entry == [kind |-> kind, stage |-> "queued", target |-> target]
<1>1. c.ops \in Seq(Operations) /\ d.ops \in Seq(Operations)  BY DEF Databases
<1>2. n \in DOMAIN d.ops /\ DOMAIN d.ops = DOMAIN c.ops \cup {n}  BY DEF Approves
<1>3. kind \in AnyKind  BY <1>2, OperationType DEF Operations
<1>4. OpEntry(d, n) = entry  BY DEF Approves, OpEntry
<1>5. \A o \in DOMAIN c.ops : OpEntry(d, o) = OpEntry(c, o)  BY DEF Approves, OpEntry
<1>6. Book(d).ops \in Seq(Entries) /\ Book(c).ops \in Seq(Entries)
      /\ Len(Book(c).ops) = Len(c.ops) /\ Len(Book(d).ops) = Len(d.ops)
  BY BookOps
<1>7. Len(d.ops) = Len(c.ops) + 1
  <2>1. 1 .. Len(d.ops) = 1 .. Len(c.ops) \cup {n}
    <3>1. DOMAIN c.ops = 1 .. Len(c.ops) /\ DOMAIN d.ops = 1 .. Len(d.ops)  BY <1>1
    <3> HIDE DEF n
    <3> QED  BY <1>2, <3>1
  <2>2. Len(c.ops) \in Nat /\ Len(d.ops) \in Nat  BY <1>1
  <2>3. n <= Len(d.ops) /\ n + 1 \notin 1 .. Len(d.ops)  BY <2>1, <2>2
  <2> QED  BY <2>2, <2>3
<1> HIDE DEF entry
<1>8. Book(d).ops = Append(Book(c).ops, entry)
  <2>1. entry \in Entries
    <3>1. d.ops[n] \in Operations /\ n \in Nat  BY <1>2, OperationType
    <3>2. OpEntry(d, n) \in Entries  BY <3>1 DEF OpEntry, Entries, Operations
    <3> QED  BY <1>4, <3>2
  <2>2. \A o \in DOMAIN c.ops : Book(d).ops[o] = Book(c).ops[o]
    BY <1>2, <1>5, BookRows
  <2>3. Book(d).ops[n] = entry  BY <1>2, <1>4, BookRows
  <2>4. Append(Book(c).ops, entry) \in Seq(Entries)
        /\ Len(Append(Book(c).ops, entry)) = n
        /\ Append(Book(c).ops, entry)[n] = entry
        /\ \A o \in 1 .. Len(c.ops) : Append(Book(c).ops, entry)[o] = Book(c).ops[o]
    BY <1>6, <2>1
  <2>5. DOMAIN c.ops = 1 .. Len(c.ops)  BY <1>1
  <2>6. \A o \in 1 .. n : Book(d).ops[o] = Append(Book(c).ops, entry)[o]
    BY <1>1, <2>2, <2>3, <2>4, <2>5
  <2> QED  BY <1>6, <1>7, <2>4, <2>6
<1>9. Book(d).hist = Book(c).hist  BY DEF Approves, Book
<1>10. Book(d) = [ops |-> Append(Book(c).ops, entry), hist |-> Book(c).hist]
  <2>1. Book(d) = [ops |-> Book(d).ops, hist |-> Book(d).hist]  BY DEF Book
  <2> QED  BY <1>8, <1>9, <2>1
<1>11. Promised!Open(Book(c)) = {}  BY BookStages DEF Approves, Promised!Open, Pending
<1>12. Promised!InStage(Book(c), {"blocked"}) = Blocked(c)  BY BookStages DEF Blocked
<1>13. target \in IF kind = "recover" THEN Promised!InStage(Book(c), {"blocked"})
                  ELSE IF Promised!InStage(Book(c), {"blocked"}) = {}
                       THEN {Len(Book(c).ops) + 1} ELSE {}
  BY <1>6, <1>12 DEF Approves
<1> HIDE DEF kind, target
<1>14. kind \in {"rehearse", "deploy", "rollback", "recover", "retire"}  BY <1>3 DEF AnyKind
<1> QED  BY <1>10, <1>11, <1>13, <1>14 DEF Promised!Approve, entry

LEMMA SwitchEnters ==
    ASSUME NEW c \in Databases, NEW o \in DOMAIN c.ops, c.ops[o].state = "queued",
           NEW d, d = [c EXCEPT !.ops[o].state = "switching"]
    PROVE  Promised!Switch(Book(c), Book(d))
<1>1. c.ops[o] \in Operations  BY OperationType
<1>2. d.hist = c.hist /\ d.ops = [c.ops EXCEPT ![o] = [c.ops[o] EXCEPT !.state = "switching"]]
  BY DEF Databases
<1>3. DOMAIN d.ops = DOMAIN c.ops  BY <1>2
<1>4. \A p \in DOMAIN c.ops : p # o => OpEntry(d, p) = OpEntry(c, p)
  BY <1>2 DEF OpEntry
<1>5. OpEntry(d, o) = [OpEntry(c, o) EXCEPT !.stage = "switching"]
  BY <1>1, <1>2 DEF OpEntry, Operations
<1>6. Book(d).ops = [Book(c).ops EXCEPT ![o].stage = "switching"]
  BY <1>3, <1>4, <1>5 DEF Book
<1>7. Book(d) = [ops |-> Book(d).ops, hist |-> Book(c).hist]  BY <1>2 DEF Book
<1>8. o \in Promised!InStage(Book(c), {"queued"})  BY BookStages DEF InState
<1> QED  BY <1>6, <1>7, <1>8 DEF Promised!Switch

Target(c, o) == IF c.ops[o].kind = "recover" THEN c.ops[o].recovers ELSE o

LEMMA Restaged ==
    ASSUME NEW c \in Databases, NEW d \in Databases, NEW o \in DOMAIN c.ops, NEW s, NEW t,
           DOMAIN d.ops = DOMAIN c.ops, d.ops[o].state = s,
           \A p \in DOMAIN c.ops :
              d.ops[p].kind = c.ops[p].kind /\ d.ops[p].recovers = c.ops[p].recovers,
           \A p \in DOMAIN c.ops : p # o =>
              d.ops[p].state = IF p = Target(c, o) THEN t ELSE c.ops[p].state
    PROVE  Book(d).ops = Promised!Restage(Book(c), o, s, t)
<1>1. Book(c).ops[o].target = Target(c, o)
  <2>1. OpEntry(c, o).target = Target(c, o)  BY DEF OpEntry, Target
  <2> QED  BY <2>1, BookRows
<1>2. \A p \in DOMAIN c.ops :
         OpEntry(d, p) = [OpEntry(c, p) EXCEPT !.stage = d.ops[p].state]
  BY DEF OpEntry
<1>3. \A p \in DOMAIN c.ops : [OpEntry(c, p) EXCEPT !.stage = c.ops[p].state] = OpEntry(c, p)
  BY DEF OpEntry
<1> DEFINE row(p) == IF p = o THEN [Book(c).ops[p] EXCEPT !.stage = s]
                     ELSE IF p = Target(c, o) THEN [Book(c).ops[p] EXCEPT !.stage = t]
                     ELSE Book(c).ops[p]
<1>4. \A p \in DOMAIN c.ops : OpEntry(d, p) = row(p)  BY <1>2, <1>3, BookRows
<1>5. Promised!Restage(Book(c), o, s, t) = [p \in DOMAIN c.ops |-> row(p)]
  BY <1>1, BookRows DEF Promised!Restage
<1>6. Book(d).ops = [p \in DOMAIN c.ops |-> OpEntry(d, p)]  BY DEF Book
<1> HIDE DEF row
<1> QED  BY <1>4, <1>5, <1>6

\* What a receipt says of the operation that its recovery recovered.
LEMMA SettledTarget ==
    ASSUME NEW c \in Databases, NEW o, NEW rcpt, c.ops[o].kind = "recover",
           rcpt.state = "succeeded", rcpt.snap = None,
           NEW p \in DOMAIN c.ops, p # o, p = c.ops[o].recovers
    PROVE  Settled(c, o, rcpt).ops[p].state =
              IF IsRunning(Accepted(c)) THEN "recovered" ELSE "failed"
<1> DEFINE result == Resolution([c EXCEPT !.hist = c.hist], rcpt)
<1>1. ~Appends(c, o, rcpt)  BY DEF Appends
<1>2. [c EXCEPT !.hist = c.hist].hist = c.hist  BY DEF Databases
<1>3. result = IF IsRunning(Accepted(c)) THEN "recovered" ELSE "failed"
  BY <1>2 DEF Resolution, Accepted
<1> HIDE DEF result
<1>4. Settled(c, o, rcpt).ops[p] = [c.ops[p] EXCEPT !.state = result]
  BY <1>1 DEF Settled, Databases, result
<1>5. c.ops[p] \in Operations  BY OperationType
<1> QED  BY <1>3, <1>4, <1>5 DEF Operations

\* A receipt the core consumes, with what the journal says of it.
Consumes(c, d, j, s, o, rcpt) ==
    /\ o \in Pending(c) /\ o \in DOMAIN s
    /\ Sound(c, o, rcpt) /\ ~Refuses(c, o, rcpt)
    /\ o \in DOMAIN j.receipts /\ rcpt.snap = j.receipts[o].snap
    /\ d = Settled(c, o, rcpt)

LEMMA AcceptEnters ==
    ASSUME NEW c \in Databases, NEW d \in Databases, NEW s, NEW h, NEW o, NEW rcpt,
           Durable(c, journal, s, h), Consumes(c, d, journal, s, o, rcpt), rcpt.snap # None
    PROVE  Promised!Accept(Book(c), Book(d))
<1>1. /\ o \in Pending(c) /\ o \in DOMAIN s /\ Sound(c, o, rcpt) /\ ~Refuses(c, o, rcpt)
      /\ o \in DOMAIN journal.receipts /\ rcpt.snap = journal.receipts[o].snap
  BY DEF Consumes
<1>2. o \in DOMAIN c.ops /\ c.ops[o] \in Operations  BY <1>1, AboutPending, OperationType
<1>3. Settles(c, d, o, rcpt)  BY <1>1, SettledSettles DEF Consumes
<1>4. rcpt.state = "succeeded" /\ c.ops[o].kind # "rehearse" /\ rcpt.snap \in Snapshots
  BY <1>1 DEF Sound, Receipts
<1>5. rcpt.snap.op = Target(c, o) /\ (rcpt.snap.retired <=> c.ops[o].kind = "retire")
  BY <1>1 DEF Sound, Target
<1>6. c.ops[o].state = "switching"  BY <1>1, <1>4 DEF Refuses
<1>7. journal.current = rcpt.snap  BY <1>1 DEF Durable, Current
<1> DEFINE note == [op |-> Target(c, o), retired |-> c.ops[o].kind = "retire"]
<1>8. Reported(journal.current) = note
  <2>1. Reported(rcpt.snap) = [op |-> rcpt.snap.op, retired |-> rcpt.snap.retired]
    BY <1>4, ReportedIs
  <2>2. rcpt.snap.retired = (c.ops[o].kind = "retire")  BY <1>4, <1>5 DEF Snapshots
  <2> QED  BY <1>5, <1>7, <2>1, <2>2
<1> HIDE DEF note
<1>9. Book(d).ops = Promised!Restage(Book(c), o, "succeeded", "succeeded")
  <2>1. DOMAIN d.ops = DOMAIN c.ops /\ d.ops[o].state = "succeeded"
    BY <1>3, <1>4 DEF Settles
  <2>2. \A p \in DOMAIN c.ops :
           d.ops[p].kind = c.ops[p].kind /\ d.ops[p].recovers = c.ops[p].recovers
    BY <1>3 DEF Settles
  <2>3. \A p \in DOMAIN c.ops : p # o =>
           d.ops[p].state = IF p = Target(c, o) THEN "succeeded" ELSE c.ops[p].state
    BY <1>3, <1>4 DEF Settles, Target
  <2> QED  BY <1>2, <2>1, <2>2, <2>3, Restaged
<1>10. Book(d).hist = Append(Book(c).hist, Reported(journal.current))
  <2> DEFINE rep == Reported(rcpt.snap)
             longer == Append(Book(c).hist, rep)
  <2>1. d.hist = Append(c.hist, rcpt.snap) /\ c.hist \in Seq(Snapshots)
    BY <1>3 DEF Settles, Databases
  <2>2. rep \in Notes  BY <1>4, ReportedIs
  <2>3. /\ Book(c).hist \in Seq(Notes) /\ Len(Book(c).hist) = Len(c.hist)
        /\ DOMAIN Book(c).hist = DOMAIN c.hist
        /\ \A i \in DOMAIN c.hist : Book(c).hist[i] = Reported(c.hist[i])
        /\ Promised!Latest(Book(c)) = Reported(Accepted(c))
    BY BookHist
  <2>4. /\ Book(d).hist \in Seq(Notes) /\ Len(Book(d).hist) = Len(d.hist)
        /\ DOMAIN Book(d).hist = DOMAIN d.hist
        /\ \A i \in DOMAIN d.hist : Book(d).hist[i] = Reported(d.hist[i])
        /\ Promised!Latest(Book(d)) = Reported(Accepted(d))
    BY BookHist
  <2>5. /\ Len(d.hist) = Len(c.hist) + 1 /\ d.hist[Len(c.hist) + 1] = rcpt.snap
        /\ \A i \in 1 .. Len(c.hist) : d.hist[i] = c.hist[i]
        /\ DOMAIN c.hist = 1 .. Len(c.hist) /\ DOMAIN d.hist = 1 .. (Len(c.hist) + 1)
        /\ Len(c.hist) \in Nat
    BY <1>4, <2>1
  <2>6. /\ longer \in Seq(Notes) /\ Len(longer) = Len(c.hist) + 1
        /\ longer[Len(c.hist) + 1] = rep
        /\ \A i \in 1 .. Len(c.hist) : longer[i] = Book(c).hist[i]
    BY <2>2, <2>3
  <2> HIDE DEF longer, rep
  <2>7. \A i \in 1 .. (Len(c.hist) + 1) : Book(d).hist[i] = longer[i]
    <3> TAKE i \in 1 .. (Len(c.hist) + 1)
    <3>1. CASE i = Len(c.hist) + 1  BY <2>4, <2>5, <2>6, <3>1 DEF rep
    <3>2. CASE i \in 1 .. Len(c.hist)  BY <2>3, <2>4, <2>5, <2>6, <3>2
    <3> QED  BY <2>5, <3>1, <3>2
  <2>8. Book(d).hist = longer
    <3>1. Book(d).hist \in Seq(Notes) /\ Len(Book(d).hist) = Len(c.hist) + 1
      BY <2>4, <2>5
    <3>2. Len(c.hist) + 1 \in Nat  BY <2>5
    <3> QED  BY <2>6, <2>7, <3>1, <3>2, SameSequence
  <2> QED  BY <1>7, <2>8 DEF longer, rep
<1>11. Book(d) = [ops |-> Book(d).ops, hist |-> Book(d).hist]  BY DEF Book
<1>12. o \in Promised!InStage(Book(c), {"switching"})  BY <1>2, <1>6, BookStages DEF InState
<1>13. Book(c).ops[o].kind = c.ops[o].kind /\ Book(c).ops[o].target = Target(c, o)
  <2>1. OpEntry(c, o).kind = c.ops[o].kind /\ OpEntry(c, o).target = Target(c, o)
    BY DEF OpEntry, Target
  <2> QED  BY <1>2, <2>1, BookRows
<1> QED  BY <1>4, <1>8, <1>9, <1>10, <1>11, <1>12, <1>13 DEF Promised!Accept, note

LEMMA ConcludeEnters ==
    ASSUME NEW c \in Databases, NEW d \in Databases, NEW s, NEW h, NEW o, NEW rcpt,
           Durable(c, journal, s, h), Consumes(c, d, journal, s, o, rcpt), rcpt.snap = None
    PROVE  Promised!Conclude(Book(c), Book(d))
<1>1. /\ o \in Pending(c) /\ o \in DOMAIN s /\ Sound(c, o, rcpt) /\ ~Refuses(c, o, rcpt)
      /\ o \in DOMAIN journal.receipts /\ rcpt.snap = journal.receipts[o].snap
  BY DEF Consumes
<1>2. o \in DOMAIN c.ops /\ c.ops[o] \in Operations  BY <1>1, AboutPending, OperationType
<1>3. Settles(c, d, o, rcpt)  BY <1>1, SettledSettles DEF Consumes
<1>4. rcpt.state \in {"succeeded", "failed", "blocked", "recovered"}
  BY <1>1 DEF Sound, Receipts
<1> DEFINE kind == c.ops[o].kind
           back == kind = "recover" /\ rcpt.state = "succeeded"
           result == IF ~back THEN "blocked"
                     ELSE IF Promised!Latest(Book(c)).retired THEN "failed" ELSE "recovered"
<1>5. journal.current = Accepted(c)
  BY <1>1 DEF Durable, Current, OneAtATime
<1>6. Promised!Latest(Book(c)) = Reported(journal.current)
  <2>1. Promised!Latest(Book(c)) = Reported(Accepted(c))  BY BookHist
  <2> QED  BY <1>5, <2>1
<1>7. /\ kind \in {"rehearse", "recover"} => rcpt.state \in {"succeeded", "failed"}
      /\ kind \notin {"rehearse", "recover"} => rcpt.state # "succeeded"
      /\ back => c.ops[o].state = "switching"
  BY <1>1, <1>2 DEF Sound, Refuses, Marked, Operations, AnyKind
<1>8. kind = "recover" => c.ops[o].recovers \in Blocked(c)
  BY <1>1 DEF Durable, OneAtATime
<1>9. kind = "recover" =>
         /\ c.ops[o].recovers # o /\ c.ops[o].recovers \in DOMAIN c.ops
         /\ c.ops[c.ops[o].recovers].state = "blocked"
  BY <1>1, <1>8, AboutPending
<1>10. back => d.ops[c.ops[o].recovers].state = result
  <2> SUFFICES ASSUME back PROVE d.ops[c.ops[o].recovers].state = result
    OBVIOUS
  <2>1. d.ops[c.ops[o].recovers].state =
           IF IsRunning(Accepted(c)) THEN "recovered" ELSE "failed"
    BY <1>9, SettledTarget DEF Consumes
  <2>2. Promised!Latest(Book(c)).retired <=> ~IsRunning(Accepted(c))
    BY <1>5, <1>6, AcceptedType, ReportedIs
  <2> QED  BY <2>1, <2>2
<1>11. ~back /\ kind = "recover" => result = "blocked"  OBVIOUS
<1> HIDE DEF result
<1>12. Book(d).ops = Promised!Restage(Book(c), o, rcpt.state, result)
  <2>1. DOMAIN d.ops = DOMAIN c.ops /\ d.ops[o].state = rcpt.state
    BY <1>3 DEF Settles
  <2>2. \A p \in DOMAIN c.ops :
           d.ops[p].kind = c.ops[p].kind /\ d.ops[p].recovers = c.ops[p].recovers
    BY <1>3 DEF Settles
  <2>3. ASSUME NEW p \in DOMAIN c.ops, p # o
        PROVE  d.ops[p].state = IF p = Target(c, o) THEN result ELSE c.ops[p].state
    <3>1. CASE back /\ p = c.ops[o].recovers  BY <1>10, <3>1 DEF Target
    <3>2. CASE ~(back /\ p = c.ops[o].recovers)
      <4>1. d.ops[p].state = c.ops[p].state  BY <1>3, <2>3, <3>2 DEF Settles
      <4> QED  BY <1>9, <1>11, <2>3, <3>2, <4>1 DEF Target
    <3> QED  BY <3>1, <3>2
  <2> QED  BY <1>2, <2>1, <2>2, <2>3, Restaged
<1>13. Book(d).hist = Book(c).hist  BY <1>3 DEF Settles, Book
<1>14. Book(d) = [ops |-> Book(d).ops, hist |-> Book(d).hist]  BY DEF Book
<1>15. /\ o \in Promised!Open(Book(c))
       /\ kind = "recover" => c.ops[o].recovers \in Promised!InStage(Book(c), {"blocked"})
  BY <1>1, <1>8, BookStages DEF Promised!Open, Pending, Blocked
<1>16. /\ Book(c).ops[o].kind = kind /\ Book(c).ops[o].stage = c.ops[o].state
       /\ kind = "recover" => Book(c).ops[o].target = c.ops[o].recovers
  <2>1. /\ OpEntry(c, o).kind = kind /\ OpEntry(c, o).stage = c.ops[o].state
        /\ kind = "recover" => OpEntry(c, o).target = c.ops[o].recovers
    BY DEF OpEntry
  <2> QED  BY <1>2, <2>1, BookRows
<1> QED  BY <1>4, <1>6, <1>7, <1>12, <1>13, <1>14, <1>15, <1>16
         DEF Promised!Conclude, result


LEMMA SettleConsumes ==
    ASSUME Inv, NEW r \in Reconcilers, ReconcileSettle(r), ~UNCHANGED <<core, undo>>
    PROVE  \E o, rcpt :
              /\ Consumes(core, core', journal, spool.receipts, o, rcpt)
              /\ core' \in Databases /\ undo' \in {core, core'}
<1> DEFINE o == rec[r].op
           b == spool.receipts[o]
           rcpt == Consumed(core, o, b)
           d == Settled(core, o, rcpt)
<1>1. o \in DOMAIN spool.receipts  BY DEF ReconcileSettle, Inv, Reconciling
<1>2. o \in Pending(core) /\ ~Refuses(core, o, rcpt) /\ Commit(d)
  BY DEF ReconcileSettle
<1>3. core' = d /\ undo' \in {core, d}  BY <1>2 DEF Commit
<1>4. core \in Databases /\ Durable(core, journal, spool.receipts, host)
      /\ o \in DOMAIN journal.receipts /\ journal.receipts[o] = b
  BY <1>1 DEF Inv, TypeOK, Disk, Shared
<1>5. Sound(core, o, b)  BY <1>2, <1>4 DEF Durable, Current
<1>6. Sound(core, o, rcpt) /\ rcpt.snap = b.snap  BY <1>5, ConsumedIsSound
<1> HIDE DEF rcpt, b, o
<1>7. d \in Databases  BY <1>2, <1>4, <1>6, SettledType
<1>8. Consumes(core, d, journal, spool.receipts, o, rcpt)
  BY <1>1, <1>2, <1>4, <1>6 DEF Consumes
<1> HIDE DEF d
<1> QED  BY <1>3, <1>7, <1>8

(***************************************************************************)
(* Each step is one of the promised installation.                          *)
(***************************************************************************)
LEMMA ServeMoves ==
    ASSUME UNCHANGED <<core, undo>>, journal'.current = journal.current
    PROVE  Promised!Serve
BY DEF Promised!Serve

LEMMA KeepMoves ==
    ASSUME NEW d, Keep(d), d.ops = core.ops, d.hist = core.hist, UNCHANGED journal
    PROVE  Promised!Keep
<1>1. Book(d) = Book(core)  BY SameBook
<1> QED  BY <1>1 DEF Keep, Promised!Keep

LEMMA RequestMoves ==
    ASSUME Inv, NEW kind, NEW rel \in Releases, NEW rehearsal \in Nat,
           Request(kind, rel, rehearsal)
    PROVE  Promised!Enter
<1>1. core' \in Databases /\ undo' = core' /\ Approves(core, core', Len(core.ops) + 1)
  BY RequestApproves
<1>2. core \in Databases  BY DEF Inv, TypeOK
<1>3. Promised!Approve(Book(core), Book(core'))  BY <1>1, <1>2, ApproveEnters
<1>4. UNCHANGED journal  BY DEF Request
<1> QED  BY <1>1, <1>3, <1>4 DEF Promised!Enter

LEMMA SettingsMove ==
    ASSUME Inv, \/ \E rel \in Releases : Reject(rel)
                \/ \E reg \in Registrations :
                      UpdateRegistration(reg) \/ ProposeSourceRename(reg) \/ EditPolicy(reg)
                \/ RotateCredential \/ EndSession
    PROVE  Promised!Keep \/ Promised!Serve
<1>1. core \in Databases  BY DEF Inv, TypeOK
<1>2. ASSUME NEW rel \in Releases, Reject(rel) PROVE Promised!Keep
  <2> DEFINE d == [core EXCEPT
                    !.change = IF PendingChange(core) THEN [@ EXCEPT !.rejected = TRUE] ELSE @,
                    !.rejected = IF IsRunning(Accepted(core)) /\ Accepted(core).sel.rel = rel
                                 THEN @ ELSE @ \cup {rel}]
  <2>1. Keep(d) /\ UNCHANGED journal  BY <1>2 DEF Reject
  <2>2. d.ops = core.ops /\ d.hist = core.hist  BY <1>1 DEF Databases
  <2> HIDE DEF d
  <2> QED  BY <2>1, <2>2, KeepMoves
<1>3. ASSUME NEW reg \in Registrations, Propose(reg), UNCHANGED journal PROVE Promised!Keep
  <2> DEFINE d == [core EXCEPT !.change =
                     [base |-> Accepted(core).gen, reg |-> reg, rejected |-> FALSE]]
  <2>1. Keep(d)  BY <1>3 DEF Propose
  <2>2. d.ops = core.ops /\ d.hist = core.hist  BY <1>1 DEF Databases
  <2> HIDE DEF d
  <2> QED  BY <1>3, <2>1, <2>2, KeepMoves
<1>4. ASSUME NEW reg \in Registrations, UpdateRegistration(reg) PROVE Promised!Keep
  <2> DEFINE d == [core EXCEPT !.registered = reg]
  <2>1. UNCHANGED journal /\ (Propose(reg) \/ Keep(d))  BY <1>4 DEF UpdateRegistration
  <2>2. d.ops = core.ops /\ d.hist = core.hist  BY <1>1 DEF Databases
  <2> HIDE DEF d
  <2> QED  BY <1>3, <2>1, <2>2, KeepMoves
<1>5. ASSUME NEW reg \in Registrations, ProposeSourceRename(reg) PROVE Promised!Keep
  BY <1>3, <1>5 DEF ProposeSourceRename
<1>6. ASSUME NEW reg \in Registrations, EditPolicy(reg) PROVE Promised!Serve
  BY <1>6, ServeMoves DEF EditPolicy
<1>7. CASE RotateCredential
  <2> DEFINE d == [core EXCEPT !.cred = @ + 1]
  <2>1. Keep(d) /\ UNCHANGED journal  BY <1>7 DEF RotateCredential
  <2>2. d.ops = core.ops /\ d.hist = core.hist  BY <1>1 DEF Databases
  <2> HIDE DEF d
  <2> QED  BY <2>1, <2>2, KeepMoves
<1>8. CASE EndSession
  <2> DEFINE d == [core EXCEPT !.session = @ + 1]
  <2>1. Keep(d) /\ UNCHANGED journal  BY <1>8 DEF EndSession
  <2>2. d.ops = core.ops /\ d.hist = core.hist  BY <1>1 DEF Databases
  <2> HIDE DEF d
  <2> QED  BY <2>1, <2>2, KeepMoves
<1> QED  BY <1>2, <1>4, <1>5, <1>6, <1>7, <1>8

LEMMA ReconcileMoves ==
    ASSUME Inv, NEW r \in Reconcilers, Reconcile(r)
    PROVE  Promised!Enter \/ Promised!Serve
<1>1. core \in Databases /\ Durable(core, journal, spool.receipts, host)
  BY DEF Inv, TypeOK, Disk
<1>2. CASE UNCHANGED <<core, undo>>
  <2>1. UNCHANGED journal
    BY DEF Reconcile, ReconcileRead, ReconcilePublish, ReconcileSettle, ReconcileUnlink
  <2> QED  BY <1>2, <2>1, ServeMoves
<1>3. ASSUME NEW o \in Ops, ReconcileRead(r, o), ~UNCHANGED <<core, undo>>
      PROVE  Promised!Enter
  <2> DEFINE d == [core EXCEPT !.ops[o].state = "switching"]
  <2>1. /\ o \in Pending(core) /\ core.ops[o].state = "queued" /\ Commit(d)
        /\ UNCHANGED journal
    BY <1>3 DEF ReconcileRead
  <2>2. core' = d /\ undo' \in {core, d}  BY <2>1 DEF Commit
  <2>3. o \in DOMAIN core.ops  BY <2>1, AboutPending
  <2>4. Promised!Switch(Book(core), Book(d))  BY <1>1, <2>1, <2>3, SwitchEnters
  <2> HIDE DEF d
  <2>5. Book(undo') \in {Book(core), Book(core')}  BY <2>2
  <2> QED  BY <2>1, <2>2, <2>4, <2>5 DEF Promised!Enter
<1>4. ASSUME ReconcileSettle(r), ~UNCHANGED <<core, undo>> PROVE Promised!Enter
  <2>1. PICK o, rcpt :
           /\ Consumes(core, core', journal, spool.receipts, o, rcpt)
           /\ core' \in Databases /\ undo' \in {core, core'}
    BY <1>4, SettleConsumes
  <2>2. Book(undo') \in {Book(core), Book(core')}  BY <2>1
  <2>3. UNCHANGED journal  BY <1>4 DEF ReconcileSettle
  <2>4. CASE rcpt.snap # None
    <3>1. Promised!Accept(Book(core), Book(core'))  BY <1>1, <2>1, <2>4, AcceptEnters
    <3> QED  BY <2>2, <2>3, <3>1 DEF Promised!Enter
  <2>5. CASE rcpt.snap = None
    <3>1. Promised!Conclude(Book(core), Book(core'))  BY <1>1, <2>1, <2>5, ConcludeEnters
    <3> QED  BY <2>2, <2>3, <3>1 DEF Promised!Enter
  <2> QED  BY <2>4, <2>5
<1>5. CASE ReconcilePublish(r) \/ ReconcileUnlink(r)
  BY <1>2, <1>5 DEF ReconcilePublish, ReconcileUnlink
<1> QED  BY <1>2, <1>3, <1>4, <1>5 DEF Reconcile

\* The helper writes its note in one step; elsewhere it leaves it, and the
\* database always.
LEMMA CommitRecordMoves ==
    ASSUME Inv, CommitRecord
    PROVE  Promised!Install \/ Promised!Serve
<1> DEFINE o == run.op
           snap == run.rcpt.snap
<1>1. UNCHANGED <<core, undo>>  BY DEF CommitRecord
<1>2. CASE journal'.current = journal.current  BY <1>1, <1>2, ServeMoves
<1>3. CASE journal'.current # journal.current
  <2>1. IsJournal(journal) /\ core \in Databases  BY DEF Inv, TypeOK
  <2>2. journal'.current = snap /\ snap # None
    BY <1>3, <2>1 DEF CommitRecord, IsJournal
  <2>3. Durable(core, journal, spool.receipts, host)  BY DEF Inv, Disk
  <2>4. run.pc = "record" /\ run.pc \in Answering  BY DEF CommitRecord, Answering
  <2>5. /\ o \in DOMAIN journal.receipts /\ journal.receipts[o].snap = snap
        /\ o \in DOMAIN core.ops /\ o \notin DOMAIN spool.receipts
    BY <2>4 DEF Inv, Helping, Committing
  <2>6. o \in Pending(core)  BY <2>3, <2>5 DEF Durable, Written
  <2> HIDE DEF o, snap
  <2>7. Sound(core, o, journal.receipts[o])  BY <2>3, <2>5, <2>6 DEF Durable, Current
  <2>8. /\ core.ops[o].kind # "rehearse" /\ snap.op = Target(core, o)
        /\ snap.retired <=> core.ops[o].kind = "retire"
    BY <2>2, <2>5, <2>7 DEF Sound, Target
  <2>9. snap \in Snapshots  BY <2>1, <2>2, <2>5 DEF IsJournal, Receipts
  <2>10. journal.current = Accepted(core)
    <3>1. \A p \in Pending(core) : p = o  BY <2>3, <2>6 DEF Durable, OneAtATime
    <3>2. journal.current # snap  BY <1>3, <2>2
    <3> QED  BY <2>3, <2>5, <3>1, <3>2 DEF Durable, Current
  <2>11. Promised!Latest(Book(core)) = Reported(journal.current)
    <3>1. Promised!Latest(Book(core)) = Reported(Accepted(core))  BY <2>1, BookHist
    <3> QED  BY <2>10, <3>1
  <2>12. Reported(journal'.current) =
            [op |-> Target(core, o), retired |-> core.ops[o].kind = "retire"]
    <3>1. Reported(snap) = [op |-> snap.op, retired |-> snap.retired]  BY <2>9, ReportedIs
    <3>2. snap.retired = (core.ops[o].kind = "retire")  BY <2>8, <2>9 DEF Snapshots
    <3> QED  BY <2>2, <2>8, <3>1, <3>2
  <2>13. o \in Promised!Open(Book(core))
    BY <2>6, BookStages DEF Promised!Open, Pending
  <2>14. Book(core).ops[o].kind = core.ops[o].kind
         /\ Book(core).ops[o].target = Target(core, o)
    <3>1. OpEntry(core, o).kind = core.ops[o].kind /\ OpEntry(core, o).target = Target(core, o)
      BY DEF OpEntry, Target
    <3> QED  BY <2>5, <3>1, BookRows
  <2> QED  BY <1>1, <2>8, <2>11, <2>12, <2>13, <2>14 DEF Promised!Install
<1> QED  BY <1>2, <1>3

LEMMA OthersServe ==
    ASSUME Inv, \/ Helper \/ Supervisor \/ ContainerExits \/ HelperDies
                \/ GatewayAdmits \/ AppWrites
    PROVE  Promised!Install \/ Promised!Serve
<1>1. IsJournal(journal)  BY DEF Inv, TypeOK
<1>2. CASE Pass \/ EndPass \/ (\E o \in Ops : Execute(o))
  BY <1>2, ServeMoves DEF Pass, EndPass, Execute
<1>3. CASE Rehearse \/ PublishHint \/ Admitted \/ AdmissionTimeout
  BY <1>3, ServeMoves DEF Rehearse, PublishHint, Admitted, AdmissionTimeout
<1>4. CASE PreSwitchBackup \/ Stop \/ Start \/ Probe \/ Archive \/ Attest
  BY <1>4, ServeMoves DEF PreSwitchBackup, Stop, Start, Probe, Archive, Attest
<1>5. CASE Fallback \/ Recover \/ Restore
  BY <1>5, ServeMoves DEF Fallback, Recover, Restore
<1>6. CASE Mark \/ CommitJournal \/ CommitUnmark
  <2>1. UNCHANGED <<core, undo>>  BY <1>6 DEF Mark, CommitJournal, CommitUnmark
  <2>2. journal'.current = journal.current
    BY <1>1, <1>6 DEF Mark, CommitJournal, CommitUnmark, IsJournal
  <2> QED  BY <2>1, <2>2, ServeMoves
<1>7. CASE CommitRecord  BY <1>7, CommitRecordMoves
<1>8. CASE CommitSpool \/ CommitFails  BY <1>8, ServeMoves DEF CommitSpool, CommitFails
<1>9. CASE Supervisor  BY <1>9, ServeMoves DEF Supervisor, Boot, BootStart
<1>10. CASE ContainerExits \/ HelperDies \/ GatewayAdmits \/ AppWrites
  BY <1>10, ServeMoves DEF ContainerExits, HelperDies, GatewayAdmits, AppWrites
<1> QED  BY <1>2, <1>3, <1>4, <1>5, <1>6, <1>7, <1>8, <1>9, <1>10 DEF Helper

LEMMA HostRestartsLoses == ASSUME HostRestarts PROVE Promised!Lose
<1>1. core' \in {core, undo} /\ undo' = core' /\ UNCHANGED journal  BY DEF HostRestarts
<1>2. Book(core') \in {Book(core), Book(undo)} /\ Book(undo') = Book(core')  BY <1>1
<1> QED  BY <1>1, <1>2 DEF Promised!Lose

\* Whatever is up and admitted to is what may serve.
ServingOp(c, h) ==
    IF Admits(c) /\ h.container # None /\ h.container.up THEN h.container.op ELSE 0

LEMMA MayServeHolds ==
    ASSUME NEW c \in Databases, NEW h, Serving(c, h)
    PROVE  ServingOp(c, h) \in Promised!MayServe(Book(c))
<1>1. CASE Admits(c) /\ h.container # None /\ h.container.up
  BY <1>1, BookServes DEF ServingOp
<1>2. CASE ~(Admits(c) /\ h.container # None /\ h.container.up)
  BY <1>2 DEF ServingOp, Promised!MayServe
<1> QED  BY <1>1, <1>2

LEMMA StepIsPromised ==
    ASSUME Inv, Inv', [Next]_vars PROVE [Promised!Next]_(Promised!vars)
<1>1. \/ Promised!Serve \/ Promised!Keep \/ Promised!Install \/ Promised!Lose \/ Promised!Enter
  <2>1. ASSUME Administrator
        PROVE  Promised!Enter \/ Promised!Keep \/ Promised!Serve
    <3>1. ASSUME NEW kind \in Kinds, NEW rel \in Releases, NEW reh \in Ops \cup {0},
                 Request(kind, rel, reh)
          PROVE  Promised!Enter
      <4>1. reh \in Nat  BY DeploymentAssumption DEF Ops
      <4> QED  BY <3>1, <4>1, RequestMoves
    <3> QED  BY <2>1, <3>1, SettingsMove DEF Administrator
  <2>2. ASSUME NEW r \in Reconcilers, Reconcile(r) PROVE Promised!Enter \/ Promised!Serve
    BY <2>2, ReconcileMoves
  <2>3. CASE Helper \/ Supervisor  BY <2>3, OthersServe
  <2>4. CASE Environment  BY <2>4, OthersServe, HostRestartsLoses DEF Environment
  <2>5. CASE UNCHANGED vars  BY <2>5, ServeMoves DEF vars
  <2> QED  BY <2>1, <2>2, <2>3, <2>4, <2>5 DEF Next
<1>2. ServingOp(core', host') \in Promised!MayServe(Book(core'))
  <2>1. core' \in Databases /\ Serving(core', host')  BY DEF Inv, TypeOK
  <2> QED  BY <2>1, MayServeHolds
<1>3. (IF Admits(core) /\ Up THEN host.container.op ELSE 0)' = ServingOp(core', host')
  BY DEF ServingOp, Up
<1> QED  BY <1>1, <1>2, <1>3 DEF Promised!Next

LEMMA InitIsPromised == ASSUME Init PROVE Promised!Init
<1>1. Inv  BY InitHolds
<1>2. core \in Databases /\ Durable(core, journal, spool.receipts, host) /\ Serving(core, host)
  BY <1>1 DEF Inv, TypeOK, Disk
<1>3. Pending(core) = {}
  <2>1. PICK from \in Beginnings : Begin(from)  BY DEF Init
  <2>2. Settled0(from.ops, from.accepts)  BY <2>1, BeginningsAreSettled
  <2>3. core.ops = from.ops  BY <2>1 DEF Begin
  <2> QED  BY <2>2, <2>3 DEF Settled0, Pending, InState
<1>4. Promised!IsBook(Book(core))
  BY <1>2, BookOps, BookHist DEF Promised!IsBook, Promised!Stages, Entries, Notes, AnyKind
<1>5. Promised!Open(Book(core)) = {}  BY <1>3, BookStages DEF Promised!Open, Pending
<1>6. \A i \in DOMAIN Book(core).hist :
         Book(core).hist[i].op \in Promised!InStage(Book(core), {"succeeded"})
  <2> TAKE i \in DOMAIN Book(core).hist
  <2>1. /\ i \in DOMAIN core.hist /\ core.hist[i] \in Snapshots
        /\ Book(core).hist[i] = Reported(core.hist[i])
    <3>1. core.hist \in Seq(Snapshots)  BY <1>2 DEF Databases
    <3>2. i \in DOMAIN core.hist /\ Book(core).hist[i] = Reported(core.hist[i])
      BY DEF Book
    <3> QED  BY <3>1, <3>2
  <2>2. Book(core).hist[i].op = core.hist[i].op  BY <2>1, ReportedIs
  <2>3. core.hist[i].op \in InState(core, {"succeeded"})
    BY <1>2, <2>1 DEF Durable, Numbered, InState
  <2> QED  BY <2>2, <2>3, BookStages
<1>7. Promised!Latest(Book(core)) = Reported(journal.current)
  <2>1. Promised!Latest(Book(core)) = Reported(Accepted(core))  BY <1>2, BookHist
  <2>2. journal.current = Accepted(core)  BY <1>2, <1>3, NothingPending DEF Durable
  <2> QED  BY <2>1, <2>2
<1>8. (IF Admits(core) /\ Up THEN host.container.op ELSE 0) \in Promised!MayServe(Book(core))
  <2>1. (IF Admits(core) /\ Up THEN host.container.op ELSE 0) = ServingOp(core, host)
    BY DEF ServingOp, Up
  <2> QED  BY <1>2, <2>1, MayServeHolds
<1>9. Book(undo) = Book(core)  BY DEF Init
<1> QED  BY <1>4, <1>5, <1>6, <1>7, <1>8, <1>9 DEF Promised!Init

\* Whatever fails, races or is lost, each step of coordinator, helper, host and
\* gateway is one of Installation, or changes only what serves: the core
\* accepts what is installed and nothing else, a decision stays, and a power
\* loss costs one entry of the book (reconcile_operation, accepted_row, commit).
THEOREM InstallationIsImplemented ==
    ASSUME CommitsOutsideTry PROVE Spec => ImplementsInstallation
<1>1. Init => Promised!Init  BY InitIsPromised
<1>2. Inv /\ Inv' /\ [Next]_vars => [Promised!Next]_(Promised!vars)  BY StepIsPromised
<1> QED  BY <1>1, <1>2, InvHolds, PTL DEF Spec, ImplementsInstallation, Promised!Spec
=============================================================================
