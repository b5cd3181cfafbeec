----------------------------- MODULE Deployment -----------------------------
(***************************************************************************)
(* The installation of one managed application, between the coordinator    *)
(* that approves operations and the root helper that carries them out.     *)
(*                                                                         *)
(* The coordinator (src/app/app_deployments.py) keeps the operations and   *)
(* the accepted history in its database; reconcilers (the five-second loop *)
(* of src/app/main.py, and the thread of every request) publish request    *)
(* files and read receipts.  The helper (src/ops/managed_installer.py)     *)
(* holds one lock, keeps a journal on its own disk, and changes the        *)
(* container.  The two share only the spool directory and the read-only    *)
(* view the helper has of the database.                                    *)
(*                                                                         *)
(* A release stands for its image, a registration for everything a host    *)
(* policy entry fixes.  Operations are numbered in the order of approval.  *)
(*                                                                         *)
(* An operator named ...Bug is the definition after it with a mistake in   *)
(* it; nothing here uses one.                                              *)
(***************************************************************************)
EXTENDS Integers, Sequences, FiniteSets

CONSTANTS
    Releases,        \* releases a workflow has verified
    Registrations,   \* registrations an operator may write into the policy
    Reconcilers,     \* threads that may run reconcile() at the same time
    Kinds,           \* the kinds of operation an administrator asks for
    FailingCommits,  \* kinds whose commit may meet an I/O error
    LosesCommits,    \* whether a power loss may undo the last database commit
    MaxEvents,       \* bound: operations approved, failures of the host and
                     \*   changes of policy, proposal, credential or session
    MaxWrites        \* bound: writes the application acknowledges

ASSUME DeploymentAssumption ==
    /\ MaxEvents \in Nat /\ MaxWrites \in Nat /\ LosesCommits \in BOOLEAN
    /\ Kinds \subseteq {"rehearse", "deploy", "rollback", "recover", "retire"}

VARIABLES
    core,        \* the coordinator's database
    undo,        \* the database before its last commit, which a power loss may restore
    rec,         \* each reconciler's step and the operation it handles
    policy,      \* the registration in the host policy file
    spool,       \* requests, switch hints and receipts both sides see
    journal,     \* the helper's markers, receipts and current installation
    host,        \* container, app unit, supervisor, pre-switch backups
    run,         \* the helper process that holds the lock
    data,        \* writes in the application's database
    flight,      \* a write the gateway admitted and the application has not made
    events       \* the approvals, failures and changes so far

vars == <<core, undo, rec, policy, spool, journal, host, run, data, flight, events>>

None == [none |-> TRUE]
Ops == 1..(MaxEvents + 3)      \* a behaviour begins with at most three
Switching == Kinds \ {"rehearse"}
-----------------------------------------------------------------------------
(* What the coordinator's tables say; c is a value of core.                *)

Accepted(c) == IF c.hist = <<>> THEN None ELSE c.hist[Len(c.hist)]
Generation(snap) == IF snap = None THEN 0 ELSE snap.gen
IsRunning(snap) == snap # None /\ ~snap.retired
IsRetired(snap) == snap # None /\ snap.retired
\* The rollback target: the generation before a running one, if it ran itself.
HasRollback(c) ==
    /\ IsRunning(Accepted(c)) /\ Len(c.hist) > 1 /\ IsRunning(c.hist[Len(c.hist) - 1])

InState(c, states) == {o \in DOMAIN c.ops : c.ops[o].state \in states}
Pending(c) == InState(c, {"queued", "switching"})
RequireIdle(c, recovering) ==
    InState(c, {"queued", "switching"} \cup (IF recovering THEN {} ELSE {"blocked"})) = {}
Blocked(c) == InState(c, {"blocked"})

\* The change an administrator has not yet decided on, for the running generation.
PendingChange(c) ==
    /\ IsRunning(Accepted(c)) /\ c.change # None
    /\ c.change.base = Accepted(c).gen /\ ~c.change.rejected
    /\ c.change.reg # Accepted(c).sel.reg
ProposedRegistration(c) == IF PendingChange(c) THEN c.change.reg ELSE c.registered
ApprovedRegistration(c, kind) ==
    CASE kind = "recover" -> c.registered
      [] kind = "rollback" -> c.hist[Len(c.hist) - 1].sel.reg
      [] kind = "retire" -> Accepted(c).sel.reg
      [] OTHER -> ProposedRegistration(c)

\* Whether an operation of this kind can name this release now, and what it selects.
Selectable(c, kind, rel) ==
    /\ kind = "recover" => Blocked(c) # {}
    /\ kind = "rollback" => HasRollback(c)
    /\ kind = "retire" => IsRunning(Accepted(c)) /\ Accepted(c).sel.rel = rel
    /\ kind \in {"rehearse", "deploy"} => rel \notin c.rejected
SelectionFor(c, kind, rel, pol) ==
    [rel |-> rel, reg |-> ApprovedRegistration(c, kind), pol |-> pol,
     cred |-> c.cred, gen |-> Generation(Accepted(c))]

\* An operation still has the authority it was approved with.
ReadAuthority(c, o, pol) ==
    LET op == c.ops[o] IN
    /\ op.state \in {"queued", "switching"}
    /\ op.session = c.session
    /\ Selectable(c, op.kind, op.sel.rel)
    /\ SelectionFor(c, op.kind, op.sel.rel, pol) = op.sel
    /\ op.kind = "recover" => op.recovers \in Blocked(c)
    /\ op.kind = "deploy" =>
        /\ op.rehearsal \in DOMAIN c.ops
        /\ c.ops[op.rehearsal].kind = "rehearse" /\ c.ops[op.rehearsal].state = "succeeded"
        /\ c.ops[op.rehearsal].sel = op.sel
    /\ op.kind = "rollback" => c.hist[Len(c.hist) - 1].sel.rel = op.sel.rel

\* What the supervisor of an app may start at boot: "deferred" while an
\* operation is unresolved or the app is retired.
InstalledAuthority(c) ==
    IF InState(c, {"switching", "blocked"}) # {} \/ IsRetired(Accepted(c)) THEN "deferred"
    ELSE IF /\ IsRunning(Accepted(c))
            /\ c.registered = Accepted(c).sel.reg
            /\ c.ops[Accepted(c).op].state = "succeeded"
            /\ c.cred = Accepted(c).sel.cred
         THEN "granted" ELSE "refused"

\* The gateway forwards requests to the application.
Admits(c) ==
    /\ {o \in InState(c, {"switching", "blocked"}) : c.ops[o].kind # "rehearse"} = {}
    /\ IsRunning(Accepted(c))

\* What a succeeded receipt appends to the history must follow the selection
\* it was approved with, and a retirement must retire what is installed.
SnapshotFits(c, o, snap) ==
    LET op == c.ops[o] IN
    /\ snap # None
    /\ snap.op = (IF op.kind = "recover" THEN op.recovers ELSE o)
    /\ snap.sel = op.sel
    /\ snap.gen = op.sel.gen + 1
    /\ snap.retired = (op.kind = "retire")
    /\ op.kind = "retire" => IsRunning(Accepted(c)) /\ snap.last = Accepted(c).op
Appends(c, o, rcpt) ==
    /\ rcpt.state = "succeeded" /\ c.ops[o].kind # "rehearse"
    /\ c.ops[o].kind = "recover" => rcpt.snap # None
-----------------------------------------------------------------------------
\* A reconciler's commit, which a power loss may undo while the host can still
\* fail; an administrator's commit is kept.
Commit(c) == core' = c /\ undo' = IF LosesCommits /\ events < MaxEvents THEN core ELSE c
Keep(c) == core' = c /\ undo' = c
HostIdle == run.pc = "idle"
IdleRun == [pc |-> "idle", op |-> 0, was |-> None, rcpt |-> None, replay |-> FALSE]
Event == events < MaxEvents /\ events' = events + 1
Up == IF host.container = None THEN FALSE ELSE host.container.up
Put(records, o, r) == [x \in DOMAIN records \cup {o} |-> IF x = o THEN r ELSE records[x]]
-----------------------------------------------------------------------------
(* The administrator and the operator.                                     *)

\* request(): one immediate transaction; the thread reconciles afterwards,
\* which is one more reconciler.  A repeated request id returns the recorded
\* operation and changes nothing.
Request(kind, rel, rehearsal) ==
    LET blocked == CHOOSE o \in Blocked(core) : TRUE
        new == [kind |-> kind, state |-> "queued",
                sel |-> SelectionFor(core, kind, rel, policy), session |-> core.session,
                recovers |-> IF kind = "recover" THEN blocked ELSE 0,
                rehearsal |-> rehearsal]
        after == [core EXCEPT !.ops = Append(@, new)]
    IN  /\ Event
        /\ kind \in Kinds
        /\ Selectable(core, kind, rel)
        /\ kind = "recover" => core.ops[blocked].sel.rel = rel
        /\ RequireIdle(core, kind = "recover")
        /\ ReadAuthority(after, Len(after.ops), policy)
        /\ Keep(after)
        /\ UNCHANGED <<rec, policy, spool, journal, host, run, data, flight>>

\* reject(): the settings change, the release, or both.
Reject(rel) ==
    /\ RequireIdle(core, FALSE) /\ Event
    /\ PendingChange(core) \/ ~(IsRunning(Accepted(core)) /\ Accepted(core).sel.rel = rel)
    /\ Keep([core EXCEPT
            !.change = IF PendingChange(core) THEN [@ EXCEPT !.rejected = TRUE] ELSE @,
            !.rejected = IF IsRunning(Accepted(core)) /\ Accepted(core).sel.rel = rel
                         THEN @ ELSE @ \cup {rel}])
    /\ UNCHANGED <<rec, policy, spool, journal, host, run, data, flight>>

\* A change to an installed app waits as a proposal against its generation.
Propose(reg) ==
    /\ RequireIdle(core, FALSE) /\ reg # ProposedRegistration(core)
    /\ Keep([core EXCEPT !.change =
            [base |-> Accepted(core).gen, reg |-> reg, rejected |-> FALSE]])
\* update_registration(): an uninstalled app's registration is replaced, an
\* installed one's proposed, a retired one's refused.
UpdateRegistration(reg) ==
    /\ ~IsRetired(Accepted(core)) /\ Event
    /\ IF Accepted(core) = None
       THEN reg # core.registered /\ Keep([core EXCEPT !.registered = reg])
       ELSE Propose(reg)
    /\ UNCHANGED <<rec, policy, spool, journal, host, run, data, flight>>
\* propose_source_rename(): only an installed app's source, and only to a
\* repository other than the installed one.
ProposeSourceRename(reg) ==
    /\ IsRunning(Accepted(core)) /\ Event
    /\ reg # Accepted(core).sel.reg /\ Propose(reg)
    /\ UNCHANGED <<rec, policy, spool, journal, host, run, data, flight>>
RotateCredential ==
    /\ Event /\ Keep([core EXCEPT !.cred = @ + 1])
    /\ UNCHANGED <<rec, policy, spool, journal, host, run, data, flight>>
EndSession ==
    /\ Event /\ Keep([core EXCEPT !.session = @ + 1])
    /\ UNCHANGED <<rec, policy, spool, journal, host, run, data, flight>>
EditPolicy(reg) ==
    /\ reg # policy /\ Event /\ policy' = reg
    /\ UNCHANGED <<core, undo, rec, spool, journal, host, run, data, flight>>

\* One request through the gateway: admitted, then made by the container.
GatewayAdmits ==
    /\ ~flight /\ data < MaxWrites /\ Admits(core)
    /\ Up
    /\ flight' = TRUE
    /\ UNCHANGED <<core, undo, rec, policy, spool, journal, host, run, data, events>>
AppWrites ==
    /\ flight /\ flight' = FALSE
    /\ data' = IF Up THEN data + 1 ELSE data
    /\ UNCHANGED <<core, undo, rec, policy, spool, journal, host, run, events>>
-----------------------------------------------------------------------------
(* reconcile_operation(), step by step, by one of several threads.         *)

ReconcileReadBug(r, o) ==
    /\ rec[r].pc = "idle" /\ o \in Pending(core)
    /\ rec' = [rec EXCEPT ![r] =
            [pc |-> IF o \in DOMAIN spool.receipts THEN "settle" ELSE "publish", op |-> o]]
    /\ UNCHANGED <<core, undo, policy, spool, journal, host, run, data, flight, events>>
\* List the unsettled operations; of one of them read the switch hint, then
\* the receipt.  What is published between the two reads is found by the next
\* reconciliation, so they are one step.
ReconcileRead(r, o) ==
    /\ rec[r].pc = "idle" /\ o \in Pending(core)
    /\ rec' = [rec EXCEPT ![r] =
            [pc |-> IF o \in DOMAIN spool.receipts THEN "settle" ELSE "publish", op |-> o]]
    /\ IF o \in spool.hints /\ core.ops[o].state = "queued"
       THEN Commit([core EXCEPT !.ops[o].state = "switching"])
       ELSE UNCHANGED <<core, undo>>
    /\ UNCHANGED <<policy, spool, journal, host, run, data, flight, events>>

ReconcilePublish(r) ==
    /\ rec[r].pc = "publish"
    /\ spool' = [spool EXCEPT !.requests = @ \cup {rec[r].op}]
    /\ rec' = [rec EXCEPT ![r] = [pc |-> "idle", op |-> 0]]
    /\ UNCHANGED <<core, undo, policy, journal, host, run, data, flight, events>>

\* A rehearsal whose authority was withdrawn meanwhile does not count.
Consumed(c, o, rcpt) ==
    IF rcpt.state = "succeeded" /\ c.ops[o].kind = "rehearse" /\ ~ReadAuthority(c, o, policy)
    THEN [rcpt EXCEPT !.state = "failed"] ELSE rcpt
\* The core refuses the receipt, and tries again at the next reconciliation.
Refuses(c, o, rcpt) ==
    \/ /\ rcpt.state = "succeeded" /\ c.ops[o].kind # "rehearse"
       /\ c.ops[o].state # "switching"
    \/ Appends(c, o, rcpt) /\ ~SnapshotFits(c, o, rcpt.snap)
    \/ c.ops[o].kind = "recover" /\ c.ops[o].recovers \notin Blocked(c)
ResolutionBug(c, rcpt) == IF IsRunning(Accepted(c)) THEN "recovered" ELSE "failed"
Resolution(c, rcpt) ==
    IF rcpt.snap # None THEN "succeeded"
    ELSE IF IsRunning(Accepted(c)) THEN "recovered" ELSE "failed"
\* The last transaction: history, registration, the operation recovered, the state.
Settled(c, o, rcpt) ==
    LET hist == IF Appends(c, o, rcpt) THEN Append(c.hist, rcpt.snap) ELSE c.hist
        target == IF c.ops[o].kind = "recover" /\ rcpt.state = "succeeded"
                  THEN {c.ops[o].recovers} ELSE {}
    IN  [c EXCEPT
            !.hist = hist,
            !.registered = IF Appends(c, o, rcpt) /\ ~rcpt.snap.retired
                           THEN rcpt.snap.sel.reg ELSE @,
            !.ops = [x \in DOMAIN @ |->
                IF x = o THEN [@[x] EXCEPT !.state = rcpt.state]
                ELSE IF x \in target
                     THEN [@[x] EXCEPT !.state = Resolution([c EXCEPT !.hist = hist], rcpt)]
                     ELSE @[x]]]

ReconcileSettleBug(r) ==
    LET o == rec[r].op
        rcpt == Consumed(core, o, spool.receipts[o])
    IN  /\ rec[r].pc = "settle"
        /\ ~Refuses([core EXCEPT !.ops[o].state = "switching"], o, rcpt)
        /\ Commit(Settled(core, o, rcpt))
        /\ rec' = [rec EXCEPT ![r].pc = "unlink"]
        /\ UNCHANGED <<policy, spool, journal, host, run, data, flight, events>>
ReconcileSettle(r) ==
    LET o == rec[r].op
        rcpt == Consumed(core, o, spool.receipts[o])
    IN  /\ rec[r].pc = "settle"
        /\ IF o \in Pending(core) /\ ~Refuses(core, o, rcpt)
           THEN /\ Commit(Settled(core, o, rcpt))
                /\ rec' = [rec EXCEPT ![r].pc = "unlink"]
           ELSE /\ rec' = [rec EXCEPT ![r] = [pc |-> "idle", op |-> 0]]
                /\ UNCHANGED <<core, undo>>
        /\ UNCHANGED <<policy, spool, journal, host, run, data, flight, events>>

ReconcileUnlink(r) ==
    /\ rec[r].pc = "unlink"
    /\ spool' = [spool EXCEPT !.requests = @ \ {rec[r].op}]
    /\ rec' = [rec EXCEPT ![r] = [pc |-> "idle", op |-> 0]]
    /\ UNCHANGED <<core, undo, policy, journal, host, run, data, flight, events>>
-----------------------------------------------------------------------------
(* The helper.  It is one process at a time, under the installer lock.     *)

\* Spool markers whose receipt the core has consumed: start the app unit if
\* the operation left the app running, and forget the marker.
SweptHints == {o \in spool.hints : o \in DOMAIN spool.receipts /\ o \notin spool.requests}
SweepMarkersBug == spool' = [spool EXCEPT !.hints = @ \ SweptHints] /\ UNCHANGED host
SweepMarkers ==
    /\ spool' = [spool EXCEPT !.hints = @ \ SweptHints]
    /\ host' = IF /\ host.unit /\ host.supervisor = "off"
                  /\ \E o \in SweptHints : spool.receipts[o].state \in {"succeeded", "recovered"}
               THEN [host EXCEPT !.supervisor = "starting"] ELSE host

\* A request that was interrupted or refused is taken up by a later pass.
Executable(o) ==
    /\ o \in spool.requests \ DOMAIN spool.receipts
    /\ o \in DOMAIN journal.receipts \/ o \in Pending(core)

\* A pass, started by the path unit, the timer or by hand.
Pass ==
    /\ HostIdle
    /\ SweptHints # {} \/ \E o \in Ops : Executable(o)
    /\ SweepMarkers
    /\ run' = [IdleRun EXCEPT !.pc = "pass"]
    /\ UNCHANGED <<core, undo, rec, policy, journal, data, flight, events>>

EndPass ==
    /\ run.pc = "pass" /\ ~(\E o \in Ops : Executable(o)) /\ run' = IdleRun
    /\ UNCHANGED <<core, undo, rec, policy, spool, journal, host, data, flight, events>>

\* The checks of authority() that the core's answer must pass on the host:
\* the policy entry, the journal's current installation.
HostAuthority(o) ==
    /\ ReadAuthority(core, o, policy)
    /\ core.ops[o].sel.reg = policy
    /\ Accepted(core) = journal.current

Running == journal.current # None /\ ~journal.current.retired
StartedBy(rel, o) ==
    host.container # None /\ host.container.rel = rel /\ host.container.op = o
\* lifecycle(): the exact set of units of an installed app, or none.
WithUnits(h, installed) == [h EXCEPT !.unit = installed]
\* A container carries its release, registration and operation label.
ContainerOf(o, sel) == [rel |-> sel.rel, reg |-> sel.reg, op |-> o, up |-> TRUE]
Receipt(state, snap) == [state |-> state, snap |-> snap]
Answer(rcpt) == run' = [run EXCEPT !.pc = "journal", !.rcpt = rcpt]
Goto(pc) == run' = [run EXCEPT !.pc = pc]
Kind == core.ops[run.op].kind
\* execute()'s except clause, for anything but a contradicting container.
Except ==
    IF Kind = "recover" \/ run.op \notin journal.marks
    THEN Answer(Receipt("failed", None))
    ELSE Goto("fallback")

\* One request of the pass: a committed receipt is replayed, an operation
\* without authority is answered at once, any other begins.
Execute(o) ==
    LET begun == [IdleRun EXCEPT !.pc = "begin", !.op = o, !.was = journal.current]
        refused == [begun EXCEPT !.pc = "journal", !.rcpt = Receipt(
                        IF o \in journal.marks THEN "blocked" ELSE "failed", None)]
    IN  /\ run.pc = "pass" /\ Executable(o)
        /\ \/ /\ o \in DOMAIN journal.receipts /\ UNCHANGED events
              /\ run' = [begun EXCEPT !.pc = "record", !.rcpt = journal.receipts[o],
                                      !.replay = TRUE]
           \/ /\ o \notin DOMAIN journal.receipts
              /\ \/ HostAuthority(o) /\ run' = begun /\ UNCHANGED events
                 \/ ~HostAuthority(o) /\ run' = refused /\ UNCHANGED events
                 \/ HostAuthority(o) /\ Event /\ run' = refused
        /\ UNCHANGED <<core, undo, rec, policy, spool, journal, host, data, flight>>

\* Resources, image and the rehearsal on a copy: they succeed, or fail.
Rehearse ==
    /\ run.pc = "begin" /\ Kind \notin {"recover", "retire"}
    /\ \/ /\ Goto("hint") /\ Kind # "rehearse" /\ UNCHANGED events
       \/ Answer(Receipt("succeeded", None)) /\ Kind = "rehearse" /\ UNCHANGED events
       \/ Event /\ Except
    /\ UNCHANGED <<core, undo, rec, policy, spool, journal, host, data, flight>>

\* admitted(): publish the switch hint and poll the core for a minute.
PublishHint ==
    /\ run.pc = "hint" \/ (run.pc = "begin" /\ Kind \in {"recover", "retire"})
    /\ spool' = [spool EXCEPT !.hints = @ \cup {run.op}]
    /\ Goto("wait")
    /\ UNCHANGED <<core, undo, rec, policy, journal, host, data, flight, events>>

Admitted ==
    /\ run.pc = "wait" /\ core.ops[run.op].state = "switching"
    /\ Goto(IF Kind = "recover" THEN "recover" ELSE IF Kind = "retire" THEN "mark" ELSE "backup")
    /\ UNCHANGED <<core, undo, rec, policy, spool, journal, host, data, flight, events>>
AdmissionTimeoutBug ==
    /\ run.pc = "wait" /\ core.ops[run.op].state # "switching"
    /\ Goto(IF Kind = "recover" THEN "recover" ELSE IF Kind = "retire" THEN "mark" ELSE "backup")
    /\ UNCHANGED <<core, undo, rec, policy, spool, journal, host, data, flight, events>>
AdmissionTimeout ==
    /\ run.pc = "wait" /\ core.ops[run.op].state # "switching"
    /\ run' = IdleRun
    /\ UNCHANGED <<core, undo, rec, policy, spool, journal, host, data, flight, events>>

\* A container nobody here started blocks; otherwise the pre-switch backup.
Recognised ==
    \/ host.container = None
    \/ Kind # "retire" /\ StartedBy(core.ops[run.op].sel.rel, run.op)
    \/ Running /\ StartedBy(journal.current.sel.rel, journal.current.op)
Switched == Kind # "retire" /\ StartedBy(core.ops[run.op].sel.rel, run.op)

\* backup(): a verified copy of the live database, named by generation and operation.
BackupOf(o) == [gen |-> core.ops[o].sel.gen + 1, op |-> o, data |-> data]
PreSwitchBackupBug ==
    /\ run.pc = "backup" /\ HostAuthority(run.op) /\ Recognised /\ Goto("mark")
    /\ UNCHANGED <<core, undo, rec, policy, spool, journal, host, data, flight, events>>
PreSwitchBackup ==
    /\ run.pc = "backup"
    /\ \/ /\ ~HostAuthority(run.op) /\ Except /\ UNCHANGED <<host, events>>
       \/ /\ HostAuthority(run.op) /\ ~Recognised
          /\ Answer(Receipt("blocked", None)) /\ UNCHANGED <<host, events>>
       \/ /\ HostAuthority(run.op) /\ Recognised /\ Goto("mark") /\ UNCHANGED events
          /\ host' = IF Switched \/ run.was = None THEN host
                     ELSE [host EXCEPT !.backup = BackupOf(run.op)]
       \/ /\ HostAuthority(run.op) /\ Recognised /\ ~Switched
          /\ Event /\ Except /\ UNCHANGED host
    /\ UNCHANGED <<core, undo, rec, policy, spool, journal, data, flight>>

\* The journal marker: from here a failure must return the host to `was`.
Mark ==
    /\ run.pc = "mark"
    /\ IF Kind = "retire" /\ ~Recognised
       THEN Answer(Receipt("blocked", None)) /\ UNCHANGED journal
       ELSE /\ journal' = [journal EXCEPT !.marks = @ \cup {run.op}]
            /\ Goto(IF Switched THEN "start" ELSE "stop")
    /\ UNCHANGED <<core, undo, rec, policy, spool, host, data, flight, events>>

\* Stop the supervisor, which stops its container, then remove the container.
Stopped(h) == [h EXCEPT !.container = None, !.supervisor = "off"]
Stop ==
    /\ run.pc = "stop"
    /\ host' = Stopped(host)
    /\ Goto(IF Kind = "retire" THEN "archive" ELSE "start")
    /\ UNCHANGED <<core, undo, rec, policy, spool, journal, data, flight, events>>

Start ==
    /\ run.pc = "start"
    /\ \/ /\ host' = [host EXCEPT !.container = ContainerOf(run.op, core.ops[run.op].sel)]
          /\ Goto("probe") /\ UNCHANGED events
       \/ Event /\ Except /\ UNCHANGED host
    /\ UNCHANGED <<core, undo, rec, policy, spool, journal, data, flight>>

\* Probe, authority, units, authority: the last check is the commit point of
\* the authorization.
Probe ==
    /\ run.pc = "probe"
    /\ \/ /\ HostAuthority(run.op)
          /\ host' = WithUnits(host, TRUE)
          /\ Goto("attest") /\ UNCHANGED events
       \/ /\ ~HostAuthority(run.op) /\ Except /\ UNCHANGED <<host, events>>
       \/ Event /\ Except /\ UNCHANGED host
    /\ UNCHANGED <<core, undo, rec, policy, spool, journal, data, flight>>

NewSnapshot(o, sel, retired, last) ==
    [op |-> o, gen |-> sel.gen + 1, sel |-> sel, retired |-> retired, last |-> last]
Attest ==
    /\ run.pc = "attest"
    /\ IF ~HostAuthority(run.op) THEN Except
       ELSE Answer(Receipt("succeeded",
                IF Kind = "retire"
                THEN NewSnapshot(run.op, core.ops[run.op].sel, TRUE, run.was.op)
                ELSE IF Kind = "recover" THEN run.rcpt
                     ELSE NewSnapshot(run.op, core.ops[run.op].sel, FALSE, 0)))
    /\ UNCHANGED <<core, undo, rec, policy, spool, journal, host, data, flight, events>>

ArchiveBug ==
    /\ run.pc = "archive" /\ Goto("attest")
    /\ UNCHANGED <<core, undo, rec, policy, spool, journal, host, data, flight, events>>
\* retire(): the final archive, then every unit.
Archive ==
    /\ run.pc = "archive"
    /\ \/ host' = WithUnits(host, FALSE) /\ Goto("attest") /\ UNCHANGED events
       \/ Event /\ Except /\ UNCHANGED host
    /\ UNCHANGED <<core, undo, rec, policy, spool, journal, data, flight>>

FallbackBug ==
    /\ run.pc = "fallback" /\ Answer(Receipt("recovered", None))
    /\ UNCHANGED <<core, undo, rec, policy, spool, journal, host, data, flight, events>>
\* fell_back(): a first install stays blocked, a retirement is torn down
\* again, a running generation restarts if the authority still holds.
Fallback ==
    /\ run.pc = "fallback"
    /\ \/ /\ run.was = None \/ (IsRunning(run.was) /\ ~HostAuthority(run.op))
          /\ Answer(Receipt("blocked", None)) /\ UNCHANGED <<host, events>>
       \/ /\ IsRetired(run.was)
          /\ host' = WithUnits(Stopped(host), FALSE)
          /\ Answer(Receipt("recovered", None)) /\ UNCHANGED events
       \/ /\ IsRunning(run.was) /\ HostAuthority(run.op) /\ Running
          /\ host' = Stopped(host) /\ Goto("restore") /\ UNCHANGED events
       \/ Event /\ Answer(Receipt("blocked", None)) /\ UNCHANGED host
    /\ UNCHANGED <<core, undo, rec, policy, spool, journal, data, flight>>

\* recover(): adopt the blocked candidate, adopt or restart the previous
\* installation, or tear a failed first install down.
Recover ==
    LET target == core.ops[run.op].recovers
        sel == core.ops[run.op].sel
        candidate == /\ Up /\ host.container.op = target /\ host.container.rel = sel.rel
                     /\ core.ops[target].sel = sel
        adoptable == /\ Running /\ Up
                     /\ StartedBy(journal.current.sel.rel, journal.current.op)
        known == target \in DOMAIN journal.receipts /\ journal.receipts[target].state = "blocked"
    IN  /\ run.pc = "recover"
        /\ \/ /\ ~known /\ Except /\ UNCHANGED <<host, events>>
           \/ /\ known /\ candidate
              /\ run' = [run EXCEPT !.pc = "attest",
                                    !.rcpt = NewSnapshot(target, sel, FALSE, 0)]
              /\ host' = WithUnits(host, TRUE) /\ UNCHANGED events
           \/ /\ known /\ ~candidate /\ adoptable
              /\ host' = WithUnits(host, TRUE) /\ Goto("attest") /\ UNCHANGED events
           \/ /\ known /\ ~candidate /\ Running
              /\ host' = Stopped(host) /\ Goto("restore")
              /\ IF adoptable THEN Event ELSE UNCHANGED events
           \/ /\ known /\ ~candidate /\ ~Running
              /\ host' = WithUnits(Stopped(host), FALSE)
              /\ Goto("attest") /\ UNCHANGED events
           \/ known /\ Event /\ Except /\ UNCHANGED host
        /\ UNCHANGED <<core, undo, rec, policy, spool, journal, data, flight>>

\* restore_previous(): the journal's generation, with its own registration and label.
RestoredContainer == ContainerOf(journal.current.op, journal.current.sel)
Restore ==
    /\ run.pc = "restore"
    /\ \/ /\ host' = WithUnits([host EXCEPT !.container = RestoredContainer], TRUE)
          /\ IF Kind = "recover" THEN Goto("attest") ELSE Answer(Receipt("recovered", None))
          /\ UNCHANGED events
       \/ /\ Event /\ UNCHANGED host
          /\ IF Kind = "recover" THEN Except ELSE Answer(Receipt("blocked", None))
    /\ UNCHANGED <<core, undo, rec, policy, spool, journal, data, flight>>
-----------------------------------------------------------------------------
(* commit(): journal receipt, current record, spool copy, journal marker.  *)

CommitJournal ==
    /\ run.pc = "journal" /\ Goto("record")
    /\ journal' = IF run.op \in DOMAIN journal.receipts THEN journal
                  ELSE [journal EXCEPT !.receipts = Put(@, run.op, run.rcpt)]
    /\ UNCHANGED <<core, undo, rec, policy, spool, host, data, flight, events>>

CommitRecord ==
    /\ run.pc = "record" /\ Goto("spool")
    /\ journal' =
        IF /\ run.rcpt.state = "succeeded" /\ run.rcpt.snap # None
           /\ run.rcpt.snap.gen = Generation(journal.current) + 1
        THEN [journal EXCEPT !.current = run.rcpt.snap] ELSE journal
    /\ UNCHANGED <<core, undo, rec, policy, spool, host, data, flight, events>>

\* publish() keeps a record that is there, and refuses a different one.
CommitSpool ==
    /\ run.pc = "spool"
    /\ IF run.op \in DOMAIN spool.receipts /\ spool.receipts[run.op] # run.rcpt
       THEN run' = IdleRun /\ UNCHANGED spool
       ELSE /\ spool' = [spool EXCEPT !.receipts = Put(@, run.op, run.rcpt)]
            /\ Goto("unmark")
    /\ UNCHANGED <<core, undo, rec, policy, journal, host, data, flight, events>>

CommitUnmark ==
    /\ run.pc = "unmark" /\ run' = IdleRun
    /\ journal' = [journal EXCEPT !.marks = @ \ {run.op}]
    /\ UNCHANGED <<core, undo, rec, policy, spool, host, data, flight, events>>

\* A write of the commit fails.  The commit of a recovery or a retirement is
\* inside execute()'s try block, the others end the request.
CommitFails ==
    /\ run.pc \in {"journal", "record", "spool"} /\ Event
    /\ Kind \in FailingCommits
    /\ IF Kind \in {"recover", "retire"} /\ run.rcpt.state = "succeeded" /\ ~run.replay
       THEN Except ELSE run' = IdleRun
    /\ UNCHANGED <<core, undo, rec, policy, spool, journal, host, data, flight>>
-----------------------------------------------------------------------------
(* The app unit, and faults.                                               *)

\* boot(), first part: under the lock, after the sweep, what may be started.
BootGranted ==
    /\ InstalledAuthority(core) = "granted" /\ Accepted(core) = journal.current
    /\ policy = journal.current.sel.reg /\ journal.current.sel.pol = policy
    /\ host.container = None \/ StartedBy(journal.current.sel.rel, journal.current.op)
Boot ==
    /\ HostIdle /\ host.supervisor = "starting"
    /\ SweptHints = {}
    /\ \/ /\ InstalledAuthority(core) = "deferred"
          /\ host' = [host EXCEPT !.supervisor = "off"] /\ UNCHANGED run
       \/ /\ BootGranted /\ Up
          /\ host' = [host EXCEPT !.supervisor = "up"] /\ UNCHANGED run
       \/ /\ BootGranted /\ ~Up
          /\ run' = [IdleRun EXCEPT !.pc = "boot"] /\ UNCHANGED host
    /\ UNCHANGED <<core, undo, rec, policy, spool, journal, data, flight, events>>

\* boot(), second part: replace the container and probe it.
BootStart ==
    /\ run.pc = "boot" /\ run' = IdleRun
    /\ \/ /\ host' = [host EXCEPT !.container = RestoredContainer, !.supervisor = "up"]
          /\ UNCHANGED events
       \/ host' = [host EXCEPT !.container = None] /\ Event
    /\ UNCHANGED <<core, undo, rec, policy, spool, journal, data, flight>>

ContainerExits ==
    /\ Up /\ Event
    /\ host' = [host EXCEPT !.container.up = FALSE,
                            !.supervisor = IF @ = "up" THEN "starting" ELSE @]
    /\ UNCHANGED <<core, undo, rec, policy, spool, journal, run, data, flight>>

HelperDies ==
    /\ run.pc # "idle" /\ Event /\ run' = IdleRun
    /\ UNCHANGED <<core, undo, rec, policy, spool, journal, host, data, flight>>

\* The host stops: containers do not restart by themselves, enabled units do,
\* and the database may have lost its last commit.
HostRestarts ==
    /\ Event
    /\ \E c \in {core, undo} : core' = c /\ undo' = c
    /\ rec' = [r \in Reconcilers |-> [pc |-> "idle", op |-> 0]]
    /\ run' = IdleRun /\ flight' = FALSE
    /\ host' = [host EXCEPT
            !.container = IF @ = None THEN None ELSE [@ EXCEPT !.up = FALSE],
            !.supervisor = IF host.unit THEN "starting" ELSE "off"]
    /\ UNCHANGED <<policy, spool, journal, data>>
-----------------------------------------------------------------------------
Administrator ==
    \/ \E kind \in Kinds, rel \in Releases, reh \in Ops \cup {0} : Request(kind, rel, reh)
    \/ \E rel \in Releases : Reject(rel)
    \/ \E reg \in Registrations :
        UpdateRegistration(reg) \/ ProposeSourceRename(reg) \/ EditPolicy(reg)
    \/ RotateCredential \/ EndSession
Reconcile(r) ==
    \/ \E o \in Ops : ReconcileRead(r, o)
    \/ ReconcilePublish(r) \/ ReconcileSettle(r) \/ ReconcileUnlink(r)
Helper ==
    \/ Pass \/ EndPass \/ (\E o \in Ops : Execute(o))
    \/ Rehearse \/ PublishHint \/ Admitted \/ AdmissionTimeout
    \/ PreSwitchBackup \/ Mark \/ Stop \/ Start \/ Probe \/ Archive \/ Attest
    \/ Fallback \/ Recover \/ Restore
    \/ CommitJournal \/ CommitRecord \/ CommitSpool \/ CommitUnmark \/ CommitFails
Supervisor == Boot \/ BootStart
Environment ==
    ContainerExits \/ HelperDies \/ HostRestarts \/ GatewayAdmits \/ AppWrites

\* A behaviour begins with a release rehearsed for a fresh app, for an
\* installed one, for a retired one; with an upgrade just accepted; or with a
\* first install or an upgrade blocked, its candidate container kept or lost.
FirstRelease == CHOOSE r \in Releases : TRUE
NextRelease == CHOOSE r \in Releases \ {FirstRelease} : TRUE
FirstRegistration == CHOOSE g \in Registrations : TRUE
Finished(kind, rel, gen, state) ==
    [kind |-> kind, state |-> state, session |-> 0, recovers |-> 0, rehearsal |-> 0,
     sel |-> [rel |-> rel, reg |-> FirstRegistration, pol |-> FirstRegistration,
              cred |-> 0, gen |-> gen]]
Done(kind, rel, gen) == Finished(kind, rel, gen, "succeeded")
\* Each with the operations its history accepted, in their order.
Beginnings ==
    LET deployed == Done("deploy", FirstRelease, 0)
        rehearsed == Done("rehearse", NextRelease, 1)
        from(ops, accepts) == [ops |-> ops, accepts |-> accepts]
    IN  {from(<<Done("rehearse", FirstRelease, 0)>>, <<>>),
         from(<<deployed, rehearsed>>, <<1>>),
         from(<<deployed, Done("retire", FirstRelease, 1), Done("rehearse", NextRelease, 2)>>,
              <<1, 2>>),
         from(<<deployed, rehearsed, Done("deploy", NextRelease, 1)>>, <<1, 3>>),
         from(<<Done("rehearse", FirstRelease, 0), Finished("deploy", FirstRelease, 0, "blocked")>>,
              <<>>),
         from(<<deployed, rehearsed, Finished("deploy", NextRelease, 1, "blocked")>>, <<1>>)}
Accept(ops, o) ==
    NewSnapshot(o, ops[o].sel, ops[o].kind = "retire", IF ops[o].kind = "retire" THEN 1 ELSE 0)
Begin(from) ==
    LET ops == from.ops
        hist == [i \in 1..Len(from.accepts) |-> Accept(ops, from.accepts[i])]
        last == IF hist = <<>> THEN None ELSE hist[Len(hist)]
        snap(o) == IF \E i \in DOMAIN hist : from.accepts[i] = o THEN Accept(ops, o) ELSE None
        rcpts == [o \in DOMAIN ops |-> Receipt(ops[o].state, snap(o))]
        blocked == ops[Len(ops)].state = "blocked"
    IN  /\ core = [ops |-> ops, hist |-> hist, registered |-> FirstRegistration,
                   change |-> None, rejected |-> {}, cred |-> 0, session |-> 0]
        /\ spool = [requests |-> {}, hints |-> {}, receipts |-> rcpts]
        /\ journal = [marks |-> {}, receipts |-> rcpts, current |-> last]
        /\ \E container \in IF blocked THEN {None, ContainerOf(Len(ops), ops[Len(ops)].sel)}
                            ELSE IF IsRunning(last) THEN {ContainerOf(last.op, last.sel)}
                            ELSE {None} :
            host = [container |-> container, unit |-> IsRunning(last),
                    supervisor |-> IF IsRunning(last) /\ ~blocked THEN "up" ELSE "off",
                    backup |-> None]
Init ==
    /\ \E from \in Beginnings : Begin(from)
    /\ undo = core /\ policy = FirstRegistration
    /\ rec = [r \in Reconcilers |-> [pc |-> "idle", op |-> 0]]
    /\ run = IdleRun /\ data = 0 /\ flight = FALSE
    /\ events = 0

Next ==
    Administrator \/ (\E r \in Reconcilers : Reconcile(r)) \/ Helper \/ Supervisor \/ Environment

Spec == Init /\ [][Next]_vars
\* The loop reconciles every five seconds, the helper's path unit and timer
\* start it again, systemd restarts a unit that asks for it.  Nothing is
\* assumed of the administrator, the gateway or the request threads.
FairSpec ==
    /\ Spec
    /\ \A r \in Reconcilers : WF_vars(Reconcile(r))
    /\ WF_vars(Helper)
    /\ SF_vars(Supervisor)
-----------------------------------------------------------------------------
(* Properties.                                                             *)

\* The gateway admits requests only to the generation the core accepted last:
\* whatever container is up then was started from that generation's operation,
\* release and registration (admission_refusal, execute, recover, boot).
GatewayServesAccepted ==
    Admits(core) /\ Up =>
        /\ host.container.op = Accepted(core).op
        /\ host.container.rel = Accepted(core).sel.rel
        /\ host.container.reg = Accepted(core).sel.reg

\* The journal's current installation is the core's latest accepted one, or
\* one generation ahead of it while the journal holds the receipt of an
\* operation the core still has open (commit, reconcile_operation).
JournalLeadsByOne ==
    \/ journal.current = Accepted(core)
    \/ /\ Generation(journal.current) = Generation(Accepted(core)) + 1
       /\ \E o \in Pending(core) \cap DOMAIN journal.receipts :
            /\ journal.receipts[o].state = "succeeded"
            /\ journal.receipts[o].snap = journal.current

\* Generations are numbered without gaps and no operation is accepted twice,
\* whichever reconcilers race on its receipt (accepted_row, reconcile_operation).
HistoryIsContiguous ==
    \A i \in DOMAIN core.hist :
        /\ core.hist[i].gen = i
        /\ \A j \in 1..(i - 1) : core.hist[j].op # core.hist[i].op

\* The helper replaces the serving container only for an operation the core
\* holds switching, and the core never settles it under the helper's hands.
\* Restoring the accepted generation is all it does without (fell_back).
SwitchIsAdmitted ==
    run.pc \in {"backup", "mark", "stop", "start", "probe", "archive", "recover", "attest"}
        => core.ops[run.op].state = "switching"

\* Between operations a retired app has no container and no unit left that a
\* boot could start (retire, fell_back, tear_down).
RetiredStaysDown ==
    /\ IsRetired(Accepted(core)) /\ InState(core, {"queued", "switching", "blocked"}) = {}
    => host.container = None /\ ~host.unit /\ host.supervisor = "off"

\* Between operations an installed app has its unit, and no container but its
\* own (lifecycle, boot, restore_previous).
InstalledIsKept ==
    /\ IsRunning(Accepted(core)) /\ InState(core, {"queued", "switching", "blocked"}) = {}
    => /\ host.unit
       /\ host.container # None => host.container.op = Accepted(core).op

\* The registration a boot compares with is the accepted generation's: a
\* change waits as a proposal (update_registration, replace_registration).
BootAuthorityIsAccepted ==
    IsRunning(Accepted(core)) => core.registered = Accepted(core).sel.reg

\* Once an old container is gone for a switch that is not decided, the
\* backup named by the target generation exists (pre_switch_backup).
BackupBeforeSwitch ==
    \A o \in journal.marks \cap Pending(core) :
        /\ core.ops[o].kind \in {"deploy", "rollback"} /\ core.ops[o].sel.gen > 0
        /\ ~(host.container # None /\ host.container.op = Accepted(core).op)
        => host.backup # None /\ host.backup.op = o /\ host.backup.gen = core.ops[o].sel.gen + 1

\* Every operation the core has open is decided in the end, through crashes,
\* admission timeouts and lost commits (reconcile, execute, commit).
EveryOperationIsDecided == []<>(Pending(core) = {})

\* An operation on the accepted generation failed before it touched the host.
\* If the unit was asked to boot while it was switching, the unit was told to
\* stop, and nothing starts it again (start_supervisor, SuccessExitStatus).
MayBeDeferred ==
    \E o \in InState(core, {"failed"}) :
        core.ops[o].kind # "rehearse" /\ core.ops[o].sel.gen = Generation(Accepted(core))

\* While nothing is open and the installed generation may be booted, its unit
\* comes to supervise it, after every switch and every restart (sweep_markers,
\* start_supervisor, boot), unless a failed operation deferred its boot.
UnitComesBack ==
    []<>(\/ InState(core, {"queued", "switching", "blocked"}) # {} \/ ~BootGranted
         \/ host.supervisor = "up" \/ MayBeDeferred)

\* The journal receipt is the commit point: what the core is told of an
\* operation is what the journal holds, whatever fails in between (commit).
SpoolCopiesJournal ==
    \A o \in DOMAIN spool.receipts :
        o \in DOMAIN journal.receipts /\ journal.receipts[o] = spool.receipts[o]

\* The three histories of one installation agree, through every crash, failed
\* write, lost commit and race: the core's, the journal's, and what the spool
\* carries from one to the other (reconcile_operation, commit).
HistoriesAgree == HistoryIsContiguous /\ JournalLeadsByOne /\ SpoolCopiesJournal

\* Between operations the host is what the accepted generation says, and a
\* boot compares it with that generation (lifecycle, retire, boot).
HostMatchesAccepted == RetiredStaysDown /\ InstalledIsKept /\ BootAuthorityIsAccepted

\* What the helper replaces it replaces for an operation the core holds
\* switching, and after the backup that switch needs.
SwitchIsPrepared == SwitchIsAdmitted /\ BackupBeforeSwitch
-----------------------------------------------------------------------------
(* The operations and the history without selections, sessions and         *)
(* snapshots' contents.                                                    *)
Reported(snap) ==
    IF snap = None THEN [op |-> 0, retired |-> TRUE]
    ELSE [op |-> snap.op, retired |-> snap.retired]
OpEntry(c, o) ==
    [kind |-> c.ops[o].kind, stage |-> c.ops[o].state,
     target |-> IF c.ops[o].kind = "recover" THEN c.ops[o].recovers ELSE o]
Book(c) ==
    [ops |-> [o \in DOMAIN c.ops |-> OpEntry(c, o)],
     hist |-> [i \in DOMAIN c.hist |-> Reported(c.hist[i])]]

Promised == INSTANCE Installation WITH
    book <- Book(core), before <- Book(undo), installed <- Reported(journal.current),
    serving <- IF Admits(core) /\ Up THEN host.container.op ELSE 0

\* Coordinator, helper and host together implement the promised installation.
ImplementsInstallation == Promised!Spec

=============================================================================
