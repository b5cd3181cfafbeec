------------------------------ MODULE Previews ------------------------------
(***************************************************************************)
(* Staging previews: the coordinator (src/app/app_previews.py and the      *)
(* preview action of src/app/dashboard_apps.py) asks a disposable guest    *)
(* (src/ops/preview_guest.py, src/ops/preview_runtime.py) to run a release *)
(* before an administrator decides on it.  Each side keeps a table of      *)
(* attempts; answers are lost or late, the guest may stop at any point and *)
(* Docker may refuse a cleanup.                                            *)
(*                                                                         *)
(* Attempts are numbered in the order the coordinator inserted them.       *)
(* Assumed of Docker: a `docker run` whose client was killed leaves        *)
(* nothing that appears later.                                             *)
(*                                                                         *)
(* An operator named ...Bug is the definition after it with a mistake in   *)
(* it; nothing here uses one.                                              *)
(***************************************************************************)
EXTENDS Integers, Sequences, FiniteSets

CONSTANTS
    Apps,         \* managed applications
    Releases,     \* workflow-verified releases, in the retained store
    AppOf,        \* the application of each release
    PREVIEW_SLOTS,\* previews staging may hold (two in the code, both sides)
    MaxAttempts,  \* bound: attempts ever inserted
    MaxEvents     \* bound: lost answers, failed installations, refused cleanups,
                  \*   stops of the guest, commands, rejections and changes of what is installed

ASSUME PreviewAssumption ==
    /\ AppOf \in [Releases -> Apps]
    /\ PREVIEW_SLOTS \in Nat \ {0} /\ MaxAttempts \in Nat /\ MaxEvents \in Nat

VARIABLES
    att,       \* app_preview_attempts of the coordinator, by rowid
    rejected,  \* releases an administrator rejected
    current,   \* the release each application has installed
    busy,      \* applications with an undecided operation
    call,      \* the request each caller waits for: the one action an
               \*   application's lock admits, and the command line's
    row,       \* the guest's journal
    dock,      \* attempts whose containers and network exist
    task,      \* the guest's installations in progress
    drop,      \* the guest's retirements in progress
    guest,     \* the guest process: up, down, or reconciling
    overtaken, \* history: attempts closed as unknown after their upload had been sent again
    events     \* how much of MaxEvents is used

vars == <<att, rejected, current, busy, call, row, dock, task, drop,
          guest, overtaken, events>>

None == 0                    \* no release
NoCall == [method |-> "none"]
Operator == "operator"       \* the command line, which holds no lock
Callers == Apps \cup {Operator}
Attempts == 1..MaxAttempts
Live == {"installing", "ready"}
Results == Live \cup {"failed", "retired"}
-----------------------------------------------------------------------------
(* The coordinator.                                                        *)

Owner(a) == AppOf[att[a].rel]
OpenIn(t) == {a \in DOMAIN t : t[a].state # "retired"}
OfApp(t, p) == {a \in OpenIn(t) : AppOf[t[a].rel] = p}

\* Attempts no card can offer any more, and the app's own that are in the way.
Worthless(p, rel) ==
    {a \in OpenIn(att) :
        \/ att[a].rel \in rejected
        \/ Owner(a) = p /\ (att[a].rel # rel \/ att[a].state = "failed")
        \/ current[Owner(a)] = att[a].rel}
\* Then the oldest previews of idle apps, while staging would stay full.
Movable(p, rel) ==
    {a \in OpenIn(att) \ Worthless(p, rel) :
        Owner(a) # p /\ att[a].state # "installing" /\ Owner(a) \notin busy}
Excess(p, rel) ==
    Cardinality({a \in OpenIn(att) \ Worthless(p, rel) : Owner(a) # p}) + 1 - PREVIEW_SLOTS
previews_to_evict(p, rel) ==
    LET older(a) == {b \in Movable(p, rel) : b < a}
    IN  [first |-> Worthless(p, rel),
         others |-> {a \in Movable(p, rel) :
                        Cardinality({a} \cup older(a)) <= Excess(p, rel)}]

Event == events < MaxEvents /\ events' = events + 1

\* The evictions of a list that are left in table t, without the attempt `but`;
\* within each part the oldest goes first.
NothingStale == [first |-> {}, others |-> {}]
LeftOf(stale, t, but) ==
    [first |-> (stale.first \cap OpenIn(t)) \ but,
     others |-> (stale.others \cap OpenIn(t)) \ but]
Oldest(stale) ==
    LET part == IF stale.first # {} THEN stale.first ELSE stale.others
    IN  CHOOSE a \in part : \A b \in part : a <= b

\* A request about attempt a leaves.  Only a retirement looks at whether staging
\* ever answered for the attempt.
Request(method, a, t, rel, stale) ==
    [method |-> method, att |-> a, reply |-> "sent", rel |-> rel, stale |-> stale,
     fresh |-> method = "DELETE" /\ ~t[a].answered]

\* preview(), with t for the table: the app's open attempt is used again, or a
\* new one is reserved.
Reserve(x, rel, t) ==
    LET mine == OfApp(t, AppOf[rel])
        new == Append(t, [rel |-> rel, state |-> "installing", answered |-> FALSE])
        put(a, table) == att' = table
                            /\ call' = [call EXCEPT ![x] = Request("PUT", a, table, rel, NothingStale)]
    IN  IF mine = {} /\ Len(t) < MaxAttempts THEN put(Len(new), new)
        ELSE IF \E a \in mine : t[a].rel = rel THEN \E a \in mine : put(a, t)
        ELSE att' = t /\ call' = [call EXCEPT ![x] = NoCall]

\* The action of app p up to its next await: the evictions that are left, a
\* retired attempt being answered from its row, then the preview.
Proceed(p, rel, stale, t) ==
    LET left == LeftOf(stale, t, {})
        next == Oldest(left)
    IN  IF left = NothingStale THEN Reserve(p, rel, t)
        ELSE /\ att' = t
             /\ call' = [call EXCEPT ![p] =
                            Request("DELETE", next, t, rel, LeftOf(left, t, {next}))]

\* A press of the button, under the app's lock and between operations.
Press(p, rel) ==
    /\ call[p] = NoCall /\ p \notin busy
    /\ AppOf[rel] = p /\ rel \notin rejected
    /\ Proceed(p, rel, previews_to_evict(p, rel), att)
    /\ UNCHANGED <<rejected, current, busy, row, dock, task, drop, guest, overtaken, events>>

\* preview, preview-status and retire-preview of the command line, which takes
\* no lock and evicts nothing.
Command ==
    /\ call[Operator] = NoCall /\ Event
    /\ \/ \E rel \in Releases : Reserve(Operator, rel, att)
       \/ \E a \in OpenIn(att), m \in {"GET", "DELETE"} :
            /\ call' = [call EXCEPT ![Operator] = Request(m, a, att, att[a].rel, NothingStale)]
            /\ UNCHANGED att
    /\ UNCHANGED <<rejected, current, busy, row, dock, task, drop, guest, overtaken>>

\* How the coordinator reads an answer: the state it records, or none.
Confirmed(c) ==
    IF c.reply \in Results THEN c.reply
    ELSE IF c.method = "DELETE" /\ c.reply = "unknown" /\ c.fresh THEN "retired" ELSE "none"

\* The unique index refuses a row that would be the app's second open one.
Recordable(a, state) == state = "retired" \/ OfApp(att, Owner(a)) \subseteq {a}

UnderWay(a) ==
    \E x \in Callers : call[x].method = "PUT" /\ call[x].att = a /\ call[x].reply = "sent"

\* The answer is recorded; an error ends the action, an eviction is followed by
\* the next request, a ready preview by the request of its rehearsal.
Receive(x) ==
    /\ call[x] # NoCall /\ call[x].reply \notin {"sent", "retiring"}
    /\ LET c == call[x]
           said == Confirmed(c)
           ok == said # "none" /\ Recordable(c.att, said)
           table == IF ok THEN [att EXCEPT ![c.att].state = said, ![c.att].answered = TRUE]
                    ELSE att
       IN  /\ IF ok /\ x # Operator /\ c.method = "DELETE"
              THEN Proceed(x, c.rel, c.stale, table)
              ELSE att' = table /\ call' = [call EXCEPT ![x] = NoCall]
           /\ busy' = IF ok /\ x # Operator /\ c.method = "PUT" /\ said = "ready"
                      THEN busy \cup {x} ELSE busy
           /\ overtaken' = IF /\ ok /\ c.reply = "unknown"
                              /\ UnderWay(c.att) \/ row[c.att] # "none"
                           THEN overtaken \cup {c.att} ELSE overtaken
    /\ UNCHANGED <<rejected, current, row, dock, task, drop, guest, events>>

\* The caller gives up: the guest is not there, or the answer is lost or late.
\* A request nobody has read goes with its connection.
GiveUp(x) ==
    /\ call[x] # NoCall
    /\ IF call[x].reply = "sent" THEN guest # "up" /\ UNCHANGED events ELSE Event
    /\ call' = [call EXCEPT ![x] = NoCall]
    /\ UNCHANGED <<att, rejected, current, busy, row, dock, task, drop, guest, overtaken>>

Reject(rel) ==
    /\ call[AppOf[rel]] = NoCall /\ current[AppOf[rel]] # rel
    /\ rejected' = rejected \cup {rel} /\ Event
    /\ UNCHANGED <<att, current, busy, call, row, dock, task, drop, guest,
                   overtaken>>

\* The rehearsal or the deployment of a previewed release is decided.
Decide(p) ==
    /\ p \in busy /\ busy' = busy \ {p}
    /\ \/ UNCHANGED <<current, events>>
       \/ Event /\ \E a \in DOMAIN att :
            Owner(a) = p /\ current' = [current EXCEPT ![p] = att[a].rel]
    /\ UNCHANGED <<att, rejected, call, row, dock, task, drop, guest, overtaken>>
-----------------------------------------------------------------------------
(* The guest.                                                              *)

InState(states) == {a \in Attempts : row[a] \in states}
Answer(x, reply) == call' = [call EXCEPT ![x].reply = reply]
Sent(x, method) == guest = "up" /\ call[x] # NoCall /\ call[x].reply = "sent" /\ call[x].method = method

\* admit(): a slot, no other open attempt of the app, no other installation.
Admissible(a) ==
    /\ Cardinality(InState(Live)) < PREVIEW_SLOTS
    /\ \A b \in InState(Live \cup {"failed"}) : Owner(b) # Owner(a)
    /\ InState({"installing"}) = {}
Admit(a) ==
    /\ row' = [row EXCEPT ![a] = "installing"]
    /\ task' = [task EXCEPT ![a] = "install"]

\* An upload is answered with the journaled result, which is "installing" for
\* the one it admits.
Put(x) ==
    /\ Sent(x, "PUT")
    /\ LET a == call[x].att IN
        \/ row[a] # "none" /\ Answer(x, row[a]) /\ UNCHANGED <<row, task>>
        \/ row[a] = "none" /\ Admissible(a) /\ Admit(a) /\ Answer(x, "installing")
        \/ row[a] = "none" /\ ~Admissible(a) /\ Answer(x, "refused") /\ UNCHANGED <<row, task>>
    /\ UNCHANGED <<att, rejected, current, busy, dock, drop, guest, overtaken, events>>

Get(x) ==
    /\ Sent(x, "GET")
    /\ LET a == call[x].att IN
        IF row[a] = "none" THEN Answer(x, "unknown") ELSE Answer(x, row[a])
    /\ UNCHANGED <<att, rejected, current, busy, row, dock, task, drop, guest,
                   overtaken, events>>

Retiring(x) == call[x] # NoCall /\ call[x].reply = "retiring"

\* retire_attempt(): refused while installing; the containers go first.
DeleteBug(x) ==
    /\ Sent(x, "DELETE")
    /\ LET a == call[x].att IN
        \/ row[a] = "none" /\ Answer(x, "unknown") /\ UNCHANGED drop
        \/ row[a] \in Live \cup {"failed", "retired"}
           /\ Answer(x, "retiring")
           /\ drop' = drop \cup {[att |-> a, pc |-> "cleanup"]}
    /\ UNCHANGED <<att, rejected, current, busy, row, dock, task, guest, overtaken, events>>
Delete(x) ==
    /\ Sent(x, "DELETE")
    /\ LET a == call[x].att IN
        \/ row[a] = "none" /\ Answer(x, "unknown") /\ UNCHANGED drop
        \/ row[a] = "installing" /\ Answer(x, "refused") /\ UNCHANGED drop
        \/ row[a] \in {"ready", "failed", "retired"}
           /\ Answer(x, "retiring")
           /\ drop' = drop \cup {[att |-> a, pc |-> "cleanup"]}
    /\ UNCHANGED <<att, rejected, current, busy, row, dock, task, guest, overtaken, events>>

\* cleanup() runs in a thread; what a refused one has removed is removed.
DropCleanup(d) ==
    /\ d \in drop /\ d.pc = "cleanup"
    /\ \/ dock' = dock \ {d.att} /\ drop' = (drop \ {d}) \cup {[d EXCEPT !.pc = "save"]}
          /\ UNCHANGED <<events, call>>
       \/ Event /\ drop' = drop \ {d} /\ UNCHANGED dock
          /\ call' = [x \in Callers |->
                        IF Retiring(x) /\ call[x].att = d.att
                        THEN [call[x] EXCEPT !.reply = "refused"] ELSE call[x]]
    /\ UNCHANGED <<att, rejected, current, busy, row, task, guest, overtaken>>

DropSave(d) ==
    /\ d \in drop /\ d.pc = "save" /\ drop' = drop \ {d}
    /\ row' = [row EXCEPT ![d.att] = "retired"]
    /\ call' = [x \in Callers |->
                  IF Retiring(x) /\ call[x].att = d.att
                  THEN [call[x] EXCEPT !.reply = "retired"] ELSE call[x]]
    /\ UNCHANGED <<att, rejected, current, busy, dock, task, guest, overtaken, events>>

\* install(): network and containers appear one by one, then verify().
InstallRun(a) ==
    /\ task[a] = "install"
    /\ task' = [task EXCEPT ![a] = "verify"] /\ dock' = dock \cup {a}
    /\ UNCHANGED <<att, rejected, current, busy, call, row, drop, guest, overtaken, events>>
InstallReady(a) ==
    /\ task[a] = "verify"
    /\ task' = [task EXCEPT ![a] = "none"] /\ row' = [row EXCEPT ![a] = "ready"]
    /\ UNCHANGED <<att, rejected, current, busy, call, dock, drop, guest,
                   overtaken, events>>
InstallFails(a) ==
    /\ task[a] \in {"install", "verify"}
    /\ task' = [task EXCEPT ![a] = "fail"] /\ Event
    /\ UNCHANGED <<att, rejected, current, busy, call, row, dock, drop, guest,
                   overtaken>>

\* fail(): an uncertain cleanup keeps the attempt "installing".
FailedBug(a, clean) == [row EXCEPT ![a] = "failed"]
Failed(a, clean) == [row EXCEPT ![a] = IF clean THEN "failed" ELSE "installing"]
InstallFailed(a) ==
    /\ task[a] = "fail" /\ task' = [task EXCEPT ![a] = "none"]
    /\ \/ dock' = dock \ {a} /\ row' = Failed(a, TRUE) /\ UNCHANGED events
       \/ Event /\ row' = Failed(a, FALSE) /\ UNCHANGED dock
    /\ UNCHANGED <<att, rejected, current, busy, call, drop, guest, overtaken>>

GuestStops ==
    /\ guest # "down" /\ Event /\ guest' = "down"
    /\ task' = [a \in Attempts |-> "none"] /\ drop' = {}
    /\ call' = [x \in Callers |-> IF Retiring(x) THEN NoCall ELSE call[x]]
    /\ UNCHANGED <<att, rejected, current, busy, row, dock, overtaken>>

\* A start works through the journal, and serves nobody before it is done.
GuestStarts ==
    /\ guest = "down" /\ guest' = "reconciling"
    /\ task' = [a \in Attempts |-> IF row[a] = "none" THEN "none" ELSE "check"]
    /\ UNCHANGED <<att, rejected, current, busy, call, row, dock, drop, overtaken, events>>

Unchecked == {a \in Attempts : task[a] = "check"}
\* reconcile(): what is ready is checked again, what was interrupted fails, of
\* the rest nothing may be left.  A row that cannot be saved, for the index on
\* installations, or a cleanup refused for a closed row, ends the start.
Reconcile(a) ==
    /\ guest = "reconciling" /\ a \in Unchecked /\ \A b \in Unchecked : a <= b
    /\ LET passes == row[a] = "ready" /\ a \in dock
           fails(clean) ==
                IF ~clean /\ \E b \in InState({"installing"}) : b # a
                THEN guest' = "down" /\ task' = [b \in Attempts |-> "none"] /\ UNCHANGED row
                ELSE /\ row' = Failed(a, clean) /\ task' = [task EXCEPT ![a] = "none"]
                     /\ UNCHANGED guest
       IN  \/ passes /\ task' = [task EXCEPT ![a] = "none"] /\ UNCHANGED <<row, dock, events, guest>>
           \/ /\ row[a] \in Live
              /\ \/ dock' = dock \ {a} /\ fails(TRUE) /\ UNCHANGED events
                 \/ Event /\ fails(FALSE) /\ UNCHANGED dock
           \/ /\ row[a] \notin Live
              /\ \/ dock' = dock \ {a} /\ task' = [task EXCEPT ![a] = "none"]
                    /\ UNCHANGED <<events, guest>>
                 \/ Event /\ guest' = "down" /\ task' = [b \in Attempts |-> "none"] /\ UNCHANGED dock
              /\ UNCHANGED row
    /\ UNCHANGED <<att, rejected, current, busy, call, drop, overtaken>>

GuestReady ==
    /\ guest = "reconciling" /\ Unchecked = {} /\ guest' = "up"
    /\ UNCHANGED <<att, rejected, current, busy, call, row, dock, task, drop,
                   overtaken, events>>
-----------------------------------------------------------------------------
Init ==
    /\ att = <<>> /\ rejected = {} /\ current = [p \in Apps |-> None] /\ busy = {}
    /\ call = [x \in Callers |-> NoCall]
    /\ row = [a \in Attempts |-> "none"] /\ dock = {}
    /\ task = [a \in Attempts |-> "none"] /\ drop = {} /\ guest = "up"
    /\ overtaken = {} /\ events = 0

Coordinator ==
    \/ \E p \in Apps : (\E rel \in Releases : Press(p, rel)) \/ Decide(p)
    \/ \E rel \in Releases : Reject(rel)
    \/ \E x \in Callers : Receive(x) \/ GiveUp(x)
    \/ Command
Handlers ==
    \/ \E x \in Callers : Put(x) \/ Get(x) \/ Delete(x)
    \/ \E d \in drop : DropCleanup(d) \/ DropSave(d)
Installer ==
    \/ \E a \in Attempts : InstallRun(a) \/ InstallReady(a) \/ InstallFails(a) \/ InstallFailed(a)
    \/ GuestStarts \/ GuestReady \/ \E a \in Attempts : Reconcile(a)

Next == Coordinator \/ Handlers \/ Installer \/ GuestStops
Spec == Init /\ [][Next]_vars
-----------------------------------------------------------------------------
\* "At most two installing or ready previews" is also what the machine runs:
\* the containers of never more attempts than there are slots exist, through
\* refused cleanups, stops and restarts (retire_attempt, fail, reconcile).
ContainersFitTheSlots == Cardinality(dock) <= PREVIEW_SLOTS

\* Retirement and failure are recorded only after the containers are gone.
ClosedAttemptsAreClean == \A a \in dock : row[a] \in Live \/ \E d \in drop : d.att = a

\* An application has one open attempt with the guest, and one installation
\* runs at a time (admit and the guest's unique indexes).
OneOpenAttempt ==
    /\ \A a, b \in InState(Live \cup {"failed"}) : Owner(a) = Owner(b) => a = b
    /\ Cardinality({a \in Attempts : task[a] \in {"install", "verify", "fail"}}) <= 1

\* What the coordinator retired holds nothing in the guest any more, and never
\* will, unless it closed the attempt as unknown with its upload under way.
RetiredIsGone ==
    \A a \in DOMAIN att \ overtaken : att[a].state = "retired" =>
        row[a] = "retired" \/ (row[a] = "none" /\ ~UnderWay(a))

\* The guest's books are true: what they call closed is gone, what is open is
\* within its limits, and so is what the machine really runs.
GuestBooksAreTrue == ContainersFitTheSlots /\ ClosedAttemptsAreClean /\ OneOpenAttempt

=============================================================================
