------------------------------- MODULE Discovery -------------------------------
(***************************************************************************)
(* Release discovery of one application (src/app/app_discovery.py): the    *)
(* five-minute loop, the portal's "check" and the operator's check-updates *)
(* poll the release list of the application's repository, verify what they *)
(* find and retain what passes.                                            *)
(*                                                                         *)
(* A run reads the cursor (etag and waiting set), awaits the provider many *)
(* times and writes the cursor back at its end; nothing keeps two runs     *)
(* apart.  Since an unchanged list is not sent again, a release that the   *)
(* cursor's etag covers is found again only through the waiting set.       *)
(*                                                                         *)
(* Releases are numbered in the order they are published.  Abstracted: the *)
(* evidence verify compares (it convinces or it does not), and time: a     *)
(* release cools until its next_attempt, which no verification of it       *)
(* outlasts (the shortest delay is five minutes).                          *)
(*                                                                         *)
(* An operator named ...Bug is the definition after it with a mistake in   *)
(* it; nothing here uses one.                                              *)
(***************************************************************************)
EXTENDS Naturals, Sequences, FiniteSets, FiniteSetsExt

CONSTANTS
    Discoverers,  \* the loop, the portal's requests, the operator's command line
    Sources,      \* repositories the application is or may be registered with
    Window,       \* releases on a page of the list, and kept waiting: 20
    MaxTries,     \* MAX_VERIFY_ATTEMPTS
    Room,         \* MAX_STORE_BYTES, in archives of this application
    MaxReleases,  \* bound: releases published
    MaxMoves      \* bound: changes of the registered source

ASSUME DiscoveryAssumption ==
    {Window, MaxTries, Room, MaxReleases, MaxMoves} \subseteq Nat

VARIABLES
    source,     \* the source now registered, or proposed for the installed application
    moves,      \* how often it changed
    published,  \* the provider: [at, running] of each release, by number
    eligible,   \* app_eligible_releases
    attempts,   \* app_release_attempts
    cooling,    \* releases whose next_attempt is in the future
    cursor,     \* app_discovery: [etag, waiting]
    cut,        \* ghost: releases the cursor's limit ever left out
    runs        \* what each discoverer is doing
discoveryVars ==
    <<source, moves, published, eligible, attempts, cooling, cursor, cut, runs>>

provider == <<source, moves, published>>
records == <<eligible, attempts, cooling>>

Releases == 1..MaxReleases
NoList == [at |-> {}, releases |-> {}]
Resting == [at |-> "rest"]

Newest(n, S) == {r \in S : Cardinality({other \in S : other > r}) < n}

\* The first page of a source's release list; equal lists have equal etags.
List(s) ==
    [at |-> {s}, releases |->
        Newest(Window, {r \in DOMAIN published : published[r].at = s})]

Settled(r) == r \in eligible \/ attempts[r] >= MaxTries

InitDiscovery ==
    /\ source \in Sources /\ moves = 0
    /\ published = <<>>
    /\ eligible = {} /\ attempts = [r \in Releases |-> 0] /\ cooling = {}
    /\ cursor = [etag |-> NoList, waiting |-> {}] /\ cut = {}
    /\ runs = [d \in Discoverers |-> Resting]

-----------------------------------------------------------------------------
(* The provider, the operator and the clock *)

Publish(s) ==
    /\ Len(published) < MaxReleases
    /\ published' = Append(published, [at |-> s, running |-> TRUE])
    /\ UNCHANGED <<source, moves, records, cursor, cut, runs>>

WorkflowEnds(r) ==
    /\ published[r].running
    /\ published' = [published EXCEPT ![r].running = FALSE]
    /\ UNCHANGED <<source, moves, records, cursor, cut, runs>>

ChangeSource(s) ==
    /\ s # source /\ moves < MaxMoves
    /\ source' = s /\ moves' = moves + 1
    /\ UNCHANGED <<published, records, cursor, cut, runs>>

Cools(r) ==
    /\ \A d \in Discoverers : runs[d].at = "verify" => runs[d].release # r
    /\ cooling' = cooling \ {r}
    /\ UNCHANGED <<provider, eligible, attempts, cursor, cut, runs>>

-----------------------------------------------------------------------------
(* One run of discover *)

Becomes(d, run) == runs' = [runs EXCEPT ![d] = run]

Discover(d) ==
    /\ runs[d] = Resting
    /\ Becomes(d, [at |-> "ask", source |-> source,
                   etag |-> cursor.etag, waiting |-> cursor.waiting])
    /\ UNCHANGED <<provider, records, cursor, cut>>

\* A conditional request: the list, or that it is still the one of the etag.
Listing(d) ==
    LET run == runs[d] now == List(run.source) IN
    /\ run.at = "ask"
    /\ Becomes(d, [at |-> "work", source |-> run.source, etag |-> now,
                   waiting |-> run.waiting,
                   left |-> IF run.etag = now THEN run.waiting
                            ELSE run.waiting \cup now.releases])
    /\ UNCHANGED <<provider, records, cursor, cut>>

\* The newest release of those left, with what the tables now say of it.
First(run) == Max(run.left)
Passed(run, waiting) ==
    [at |-> "work", source |-> run.source, etag |-> run.etag,
     waiting |-> waiting, left |-> run.left \ {First(run)}]

Skip(d) ==
    LET run == runs[d] r == First(run) IN
    /\ run.at = "work" /\ run.left # {} /\ (Settled(r) \/ r \in cooling)
    /\ Becomes(d, Passed(run, IF Settled(r) THEN run.waiting \ {r} ELSE run.waiting \cup {r}))
    /\ UNCHANGED <<provider, records, cursor, cut>>

Verify(d) ==
    LET run == runs[d] r == First(run) IN
    /\ run.at = "work" /\ run.left # {} /\ ~Settled(r) /\ r \notin cooling
    /\ Becomes(d, [at |-> "verify", source |-> run.source, etag |-> run.etag,
                   waiting |-> run.waiting, left |-> run.left,
                   release |-> r, attempts |-> attempts[r]])
    /\ UNCHANGED <<provider, records, cursor, cut>>

Verifying(d) == runs[d].at = "verify"
Here(run) == published[run.release].at = run.source

\* The release is proven, and the store has it already or has room for it.
Retain(d) ==
    LET run == runs[d] IN
    /\ Verifying(d) /\ Here(run) /\ ~published[run.release].running
    /\ run.release \in eligible \/ Cardinality(eligible) < Room
    /\ eligible' = eligible \cup {run.release}
    /\ Becomes(d, Passed(run, run.waiting \ {run.release}))
    /\ UNCHANGED <<provider, attempts, cooling, cursor, cut>>

\* PublicationPending
Postpone(d) ==
    LET run == runs[d] IN
    /\ Verifying(d) /\ Here(run) /\ published[run.release].running
    /\ Becomes(d, Passed(run, run.waiting \cup {run.release}))
    /\ UNCHANGED <<provider, records, cursor, cut>>

\* The evidence does not convince: a release that is not this source's never
\* does, another's may come to.
RejectBug(d) ==
    LET run == runs[d] IN
    /\ Verifying(d)
    /\ attempts' = [attempts EXCEPT ![run.release] = run.attempts + 1]
    /\ cooling' = cooling \cup {run.release}
    /\ Becomes(d, Passed(run, run.waiting \ {run.release}))
    /\ UNCHANGED <<provider, eligible, cursor, cut>>

Reject(d) ==
    LET run == runs[d] tried == run.attempts + 1 IN
    /\ Verifying(d)
    /\ attempts' = [attempts EXCEPT ![run.release] = tried]
    /\ cooling' = cooling \cup {run.release}
    /\ Becomes(d, Passed(run, IF tried < MaxTries THEN run.waiting \cup {run.release}
                              ELSE run.waiting \ {run.release}))
    /\ UNCHANGED <<provider, eligible, cursor, cut>>

\* The store is full.
NoRoom(d) ==
    LET run == runs[d] IN
    /\ Verifying(d) /\ Here(run) /\ ~published[run.release].running
    /\ run.release \notin eligible /\ Cardinality(eligible) >= Room
    /\ Becomes(d, Resting)
    /\ UNCHANGED <<provider, records, cursor, cut>>

\* The provider is unavailable or limits the rate, a timeout, the process dies.
Interrupted(d) ==
    /\ runs[d] # Resting
    /\ Becomes(d, Resting)
    /\ UNCHANGED <<provider, records, cursor, cut>>

Save(d) ==
    LET run == runs[d] IN
    /\ run.at = "work" /\ run.left = {}
    /\ cursor' = [etag |-> run.etag, waiting |-> Newest(Window, run.waiting)]
    /\ cut' = cut \cup (run.waiting \ cursor'.waiting)
    /\ Becomes(d, Resting)
    /\ UNCHANGED <<provider, records>>

NextDiscovery ==
    \/ \E s \in Sources : ChangeSource(s) \/ Publish(s)
    \/ \E r \in DOMAIN published : WorkflowEnds(r)
    \/ \E r \in cooling : Cools(r)
    \/ \E d \in Discoverers :
         \/ Discover(d) \/ Listing(d) \/ Skip(d) \/ Verify(d)
         \/ Retain(d) \/ Postpone(d) \/ Reject(d)
         \/ NoRoom(d) \/ Interrupted(d) \/ Save(d)

SpecDiscovery == InitDiscovery /\ [][NextDiscovery]_discoveryVars

-----------------------------------------------------------------------------

\* A release on the list the cursor remembers, which therefore may not be sent
\* again, is retained, given up after MaxTries, or waiting to be tried, whatever
\* runs overlap, fail or find the store full.  Only a change of the source can
\* push one off the waiting set, behind releases of the other (discover).
NothingIsForgotten ==
    \A r \in cursor.etag.releases :
        Settled(r) \/ r \in cursor.waiting \/ (moves > 0 /\ r \in cut)

================================================================================
