----------------------------- MODULE JobLifecycle -----------------------------
(***************************************************************************)
(* What the job engine promises, without leases, tokens, clocks or         *)
(* workers.  A job is attempted at most MaxAttempts times, is answered at  *)
(* most once and by its latest attempt, and is never done once somebody    *)
(* asked for it to stop.  JobQueue implements this specification.          *)
(*                                                                         *)
(* The steps of different jobs are independent, and one transaction of the *)
(* coordinator may move several of them: a lease sweep returns every       *)
(* abandoned job, and the claim that ran the sweep may start one of them.  *)
(* A step of this specification therefore moves any set of jobs at once.   *)
(***************************************************************************)
EXTENDS Naturals

CONSTANTS Jobs, MaxAttempts

VARIABLE life

Phases == {"absent", "queued", "running", "done", "failed"}

Life == [phase  : Phases,
         tries  : 0 .. MaxAttempts,   \* attempts begun
         asked  : BOOLEAN,            \* a cancellation was recorded
         answer : 0 .. MaxAttempts]   \* the attempt whose report was taken

Unborn == [phase |-> "absent", tries |-> 0, asked |-> FALSE, answer |-> 0]

Submit(a, b) ==
    /\ a.phase = "absent"
    /\ b = [a EXCEPT !.phase = "queued"]

Start(a, b) ==
    /\ a.phase = "queued"
    /\ b = [a EXCEPT !.phase = "running", !.tries = @ + 1]

\* The attempt is abandoned; the job waits for another, if any is left.
Abandon(a, b) ==
    /\ a.phase = "running" /\ ~a.asked /\ a.tries < MaxAttempts
    /\ b = [a EXCEPT !.phase = "queued"]

\* The transaction that abandons an attempt may begin the next one.
Retry(a, b) ==
    /\ a.phase = "running" /\ ~a.asked /\ a.tries < MaxAttempts
    /\ b = [a EXCEPT !.tries = @ + 1]

Finish(a, b) ==
    /\ a.phase = "running" /\ ~a.asked
    /\ b = [a EXCEPT !.phase = "done", !.answer = a.tries]

\* A job fails by the report of its current attempt, or unreported: when its
\* last attempt is lost, or when the attempt that was told to stop is lost.
Fail(a, b) ==
    /\ a.phase = "running"
    /\ \/ b = [a EXCEPT !.phase = "failed", !.answer = a.tries]
       \/ /\ a.asked \/ a.tries = MaxAttempts
          /\ b = [a EXCEPT !.phase = "failed"]

\* Asking a waiting job to stop fails it; a running one only remembers.
Ask(a, b) ==
    \/ /\ a.phase = "queued"
       /\ b = [a EXCEPT !.phase = "failed", !.asked = TRUE]
    \/ /\ a.phase = "running"
       /\ b = [a EXCEPT !.asked = TRUE]

Move(a, b) ==
    \/ Submit(a, b) \/ Start(a, b) \/ Abandon(a, b) \/ Retry(a, b)
    \/ Finish(a, b) \/ Fail(a, b) \/ Ask(a, b)

Init == life = [j \in Jobs |-> Unborn]

Next ==
    /\ life' \in [Jobs -> Life]
    /\ \A j \in Jobs : life'[j] = life[j] \/ Move(life[j], life'[j])

Spec == Init /\ [][Next]_life
===============================================================================
