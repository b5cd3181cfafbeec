-------------------------- MODULE Previews_proofs --------------------------
(***************************************************************************)
(* The two tables of staging previews agree with what really runs: for any *)
(* number of applications, releases, attempts, slots and mishaps.          *)
(***************************************************************************)
EXTENDS Previews, FiniteSetTheorems, WellFoundedInduction, TLAPS

LEMMA HasLeast ==
    ASSUME NEW S, S \subseteq Nat, S # {}
    PROVE  \E a \in S : \A b \in S : a <= b
<1>1. PICK a \in S : \A b \in S : ~(<<b, a>> \in OpToRel(<, Nat))
  BY WFMin, NatLessThanWellFounded
<1>2. ASSUME NEW b \in S  PROVE ~(b < a)
  BY <1>1 DEF OpToRel
<1> QED BY <1>2

(***************************************************************************)
(* The coordinator's side of the invariant.                                *)
(***************************************************************************)
Replies == {"sent", "retiring", "refused", "unknown"} \cup Results
Stale == [first : SUBSET Attempts, others : SUBSET Attempts]
Calls == [method : {"PUT", "GET", "DELETE"}, att : Attempts, reply : Replies,
          rel : Releases, stale : Stale, fresh : BOOLEAN]
Rows == [rel : Releases, state : Results, answered : BOOLEAN]

IsTable(t) == t \in Seq(Rows) /\ Len(t) <= MaxAttempts

\* A request names only attempts that were inserted.
About(c, t) ==
    /\ c \in Calls
    /\ c.att \in DOMAIN t
    /\ c.stale.first \subseteq DOMAIN t /\ c.stale.others \subseteq DOMAIN t

CoordinatorInv ==
    /\ IsTable(att)
    /\ DOMAIN call = Callers
    /\ \A x \in Callers : call[x] = NoCall \/ About(call[x], att)

(***************************************************************************)
(* The guest's side.  A retirement in progress has closed its attempt for  *)
(* good, an installation is of the one attempt being installed.            *)
(***************************************************************************)
Open == Live \cup {"failed"}
Installing == {"install", "verify", "fail"}
Drops == [att : Attempts, pc : {"cleanup", "save"}]

GuestTypes ==
    /\ row \in [Attempts -> Results \cup {"none"}]
    /\ dock \subseteq Attempts
    /\ task \in [Attempts -> Installing \cup {"none", "check"}]
    /\ drop \subseteq Drops
    /\ guest \in {"up", "down", "reconciling"}

JournalInv ==
    /\ \A a \in Attempts : row[a] # "none" => a \in DOMAIN att
    /\ Cardinality(InState(Live)) <= PREVIEW_SLOTS
    /\ \A a, b \in InState(Open) : Owner(a) = Owner(b) => a = b

WorkInv ==
    /\ \A a \in dock : row[a] \in Live
    /\ drop # {} => guest = "up"
    /\ \A d \in drop : /\ row[d.att] \in {"ready", "failed", "retired"}
                       /\ d.pc = "save" => d.att \notin dock
    /\ \A a \in Attempts :
          /\ task[a] \in Installing => row[a] = "installing" /\ guest = "up"
          /\ task[a] = "check" => guest = "reconciling"
    /\ \A a, b \in Attempts : task[a] \in Installing /\ task[b] \in Installing => a = b

GuestInv == GuestTypes /\ JournalInv /\ WorkInv

\* An answer that the attempt is retired is true, and stays true.
AnswersInv ==
    \A x \in Callers : call[x] # NoCall /\ call[x].reply = "retired" => row[call[x].att] = "retired"

PreviewsInv == CoordinatorInv /\ GuestInv /\ AnswersInv /\ RetiredIsGone
-----------------------------------------------------------------------------
(***************************************************************************)
(* What a step of the coordinator may do.                                  *)
(***************************************************************************)
\* A request just sent; an upload is of an open attempt.
Begun(c, t) ==
    /\ About(c, t) /\ c.reply = "sent"
    /\ c.method = "PUT" => t[c.att].state # "retired"

Grows(t, u) ==
    \A a \in DOMAIN t : a \in DOMAIN u /\ u[a].rel = t[a].rel

\* The action of x goes on from table t.
Goes(x, t) ==
    /\ IsTable(att')
    /\ \A a \in DOMAIN t : a \in DOMAIN att' /\ att'[a] = t[a]
    /\ \A a \in DOMAIN att' : a \in DOMAIN t \/ att'[a].state # "retired"
    /\ DOMAIN call' = Callers
    /\ \A y \in Callers : y # x => call'[y] = call[y]
    /\ call'[x] = NoCall \/ Begun(call'[x], att')

LEMMA TableDomain ==
    ASSUME NEW t, IsTable(t)
    PROVE  /\ DOMAIN t = 1 .. Len(t) /\ DOMAIN t \subseteq Attempts /\ Len(t) \in Nat
           /\ \A a \in DOMAIN t : t[a] \in Rows
BY PreviewAssumption DEF IsTable, Attempts

LEMMA RequestIsBegun ==
    ASSUME NEW t, IsTable(t), NEW a \in DOMAIN t, NEW rel \in Releases,
           NEW m \in {"PUT", "GET", "DELETE"}, NEW stale \in Stale,
           stale.first \subseteq DOMAIN t, stale.others \subseteq DOMAIN t,
           m = "PUT" => t[a].state # "retired"
    PROVE  Begun(Request(m, a, t, rel, stale), t)
<1>1. a \in Attempts /\ t[a] \in Rows
  BY TableDomain
<1>2. (m = "DELETE" /\ ~t[a].answered) \in BOOLEAN
  OBVIOUS
<1> QED
  BY <1>1, <1>2 DEF Begun, About, Request, Calls, Replies

LEMMA NothingStaleType ==
    ASSUME NEW t
    PROVE  /\ NothingStale \in Stale
           /\ NothingStale.first \subseteq DOMAIN t /\ NothingStale.others \subseteq DOMAIN t
BY DEF NothingStale, Stale

LEMMA ReserveGoes ==
    ASSUME NEW x \in Callers, NEW rel \in Releases, NEW t, IsTable(t),
           DOMAIN call = Callers, Reserve(x, rel, t)
    PROVE  Goes(x, t)
<1> DEFINE mine == OfApp(t, AppOf[rel])
           new == Append(t, [rel |-> rel, state |-> "installing", answered |-> FALSE])
<1> USE DEF Goes
<1>1. DOMAIN t \subseteq Attempts /\ DOMAIN t = 1 .. Len(t) /\ Len(t) \in Nat
  BY TableDomain
<1>2. CASE mine = {} /\ Len(t) < MaxAttempts
  <2>1. /\ att' = new
        /\ call' = [call EXCEPT ![x] = Request("PUT", Len(new), new, rel, NothingStale)]
    BY <1>2 DEF Reserve
  <2>2. [rel |-> rel, state |-> "installing", answered |-> FALSE] \in Rows
    BY DEF Rows, Results, Live
  <2>3. /\ IsTable(new) /\ Len(new) = Len(t) + 1
        /\ \A a \in DOMAIN t : a \in DOMAIN new /\ new[a] = t[a]
        /\ DOMAIN new = 1 .. Len(new) /\ new[Len(new)].state = "installing"
    BY <1>1, <1>2, <2>2, PreviewAssumption DEF IsTable
  <2>4. Begun(Request("PUT", Len(new), new, rel, NothingStale), new)
    <3>1. Len(new) \in DOMAIN new
      BY <2>3, <1>1
    <3> HIDE DEF new
    <3> QED BY <3>1, <2>3, RequestIsBegun, NothingStaleType
  <2>5. \A a \in DOMAIN new : a \in DOMAIN t \/ a = Len(new)
    BY <2>3, <1>1
  <2> HIDE DEF new
  <2> QED BY <2>1, <2>3, <2>4, <2>5
<1>3. CASE ~(mine = {} /\ Len(t) < MaxAttempts) /\ \E a \in mine : t[a].rel = rel
  <2>1. PICK a \in mine : /\ att' = t
                          /\ call' = [call EXCEPT ![x] = Request("PUT", a, t, rel, NothingStale)]
    BY <1>3 DEF Reserve
  <2>2. a \in DOMAIN t /\ t[a].state # "retired"
    BY DEF OfApp, OpenIn
  <2>3. Begun(Request("PUT", a, t, rel, NothingStale), t)
    BY <2>2, RequestIsBegun, NothingStaleType
  <2> QED BY <2>1, <2>3
<1>4. CASE ~(mine = {} /\ Len(t) < MaxAttempts) /\ ~ \E a \in mine : t[a].rel = rel
  BY <1>4 DEF Reserve
<1> QED BY <1>2, <1>3, <1>4

LEMMA ProceedGoes ==
    ASSUME NEW p \in Apps, NEW rel \in Releases, NEW stale \in Stale, NEW t, IsTable(t),
           DOMAIN call = Callers, Proceed(p, rel, stale, t)
    PROVE  Goes(p, t)
<1> DEFINE left == LeftOf(stale, t, {})
           next == Oldest(left)
           rest == LeftOf(left, t, {next})
<1>0. p \in Callers
  BY DEF Callers
<1>1. CASE left = NothingStale
  BY <1>0, <1>1, ReserveGoes DEF Proceed
<1>2. CASE left # NothingStale
  <2>1. att' = t /\ call' = [call EXCEPT ![p] = Request("DELETE", next, t, rel, rest)]
    BY <1>2 DEF Proceed
  <2>2. DOMAIN t \subseteq Attempts
    BY TableDomain
  <2>3. /\ left \in Stale /\ left.first \subseteq DOMAIN t /\ left.others \subseteq DOMAIN t
        /\ left.first # {} \/ left.others # {}
    BY <1>2, <2>2 DEF LeftOf, Stale, OpenIn, NothingStale
  <2>4. rest \in Stale /\ rest.first \subseteq DOMAIN t /\ rest.others \subseteq DOMAIN t
    BY <2>2 DEF LeftOf, Stale, OpenIn
  <2>5. next \in DOMAIN t
    <3> DEFINE part == IF left.first # {} THEN left.first ELSE left.others
    <3>1. part \subseteq DOMAIN t /\ part # {}
      BY <2>3
    <3>2. part \subseteq Nat
      BY <3>1, TableDomain
    <3>3. \E a \in part : \A b \in part : a <= b
      <4> HIDE DEF part
      <4> QED BY <3>1, <3>2, HasLeast
    <3>4. next \in part
      BY <3>3 DEF Oldest
    <3> QED BY <3>1, <3>4
  <2>6. Begun(Request("DELETE", next, t, rel, rest), t)
    <3> HIDE DEF next, rest
    <3> QED BY <2>4, <2>5, RequestIsBegun
  <2> HIDE DEF next, rest
  <2> QED BY <1>0, <2>1, <2>6 DEF Goes
<1> QED BY <1>1, <1>2
-----------------------------------------------------------------------------
(***************************************************************************)
(* Every step of the coordinator leaves the guest alone, keeps to its own  *)
(* call or answers none, and retires an attempt only when that is true.    *)
(***************************************************************************)
guestVars == <<row, dock, task, drop, guest>>

\* A closed attempt of the table is closed, or was never there.
Gone(a) == row[a] = "retired" \/ (row[a] = "none" /\ ~UnderWay(a))

CoordinatorMove ==
    /\ UNCHANGED guestVars
    /\ IsTable(att') /\ Grows(att, att')
    /\ DOMAIN call' = Callers
    /\ \A x \in Callers : call'[x] = call[x] \/ call'[x] = NoCall \/ Begun(call'[x], att')
    /\ overtaken \subseteq overtaken'
    /\ \A a \in DOMAIN att' \ overtaken' : att'[a].state = "retired" =>
          (a \in DOMAIN att /\ att[a].state = "retired") \/ (a \in DOMAIN att /\ Gone(a))

LEMMA GoesOnFromHere ==
    ASSUME CoordinatorInv, NEW x \in Callers, Goes(x, att),
           UNCHANGED guestVars, UNCHANGED overtaken
    PROVE  CoordinatorMove
BY DEF CoordinatorInv, Goes, CoordinatorMove, Grows

LEMMA PressMoves ==
    ASSUME CoordinatorInv, NEW p \in Apps, NEW rel \in Releases, Press(p, rel)
    PROVE  CoordinatorMove
<1> DEFINE stale == previews_to_evict(p, rel)
<1>1. stale \in Stale
  <2>1. DOMAIN att \subseteq Attempts
    BY TableDomain DEF CoordinatorInv
  <2>2. Worthless(p, rel) \subseteq Attempts /\ Movable(p, rel) \subseteq Attempts
    BY <2>1 DEF Worthless, Movable, OpenIn
  <2> QED BY <2>2 DEF previews_to_evict, Stale
<1>2. Proceed(p, rel, stale, att) /\ UNCHANGED guestVars /\ UNCHANGED overtaken
  BY DEF Press, guestVars
<1> HIDE DEF stale
<1>3. Goes(p, att)
  BY <1>1, <1>2, ProceedGoes DEF CoordinatorInv
<1> QED BY <1>2, <1>3, GoesOnFromHere DEF Callers

LEMMA CommandMoves ==
    ASSUME CoordinatorInv, Command
    PROVE  CoordinatorMove
<1>1. Operator \in Callers /\ UNCHANGED guestVars /\ UNCHANGED overtaken
  BY DEF Command, Callers, guestVars
<1>2. CASE \E rel \in Releases : Reserve(Operator, rel, att)
  BY <1>1, <1>2, ReserveGoes, GoesOnFromHere DEF CoordinatorInv
<1>3. CASE \E a \in OpenIn(att), m \in {"GET", "DELETE"} :
             /\ call' = [call EXCEPT ![Operator] = Request(m, a, att, att[a].rel, NothingStale)]
             /\ UNCHANGED att
  <2>1. PICK a \in OpenIn(att), m \in {"GET", "DELETE"} :
             /\ call' = [call EXCEPT ![Operator] = Request(m, a, att, att[a].rel, NothingStale)]
             /\ UNCHANGED att
    BY <1>3
  <2>2. a \in DOMAIN att /\ att[a].rel \in Releases
    BY TableDomain DEF CoordinatorInv, OpenIn, Rows
  <2>3. Begun(Request(m, a, att, att[a].rel, NothingStale), att)
    BY <2>2, RequestIsBegun, NothingStaleType DEF CoordinatorInv
  <2>4. Goes(Operator, att)
    BY <2>1, <2>3, <1>1 DEF CoordinatorInv, Goes
  <2> QED BY <2>4, <1>1, GoesOnFromHere
<1> QED BY <1>2, <1>3 DEF Command

LEMMA ReceiveMoves ==
    ASSUME CoordinatorInv, AnswersInv, GuestTypes, NEW x \in Callers, Receive(x)
    PROVE  CoordinatorMove
<1> DEFINE c == call[x]
           said == Confirmed(c)
           ok == said # "none" /\ Recordable(c.att, said)
           told == [att EXCEPT ![c.att].state = said, ![c.att].answered = TRUE]
           table == IF ok THEN told ELSE att
<1>1. /\ c # NoCall /\ c.reply \notin {"sent", "retiring"}
      /\ IF ok /\ x # Operator /\ c.method = "DELETE"
         THEN Proceed(x, c.rel, c.stale, table)
         ELSE att' = table /\ call' = [call EXCEPT ![x] = NoCall]
      /\ overtaken' = IF /\ ok /\ c.reply = "unknown"
                         /\ UnderWay(c.att) \/ row[c.att] # "none"
                      THEN overtaken \cup {c.att} ELSE overtaken
      /\ UNCHANGED guestVars
  BY DEF Receive, guestVars
<1>2. /\ c \in Calls /\ c.att \in DOMAIN att /\ IsTable(att) /\ DOMAIN call = Callers
      /\ c.rel \in Releases /\ c.stale \in Stale
  BY <1>1 DEF CoordinatorInv, About, Calls
<1>3. said \in Results \cup {"none"}
  BY DEF Confirmed, Results
<1>4. /\ IsTable(table) /\ DOMAIN table = DOMAIN att
      /\ \A a \in DOMAIN att : table[a].rel = att[a].rel
      /\ \A a \in DOMAIN att : a # c.att => table[a] = att[a]
      /\ table[c.att].state = IF ok THEN said ELSE att[c.att].state
  <2>1. DOMAIN att = 1 .. Len(att) /\ \A a \in DOMAIN att : att[a] \in Rows
    BY <1>2, TableDomain
  <2>2. CASE ok
    <3> DEFINE one == [att EXCEPT ![c.att].state = said]
    <3>1. /\ one \in Seq(Rows) /\ DOMAIN one = DOMAIN att /\ Len(one) = Len(att)
          /\ one[c.att] = [att[c.att] EXCEPT !.state = said]
          /\ \A a \in DOMAIN att : a # c.att => one[a] = att[a]
      BY <1>2, <1>3, <2>1, <2>2 DEF IsTable, Rows
    <3>2. told = [one EXCEPT ![c.att].answered = TRUE]
      OBVIOUS
    <3> DEFINE entry == [one[c.att] EXCEPT !.answered = TRUE]
    <3> HIDE DEF one
    <3>3. [one[c.att] EXCEPT !.answered = TRUE] \in Rows
      BY <3>1, <2>1, <2>2, <1>3, <1>2 DEF Rows
    <3>4. /\ told \in Seq(Rows) /\ DOMAIN told = DOMAIN att /\ Len(told) = Len(att)
          /\ told[c.att] = [one[c.att] EXCEPT !.answered = TRUE]
          /\ \A a \in DOMAIN att : a # c.att => told[a] = one[a]
      <4>1. told = [one EXCEPT ![c.att] = entry]
        BY <3>2
      <4>2. entry \in Rows
        BY <3>3
      <4> HIDE DEF entry, told
      <4>3. /\ told \in Seq(Rows) /\ DOMAIN told = DOMAIN att /\ Len(told) = Len(att)
            /\ told[c.att] = entry
            /\ \A a \in DOMAIN att : a # c.att => told[a] = one[a]
        BY <4>1, <4>2, <3>1, <1>2
      <4> QED BY <4>3 DEF entry
    <3> HIDE DEF told
    <3>5. /\ told[c.att].state = said /\ told[c.att].rel = att[c.att].rel
      BY <3>1, <3>4, <2>1, <1>2 DEF Rows
    <3> QED BY <3>1, <3>4, <3>5, <2>2, <1>2 DEF IsTable
  <2>3. CASE ~ok
    BY <2>3, <1>2
  <2> QED BY <2>2, <2>3
<1>5. ok /\ said = "retired" /\ c.att \notin overtaken' => Gone(c.att)
  <2> SUFFICES ASSUME ok, said = "retired", c.att \notin overtaken'
               PROVE  Gone(c.att)
    OBVIOUS
  <2>1. c.reply = "retired" \/ c.reply = "unknown"
    BY DEF Confirmed
  <2>2. CASE c.reply = "retired"
    BY <2>2, <1>1 DEF AnswersInv, Gone
  <2>3. CASE c.reply = "unknown"
    <3>1. ~(UnderWay(c.att) \/ row[c.att] # "none")
      <4> HIDE DEF c, ok, said
      <4> QED BY <2>3, <1>1
    <3> QED BY <3>1 DEF Gone
  <2> QED BY <2>1, <2>2, <2>3
<1>6. Goes(x, table)
  <2>1. CASE ok /\ x # Operator /\ c.method = "DELETE"
    <3>1. x \in Apps /\ Proceed(x, c.rel, c.stale, table)
      BY <2>1, <1>1 DEF Callers
    <3> HIDE DEF table, c, ok
    <3> QED BY <3>1, <1>2, <1>4, ProceedGoes
  <2>2. CASE ~(ok /\ x # Operator /\ c.method = "DELETE")
    <3>1. att' = table /\ call' = [call EXCEPT ![x] = NoCall]
      BY <2>2, <1>1
    <3> HIDE DEF table, c, ok
    <3> QED BY <3>1, <1>2, <1>4 DEF Goes
  <2> QED BY <2>1, <2>2
<1>7. overtaken \subseteq overtaken'
  BY <1>1
<1> HIDE DEF table, ok, said, c
<1>8. \A a \in DOMAIN att' \ overtaken' : att'[a].state = "retired" =>
         a \in DOMAIN att /\ (att[a].state = "retired" \/ Gone(a))
  <2> TAKE a \in DOMAIN att' \ overtaken'
  <2> HAVE att'[a].state = "retired"
  <2>1. a \in DOMAIN att /\ table[a].state = "retired"
    BY <1>4, <1>6 DEF Goes
  <2> QED BY <2>1, <1>4, <1>5
<1>9. Grows(att, att')
  BY <1>4, <1>6 DEF Goes, Grows
<1> QED
  BY <1>1, <1>6, <1>7, <1>8, <1>9 DEF CoordinatorMove, Goes

LEMMA CoordinatorMoves ==
    ASSUME CoordinatorInv, AnswersInv, GuestTypes, Coordinator
    PROVE  CoordinatorMove
<1>1. ASSUME NEW p \in Apps, Decide(p)  PROVE CoordinatorMove
  BY <1>1 DEF Decide, CoordinatorMove, CoordinatorInv, guestVars, Grows
<1>2. ASSUME NEW rel \in Releases, Reject(rel)  PROVE CoordinatorMove
  BY <1>2 DEF Reject, CoordinatorMove, CoordinatorInv, guestVars, Grows
<1>3. ASSUME NEW x \in Callers, GiveUp(x)  PROVE CoordinatorMove
  BY <1>3 DEF GiveUp, CoordinatorMove, CoordinatorInv, guestVars, Grows
<1> QED
  BY <1>1, <1>2, <1>3, PressMoves, CommandMoves, ReceiveMoves DEF Coordinator

LEMMA CoordinatorKeeps ==
    ASSUME PreviewsInv, CoordinatorMove
    PROVE  PreviewsInv'
<1> USE DEF PreviewsInv, CoordinatorMove
<1>1. CoordinatorInv'
  <2>1. ASSUME NEW x \in Callers, call'[x] # NoCall  PROVE About(call'[x], att')
    BY <2>1 DEF CoordinatorInv, About, Begun, Grows
  <2> QED BY <2>1 DEF CoordinatorInv
<1>2. GuestInv'
  <2>1. GuestTypes' /\ WorkInv'
    BY DEF GuestInv, GuestTypes, WorkInv, guestVars
  <2>2. InState(Live)' = InState(Live) /\ InState(Open)' = InState(Open)
    BY DEF InState, guestVars
  <2>3. \A a \in InState(Open) : a \in DOMAIN att /\ Owner(a)' = Owner(a)
    BY DEF GuestInv, JournalInv, InState, Open, Live, Owner, Grows
  <2>4. JournalInv'
    BY <2>2, <2>3 DEF GuestInv, JournalInv, Grows, guestVars
  <2> QED BY <2>1, <2>4 DEF GuestInv
<1>3. AnswersInv'
  BY DEF AnswersInv, Begun, guestVars
<1>4. RetiredIsGone'
  <2> SUFFICES ASSUME NEW a \in DOMAIN att' \ overtaken', att'[a].state = "retired"
               PROVE  Gone(a)'
    BY DEF RetiredIsGone, Gone
  <2>1. Gone(a)
    BY DEF RetiredIsGone, Gone
  <2>2. UnderWay(a)' => UnderWay(a)
    BY DEF UnderWay, Begun, NoCall
  <2> QED BY <2>1, <2>2 DEF Gone, guestVars
<1> QED BY <1>1, <1>2, <1>3, <1>4
-----------------------------------------------------------------------------
(***************************************************************************)
(* What every step of the guest does to the coordinator: it answers, and   *)
(* opens no attempt whose upload is not under way.                         *)
(***************************************************************************)
Answered(c, d) ==
    /\ c # NoCall
    /\ \E reply \in Replies \ {"sent"} :
          /\ d = [c EXCEPT !.reply = reply]
          /\ reply = "retired" => row'[c.att] = "retired"

GuestMove ==
    /\ UNCHANGED <<att, overtaken>>
    /\ DOMAIN call' = Callers
    /\ \A x \in Callers : call'[x] = call[x] \/ call'[x] = NoCall \/ Answered(call[x], call'[x])
    /\ \A a \in Attempts : row[a] = "retired" => row'[a] = "retired"
    /\ \A a \in Attempts : row[a] = "none" /\ row'[a] # "none" => UnderWay(a)

LEMMA GuestMoveKeeps ==
    ASSUME PreviewsInv, GuestMove
    PROVE  CoordinatorInv' /\ AnswersInv' /\ RetiredIsGone'
<1>1. ASSUME NEW x \in Callers, call'[x] # NoCall
      PROVE  /\ call[x] # NoCall /\ About(call[x], att) /\ About(call'[x], att)
             /\ call'[x].att = call[x].att /\ call'[x].method = call[x].method
             /\ call'[x].reply = "sent" => call[x].reply = "sent"
             /\ call'[x].reply = "retired" => row'[call[x].att] = "retired"
  <2>1. CASE call'[x] = call[x]
    <3>1. call[x] # NoCall /\ About(call[x], att) /\ call[x].att \in Attempts
      BY <1>1, <2>1 DEF PreviewsInv, CoordinatorInv, About, Calls
    <3> QED BY <2>1, <3>1 DEF PreviewsInv, AnswersInv, GuestMove
  <2>2. CASE Answered(call[x], call'[x])
    <3>1. About(call[x], att) /\ call[x] \in Calls
      BY <2>2 DEF Answered, PreviewsInv, CoordinatorInv, About
    <3>2. PICK reply \in Replies \ {"sent"} :
             /\ call'[x] = [call[x] EXCEPT !.reply = reply]
             /\ reply = "retired" => row'[call[x].att] = "retired"
      BY <2>2 DEF Answered
    <3>3. /\ call'[x] \in Calls /\ call'[x].att = call[x].att
          /\ call'[x].method = call[x].method /\ call'[x].reply = reply
          /\ call'[x].stale = call[x].stale
      BY <3>1, <3>2 DEF Calls
    <3> QED BY <3>1, <3>2, <3>3, <2>2 DEF About, Answered
  <2> QED BY <1>1, <2>1, <2>2 DEF GuestMove
<1>2. CoordinatorInv'
  BY <1>1 DEF GuestMove, PreviewsInv, CoordinatorInv
<1>3. AnswersInv'
  BY <1>1 DEF AnswersInv
<1>4. RetiredIsGone'
  <2> SUFFICES ASSUME NEW a \in DOMAIN att \ overtaken, att[a].state = "retired"
               PROVE  Gone(a)'
    BY DEF RetiredIsGone, Gone, GuestMove
  <2>1. Gone(a) /\ a \in Attempts
    BY TableDomain DEF PreviewsInv, CoordinatorInv, RetiredIsGone, Gone
  <2>2. UnderWay(a)' => UnderWay(a)
    BY <1>1 DEF UnderWay, NoCall
  <2> QED BY <2>1, <2>2 DEF Gone, GuestMove
<1> QED BY <1>2, <1>3, <1>4

LEMMA InStateFinite ==
    ASSUME NEW S, S \subseteq Attempts
    PROVE  IsFiniteSet(S) /\ Cardinality(S) \in Nat
<1>1. IsFiniteSet(Attempts)
  BY FS_Interval, PreviewAssumption DEF Attempts
<1> QED BY <1>1, FS_Subset, FS_CardinalityType

\* A step that opens nothing keeps the journal within its limits.
LEMMA JournalKept ==
    ASSUME GuestTypes, JournalInv, UNCHANGED att,
           \A a \in Attempts : row'[a] \in Live => row[a] \in Live,
           \A a \in Attempts : row'[a] \in Open => row[a] \in Open,
           \A a \in Attempts : row[a] = "none" => row'[a] = "none"
    PROVE  JournalInv'
<1>1. InState(Live)' \subseteq InState(Live) /\ InState(Open)' \subseteq InState(Open)
  BY DEF InState
<1>2. Cardinality(InState(Live)') <= Cardinality(InState(Live))
  <2>1. IsFiniteSet(InState(Live))
    BY InStateFinite DEF InState
  <2> QED BY <1>1, <2>1, FS_Subset
<1>3. /\ Cardinality(InState(Live)) \in Nat /\ Cardinality(InState(Live)') \in Nat
      /\ PREVIEW_SLOTS \in Nat
  BY InStateFinite, PreviewAssumption DEF InState
<1>4. Cardinality(InState(Live)') <= PREVIEW_SLOTS
  BY <1>2, <1>3 DEF JournalInv
<1>5. \A a \in Attempts : Owner(a)' = Owner(a)
  BY DEF Owner
<1>6. \A a, b \in InState(Open)' : Owner(a)' = Owner(b)' => a = b
  <2>1. InState(Open)' \subseteq Attempts
    BY DEF InState
  <2> QED BY <1>1, <1>5, <2>1 DEF JournalInv
<1> QED BY <1>4, <1>6 DEF JournalInv
-----------------------------------------------------------------------------
(***************************************************************************)
(* The guest's actions, one by one.                                        *)
(***************************************************************************)
Kept == GuestMove /\ GuestInv'

LEMMA AnswerMoves ==
    ASSUME PreviewsInv, NEW x \in Callers, call[x] # NoCall, UNCHANGED <<att, overtaken>>,
           NEW reply \in Replies \ {"sent"}, Answer(x, reply),
           reply = "retired" => row'[call[x].att] = "retired",
           \A a \in Attempts : row[a] = "retired" => row'[a] = "retired",
           \A a \in Attempts : row[a] = "none" /\ row'[a] # "none" => UnderWay(a)
    PROVE  GuestMove
<1>1. /\ DOMAIN call' = Callers /\ call'[x] = [call[x] EXCEPT !.reply = reply]
      /\ \A y \in Callers : y # x => call'[y] = call[y]
  BY DEF Answer, PreviewsInv, CoordinatorInv
<1> QED BY <1>1 DEF GuestMove, Answered

LEMMA GuestKept ==
    ASSUME GuestInv, UNCHANGED <<att, row, dock, task, guest>>,
           drop' \subseteq Drops, drop' # {} => guest = "up",
           \A d \in drop' : /\ row[d.att] \in {"ready", "failed", "retired"}
                            /\ d.pc = "save" => d.att \notin dock
    PROVE  GuestInv'
BY DEF GuestInv, GuestTypes, JournalInv, WorkInv, InState, Owner

LEMMA PutKeeps ==
    ASSUME PreviewsInv, NEW x \in Callers, Put(x)
    PROVE  Kept
<1> DEFINE a == call[x].att
<1>0. /\ call[x] # NoCall /\ call[x].method = "PUT" /\ call[x].reply = "sent" /\ guest = "up"
      /\ UNCHANGED <<att, overtaken, dock, drop, guest>>
  BY DEF Put, Sent
<1>1. a \in Attempts /\ a \in DOMAIN att
  BY <1>0 DEF PreviewsInv, CoordinatorInv, About, Calls
<1>2. /\ row \in [Attempts -> Results \cup {"none"}]
      /\ task \in [Attempts -> Installing \cup {"none", "check"}]
  BY DEF PreviewsInv, GuestInv, GuestTypes
<1>3. ASSUME UNCHANGED <<row, task>>, NEW reply \in {row[a], "refused"},
             reply = row[a] => row[a] # "none", Answer(x, reply)
      PROVE  Kept
  <2>1. reply \in Replies \ {"sent"} /\ (reply = "retired" => row'[a] = "retired")
    BY <1>1, <1>2, <1>3 DEF Replies, Results, Live
  <2>2. GuestMove
    BY <1>0, <1>3, <2>1, AnswerMoves
  <2>3. GuestInv'
    BY <1>0, <1>3, GuestKept DEF PreviewsInv, GuestInv, GuestTypes, WorkInv
  <2> QED BY <2>2, <2>3 DEF Kept
<1>4. CASE row[a] = "none" /\ Admissible(a) /\ Admit(a) /\ Answer(x, "installing")
  <2>1. /\ row' = [row EXCEPT ![a] = "installing"] /\ task' = [task EXCEPT ![a] = "install"]
        /\ row'[a] = "installing" /\ task'[a] = "install"
        /\ \A b \in Attempts : b # a => row'[b] = row[b] /\ task'[b] = task[b]
    BY <1>4, <1>1, <1>2 DEF Admit
  <2>2. GuestMove
    <3>1. \A b \in Attempts : row[b] = "none" /\ row'[b] # "none" => UnderWay(b)
      BY <1>0, <2>1 DEF UnderWay
    <3>2. \A b \in Attempts : row[b] = "retired" => row'[b] = "retired"
      BY <1>4, <2>1
    <3> QED BY <1>0, <1>4, <3>1, <3>2, AnswerMoves DEF Replies, Results, Live
  <2>3. GuestTypes'
    BY <1>0, <1>1, <1>2, <2>1 DEF PreviewsInv, GuestInv, GuestTypes, Results, Live, Installing
  <2>4. JournalInv'
    <3>1. /\ InState(Live)' = InState(Live) \cup {a} /\ a \notin InState(Live)
          /\ InState(Open)' = InState(Open) \cup {a}
      BY <1>1, <1>4, <2>1 DEF InState, Live, Open
    <3>2. IsFiniteSet(InState(Live)) /\ Cardinality(InState(Live)) \in Nat
      BY InStateFinite DEF InState
    <3>3. Cardinality(InState(Live)') = Cardinality(InState(Live)) + 1
      BY <3>1, <3>2, FS_AddElement
    <3>4. Cardinality(InState(Live)') <= PREVIEW_SLOTS
      BY <3>2, <3>3, <1>4, PreviewAssumption DEF Admissible
    <3>5. \A b \in Attempts : Owner(b)' = Owner(b)
      BY <1>0 DEF Owner
    <3>6. \A b \in InState(Open) : b \in Attempts /\ Owner(b) # Owner(a)
      BY <1>4 DEF Admissible, InState, Open
    <3>7. \A b, c \in InState(Open)' : Owner(b)' = Owner(c)' => b = c
      BY <3>1, <3>5, <3>6, <1>1 DEF PreviewsInv, GuestInv, JournalInv
    <3>8. \A b \in Attempts : row'[b] # "none" => b \in DOMAIN att'
      BY <1>0, <1>1, <2>1 DEF PreviewsInv, GuestInv, JournalInv
    <3> QED BY <3>4, <3>7, <3>8 DEF JournalInv
  <2>5. WorkInv'
    <3>1. \A b \in Attempts : row[b] # "installing"
      BY <1>4 DEF Admissible, InState
    <3>2. \A b \in Attempts : task[b] \notin Installing /\ task[b] # "check"
      BY <3>1, <1>0 DEF PreviewsInv, GuestInv, WorkInv
    <3>3. \A d \in drop : d.att \in Attempts /\ d.att # a
      BY <1>4 DEF PreviewsInv, GuestInv, WorkInv, GuestTypes, Drops
    <3>4. dock \subseteq Attempts /\ a \notin dock
      BY <1>4 DEF PreviewsInv, GuestInv, WorkInv, GuestTypes, Live
    <3> QED
      BY <1>0, <2>1, <3>2, <3>3, <3>4 DEF PreviewsInv, GuestInv, WorkInv, Installing, Live
  <2> QED BY <2>2, <2>3, <2>4, <2>5 DEF Kept, GuestInv
<1> HIDE DEF a
<1> QED BY <1>3, <1>4 DEF Put, a

LEMMA GetKeeps ==
    ASSUME PreviewsInv, NEW x \in Callers, Get(x)
    PROVE  Kept
<1> DEFINE a == call[x].att
           reply == IF row[a] = "none" THEN "unknown" ELSE row[a]
<1>0. /\ call[x] # NoCall /\ Answer(x, reply)
      /\ UNCHANGED <<att, overtaken, row, dock, task, drop, guest>>
  BY DEF Get, Sent
<1>1. a \in Attempts /\ row \in [Attempts -> Results \cup {"none"}]
  BY <1>0 DEF PreviewsInv, CoordinatorInv, About, Calls, GuestInv, GuestTypes
<1>2. reply \in Replies \ {"sent"} /\ (reply = "retired" => row'[a] = "retired")
  BY <1>0, <1>1 DEF Replies, Results, Live
<1> HIDE DEF reply
<1>3. GuestMove
  BY <1>0, <1>2, AnswerMoves
<1>4. GuestInv'
  BY <1>0, GuestKept DEF PreviewsInv, GuestInv, GuestTypes, WorkInv
<1> QED BY <1>3, <1>4 DEF Kept

LEMMA DeleteKeeps ==
    ASSUME PreviewsInv, NEW x \in Callers, Delete(x)
    PROVE  Kept
<1> DEFINE a == call[x].att
           d == [att |-> a, pc |-> "cleanup"]
<1>0. /\ call[x] # NoCall /\ guest = "up"
      /\ UNCHANGED <<att, overtaken, row, dock, task, guest>>
      /\ \E reply \in {"unknown", "refused", "retiring"} : Answer(x, reply)
      /\ drop' = drop \/ (row[a] \in {"ready", "failed", "retired"} /\ drop' = drop \cup {d})
  BY DEF Delete, Sent
<1>1. a \in Attempts
  BY <1>0 DEF PreviewsInv, CoordinatorInv, About, Calls
<1>2. GuestMove
  <2>1. PICK reply \in {"unknown", "refused", "retiring"} : Answer(x, reply)
    BY <1>0
  <2>2. reply \in Replies \ {"sent"} /\ reply # "retired"
    BY DEF Replies
  <2> QED BY <1>0, <2>1, <2>2, AnswerMoves
<1>3. GuestInv'
  <2>1. d \in Drops /\ d.att = a /\ d.pc = "cleanup"
    BY <1>1 DEF Drops
  <2> HIDE DEF d
  <2>2. /\ drop' \subseteq Drops
        /\ \A e \in drop' : /\ row[e.att] \in {"ready", "failed", "retired"}
                            /\ e.pc = "save" => e.att \notin dock
    BY <1>0, <2>1 DEF PreviewsInv, GuestInv, GuestTypes, WorkInv
  <2> QED BY <1>0, <2>2, GuestKept DEF PreviewsInv
<1> QED BY <1>2, <1>3 DEF Kept
\* A retirement answers everybody who waits for it.
AnswersAll(a, reply) ==
    call' = [x \in Callers |-> IF Retiring(x) /\ call[x].att = a
                               THEN [call[x] EXCEPT !.reply = reply] ELSE call[x]]

LEMMA AnswersAllMoves ==
    ASSUME PreviewsInv, UNCHANGED <<att, overtaken>>,
           NEW a \in Attempts, NEW reply \in {"refused", "retired"}, AnswersAll(a, reply),
           reply = "retired" => row'[a] = "retired",
           \A b \in Attempts : row[b] = "retired" => row'[b] = "retired",
           \A b \in Attempts : row[b] = "none" => row'[b] = "none"
    PROVE  GuestMove
<1>1. reply \in Replies \ {"sent"}
  BY DEF Replies, Results
<1>2. ASSUME NEW x \in Callers
      PROVE  call'[x] = call[x] \/ Answered(call[x], call'[x])
  <2>1. CASE Retiring(x) /\ call[x].att = a
    BY <1>1, <2>1 DEF AnswersAll, Answered, Retiring
  <2>2. CASE ~(Retiring(x) /\ call[x].att = a)
    BY <2>2 DEF AnswersAll
  <2> QED BY <2>1, <2>2
<1> QED BY <1>2 DEF GuestMove, AnswersAll

\* A step that answers nobody.
LEMMA SilentMoves ==
    ASSUME PreviewsInv, UNCHANGED <<att, overtaken, call>>,
           \A b \in Attempts : row[b] = "retired" => row'[b] = "retired",
           \A b \in Attempts : row[b] = "none" => row'[b] = "none"
    PROVE  GuestMove
BY DEF GuestMove, PreviewsInv, CoordinatorInv

LEMMA DropCleanupKeeps ==
    ASSUME PreviewsInv, NEW d \in drop, DropCleanup(d)
    PROVE  Kept
<1>0. UNCHANGED <<att, overtaken, row, task, guest>> /\ d.att \in Attempts /\ d \in Drops
  BY DEF DropCleanup, PreviewsInv, GuestInv, GuestTypes, Drops
<1>1. CASE /\ dock' = dock \ {d.att} /\ drop' = (drop \ {d}) \cup {[d EXCEPT !.pc = "save"]}
           /\ UNCHANGED call
  <2> DEFINE e == [d EXCEPT !.pc = "save"]
  <2>1. e \in Drops /\ e.att = d.att
    BY <1>0 DEF Drops
  <2> HIDE DEF e
  <2>2. GuestTypes' /\ WorkInv'
    BY <1>0, <1>1, <2>1 DEF e, PreviewsInv, GuestInv, GuestTypes, WorkInv
  <2>3. JournalInv'
    BY <1>0, JournalKept DEF PreviewsInv, GuestInv
  <2> QED BY <1>0, <1>1, <2>2, <2>3, SilentMoves DEF Kept, GuestInv
<1>2. CASE drop' = drop \ {d} /\ UNCHANGED dock /\ AnswersAll(d.att, "refused")
  <2>1. GuestInv'
    BY <1>0, <1>2, GuestKept DEF PreviewsInv, GuestInv, GuestTypes, WorkInv
  <2> QED BY <1>0, <1>2, <2>1, AnswersAllMoves DEF Kept
<1> QED BY <1>1, <1>2 DEF DropCleanup, AnswersAll

LEMMA DropSaveKeeps ==
    ASSUME PreviewsInv, NEW d \in drop, DropSave(d)
    PROVE  Kept
<1>0. /\ UNCHANGED <<att, overtaken, dock, task, guest>> /\ d.att \in Attempts
      /\ drop' = drop \ {d} /\ row' = [row EXCEPT ![d.att] = "retired"]
      /\ AnswersAll(d.att, "retired") /\ d.pc = "save"
      /\ row \in [Attempts -> Results \cup {"none"}]
  BY DEF DropSave, AnswersAll, PreviewsInv, GuestInv, GuestTypes, Drops
<1>1. row[d.att] \in {"ready", "failed", "retired"} /\ d.att \notin dock
  BY <1>0 DEF PreviewsInv, GuestInv, WorkInv
<1>2. /\ row'[d.att] = "retired" /\ \A a \in Attempts : a # d.att => row'[a] = row[a]
  BY <1>0
<1>3. GuestMove
  BY <1>0, <1>1, <1>2, AnswersAllMoves
<1>4. GuestTypes'
  BY <1>0 DEF PreviewsInv, GuestInv, GuestTypes, Results
<1>5. JournalInv'
  BY <1>0, <1>1, <1>2, JournalKept DEF PreviewsInv, GuestInv, Live, Open
<1>6. WorkInv'
  <2>1. \A e \in drop' : e.att \in Attempts /\ e \in drop
    BY <1>0 DEF PreviewsInv, GuestInv, GuestTypes, Drops
  <2>2. \A a \in dock : a \in Attempts /\ a # d.att
    BY <1>1 DEF PreviewsInv, GuestInv, GuestTypes
  <2>3. \A a \in Attempts : task[a] \in Installing => a # d.att
    BY <1>1 DEF PreviewsInv, GuestInv, WorkInv
  <2> QED BY <1>0, <1>2, <2>1, <2>2, <2>3 DEF PreviewsInv, GuestInv, WorkInv
<1> QED BY <1>3, <1>4, <1>5, <1>6 DEF Kept, GuestInv

LEMMA InstallRunKeeps ==
    ASSUME PreviewsInv, NEW a \in Attempts, InstallRun(a)
    PROVE  Kept
<1>0. /\ UNCHANGED <<att, overtaken, call, row, drop, guest>> /\ task[a] = "install"
      /\ task' = [task EXCEPT ![a] = "verify"] /\ dock' = dock \cup {a}
      /\ task \in [Attempts -> Installing \cup {"none", "check"}]
  BY DEF InstallRun, PreviewsInv, GuestInv, GuestTypes
<1>1. row[a] = "installing"
  BY <1>0 DEF PreviewsInv, GuestInv, WorkInv, Installing
<1>2. GuestTypes' /\ WorkInv'
  BY <1>0, <1>1 DEF PreviewsInv, GuestInv, GuestTypes, WorkInv, Installing, Live
<1>3. JournalInv'
  BY <1>0, JournalKept DEF PreviewsInv, GuestInv
<1> QED BY <1>0, <1>2, <1>3, SilentMoves DEF Kept, GuestInv

LEMMA InstallReadyKeeps ==
    ASSUME PreviewsInv, NEW a \in Attempts, InstallReady(a)
    PROVE  Kept
<1>0. /\ UNCHANGED <<att, overtaken, call, dock, drop, guest>> /\ task[a] = "verify"
      /\ task' = [task EXCEPT ![a] = "none"] /\ row' = [row EXCEPT ![a] = "ready"]
      /\ task \in [Attempts -> Installing \cup {"none", "check"}]
      /\ row \in [Attempts -> Results \cup {"none"}]
  BY DEF InstallReady, PreviewsInv, GuestInv, GuestTypes
<1>1. row[a] = "installing" /\ row'[a] = "ready" /\ \A b \in Attempts : b # a => row'[b] = row[b]
  BY <1>0 DEF PreviewsInv, GuestInv, WorkInv, Installing
<1>2. GuestTypes'
  BY <1>0 DEF PreviewsInv, GuestInv, GuestTypes, Results, Live
<1>3. \A d \in drop : d.att \in Attempts /\ d.att # a
  BY <1>1 DEF PreviewsInv, GuestInv, GuestTypes, WorkInv, Drops
<1>4. WorkInv'
  BY <1>0, <1>1, <1>3 DEF PreviewsInv, GuestInv, GuestTypes, WorkInv, Installing, Live
<1>5. JournalInv'
  BY <1>0, <1>1, JournalKept DEF PreviewsInv, GuestInv, Live, Open
<1>6. GuestMove
  BY <1>0, <1>1, SilentMoves
<1> QED BY <1>2, <1>4, <1>5, <1>6 DEF Kept, GuestInv

LEMMA InstallFailsKeeps ==
    ASSUME PreviewsInv, NEW a \in Attempts, InstallFails(a)
    PROVE  Kept
<1>0. /\ UNCHANGED <<att, overtaken, call, row, dock, drop, guest>> /\ task[a] \in Installing
      /\ task' = [task EXCEPT ![a] = "fail"]
      /\ task \in [Attempts -> Installing \cup {"none", "check"}]
  BY DEF InstallFails, PreviewsInv, GuestInv, GuestTypes, Installing
<1>1. GuestTypes' /\ WorkInv'
  BY <1>0 DEF PreviewsInv, GuestInv, GuestTypes, WorkInv, Installing
<1>2. JournalInv'
  BY <1>0, JournalKept DEF PreviewsInv, GuestInv
<1> QED BY <1>0, <1>1, <1>2, SilentMoves DEF Kept, GuestInv

LEMMA InstallFailedKeeps ==
    ASSUME PreviewsInv, NEW a \in Attempts, InstallFailed(a)
    PROVE  Kept
<1>0. /\ UNCHANGED <<att, overtaken, call, drop, guest>> /\ task[a] = "fail"
      /\ task' = [task EXCEPT ![a] = "none"]
      /\ \/ dock' = dock \ {a} /\ row' = [row EXCEPT ![a] = "failed"]
         \/ UNCHANGED dock /\ row' = [row EXCEPT ![a] = "installing"]
      /\ task \in [Attempts -> Installing \cup {"none", "check"}]
      /\ row \in [Attempts -> Results \cup {"none"}]
  BY DEF InstallFailed, Failed, PreviewsInv, GuestInv, GuestTypes
<1>1. /\ row[a] = "installing" /\ row'[a] \in {"failed", "installing"}
      /\ row'[a] = "installing" \/ dock' = dock \ {a}
      /\ \A b \in Attempts : b # a => row'[b] = row[b]
  BY <1>0 DEF PreviewsInv, GuestInv, WorkInv, Installing
<1>2. GuestTypes'
  BY <1>0 DEF PreviewsInv, GuestInv, GuestTypes, Results, Live
<1>3. \A d \in drop : d.att \in Attempts /\ d.att # a
  BY <1>1 DEF PreviewsInv, GuestInv, GuestTypes, WorkInv, Drops
<1>4. WorkInv'
  BY <1>0, <1>1, <1>3 DEF PreviewsInv, GuestInv, GuestTypes, WorkInv, Installing, Live
<1>5. JournalInv'
  BY <1>0, <1>1, JournalKept DEF PreviewsInv, GuestInv, Live, Open
<1>6. GuestMove
  BY <1>0, <1>1, SilentMoves
<1> QED BY <1>2, <1>4, <1>5, <1>6 DEF Kept, GuestInv

LEMMA GuestStopsKeeps ==
    ASSUME PreviewsInv, GuestStops
    PROVE  Kept
<1>0. /\ UNCHANGED <<att, overtaken, row, dock>> /\ guest' = "down"
      /\ task' = [a \in Attempts |-> "none"] /\ drop' = {}
      /\ call' = [x \in Callers |-> IF Retiring(x) THEN NoCall ELSE call[x]]
  BY DEF GuestStops
<1>1. GuestMove
  BY <1>0 DEF GuestMove
<1>2. GuestTypes' /\ WorkInv'
  BY <1>0 DEF PreviewsInv, GuestInv, GuestTypes, WorkInv, Installing
<1>3. JournalInv'
  BY <1>0, JournalKept DEF PreviewsInv, GuestInv
<1> QED BY <1>1, <1>2, <1>3 DEF Kept, GuestInv

LEMMA GuestStartsKeeps ==
    ASSUME PreviewsInv, GuestStarts
    PROVE  Kept
<1>0. /\ UNCHANGED <<att, overtaken, call, row, dock, drop>>
      /\ guest = "down" /\ guest' = "reconciling"
      /\ task' = [a \in Attempts |-> IF row[a] = "none" THEN "none" ELSE "check"]
  BY DEF GuestStarts
<1>1. GuestTypes' /\ WorkInv'
  BY <1>0 DEF PreviewsInv, GuestInv, GuestTypes, WorkInv, Installing
<1>2. JournalInv'
  BY <1>0, JournalKept DEF PreviewsInv, GuestInv
<1> QED BY <1>0, <1>1, <1>2, SilentMoves DEF Kept, GuestInv

LEMMA GuestReadyKeeps ==
    ASSUME PreviewsInv, GuestReady
    PROVE  Kept
<1>0. /\ UNCHANGED <<att, overtaken, call, row, dock, task, drop>>
      /\ guest = "reconciling" /\ Unchecked = {} /\ guest' = "up"
  BY DEF GuestReady
<1>1. GuestTypes' /\ WorkInv'
  BY <1>0 DEF PreviewsInv, GuestInv, GuestTypes, WorkInv, Unchecked, Installing
<1>2. JournalInv'
  BY <1>0, JournalKept DEF PreviewsInv, GuestInv
<1> QED BY <1>0, <1>1, <1>2, SilentMoves DEF Kept, GuestInv

LEMMA ReconcileKeeps ==
    ASSUME PreviewsInv, NEW a \in Attempts, Reconcile(a)
    PROVE  Kept
<1> DEFINE restarted == guest' = "down" /\ task' = [b \in Attempts |-> "none"]
           checked == guest' = guest /\ task' = [task EXCEPT ![a] = "none"]
<1>0. /\ UNCHANGED <<att, overtaken, call, drop>> /\ guest = "reconciling" /\ task[a] = "check"
      /\ dock' = dock \/ dock' = dock \ {a}
      /\ restarted \/ checked
      /\ \/ row' = row
         \/ /\ row[a] \in Live /\ checked
            /\ \/ dock' = dock \ {a} /\ row' = [row EXCEPT ![a] = "failed"]
               \/ row' = [row EXCEPT ![a] = "installing"]
  BY DEF Reconcile, Failed, Unchecked
<1>1. /\ task \in [Attempts -> Installing \cup {"none", "check"}]
      /\ row \in [Attempts -> Results \cup {"none"}]
  BY DEF PreviewsInv, GuestInv, GuestTypes
<1>2. /\ \A b \in Attempts : b # a => row'[b] = row[b]
      /\ row'[a] = row[a] \/ (row[a] \in Live /\ row'[a] \in {"failed", "installing"})
      /\ row'[a] = "failed" => row'[a] = row[a] \/ dock' = dock \ {a}
  BY <1>0, <1>1
<1>3. GuestTypes'
  BY <1>0, <1>1 DEF PreviewsInv, GuestInv, GuestTypes, Results, Live
<1>4. drop = {} /\ \A b \in Attempts : task[b] \notin Installing
  BY <1>0 DEF PreviewsInv, GuestInv, WorkInv
<1>5. WorkInv'
  <2>1. \A b \in Attempts : task'[b] \notin Installing /\ (task'[b] = "check" => guest' = "reconciling")
    BY <1>0, <1>1, <1>4 DEF Installing
  <2>2. \A b \in dock' : row'[b] \in Live
    BY <1>0, <1>2 DEF PreviewsInv, GuestInv, GuestTypes, WorkInv, Live
  <2> QED BY <1>0, <1>4, <2>1, <2>2 DEF WorkInv
<1>6. JournalInv'
  BY <1>0, <1>2, JournalKept DEF PreviewsInv, GuestInv, Live, Open
<1>7. GuestMove
  BY <1>0, <1>2, SilentMoves DEF Live
<1> QED BY <1>3, <1>5, <1>6, <1>7 DEF Kept, GuestInv
-----------------------------------------------------------------------------
LEMMA PreviewsInit == Init => PreviewsInv
<1> SUFFICES ASSUME Init PROVE PreviewsInv
  OBVIOUS
<1>1. CoordinatorInv /\ AnswersInv /\ RetiredIsGone
  BY PreviewAssumption DEF Init, CoordinatorInv, AnswersInv, RetiredIsGone, IsTable
<1>2. GuestTypes /\ WorkInv
  BY DEF Init, GuestTypes, WorkInv, Installing
<1>3. JournalInv
  <2>1. InState(Live) = {} /\ InState(Open) = {}
    BY DEF Init, InState, Live, Open
  <2> QED BY <2>1, FS_EmptySet, PreviewAssumption DEF JournalInv, Init
<1> QED BY <1>1, <1>2, <1>3 DEF PreviewsInv, GuestInv

LEMMA PreviewsStep == PreviewsInv /\ [Next]_vars => PreviewsInv'
<1> SUFFICES ASSUME PreviewsInv, [Next]_vars PROVE PreviewsInv'
  OBVIOUS
<1>1. CASE Coordinator
  BY <1>1, CoordinatorMoves, CoordinatorKeeps DEF PreviewsInv, GuestInv
<1>2. ASSUME Kept PROVE PreviewsInv'
  BY <1>2, GuestMoveKeeps DEF Kept, PreviewsInv
<1>3. CASE Handlers
  BY <1>2, <1>3, PutKeeps, GetKeeps, DeleteKeeps, DropCleanupKeeps, DropSaveKeeps DEF Handlers
<1>4. CASE Installer
  BY <1>2, <1>4, InstallRunKeeps, InstallReadyKeeps, InstallFailsKeeps, InstallFailedKeeps,
     GuestStartsKeeps, GuestReadyKeeps, ReconcileKeeps DEF Installer
<1>5. CASE GuestStops
  BY <1>2, <1>5, GuestStopsKeeps
<1>6. CASE UNCHANGED vars
  BY <1>6 DEF vars, PreviewsInv, CoordinatorInv, GuestInv, GuestTypes, JournalInv, WorkInv,
     AnswersInv, RetiredIsGone, InState, Owner, UnderWay
<1> QED BY <1>1, <1>3, <1>4, <1>5, <1>6 DEF Next

LEMMA PreviewsAreSound == Spec => []PreviewsInv
BY PreviewsInit, PreviewsStep, PTL DEF Spec

(***************************************************************************)
(* The guest's books are true (src/ops/preview_guest.py): the containers   *)
(* of no more attempts than there are slots exist, what is recorded as     *)
(* failed or retired runs nothing, an application has one open attempt and *)
(* one installation runs at a time, through refused cleanups and restarts. *)
(***************************************************************************)
THEOREM GuestBooksAreTrueHolds == Spec => []GuestBooksAreTrue
<1>1. PreviewsInv => GuestBooksAreTrue
  <2> SUFFICES ASSUME PreviewsInv PROVE GuestBooksAreTrue
    OBVIOUS
  <2>1. ContainersFitTheSlots
    <3>1. dock \subseteq InState(Live)
      BY DEF PreviewsInv, GuestInv, GuestTypes, WorkInv, InState
    <3>2. IsFiniteSet(InState(Live)) /\ Cardinality(InState(Live)) \in Nat
      BY InStateFinite DEF InState
    <3>3. Cardinality(dock) \in Nat /\ Cardinality(dock) <= Cardinality(InState(Live))
      BY <3>1, <3>2, FS_Subset, FS_CardinalityType
    <3>4. Cardinality(InState(Live)) <= PREVIEW_SLOTS
      BY DEF PreviewsInv, GuestInv, JournalInv
    <3> QED BY <3>2, <3>3, <3>4, PreviewAssumption DEF ContainersFitTheSlots
  <2>2. ClosedAttemptsAreClean
    BY DEF PreviewsInv, GuestInv, WorkInv, ClosedAttemptsAreClean
  <2>3. OneOpenAttempt
    <3> DEFINE S == {a \in Attempts : task[a] \in {"install", "verify", "fail"}}
    <3>1. \A a, b \in S : a = b
      BY DEF PreviewsInv, GuestInv, WorkInv, Installing
    <3>2. Cardinality(S) <= 1
      <4>1. S = {} \/ \E a : S = {a}
        BY <3>1
      <4> HIDE DEF S
      <4>2. Cardinality(S) = 0 \/ Cardinality(S) = 1
        BY ONLY <4>1, FS_EmptySet, FS_Singleton, Zenon
      <4> QED BY <4>2
    <3> QED BY <3>2 DEF OneOpenAttempt, PreviewsInv, GuestInv, JournalInv, Open
  <2> QED BY <2>1, <2>2, <2>3 DEF GuestBooksAreTrue
<1> QED BY <1>1, PreviewsAreSound, PTL

(***************************************************************************)
(* What the coordinator retired holds nothing in the guest and never will, *)
(* whatever answers were lost or late, unless it closed the attempt as     *)
(* unknown with its upload under way (src/app/app_previews.py).            *)
(***************************************************************************)
THEOREM RetiredIsGoneHolds == Spec => []RetiredIsGone
<1>1. PreviewsInv => RetiredIsGone
  BY DEF PreviewsInv
<1> QED BY <1>1, PreviewsAreSound, PTL
=============================================================================
