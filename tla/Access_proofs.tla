----------------------------- MODULE Access_proofs -----------------------------
(***************************************************************************)
(* What Access promises, for every set of accounts, subjects, applications *)
(* and request threads: sessions end as asked, names have one owner,       *)
(* credentials match their files, and what is served held its authority.   *)
(***************************************************************************)
EXTENDS Access, FiniteSetTheorems, TLAPS

UserRow == [disabled : BOOLEAN, version : Nat, password : Nat]

\* What a request carries from the step that began it.
WellFormed(r) ==
    /\ r.kind \in {"login", "password"} => r.user \in Users
    /\ r.kind = "logout" => r.session.user \in Users /\ r.session.version \in Nat
    /\ r.kind = "link" => r.user \in Members /\ r.subject \in Subjects

\* A session is of a version the account has had, and one of the version it
\* has now was opened with the password it has now, or raced with the change.
SoundSession(s) ==
    /\ s.user \in Users /\ s.version \in Nat
    /\ s.version <= users[s.user].version
    /\ s.version = users[s.user].version =>
        s.raced \/ s.password = users[s.user].password

SessionInv ==
    /\ users \in [Users -> UserRow]
    /\ DOMAIN requests = Handlers
    /\ \A h \in Handlers : WellFormed(requests[h])
    /\ \A s \in sessions : SoundSession(s)

\* The steps that change accounts, sessions and requests.
LEMMA UsersMove ==
    ASSUME Step
    PROVE  \/ UNCHANGED users
           \/ \E h \in Handlers : RevokeSessions(h) \/ ChangePassword(h)
           \/ \E u \in Members : ResetPassword(u) \/ \E d \in BOOLEAN : SetDisabled(u, d)
BY DEF Step, Authenticate, CheckPassword, SignOut, SelectLink, WriteCredential,
   Arrive, Call, OpenSession, InsertLink, CommitCredential, CommitFails, Pass,
   Refuse, Serve, Dies, Unlink, Register, SetRetired, ContextExpires,
   SessionExpires

LEMMA SessionsMove ==
    ASSUME Step
    PROVE  \/ sessions' \subseteq sessions
           \/ \E h \in Handlers : OpenSession(h)
BY DEF Step, Authenticate, CheckPassword, SignOut, SelectLink, WriteCredential,
   Arrive, Call, InsertLink, CommitCredential, CommitFails, Pass, RevokeSessions,
   ChangePassword, ResetPassword, SetDisabled,
   Refuse, Serve, Dies, Unlink, Register, SetRetired, ContextExpires,
   SessionExpires

\* A request begins with what its first step read.
Begun(r) ==
    \/ /\ r.kind \in {"login", "password"} /\ r.user \in Users
    \/ /\ r.kind = "logout" /\ r.session \in sessions
    \/ /\ r.kind = "link" /\ r.user \in Members /\ r.subject \in Subjects
    \/ /\ r.kind = "issue" /\ r.app \in Apps
       /\ r.credential = issued + 1 /\ issued' = issued + 1
       /\ files' = files \cup {issued + 1}
       /\ UNCHANGED <<apps, retained, abandoned>>
    \/ r.kind = "admit" /\ r.next = 2
    \/ r.kind = "call" /\ r.next = 1

LEMMA RequestsShape ==
    ASSUME Step
    PROVE  \/ UNCHANGED requests
           \/ \E h \in Handlers : requests' = [requests EXCEPT ![h] = Idle]
           \/ \E h \in Handlers : Pass(h)
           \/ \E h \in Handlers : \E r : Begin(h, r) /\ Begun(r)
<1>1. ASSUME NEW h \in Handlers, NEW u \in Users, Authenticate(h, u) \/ CheckPassword(h, u)
      PROVE  \E r : Begin(h, r) /\ Begun(r)
  BY <1>1 DEF Authenticate, CheckPassword, Begun
<1>2. ASSUME NEW h \in Handlers, NEW s \in sessions, SignOut(h, s)
      PROVE  \E r : Begin(h, r) /\ Begun(r)
  BY <1>2 DEF SignOut, Begun
<1>3. ASSUME NEW h \in Handlers, NEW u \in Members, NEW s \in Subjects, SelectLink(h, u, s)
      PROVE  \E r : Begin(h, r) /\ Begun(r)
  BY <1>3 DEF SelectLink, Begun
<1>4. ASSUME NEW h \in Handlers, NEW a \in Apps, NEW rotate \in BOOLEAN,
             WriteCredential(h, a, rotate)
      PROVE  \E r : Begin(h, r) /\ Begun(r)
  BY <1>4 DEF WriteCredential, Begun
<1>5. ASSUME NEW h \in Handlers, NEW a \in Apps, NEW s \in Subjects, NEW v,
             Arrive(h, a, s, v)
      PROVE  \E r : Begin(h, r) /\ Begun(r)
  BY <1>5 DEF Arrive, Begun
<1>6. ASSUME NEW h \in Handlers, NEW c \in contexts, NEW k, Call(h, c, k)
      PROVE  \E r : Begin(h, r) /\ Begun(r)
  BY <1>6 DEF Call, Begun
<1>7. QED
  BY <1>1, <1>2, <1>3, <1>4, <1>5, <1>6
  DEF Step, Ends, OpenSession, RevokeSessions, ChangePassword, InsertLink,
      CommitCredential, CommitFails, Refuse, Serve, Dies, ResetPassword, Unlink,
      SetDisabled, Register, SetRetired, ContextExpires, SessionExpires

LEMMA RequestsMove ==
    ASSUME Step, DOMAIN requests = Handlers, NEW g \in Handlers
    PROVE  \/ requests'[g] = requests[g]
           \/ requests'[g] = Idle
           \/ requests[g] = Idle /\ Begun(requests'[g])
           \/ Pass(g)
<1>1. ASSUME NEW h \in Handlers, requests' = [requests EXCEPT ![h] = Idle]
      PROVE  requests'[g] \in {requests[g], Idle}
  BY <1>1
<1>2. ASSUME NEW h \in Handlers, NEW r, Begin(h, r), Begun(r)
      PROVE  requests'[g] = requests[g] \/ (requests[g] = Idle /\ Begun(requests'[g]))
  BY <1>2 DEF Begin
<1>3. ASSUME NEW h \in Handlers, Pass(h)
      PROVE  requests'[g] = requests[g] \/ Pass(g)
  BY <1>3 DEF Pass
<1>4. QED
  BY <1>1, <1>2, <1>3, RequestsShape

LEMMA HandlersMove ==
    ASSUME Step, DOMAIN requests = Handlers PROVE DOMAIN requests' = Handlers
<1>1. ASSUME NEW h \in Handlers, requests' = [requests EXCEPT ![h] = Idle]
      PROVE  DOMAIN requests' = Handlers
  BY <1>1
<1>2. ASSUME NEW h \in Handlers, NEW r, Begin(h, r)
      PROVE  DOMAIN requests' = Handlers
  BY <1>2 DEF Begin
<1>3. ASSUME NEW h \in Handlers, Pass(h)
      PROVE  DOMAIN requests' = Handlers
  <2>1. \E r : requests' = [requests EXCEPT ![h] = r]
    BY <1>3 DEF Pass
  <2>2. QED
    BY <2>1
<1>4. QED
  BY <1>1, <1>2, <1>3, RequestsShape

-----------------------------------------------------------------------------
(* Sessions. *)

LEMMA InitSessions == Init => SessionInv
<1>1. SUFFICES ASSUME Init PROVE SessionInv
  OBVIOUS
<1>2. /\ users = [u \in Users |-> [disabled |-> FALSE, version |-> 1, password |-> 0]]
      /\ sessions = {}
  BY <1>1 DEF Init, InitRequests
<1>3. requests = [h \in Handlers |-> Idle]
  BY <1>1 DEF Init, InitRequests
<1>4. users \in [Users -> UserRow]
  BY <1>2 DEF UserRow
<1>5. DOMAIN requests = Handlers /\ \A h \in Handlers : WellFormed(requests[h])
  BY <1>3 DEF WellFormed, Idle
<1>6. QED
  BY <1>2, <1>4, <1>5 DEF SessionInv

\* An account changes by a signed-out version, a new password or the switch;
\* each leaves the sessions sound.
LEMMA AccountRow ==
    ASSUME SessionInv, NEW u \in Users
    PROVE  /\ users[u] \in UserRow /\ users[u].version \in Nat /\ users[u].password \in Nat
           /\ users[u].version + 1 \in Nat /\ users[u].password + 1 \in Nat
BY DEF SessionInv, UserRow

LEMMA BumpedSound ==
    ASSUME SessionInv, NEW u \in Users, users' = Bumped(u)
    PROVE  /\ users' \in [Users -> UserRow]
           /\ \A s \in sessions : SoundSession(s)'
<1> DEFINE version == users[u].version + 1
<1>1. version \in Nat /\ version > users[u].version
  BY AccountRow
<1>2. users' = [users EXCEPT ![u].version = version]
  BY DEF Bumped
<1> HIDE DEF version
<1>3. users' \in [Users -> UserRow]
  BY <1>1, <1>2 DEF SessionInv, UserRow
<1>4. ASSUME NEW s \in sessions PROVE SoundSession(s)'
  <2>1. SoundSession(s) /\ s.user \in Users
    BY DEF SessionInv, SoundSession
  <2>2. CASE s.user = u
    <3>1. users'[s.user].version = version
      BY <1>2, <2>2 DEF SessionInv, UserRow
    <3>2. s.version < version
      BY <1>1, <2>1, <2>2, AccountRow DEF SoundSession
    <3>3. QED
      BY <2>1, <3>1, <3>2, <1>1 DEF SoundSession
  <2>3. CASE s.user # u
    <3>1. users'[s.user] = users[s.user]
      BY <1>2, <2>1, <2>3 DEF SessionInv
    <3>2. QED
      BY <2>1, <3>1 DEF SoundSession
  <2>4. QED
    BY <2>2, <2>3
<1>5. QED
  BY <1>3, <1>4

LEMMA NewPasswordSound ==
    ASSUME SessionInv, NEW u \in Users, users' = NewPassword(u)
    PROVE  /\ users' \in [Users -> UserRow]
           /\ \A s \in sessions : SoundSession(s)'
<1> DEFINE version == users[u].version + 1
           password == users[u].password + 1
<1>1. version \in Nat /\ version > users[u].version /\ password \in Nat
  BY AccountRow
<1>2. users' = [users EXCEPT ![u].password = password, ![u].version = version]
  BY DEF NewPassword, SessionInv, UserRow
<1> HIDE DEF version, password
<1>3. users' \in [Users -> UserRow] /\ users'[u].version = version
  BY <1>1, <1>2 DEF SessionInv, UserRow
<1>4. ASSUME NEW s \in sessions PROVE SoundSession(s)'
  <2>1. SoundSession(s) /\ s.user \in Users
    BY DEF SessionInv, SoundSession
  <2>2. CASE s.user = u
    <3>1. s.version < version
      BY <1>1, <2>1, <2>2, AccountRow DEF SoundSession
    <3>2. QED
      BY <1>1, <1>3, <2>1, <2>2, <3>1 DEF SoundSession
  <2>3. CASE s.user # u
    <3>1. users'[s.user] = users[s.user]
      BY <1>2, <2>1, <2>3 DEF SessionInv
    <3>2. QED
      BY <2>1, <3>1 DEF SoundSession
  <2>4. QED
    BY <2>2, <2>3
<1>5. QED
  BY <1>3, <1>4

LEMMA UsersSound ==
    ASSUME SessionInv, Step
    PROVE  /\ users' \in [Users -> UserRow]
           /\ \A s \in sessions : SoundSession(s)'
<1>1. CASE UNCHANGED users
  BY <1>1 DEF SessionInv, SoundSession
<1>2. CASE \E h \in Handlers : RevokeSessions(h)
  <2>1. PICK h \in Handlers : RevokeSessions(h)
    BY <1>2
  <2>2. requests[h].session.user \in Users
    BY <2>1 DEF RevokeSessions, SessionInv, WellFormed
  <2>3. QED
    BY <1>1, <2>1, <2>2, BumpedSound DEF RevokeSessions
<1>3. CASE \E h \in Handlers : ChangePassword(h)
  <2>1. PICK h \in Handlers : ChangePassword(h)
    BY <1>3
  <2>2. requests[h].user \in Users
    BY <2>1 DEF ChangePassword, SessionInv, WellFormed
  <2>3. QED
    BY <2>1, <2>2, NewPasswordSound DEF ChangePassword
<1>4. CASE \E u \in Members : ResetPassword(u)
  BY <1>4, NewPasswordSound DEF ResetPassword, Users
<1>5. CASE \E u \in Members, d \in BOOLEAN : SetDisabled(u, d)
  <2>1. PICK u \in Members, d \in BOOLEAN : users' = [users EXCEPT ![u].disabled = d]
    BY <1>5 DEF SetDisabled
  <2>2. /\ users' \in [Users -> UserRow]
        /\ \A v \in Users : /\ users'[v].version = users[v].version
                            /\ users'[v].password = users[v].password
    BY <2>1 DEF SessionInv, UserRow, Users
  <2>3. QED
    BY <2>2 DEF SessionInv, SoundSession
<1>6. QED
  BY <1>1, <1>2, <1>3, <1>4, <1>5, UsersMove

\* A login that read the hash before a change and the version after it is
\* marked; any other opens a sound session.
LEMMA OpenedSound ==
    ASSUME SessionInv, NEW h \in Handlers, OpenSession(h), NEW s \in sessions'
    PROVE  SoundSession(s)'
<1> DEFINE r == requests[h]
           new == [user |-> r.user, version |-> users[r.user].version,
                   password |-> r.password, raced |-> r.password # users[r.user].password]
<1>1. r.user \in Users /\ users[r.user].version \in Nat
  BY AccountRow DEF OpenSession, SessionInv, WellFormed
<1>2. sessions' = sessions \cup {new} /\ users' = users
  BY DEF OpenSession
<1>3. CASE s \in sessions
  BY <1>2, <1>3 DEF SessionInv, SoundSession
<1>4. CASE s = new
  <2>1. s.user = r.user /\ s.version = users[r.user].version /\ s.password = r.password
    BY <1>4
  <2>2. s.raced = (r.password # users[r.user].password)
    BY <1>4
  <2>3. s.raced \/ s.password = users[s.user].password
    BY <2>1, <2>2
  <2> HIDE DEF r, new
  <2>4. QED
    BY <1>1, <1>2, <2>1, <2>3 DEF SoundSession
<1>5. QED
  BY <1>2, <1>3, <1>4

LEMMA NextSessions ==
    ASSUME SessionInv, [Next]_vars
    PROVE  SessionInv'
<1>1. CASE UNCHANGED vars
  BY <1>1 DEF vars, SessionInv, SoundSession, WellFormed
<1>2. CASE Step
  <2>1. users' \in [Users -> UserRow]
    BY <1>2, UsersSound
  <2>2. \A s \in sessions' : SoundSession(s)'
    BY <1>2, UsersSound, SessionsMove, OpenedSound
  <2>3. \A h \in Handlers : WellFormed(requests'[h])
    <3>1. SUFFICES ASSUME NEW h \in Handlers PROVE WellFormed(requests'[h])
      OBVIOUS
    <3>2. DOMAIN requests = Handlers /\ WellFormed(requests[h])
      BY DEF SessionInv
    <3>3. CASE requests'[h] = Idle
      BY <3>3 DEF WellFormed, Idle
    <3>4. CASE Begun(requests'[h])
      BY <3>4 DEF WellFormed, Begun, SessionInv, SoundSession
    <3>5. CASE Pass(h)
      BY <3>2, <3>5 DEF Pass, Pending, WellFormed
    <3>6. QED
      BY <1>2, <3>2, <3>3, <3>4, <3>5, RequestsMove
  <2>4. DOMAIN requests' = Handlers
    BY <1>2, HandlersMove DEF SessionInv
  <2>5. QED
    BY <2>1, <2>2, <2>3, <2>4 DEF SessionInv
<1>3. QED
  BY <1>1, <1>2 DEF Next
\* A version that changes without the password was signed out of.
LEMMA NextSignOut ==
    ASSUME SessionInv, [Next]_vars
    PROVE  SignOutRevokesItsOwn
<1> SUFFICES ASSUME NEW u \in Users,
                    users'[u].version # users[u].version,
                    users'[u].password = users[u].password
             PROVE  \E h \in Handlers : /\ requests[h].kind = "logout"
                                        /\ requests[h].session.user = u
                                        /\ requests[h].session.version = users[u].version
  BY DEF SignOutRevokesItsOwn
<1>1. ASSUME NEW v \in Users, users' = NewPassword(v)
      PROVE  FALSE
  <2>1. CASE u = v
    <3> DEFINE version == users[u].version + 1
               password == users[u].password + 1
    <3>1. password # users[u].password
      BY AccountRow
    <3>2. users' = [users EXCEPT ![u].password = password, ![u].version = version]
      BY <1>1, <2>1 DEF NewPassword, SessionInv, UserRow
    <3> HIDE DEF version, password
    <3>3. users'[u].password = password
      BY <3>2 DEF SessionInv, UserRow
    <3>4. QED
      BY <3>1, <3>3
  <2>2. CASE u # v
    BY <1>1, <2>2 DEF NewPassword, SessionInv
  <2>3. QED
    BY <2>1, <2>2
<1>2. ASSUME NEW h \in Handlers, RevokeSessions(h)
      PROVE  /\ requests[h].kind = "logout"
             /\ requests[h].session.user = u
             /\ requests[h].session.version = users[u].version
  <2> DEFINE s == requests[h].session
  <2>1. /\ requests[h].kind = "logout"
        /\ users' = IF users[s.user].version = s.version THEN Bumped(s.user) ELSE users
    BY <1>2 DEF RevokeSessions
  <2>2. users[s.user].version = s.version /\ users' = Bumped(s.user)
    BY <2>1
  <2>3. s.user = u
    BY <2>2 DEF Bumped, SessionInv
  <2>4. QED
    BY <2>1, <2>2, <2>3
<1>3. ASSUME NEW h \in Handlers, ChangePassword(h)
      PROVE  FALSE
  <2>1. requests[h].user \in Users /\ users' = NewPassword(requests[h].user)
    BY <1>3 DEF ChangePassword, SessionInv, WellFormed
  <2>2. QED
    BY <1>1, <2>1
<1>4. ASSUME NEW v \in Members, ResetPassword(v)
      PROVE  FALSE
  BY <1>1, <1>4 DEF ResetPassword, Users
<1>5. ASSUME NEW v \in Members, NEW d \in BOOLEAN, SetDisabled(v, d)
      PROVE  FALSE
  BY <1>5 DEF SetDisabled, SessionInv, UserRow
<1>6. QED
  BY <1>2, <1>3, <1>4, <1>5, UsersMove DEF Next, vars

\* SessionsEndAsAsked holds of every behaviour: a session the portal accepts
\* was opened with the password of now, or raced with its change, and signing
\* out ends the sessions of its own version (accounts.py, dashboard_auth.py).
THEOREM SessionsEnd == Spec => SessionsEndAsAsked
<1>1. SessionInv /\ [Next]_vars => SessionInv' /\ SignOutRevokesItsOwn
  BY NextSessions, NextSignOut
<1>2. Init => SessionInv
  BY InitSessions
<1>3. SessionInv' => SessionsFollowThePassword'
  BY DEF SessionInv, SoundSession, SessionsFollowThePassword, Accepted
<1>4. SessionInv /\ [Next]_vars => [SessionsFollowThePassword' /\ SignOutRevokesItsOwn]_vars
  BY <1>1, <1>3
<1>5. QED
  BY <1>1, <1>2, <1>4, PTL DEF Spec, SessionsEndAsAsked

-----------------------------------------------------------------------------
(* Identities, routes and credentials. *)

LEMMA LinksMove ==
    ASSUME Step
    PROVE  \/ UNCHANGED links
           \/ \E h \in Handlers : InsertLink(h)
           \/ \E u \in Members : Unlink(u)
BY DEF Step, Authenticate, CheckPassword, SignOut, SelectLink, WriteCredential,
   Arrive, Call, OpenSession, CommitCredential, CommitFails, Pass, RevokeSessions,
   ChangePassword, ResetPassword, SetDisabled, Refuse, Serve, Dies, Register,
   SetRetired, ContextExpires, SessionExpires

LEMMA AppsMove ==
    ASSUME Step
    PROVE  \/ UNCHANGED apps
           \/ \E h \in Handlers : CommitCredential(h)
           \/ \E a \in Apps, r \in Routes : Register(a, r)
           \/ \E a \in Apps, r \in BOOLEAN : SetRetired(a, r)
BY DEF Step, Authenticate, CheckPassword, SignOut, SelectLink, WriteCredential,
   Arrive, Call, OpenSession, InsertLink, CommitFails, Pass, RevokeSessions,
   ChangePassword, ResetPassword, SetDisabled, Refuse, Serve, Dies, Unlink,
   ContextExpires, SessionExpires

LEMMA CredentialsMove ==
    ASSUME Step
    PROVE  \/ UNCHANGED credentials
           \/ \E h \in Handlers, a \in Apps, rotate \in BOOLEAN : WriteCredential(h, a, rotate)
           \/ \E h \in Handlers : CommitCredential(h) \/ CommitFails(h) \/ Dies(h)
BY DEF Step, Authenticate, CheckPassword, SignOut, SelectLink, SetRetired,
   Arrive, Call, OpenSession, InsertLink, Pass, RevokeSessions, Register,
   ChangePassword, ResetPassword, SetDisabled, Refuse, Serve, Unlink,
   ContextExpires, SessionExpires

LinkInv == links \in [Subjects -> Members \cup {None}] /\ LinksAreOneToOne

LEMMA InitLinks == Init => LinkInv
<1> SUFFICES ASSUME InitPlatform PROVE LinkInv
  BY DEF Init
<1>1. CASE mix.ready = {}
  BY <1>1 DEF InitPlatform, LinkInv, LinksAreOneToOne
<1>2. CASE mix.ready # {}
  BY <1>2 DEF InitPlatform, LinkInv, LinksAreOneToOne
<1>3. QED
  BY <1>1, <1>2

\* The row already there, or UNIQUE (user_id, provider), settles a race.
LEMMA NextLinks ==
    ASSUME SessionInv, LinkInv, [Next]_vars
    PROVE  LinkInv'
<1>1. CASE UNCHANGED links
  BY <1>1 DEF LinkInv, LinksAreOneToOne
<1>2. ASSUME NEW h \in Handlers, InsertLink(h)
      PROVE  LinkInv'
  <2> DEFINE u == requests[h].user
             subject == requests[h].subject
  <2>1. u \in Members /\ subject \in Subjects
    BY <1>2 DEF InsertLink, SessionInv, WellFormed
  <2>2. links' = [links EXCEPT ![subject] = Linked(u, subject)]
    BY <1>2 DEF InsertLink
  <2> HIDE DEF u, subject
  <2>3. CASE links[subject] = None /\ \A other \in Subjects : links[other] # u
    BY <2>1, <2>2, <2>3 DEF Linked, LinkInv, LinksAreOneToOne
  <2>4. CASE ~(links[subject] = None /\ \A other \in Subjects : links[other] # u)
    <3>1. UNCHANGED links
      BY <2>1, <2>2, <2>4 DEF Linked, LinkInv
    <3>2. QED
      BY <1>1, <3>1
  <2>5. QED
    BY <2>3, <2>4
<1>3. ASSUME NEW u \in Members, Unlink(u)
      PROVE  LinkInv'
  BY <1>3 DEF Unlink, LinkInv, LinksAreOneToOne
<1>4. QED
  BY <1>1, <1>2, <1>3, LinksMove DEF Next, vars

RouteInv ==
    /\ DOMAIN apps = Apps
    /\ \A a \in Apps : apps[a].route \in Routes \cup {None}
    /\ RoutesAreDisjoint

\* What the platform starts out with, from the assumption on the mixes.
LEMMA InitApps ==
    ASSUME Init
    PROVE  /\ apps \in [Apps -> Rows(mix.ready)] /\ StartsWith(mix.ready, apps)
           /\ Cardinality(mix.ready) \in Nat /\ mix.ready \subseteq Apps
<1>1. mix \in Mixes /\ apps = FirstApps(mix.ready)
  BY DEF Init, InitPlatform
<1>2. /\ mix.ready \subseteq Apps /\ IsFiniteSet(mix.ready)
      /\ \E rows \in [Apps -> Rows(mix.ready)] : StartsWith(mix.ready, rows)
  BY <1>1, MixAssumption
<1>3. Cardinality(mix.ready) \in Nat
  BY <1>2, FS_CardinalityType
<1>4. QED
  BY <1>1, <1>2, <1>3 DEF FirstApps

LEMMA InitRoutes == Init => RouteInv
<1> SUFFICES ASSUME Init PROVE RouteInv
  OBVIOUS
<1> DEFINE ready == mix.ready
<1>1. apps \in [Apps -> Rows(ready)] /\ StartsWith(ready, apps)
  BY InitApps
<1>2. \A a \in Apps : apps[a].route \in Routes \cup {None}
  <2>1. SUFFICES ASSUME NEW a \in Apps PROVE apps[a].route \in Routes \cup {None}
    OBVIOUS
  <2>2. apps[a] \in Rows(ready)
    BY <1>1
  <2>3. ASSUME NEW row \in [route : Routes, active : 1..Cardinality(ready), retired : {FALSE}]
        PROVE  row.route \in Routes
    OBVIOUS
  <2>4. CASE apps[a] = NoApp
    BY <2>4 DEF NoApp
  <2>5. CASE apps[a] # NoApp
    BY <2>2, <2>3, <2>5 DEF Rows
  <2>6. QED
    BY <2>4, <2>5
<1> HIDE DEF ready
<1>3. ASSUME NEW a \in Apps, NEW b \in Apps, a # b, apps[a].route # None
      PROVE  apps[a].route # apps[b].route /\ <<apps[a].route, apps[b].route>> \notin Overlaps
  <2>1. a \in ready
    BY <1>1, <1>3 DEF StartsWith, NoApp
  <2>2. CASE b \in ready
    BY <1>1, <1>3, <2>1, <2>2 DEF StartsWith, Apart
  <2>3. CASE b \notin ready
    <3>1. apps[b].route = None
      BY <1>1, <2>3 DEF StartsWith, NoApp
    <3>2. QED
      BY <1>3, <3>1, AccessAssumption
  <2>4. QED
    BY <2>2, <2>3
<1>4. QED
  BY <1>1, <1>2, <1>3 DEF RouteInv, RoutesAreDisjoint

\* The transaction that registers a route looks at every route there is.
LEMMA NextRoutes ==
    ASSUME RouteInv, [Next]_vars
    PROVE  RouteInv'
<1>1. ASSUME DOMAIN apps' = Apps, \A a \in Apps : apps'[a].route = apps[a].route
      PROVE  RouteInv'
  BY <1>1 DEF RouteInv, RoutesAreDisjoint
<1>2. CASE UNCHANGED apps
  BY <1>1, <1>2 DEF RouteInv
<1>3. ASSUME NEW h \in Handlers, CommitCredential(h)
      PROVE  RouteInv'
  <2>1. UNCHANGED apps \/ \E a, c : apps' = [apps EXCEPT ![a].active = c]
    BY <1>3 DEF CommitCredential
  <2>2. ASSUME NEW a, NEW c, apps' = [apps EXCEPT ![a].active = c]
        PROVE  RouteInv'
    BY <1>1, <2>2 DEF RouteInv
  <2>3. QED
    BY <1>2, <2>1, <2>2
<1>4. ASSUME NEW a \in Apps, NEW r \in BOOLEAN, SetRetired(a, r)
      PROVE  RouteInv'
  <2>1. apps' = [apps EXCEPT ![a].retired = r]
    BY <1>4 DEF SetRetired
  <2>2. QED
    BY <1>1, <2>1 DEF RouteInv
<1>5. ASSUME NEW a \in Apps, NEW r \in Routes, Register(a, r)
      PROVE  RouteInv'
  <2>1. /\ apps' = [apps EXCEPT ![a].route = r] /\ apps[a].route = None
        /\ \A b \in Apps : apps[b].route # r /\ <<apps[b].route, r>> \notin Overlaps
    BY <1>5 DEF Register, Free
  <2>2. \A b \in Apps : apps'[b].route = IF b = a THEN r ELSE apps[b].route
    BY <2>1 DEF RouteInv
  <2>3. \A b \in Apps : apps[b].route \in Routes \cup {None}
    BY DEF RouteInv
  <2>4. \A b \in Apps : <<r, apps[b].route>> \notin Overlaps
    BY <2>1, <2>3, AccessAssumption
  <2>5. DOMAIN apps' = Apps /\ \A b \in Apps : apps'[b].route \in Routes \cup {None}
    BY <2>1, <2>2, <2>3 DEF RouteInv
  <2>6. ASSUME NEW b \in Apps, NEW c \in Apps, b # c, apps'[b].route # None
        PROVE  /\ apps'[b].route # apps'[c].route
               /\ <<apps'[b].route, apps'[c].route>> \notin Overlaps
    BY <2>1, <2>2, <2>4, <2>6 DEF RouteInv, RoutesAreDisjoint
  <2>7. QED
    BY <2>5, <2>6 DEF RouteInv, RoutesAreDisjoint
<1>6. QED
  BY <1>2, <1>3, <1>4, <1>5, AppsMove DEF Next, vars

\* NamesAreUnique holds in every state: whatever races, an identity has one
\* account, an account one identity, and a route one application
\* (accounts.link_external_identity, AppRegistry.register).
THEOREM NamesStayUnique == Spec => []NamesAreUnique
<1>1. Init => SessionInv /\ LinkInv /\ RouteInv
  BY InitSessions, InitLinks, InitRoutes
<1>2. SessionInv /\ LinkInv /\ RouteInv /\ [Next]_vars => (SessionInv /\ LinkInv /\ RouteInv)'
  BY NextSessions, NextLinks, NextRoutes
<1>3. SessionInv /\ LinkInv /\ RouteInv => NamesAreUnique
  BY DEF LinkInv, RouteInv, NamesAreUnique
<1>4. QED
  BY <1>1, <1>2, <1>3, PTL DEF Spec

-----------------------------------------------------------------------------
(* Credentials. *)

Issuing(h) == requests[h].kind = "issue"

\* A file is of a credential that was active once, of one whose issuing
\* process died, or of one being issued.
Owned(file) ==
    \/ file \in retained \cup abandoned
    \/ \E h \in Handlers : Issuing(h) /\ requests[h].credential = file

IssueInv ==
    /\ DOMAIN requests = Handlers /\ DOMAIN apps = Apps
    /\ issued \in Nat /\ files \subseteq 1..issued /\ retained \subseteq files
    /\ \A h \in Handlers : Issuing(h) =>
        requests[h].app \in Apps /\ requests[h].credential \in files \ retained
    /\ \A g, h \in Handlers :
        Issuing(g) /\ Issuing(h) /\ requests[g].credential = requests[h].credential => g = h
    /\ \A a \in Apps : apps[a].active \in {0} \cup retained
    /\ \A file \in files : Owned(file)

LEMMA InitIssues == Init => IssueInv
<1> SUFFICES ASSUME Init PROVE IssueInv
  OBVIOUS
<1>1. requests = [h \in Handlers |-> Idle]
  BY DEF Init, InitRequests
<1>2. \A h \in Handlers : ~Issuing(h)
  BY <1>1 DEF Issuing, Idle
<1>3. issued = Cardinality(mix.ready) /\ files = 1..issued /\ retained = files
  BY DEF Init, InitPlatform
<1>4. issued \in Nat /\ apps \in [Apps -> Rows(mix.ready)]
  BY <1>3, InitApps
<1>5. ASSUME NEW a \in Apps PROVE apps[a].active \in {0} \cup retained
  <2>1. apps[a] \in Rows(mix.ready)
    BY <1>4
  <2>2. ASSUME NEW row \in [route : Routes, active : 1..Cardinality(mix.ready), retired : {FALSE}]
        PROVE  row.active \in retained
    BY <1>3
  <2>3. CASE apps[a] = NoApp
    BY <2>3 DEF NoApp
  <2>4. CASE apps[a] # NoApp
    BY <2>1, <2>2, <2>4 DEF Rows
  <2>5. QED
    BY <2>3, <2>4
<1>6. QED
  BY <1>1, <1>2, <1>3, <1>4, <1>5 DEF IssueInv, Owned

\* A request that is not issuing leaves those that are as they are.
LEMMA IssuesMove ==
    ASSUME Step, DOMAIN requests = Handlers, NEW g \in Handlers,
           Issuing(g) \/ requests'[g].kind = "issue"
    PROVE  \/ requests'[g] = requests[g]
           \/ \E a \in Apps, rotate \in BOOLEAN : WriteCredential(g, a, rotate)
           \/ CommitCredential(g) \/ CommitFails(g) \/ Dies(g)
<1>1. ASSUME NEW h \in Handlers, Ends(h), requests[h].kind # "issue"
      PROVE  requests'[g] = requests[g]
  BY <1>1 DEF Ends, Idle, Issuing
<1>2. ASSUME NEW h \in Handlers, CommitCredential(h) \/ CommitFails(h) \/ Dies(h)
      PROVE  requests'[g] = requests[g] \/ CommitCredential(g) \/ CommitFails(g) \/ Dies(g)
  <2>1. Ends(h)
    BY <1>2 DEF CommitCredential, CommitFails, Dies
  <2>2. QED
    BY <1>2, <2>1 DEF Ends
<1>3. ASSUME NEW h \in Handlers, NEW r, Begin(h, r), r.kind # "issue"
      PROVE  requests'[g] = requests[g]
  BY <1>3 DEF Begin, Idle, Issuing
<1>4. ASSUME NEW h \in Handlers, NEW a \in Apps, NEW rotate \in BOOLEAN,
             WriteCredential(h, a, rotate)
      PROVE  requests'[g] = requests[g] \/ WriteCredential(g, a, rotate)
  <2>1. \E r : requests' = [requests EXCEPT ![h] = r]
    BY <1>4 DEF WriteCredential, Begin
  <2>2. QED
    BY <1>4, <2>1
<1>5. ASSUME NEW h \in Handlers, Pass(h)
      PROVE  requests'[g] = requests[g]
  BY <1>5 DEF Pass, Pending, Issuing
<1>6. ASSUME NEW h \in Handlers,
             OpenSession(h) \/ RevokeSessions(h) \/ ChangePassword(h) \/ InsertLink(h)
               \/ Refuse(h) \/ Serve(h)
      PROVE  Ends(h) /\ requests[h].kind # "issue"
  BY <1>6 DEF OpenSession, RevokeSessions, ChangePassword, InsertLink, Refuse, Serve, Pending
<1>7. ASSUME NEW h \in Handlers, NEW u, Authenticate(h, u) \/ CheckPassword(h, u)
      PROVE  \E r : Begin(h, r) /\ r.kind # "issue"
  BY <1>7 DEF Authenticate, CheckPassword
<1>8. ASSUME NEW h \in Handlers, NEW s, SignOut(h, s)
      PROVE  \E r : Begin(h, r) /\ r.kind # "issue"
  BY <1>8 DEF SignOut
<1>9. ASSUME NEW h \in Handlers, NEW u, NEW s, SelectLink(h, u, s)
      PROVE  \E r : Begin(h, r) /\ r.kind # "issue"
  BY <1>9 DEF SelectLink
<1>10. ASSUME NEW h \in Handlers, NEW a, NEW s, NEW v, Arrive(h, a, s, v)
       PROVE  \E r : Begin(h, r) /\ r.kind # "issue"
  BY <1>10 DEF Arrive
<1>11. ASSUME NEW h \in Handlers, NEW c, NEW k, Call(h, c, k)
       PROVE  \E r : Begin(h, r) /\ r.kind # "issue"
  BY <1>11 DEF Call
<1>12. ASSUME UNCHANGED requests
       PROVE  requests'[g] = requests[g]
  BY <1>12
<1>13. \/ UNCHANGED requests
       \/ \E h \in Handlers : Ends(h) /\ requests[h].kind # "issue"
       \/ \E h \in Handlers : CommitCredential(h) \/ CommitFails(h) \/ Dies(h)
       \/ \E h \in Handlers : \E r : Begin(h, r) /\ r.kind # "issue"
       \/ \E h \in Handlers, a \in Apps, rotate \in BOOLEAN : WriteCredential(h, a, rotate)
       \/ \E h \in Handlers : Pass(h)
  BY <1>6, <1>7, <1>8, <1>9, <1>10, <1>11
  DEF Step, ResetPassword, Unlink, SetDisabled, Register, SetRetired,
      ContextExpires, SessionExpires
<1>14. QED
  BY <1>1, <1>2, <1>3, <1>4, <1>5, <1>12, <1>13

\* Only the commit of an issue changes which credential is active.
LEMMA ActiveMove ==
    ASSUME Step, IssueInv, NEW a \in Apps
    PROVE  /\ DOMAIN apps' = Apps
           /\ \/ apps'[a].active = apps[a].active
              \/ \E h \in Handlers : /\ CommitCredential(h)
                                     /\ apps'[a].active = requests[h].credential
                                     /\ requests[h].credential \in retained'
<1>1. ASSUME NEW h \in Handlers, CommitCredential(h)
      PROVE  /\ DOMAIN apps' = Apps
             /\ \/ apps'[a].active = apps[a].active
                \/ /\ apps'[a].active = requests[h].credential
                   /\ requests[h].credential \in retained'
  <2> DEFINE b == requests[h].app
             c == requests[h].credential
  <2>1. UNCHANGED apps \/ (apps' = [apps EXCEPT ![b].active = c] /\ c \in retained')
    BY <1>1 DEF CommitCredential
  <2> HIDE DEF b, c
  <2>2. CASE UNCHANGED apps
    BY <2>2 DEF IssueInv
  <2>3. CASE apps' = [apps EXCEPT ![b].active = c] /\ c \in retained'
    <3>1. DOMAIN apps = Apps
      BY DEF IssueInv
    <3>2. DOMAIN apps' = Apps /\ apps'[a].active \in {apps[a].active, c}
      BY <2>3, <3>1
    <3>3. QED
      BY <2>3, <3>2 DEF c
  <2>4. QED
    BY <2>1, <2>2, <2>3
<1>2. ASSUME NEW b \in Apps, NEW r \in BOOLEAN, SetRetired(b, r)
      PROVE  DOMAIN apps' = Apps /\ apps'[a].active = apps[a].active
  BY <1>2 DEF SetRetired, IssueInv
<1>3. ASSUME NEW b \in Apps, NEW r \in Routes, Register(b, r)
      PROVE  DOMAIN apps' = Apps /\ apps'[a].active = apps[a].active
  BY <1>3 DEF Register, IssueInv
<1>4. QED
  BY <1>1, <1>2, <1>3, AppsMove DEF IssueInv

\* The number given to a new credential names no file and no other issue.
LEMMA WrittenIssue ==
    ASSUME IssueInv, Step, NEW h \in Handlers, NEW a \in Apps, NEW rotate \in BOOLEAN,
           WriteCredential(h, a, rotate)
    PROVE  IssueInv'
<1> DEFINE c == issued + 1
<1>1. c \in Nat /\ c \notin files /\ \A i \in 1..issued : i \in 1..c
  BY DEF IssueInv
<1>2. c \in 1..c
  BY DEF IssueInv
<1>3. /\ issued' = c /\ files' = files \cup {c}
      /\ UNCHANGED <<apps, retained, abandoned>>
  BY DEF WriteCredential
<1>4. \E r : /\ requests' = [requests EXCEPT ![h] = r]
             /\ r.kind = "issue" /\ r.app = a /\ r.credential = c
  <2>1. \E r : Begin(h, r) /\ r.kind = "issue" /\ r.app = a /\ r.credential = issued'
    BY DEF WriteCredential
  <2>2. QED
    BY <1>3, <2>1 DEF Begin
<1>5. ~Issuing(h)
  BY DEF WriteCredential, Begin, Issuing, Idle
<1> HIDE DEF c
<1>6. PICK r : /\ requests' = [requests EXCEPT ![h] = r]
               /\ r.kind = "issue" /\ r.app = a /\ r.credential = c
  BY <1>4
<1>7. /\ DOMAIN requests' = Handlers /\ requests'[h] = r
      /\ \A g \in Handlers \ {h} : requests'[g] = requests[g]
  BY <1>6 DEF IssueInv
<1>8. \A g \in Handlers : Issuing(g)' =>
          requests'[g].app \in Apps /\ requests'[g].credential \in files' \ retained'
  BY <1>1, <1>3, <1>6, <1>7 DEF IssueInv, Issuing
<1>9. ASSUME NEW f \in Handlers, NEW g \in Handlers, Issuing(f)', Issuing(g)',
             requests'[f].credential = requests'[g].credential
      PROVE  f = g
  BY <1>1, <1>6, <1>7, <1>9 DEF IssueInv, Issuing
<1>10. ASSUME NEW file \in files' PROVE Owned(file)'
  <2>1. CASE file = c
    BY <1>6, <1>7, <2>1 DEF Owned, Issuing
  <2>2. CASE file \in files
    BY <1>3, <1>5, <1>7, <2>2 DEF Owned, Issuing, IssueInv
  <2>3. QED
    BY <1>3, <2>1, <2>2
<1>11. issued' \in Nat /\ files' \subseteq 1..issued' /\ retained' \subseteq files'
  BY <1>1, <1>2, <1>3 DEF IssueInv
<1>12. QED
  BY <1>3, <1>7, <1>8, <1>9, <1>10, <1>11 DEF IssueInv

\* An issue ends with its file kept and its credential active, with its file
\* taken back, or with the death of its process.
LEMMA EndedIssue ==
    ASSUME IssueInv, Step, NEW h \in Handlers,
           CommitCredential(h) \/ CommitFails(h) \/ Dies(h)
    PROVE  IssueInv'
<1> DEFINE c == requests[h].credential
<1>1. /\ DOMAIN requests' = Handlers /\ ~Issuing(h)'
      /\ \A g \in Handlers \ {h} : requests'[g] = requests[g]
  BY DEF CommitCredential, CommitFails, Dies, Ends, IssueInv, Issuing, Idle
<1>2. issued' = issued
  BY DEF CommitCredential, CommitFails, Dies
<1>3. \/ /\ Issuing(h) /\ retained' = retained \cup {c} /\ UNCHANGED <<files, abandoned>>
      \/ /\ Issuing(h) /\ files' = files \ {c} /\ UNCHANGED <<retained, abandoned>>
         /\ UNCHANGED apps
      \/ /\ abandoned' = IF Issuing(h) THEN abandoned \cup {c} ELSE abandoned
         /\ UNCHANGED <<files, retained, apps>>
  BY DEF CommitCredential, CommitFails, Dies, Issuing
<1>4. Issuing(h) => c \in files \ retained
  BY DEF IssueInv
<1> HIDE DEF c
<1>5. issued' \in Nat /\ files' \subseteq 1..issued' /\ retained' \subseteq files'
  BY <1>2, <1>3, <1>4 DEF IssueInv
<1>6. ASSUME NEW g \in Handlers, Issuing(g)'
      PROVE  /\ g # h /\ Issuing(g) /\ requests'[g] = requests[g]
             /\ requests[g].app \in Apps /\ requests[g].credential \in files \ retained
  BY <1>1, <1>6 DEF IssueInv, Issuing
<1>7. ASSUME NEW g \in Handlers, Issuing(g)', Issuing(h)
      PROVE  requests[g].credential # c
  BY <1>6, <1>7 DEF IssueInv, c
<1>8. \A g \in Handlers : Issuing(g)' =>
          requests'[g].app \in Apps /\ requests'[g].credential \in files' \ retained'
  BY <1>3, <1>6, <1>7
<1>9. ASSUME NEW f \in Handlers, NEW g \in Handlers, Issuing(f)', Issuing(g)',
             requests'[f].credential = requests'[g].credential
      PROVE  f = g
  BY <1>6, <1>9 DEF IssueInv
<1>10. DOMAIN apps' = Apps /\ \A a \in Apps : apps'[a].active \in {0} \cup retained'
  <2>1. SUFFICES ASSUME NEW a \in Apps
                 PROVE  DOMAIN apps' = Apps /\ apps'[a].active \in {0} \cup retained'
    BY <1>3, ActiveMove DEF IssueInv, CommitCredential
  <2>2. retained \subseteq retained'
    BY <1>3
  <2>3. QED
    BY <2>2, ActiveMove DEF IssueInv
<1>11. ASSUME NEW file \in files' PROVE Owned(file)'
  <2>1. file \in files /\ Owned(file)
    BY <1>3 DEF IssueInv
  <2>2. CASE file \in retained \cup abandoned
    BY <1>3, <2>2 DEF Owned
  <2>3. CASE \E g \in Handlers \ {h} : Issuing(g) /\ requests[g].credential = file
    BY <1>1, <2>3 DEF Owned, Issuing
  <2>4. CASE Issuing(h) /\ file = c
    BY <1>3, <2>4 DEF Owned
  <2>5. QED
    BY <2>1, <2>2, <2>3, <2>4 DEF Owned, c
<1>12. QED
  BY <1>1, <1>5, <1>8, <1>9, <1>10, <1>11 DEF IssueInv

LEMMA NextIssues ==
    ASSUME IssueInv, [Next]_vars
    PROVE  IssueInv'
<1>1. CASE UNCHANGED vars
  BY <1>1 DEF vars, IssueInv, Owned, Issuing
<1>2. CASE Step
  <2>1. CASE \E h \in Handlers, a \in Apps, rotate \in BOOLEAN : WriteCredential(h, a, rotate)
    BY <1>2, <2>1, WrittenIssue
  <2>2. CASE \E h \in Handlers : CommitCredential(h) \/ CommitFails(h) \/ Dies(h)
    BY <1>2, <2>2, EndedIssue
  <2>3. CASE /\ UNCHANGED credentials
             /\ ~\E h \in Handlers, a \in Apps, rotate \in BOOLEAN : WriteCredential(h, a, rotate)
             /\ ~\E h \in Handlers : CommitCredential(h) \/ CommitFails(h) \/ Dies(h)
    <3>1. \A g \in Handlers : Issuing(g) \/ Issuing(g)' => requests'[g] = requests[g]
      BY <1>2, <2>3, IssuesMove DEF IssueInv, Issuing
    <3>2. DOMAIN requests' = Handlers
      BY <1>2, HandlersMove DEF IssueInv
    <3>3. \A a \in Apps : apps'[a].active \in {0} \cup retained
      BY <1>2, <2>3, ActiveMove DEF IssueInv
    <3>4. DOMAIN apps' = Apps
      BY <1>2, <2>3, AppsMove DEF IssueInv, Register, SetRetired
    <3>5. UNCHANGED <<files, issued, retained, abandoned>>
      BY <2>3 DEF credentials
    <3>6. QED
      BY <3>1, <3>2, <3>3, <3>4, <3>5 DEF IssueInv, Owned, Issuing
  <2>4. QED
    BY <1>2, <2>1, <2>2, <2>3, CredentialsMove
<1>3. QED
  BY <1>1, <1>2 DEF Next

\* CredentialsMatchTheirFiles holds in every state: the active credential has
\* its file, and only a process that died leaves a file nothing owns
\* (AppRegistry.issue_credential).
THEOREM CredentialsMatch == Spec => []CredentialsMatchTheirFiles
<1>1. IssueInv => ActiveCredentialHasItsFile
  BY DEF IssueInv, ActiveCredentialHasItsFile
<1>2. IssueInv => FailedIssuesLeaveNoFile
  BY DEF IssueInv, FailedIssuesLeaveNoFile, Owned, Issuing
<1>3. QED
  BY <1>1, <1>2, InitIssues, NextIssues, PTL DEF Spec, CredentialsMatchTheirFiles

-----------------------------------------------------------------------------
(* Authority. *)

\* The checks of a handler's request that hold now.
Held(h) == {c \in Checks(requests[h].kind) : Holds(c, requests[h])}

\* What a pending request has passed it has seen, and it has seen what holds.
AuthorityInv ==
    /\ DOMAIN requests = Handlers
    /\ \A h \in Handlers : Pending(requests[h]) =>
        /\ requests[h].next \in 1..7
        /\ seen[h] \subseteq Checks(requests[h].kind)
        /\ Held(h) \subseteq seen[h]
        /\ \A i \in 1..6 : i < requests[h].next /\ Order[i] \in Checks(requests[h].kind) =>
            Order[i] \in seen[h]

LEMMA Ordered == Len(Order) = 6 /\ Order[1] = "credential"
BY DEF Order

LEMMA InitAuthority == Init => AuthorityInv
BY DEF Init, InitRequests, AuthorityInv, Pending, Idle

LEMMA NextAuthority ==
    ASSUME AuthorityInv, [Next]_vars
    PROVE  AuthorityInv'
<1>1. CASE UNCHANGED vars
  <2>1. \A h : Held(h)' = Held(h)
    BY <1>1 DEF vars, Held, Holds, Resolves, Administrator, Accepted, Checks
  <2>2. QED
    BY <1>1, <2>1 DEF vars, AuthorityInv
<1>2. CASE Next
  <2>1. DOMAIN requests' = Handlers
    BY <1>2, HandlersMove DEF Next, AuthorityInv
  <2>2. ASSUME NEW h \in Handlers, Pending(requests'[h])
        PROVE  /\ requests'[h].next \in 1..7
               /\ seen'[h] \subseteq Checks(requests'[h].kind)
               /\ Held(h)' \subseteq seen'[h]
               /\ \A i \in 1..6 :
                    i < requests'[h].next /\ Order[i] \in Checks(requests'[h].kind) =>
                        Order[i] \in seen'[h]
    <3>1. seen'[h] = (IF Pending(requests[h]) THEN seen[h] ELSE {}) \cup Held(h)'
      BY <1>2, <2>2 DEF Next, Observe, Held
    <3>2. Held(h)' \subseteq Checks(requests'[h].kind)
      BY DEF Held
    <3>3. CASE requests'[h] = requests[h]
      BY <2>2, <3>1, <3>2, <3>3 DEF AuthorityInv
    <3>4. CASE requests[h] = Idle /\ Begun(requests'[h])
      <4>1. ~Pending(requests[h])
        BY <3>4 DEF Idle, Pending
      <4>2. requests'[h].next = 1 \/ (requests'[h].next = 2 /\ requests'[h].kind = "admit")
        BY <2>2, <3>4 DEF Begun, Pending
      <4>3. "credential" \notin Checks("admit")
        BY DEF Checks
      <4>4. QED
        BY <3>1, <3>2, <4>1, <4>2, <4>3, Ordered
    <3>5. CASE Pass(h)
      <4> DEFINE r == requests[h]
      <4>1. Pending(r) /\ r.next <= 6 /\ (Order[r.next] \in Checks(r.kind) => Order[r.next] \in Held(h))
        BY <3>5, Ordered DEF Pass, Check, Held
      <4>2. requests'[h] = [r EXCEPT !.next = r.next + 1]
        BY <3>5 DEF Pass, AuthorityInv
      <4>3. requests'[h].next = r.next + 1 /\ requests'[h].kind = r.kind
        BY <4>1, <4>2, <2>2 DEF Pending
      <4>4. /\ r.next \in 1..7 /\ Held(h) \subseteq seen[h] /\ seen[h] \subseteq Checks(r.kind)
            /\ \A i \in 1..6 : i < r.next /\ Order[i] \in Checks(r.kind) => Order[i] \in seen[h]
        BY <4>1 DEF AuthorityInv
      <4> HIDE DEF r
      <4>5. seen[h] \subseteq seen'[h]
        BY <3>1, <4>1 DEF r
      <4>6. QED
        BY <3>1, <3>2, <4>1, <4>3, <4>4, <4>5
    <3>6. CASE requests'[h] = Idle
      BY <2>2, <3>6 DEF Idle, Pending
    <3>7. QED
      BY <1>2, <3>3, <3>4, <3>5, <3>6, RequestsMove DEF Next, AuthorityInv
  <2>3. QED
    BY <2>1, <2>2 DEF AuthorityInv
<1>3. QED
  BY <1>1, <1>2

\* ServedRequestsHeldAuthority holds in every state: whatever changes between
\* two reads, each check of a served request held during the request
\* (AppIdentity.verify, AppGateway).
THEOREM ServedWithAuthority == Spec => []ServedRequestsHeldAuthority
<1>1. AuthorityInv => ServedRequestsHeldAuthority
  <2> SUFFICES ASSUME AuthorityInv, NEW h \in Handlers, Pending(requests[h]),
                      requests[h].next > Len(Order)
               PROVE  seen[h] = Checks(requests[h].kind)
    BY DEF ServedRequestsHeldAuthority
  <2>1. /\ seen[h] \subseteq Checks(requests[h].kind)
        /\ \A i \in 1..6 : Order[i] \in Checks(requests[h].kind) => Order[i] \in seen[h]
    BY Ordered DEF AuthorityInv
  <2>2. \A c \in Checks(requests[h].kind) : \E i \in 1..6 : Order[i] = c
    BY DEF Checks, Order
  <2>3. QED
    BY <2>1, <2>2
<1>2. QED
  BY <1>1, InitAuthority, NextAuthority, PTL DEF Spec
================================================================================
