------------------------------- MODULE Access -------------------------------
(***************************************************************************)
(* Who may do what: accounts and browser sessions, linked network          *)
(* identities, application registrations and credentials, and the signed   *)
(* contexts that carry a user from the gateway to an application and back  *)
(* (src/app/accounts.py, dashboard_auth.py, dashboard_account.py,          *)
(* app_identity.py, app_registry.py, app_gateway.py).                      *)
(*                                                                         *)
(* Requests run in threads of their own, and most of them read the         *)
(* database several times, on a connection each: between two reads another *)
(* request may disable the account, unlink the identity, revoke the        *)
(* session, rotate the credential or retire the application.               *)
(*                                                                         *)
(* Signatures, password hashes and the wire formats are abstracted: a      *)
(* cookie or context is the claims it carries, a password its generation.  *)
(*                                                                         *)
(* An operator named ...Bug is the definition after it with a mistake in   *)
(* it; nothing here uses one.                                              *)
(***************************************************************************)
EXTENDS Naturals, FiniteSets, Sequences, FiniteSetsExt

CONSTANTS
    Handlers,    \* request threads, and the operator's command line
    Members,     \* accounts of role MEMBER
    Admin,       \* the bootstrapped account of role ADMIN
    Subjects,    \* network identities the trusted proxy attaches
    Apps,        \* application ids
    Restricted,  \* the applications of access "administrator"
    Routes,      \* routes an operator may register
    Overlaps,    \* routes_overlap: pairs of routes of which one lies under the other
    Mixes,       \* requests explored together, the applications the platform starts
                 \* out with, and its links then, and two bounds: on the
                 \* sessions open at once and on the credentials issued
    MaxChanges,  \* bound: changes of session versions, all accounts together
    MaxContexts  \* bound: contexts live at once

None == "none"
Users == Members \cup {Admin}

\* The applications the platform starts out with: registered apart from each
\* other, with a credential each.
NoApp == [route |-> None, active |-> 0, retired |-> FALSE]
Rows(ready) ==
    {NoApp} \cup [route : Routes, active : 1..Cardinality(ready), retired : {FALSE}]
Apart(one, other) ==
    /\ one.route # other.route /\ <<one.route, other.route>> \notin Overlaps
    /\ one.active # other.active
StartsWith(ready, rows) ==
    /\ \A a \in Apps : IF a \in ready THEN rows[a] # NoApp ELSE rows[a] = NoApp
    /\ \A a, b \in ready : a # b => Apart(rows[a], rows[b])
FirstApps(ready) == CHOOSE rows \in [Apps -> Rows(ready)] : StartsWith(ready, rows)

ASSUME AccessAssumption ==
    /\ Admin \notin Members /\ None \notin Users \cup Subjects \cup Routes
    /\ Restricted \subseteq Apps /\ Overlaps \subseteq Routes \X Routes
    /\ \A one, other \in Routes : <<one, other>> \in Overlaps => <<other, one>> \in Overlaps
    /\ {MaxChanges, MaxContexts} \subseteq Nat

\* The routes allow what each mix starts out with.
ASSUME MixAssumption ==
    \A m \in Mixes : /\ m.ready \subseteq Apps /\ IsFiniteSet(m.ready)
                     /\ \E rows \in [Apps -> Rows(m.ready)] : StartsWith(m.ready, rows)

VARIABLES
    users,     \* [disabled, version, password] by account
    links,     \* external_identities: the account of each subject
    apps,      \* [route, active, retired] by application
    sessions,  \* cookies handed out: [user, version, password, raced]
    contexts,  \* contexts handed out and not expired
    files,     \* credentials whose file is on the host
    issued,    \* credentials given a number; retained: those that were ever active
    retained,
    abandoned, \* ghost: credentials whose issuing process died
    requests,  \* what each handler is doing
    seen,      \* ghost: the checks of its request that held at some time since it began
    mix
vars == <<users, links, apps, sessions, contexts, files, issued, retained,
          abandoned, requests, seen, mix>>

credentials == <<files, issued, retained, abandoned>>

Idle == [kind |-> "idle"]
InitRequests ==
    /\ users = [u \in Users |-> [disabled |-> FALSE, version |-> 1, password |-> 0]]
    /\ sessions = {} /\ contexts = {} /\ abandoned = {}
    /\ requests = [h \in Handlers |-> Idle] /\ seen = [h \in Handlers |-> {}]
InitPlatform ==
    /\ mix \in Mixes
    /\ apps = FirstApps(mix.ready)
    /\ IF mix.ready = {} THEN links = [s \in Subjects |-> None]
       ELSE /\ links \in [Subjects -> Members]
            /\ \A s, t \in Subjects : links[s] = links[t] => s = t
    /\ issued = Cardinality(mix.ready) /\ files = 1..issued /\ retained = files
Init == InitRequests /\ InitPlatform

\* get_identity: the account as it is now, not as the cookie remembers it.
Accepted(user, version) == ~users[user].disabled /\ users[user].version = version

\* resolve_external_identity: the enabled account a subject is linked to.
Resolves(subject, user) == links[subject] = user /\ ~users[user].disabled

\* AppIdentity.verify, check by check; admit makes the last two for the gateway.
Administrator(app, admin) ==
    IF app \in Restricted
    THEN admin # 0 /\ Accepted(Admin, admin) ELSE admin = 0

Holds(check, r) ==
    CASE check = "credential" -> apps[r.app].active = r.credential
      [] check = "retired"    -> ~apps[r.app].retired
      [] check = "app"        -> apps[r.app].route # None
      [] check = "context"    -> r.context \in contexts
      [] check = "user"       -> Resolves(r.context.subject, r.context.user)
      [] check = "admin"      -> Administrator(r.app, r.context.admin)

Checks(kind) ==
    IF kind = "call" THEN {"credential", "retired", "app", "context", "user", "admin"}
    ELSE {"retired", "user", "admin"}

\* What a request has yet to check, in the code's order.
Order == <<"credential", "retired", "app", "context", "user", "admin">>
Check(r) == Order[r.next]

Pending(r) == r.kind \in {"call", "admit"}
Begin(h, r) ==
    requests[h] = Idle /\ r.kind \in mix.requests /\ requests' = [requests EXCEPT ![h] = r]
Ends(h) == requests' = [requests EXCEPT ![h] = Idle]

-----------------------------------------------------------------------------
(* Accounts and sessions *)

\* Login reads the account twice: authenticate, then session_version.
Authenticate(h, u) ==
    /\ ~users[u].disabled /\ Cardinality(sessions) < mix.sessions
    /\ Begin(h, [kind |-> "login", user |-> u, password |-> users[u].password])
    /\ UNCHANGED <<users, links, apps, sessions, contexts, credentials, mix>>

OpenSession(h) ==
    LET r == requests[h] IN
    /\ r.kind = "login"
    /\ sessions' = sessions \cup {[user |-> r.user, version |-> users[r.user].version,
            password |-> r.password, raced |-> r.password # users[r.user].password]}
    /\ Ends(h)
    /\ UNCHANGED <<users, links, apps, contexts, credentials, mix>>

\* Logout decodes the cookie, expired sessions aside, and revokes its version.
SignOut(h, s) ==
    /\ s \in sessions
    /\ Begin(h, [kind |-> "logout", session |-> s])
    /\ UNCHANGED <<users, links, apps, sessions, contexts, credentials, mix>>

Changeable == MapThenSumSet(LAMBDA u : users[u].version - 1, Users) < MaxChanges
Bumped(u) == [users EXCEPT ![u].version = @ + 1]

RevokeSessions(h) ==
    LET s == requests[h].session IN
    /\ requests[h].kind = "logout"
    /\ Changeable
    /\ users' = IF users[s.user].version = s.version THEN Bumped(s.user) ELSE users
    /\ Ends(h)
    /\ UNCHANGED <<links, apps, sessions, contexts, credentials, mix>>

NewPasswordBug(u) == [users EXCEPT ![u].password = @ + 1]
NewPassword(u) == [users EXCEPT ![u].password = @ + 1, ![u].version = @ + 1]

\* A member's own change reads the hash, verifies the current password for as
\* long as scrypt takes, and updates the row without looking again.
CheckPassword(h, u) ==
    /\ u \in Members /\ ~users[u].disabled
    /\ \E s \in sessions : s.user = u /\ Accepted(u, s.version)
    /\ Begin(h, [kind |-> "password", user |-> u])
    /\ UNCHANGED <<users, links, apps, sessions, contexts, credentials, mix>>

ChangePassword(h) ==
    LET u == requests[h].user IN
    /\ requests[h].kind = "password" /\ Changeable
    /\ users' = NewPassword(u)
    /\ Ends(h)
    /\ UNCHANGED <<links, apps, sessions, contexts, credentials, mix>>

ResetPassword(u) ==
    /\ "reset" \in mix.requests /\ u \in Members /\ Changeable
    /\ users' = NewPassword(u)
    /\ UNCHANGED <<links, apps, sessions, contexts, credentials, requests, mix>>

SetDisabled(u, disabled) ==
    /\ "disable" \in mix.requests /\ u \in Members
    /\ users' = [users EXCEPT ![u].disabled = disabled]
    /\ UNCHANGED <<links, apps, sessions, contexts, credentials, requests, mix>>

-----------------------------------------------------------------------------
(* Linked identities *)

\* The conflict check reads before the insert, and nothing is locked meanwhile.
SelectLink(h, u, subject) ==
    /\ u \in Members /\ ~users[u].disabled
    /\ links[subject] \in {None, u}
    /\ \A other \in Subjects \ {subject} : links[other] # u
    /\ Begin(h, [kind |-> "link", user |-> u, subject |-> subject])
    /\ UNCHANGED <<users, links, apps, sessions, contexts, credentials, mix>>

\* The insert leaves an existing row of the subject to its owner; a second row
\* of the account is refused by UNIQUE (user_id, provider).
LinkedBug(u, subject) == IF links[subject] = None THEN u ELSE links[subject]
Linked(u, subject) ==
    IF links[subject] = None /\ \A other \in Subjects : links[other] # u
    THEN u ELSE links[subject]

InsertLink(h) ==
    LET r == requests[h] IN
    /\ r.kind = "link"
    /\ links' = [links EXCEPT ![r.subject] = Linked(r.user, r.subject)]
    /\ Ends(h)
    /\ UNCHANGED <<users, apps, sessions, contexts, credentials, mix>>

Unlink(u) ==
    /\ "unlink" \in mix.requests /\ \E s \in Subjects : links[s] = u
    /\ links' = [s \in Subjects |-> IF links[s] = u THEN None ELSE links[s]]
    /\ UNCHANGED <<users, apps, sessions, contexts, credentials, requests, mix>>

-----------------------------------------------------------------------------
(* Registrations and credentials *)

Free(route) ==
    \A a \in Apps : apps[a].route # route /\ <<apps[a].route, route>> \notin Overlaps

Register(a, route) ==
    /\ "register" \in mix.requests /\ apps[a].route = None /\ Free(route)
    /\ apps' = [apps EXCEPT ![a].route = route]
    /\ UNCHANGED <<users, links, sessions, contexts, credentials, requests, mix>>

\* issue_credential: the token's file is written, synced and linked to its path ...
WriteCredential(h, a, rotate) ==
    /\ apps[a].route # None /\ issued < mix.issues
    /\ issued' = issued + 1
    /\ files' = files \cup {issued'}
    /\ Begin(h, [kind |-> "issue", app |-> a, credential |-> issued', rotate |-> rotate])
    /\ UNCHANGED <<users, links, apps, sessions, contexts, retained, abandoned, mix>>

\* ... then, in one transaction, the active credential is replaced; without
\* --rotate one must not exist.  A failure takes the new file back.
CommitCredential(h) ==
    LET r == requests[h] IN
    /\ r.kind = "issue"
    /\ IF apps[r.app].active = 0 \/ r.rotate
       THEN /\ apps' = [apps EXCEPT ![r.app].active = r.credential]
            /\ retained' = retained \cup {r.credential}
            /\ UNCHANGED files
       ELSE files' = files \ {r.credential} /\ UNCHANGED <<apps, retained>>
    /\ Ends(h)
    /\ UNCHANGED <<users, links, sessions, contexts, issued, abandoned, mix>>

CommitFailsBug(h) ==
    LET r == requests[h] IN
    /\ r.kind = "issue"
    /\ files' = files \ {r.credential, apps[r.app].active}
    /\ Ends(h)
    /\ UNCHANGED <<users, links, apps, sessions, contexts, issued, retained, abandoned, mix>>

CommitFails(h) ==
    LET r == requests[h] IN
    /\ r.kind = "issue"
    /\ files' = files \ {r.credential}
    /\ Ends(h)
    /\ UNCHANGED <<users, links, apps, sessions, contexts, issued, retained, abandoned, mix>>

\* The coordinator accepts a retirement, or a new installation (Deployment).
SetRetired(a, retired) ==
    /\ "retire" \in mix.requests /\ apps[a].route # None
    /\ apps' = [apps EXCEPT ![a].retired = retired]
    /\ UNCHANGED <<users, links, sessions, contexts, credentials, requests, mix>>

-----------------------------------------------------------------------------
(* The gateway and the application API *)

\* A request reaches the gateway with a network identity and perhaps a cookie
\* of the administrator; it finds the route before anything else.
Arrive(h, a, subject, admin) ==
    /\ apps[a].route # None /\ links[subject] # None
    /\ admin = 0 \/ \E s \in sessions : s.user = Admin /\ s.version = admin
    /\ Begin(h, [kind |-> "admit", app |-> a, next |-> 2, credential |-> 0,
                 context |-> [app |-> a, user |-> links[subject], subject |-> subject,
                              admin |-> IF a \in Restricted THEN admin ELSE 0]])
    /\ UNCHANGED <<users, links, apps, sessions, contexts, credentials, mix>>

\* An application calls back with its credential and a context it was given.
Call(h, c, credential) ==
    /\ c \in contexts
    /\ Begin(h, [kind |-> "call", app |-> c.app, next |-> 1,
                 credential |-> credential, context |-> c])
    /\ UNCHANGED <<users, links, apps, sessions, contexts, credentials, mix>>

PassBug(h) ==
    LET r == requests[h] IN
    /\ Pending(r) /\ r.next <= Len(Order)
    /\ Check(r) \in Checks(r.kind) /\ Check(r) # "admin" => Holds(Check(r), r)
    /\ requests' = [requests EXCEPT ![h].next = @ + 1]
    /\ UNCHANGED <<users, links, apps, sessions, contexts, credentials, mix>>

\* One check, on a connection of its own: admit makes no check of credential or
\* context, and has found the application already.
Pass(h) ==
    LET r == requests[h] IN
    /\ Pending(r) /\ r.next <= Len(Order)
    /\ Check(r) \in Checks(r.kind) => Holds(Check(r), r)
    /\ requests' = [requests EXCEPT ![h].next = @ + 1]
    /\ UNCHANGED <<users, links, apps, sessions, contexts, credentials, mix>>

Refuse(h) ==
    LET r == requests[h] IN
    /\ Pending(r) /\ r.next <= Len(Order)
    /\ Check(r) \in Checks(r.kind) /\ ~Holds(Check(r), r)
    /\ Ends(h)
    /\ UNCHANGED <<users, links, apps, sessions, contexts, credentials, mix>>

\* The gateway signs the context and forwards; the API runs the operation.
Serve(h) ==
    LET r == requests[h] IN
    /\ Pending(r) /\ r.next = Len(Order) + 1
    /\ r.kind = "admit" => Cardinality(contexts) < MaxContexts
    /\ contexts' = IF r.kind = "admit" THEN contexts \cup {r.context} ELSE contexts
    /\ Ends(h)
    /\ UNCHANGED <<users, links, apps, sessions, credentials, mix>>

-----------------------------------------------------------------------------

ContextExpires(c) ==
    /\ c \in contexts /\ contexts' = contexts \ {c}
    /\ UNCHANGED <<users, links, apps, sessions, credentials, requests, mix>>

SessionExpires(s) ==
    /\ s \in sessions /\ sessions' = sessions \ {s}
    /\ UNCHANGED <<users, links, apps, contexts, credentials, requests, mix>>

\* The process that serves a request dies.
Dies(h) ==
    /\ requests[h] # Idle
    /\ abandoned' = IF requests[h].kind = "issue"
                    THEN abandoned \cup {requests[h].credential} ELSE abandoned
    /\ Ends(h)
    /\ UNCHANGED <<users, links, apps, sessions, contexts, files, issued, retained, mix>>

Step ==
    \/ \E h \in Handlers :
         \/ \E u \in Users : Authenticate(h, u) \/ CheckPassword(h, u)
         \/ \E s \in sessions : SignOut(h, s)
         \/ \E u \in Members, s \in Subjects : SelectLink(h, u, s)
         \/ \E a \in Apps, rotate \in BOOLEAN : WriteCredential(h, a, rotate)
         \/ \E a \in Apps, s \in Subjects, v \in 0..(MaxChanges + 1) : Arrive(h, a, s, v)
         \/ \E c \in contexts, k \in retained : Call(h, c, k)
         \/ OpenSession(h) \/ RevokeSessions(h) \/ ChangePassword(h) \/ InsertLink(h)
         \/ CommitCredential(h) \/ CommitFails(h)
         \/ Pass(h) \/ Refuse(h) \/ Serve(h) \/ Dies(h)
    \/ \E u \in Members : ResetPassword(u) \/ Unlink(u) \/ \E d \in BOOLEAN : SetDisabled(u, d)
    \/ \E a \in Apps : (\E r \in Routes : Register(a, r)) \/ \E r \in BOOLEAN : SetRetired(a, r)
    \/ \E c \in contexts : ContextExpires(c)
    \/ \E s \in sessions : SessionExpires(s)

\* What holds in the state a step leads to is added to what each request has seen.
Observe ==
    seen' = [h \in Handlers |->
        IF Pending(requests'[h])
        THEN (IF Pending(requests[h]) THEN seen[h] ELSE {}) \cup
             {c \in Checks(requests'[h].kind) : Holds(c, requests[h])'}
        ELSE {}]

Next == Step /\ Observe

Spec == Init /\ [][Next]_vars

-----------------------------------------------------------------------------

\* A session the portal accepts was opened with the password the account has
\* now; the one exception is a login that read the old hash before the change
\* and the new session version after it (dashboard_account.login).
SessionsFollowThePassword ==
    \A s \in sessions :
        Accepted(s.user, s.version) => s.raced \/ s.password = users[s.user].password

\* Signing out ends the sessions of the version it presents and no later ones,
\* however late or often it is repeated (revoke_sessions).
SignOutRevokesItsOwn ==
    \A u \in Users :
        users'[u].version # users[u].version /\ users'[u].password = users[u].password =>
            \E h \in Handlers : /\ requests[h].kind = "logout"
                               /\ requests[h].session.user = u
                               /\ requests[h].session.version = users[u].version

\* A subject stands for one account and an account has one subject, although
\* two requests may both have found neither linked.
LinksAreOneToOne ==
    \A s, t \in Subjects : links[s] = links[t] /\ links[s] # None => s = t

\* Whatever is served, by the gateway or by the application API, every check it
\* takes held at some moment of the request itself: what was revoked before the
\* request began is never served from what a context or cookie remembers.
ServedRequestsHeldAuthority ==
    \A h \in Handlers :
        Pending(requests[h]) /\ requests[h].next > Len(Order) =>
            seen[h] = Checks(requests[h].kind)

\* No two applications answer for one path.
RoutesAreDisjoint ==
    \A a, b \in Apps : a # b /\ apps[a].route # None =>
        apps[a].route # apps[b].route /\ <<apps[a].route, apps[b].route>> \notin Overlaps

\* The active credential of an application has its file on the host: a rotation
\* that fails anywhere leaves the old credential usable.
ActiveCredentialHasItsFile ==
    \A a \in Apps : apps[a].active # 0 => apps[a].active \in files

\* The file of a credential that never became active stays only when the
\* process that wrote it died.
FailedIssuesLeaveNoFile ==
    files \subseteq retained \cup abandoned
        \cup {requests[h].credential : h \in {g \in Handlers : requests[g].kind = "issue"}}

\* Sessions end when, and only when, the account's owner or operator ends them.
SessionsEndAsAsked == [][SessionsFollowThePassword' /\ SignOutRevokesItsOwn]_vars

\* An identity, an account's identity and a route have one owner each.
NamesAreUnique == LinksAreOneToOne /\ RoutesAreDisjoint

\* Files and rows of credentials agree wherever an issue stops.
CredentialsMatchTheirFiles == ActiveCredentialHasItsFile /\ FailedIssuesLeaveNoFile

=============================================================================
