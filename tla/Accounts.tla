------------------------------ MODULE Accounts ------------------------------
(***************************************************************************)
(* Dashboard accounts and sessions: the requests of api/routes_auth.py and *)
(* api/routes_users.py, the dependencies of api/deps.py that admit them,   *)
(* and the user and session tables of store.py.                            *)
(*                                                                         *)
(* A request is a chain of store calls.  Each call runs in a thread and    *)
(* the requests of other browsers run in between, so one action is one     *)
(* call.  authenticate and delete_user read, decide and write: other       *)
(* threads run between the read and the write, so they are two actions.    *)
(* What a request keeps between its calls (the principal, the row it read, *)
(* the body it was sent) is its record in `req`.                           *)
(*                                                                         *)
(* Passwords are abstracted to a generation counted up by every change.  A *)
(* browser holds the cookie of one session; rows whose cookie no browser   *)
(* holds cannot act and are left out.  Account names and ids are not given *)
(* twice.  CSRF tokens always match.                                       *)
(***************************************************************************)
EXTENDS Naturals, FiniteSets

CONSTANTS
    Accounts,       \* user accounts, existing or to be created
    Founders,       \* administrators a database in use starts with
    Clients,        \* browsers
    Roles,          \* auth.ROLES
    MaxFails,       \* failed logins that lock an account (5 in the code)
    MaxRequests,    \* bound on the requests made
    MaxEvents,      \* bound on crashes, expiring sessions and lapsing locks
    Bodies,         \* update requests an administrator may send
    Nobody          \* Python's None

ASSUME AccountsAssumption ==
    /\ Founders \subseteq Accounts
    /\ "admin" \in Roles /\ "keep" \notin Roles
    /\ MaxFails \in Nat \ {0, 1} /\ MaxRequests \in Nat /\ MaxEvents \in Nat
    /\ Nobody \notin Accounts

VARIABLES
    up,         \* the server runs
    exists,     \* accounts with a row in the user table
    retired,    \* accounts deleted
    users,      \* their UserRecord
    session,    \* the SessionRecord behind each browser's cookie
    req,        \* the request each browser waits for
    requests, events,
    raced,      \* history: an administrator was removed on a stale check
    unrevoked   \* history: accounts whose revocation died with the server

vars == <<up, exists, retired, users, session, req, requests, events, raced,
          unrevoked>>

Row == [role : Roles, disabled : BOOLEAN, must : BOOLEAN, gen : Nat,
        fails : 0 .. MaxFails - 1, lock : {"none", "locked", "lapsed"}]

(* UpdateUserRequest; "keep" is a field left out.                          *)
Body == [role : Roles \cup {"keep"}, disabled : {"keep", "yes", "no"},
         reset : BOOLEAN]

ASSUME BodiesAssumption == Bodies \subseteq Body

Session == [user : Accounts \cup {Nobody}, gen : Nat, expired : BOOLEAN,
            late : BOOLEAN]

(* What authenticate keeps of the row it read.                             *)
Seen == [gen : Nat, fails : 0 .. MaxFails - 1, lock : {"none", "lapsed"}]

(* pc is the store call awaited next.                                      *)
Request == [op : {"none", "login", "password", "update", "delete", "create",
                  "unlock", "logout"},
            pc : {"idle", "current", "auth", "setpw", "revoke", "session", "get",
                  "count", "update", "find", "delete", "create", "unlock",
                  "logout"},
            target : Accounts \cup {Nobody}, body : Body, seen : Seen,
            checks : 0 .. 2, stale : BOOLEAN]

NewRow(role, must) ==
    [role |-> role, disabled |-> FALSE, must |-> must, gen |-> 0, fails |-> 0,
     lock |-> "none"]

NotSeen == [gen |-> 0, fails |-> 0, lock |-> "none"]
NoBody == [role |-> "keep", disabled |-> "keep", reset |-> FALSE]
NoSession == [user |-> Nobody, gen |-> 0, expired |-> FALSE, late |-> FALSE]
Idle == [op |-> "none", pc |-> "idle", target |-> Nobody, body |-> NoBody,
         seen |-> NotSeen, checks |-> 0, stale |-> FALSE]

TypeOK ==
    /\ up \in BOOLEAN
    /\ exists \subseteq Accounts /\ retired \subseteq Accounts
    /\ users \in [Accounts -> Row]
    /\ session \in [Clients -> Session]
    /\ req \in [Clients -> Request]
    /\ requests \in 0 .. MaxRequests /\ events \in 0 .. MaxEvents
    /\ raced \in BOOLEAN /\ unrevoked \subseteq Accounts

(* An empty database, or one in use with its founders signed in.           *)
Init ==
    /\ up = FALSE
    /\ exists \in {{}, Founders}
    /\ retired = {}
    /\ users = [u \in Accounts |-> NewRow("admin", FALSE)]
    /\ session \in [Clients -> {NoSession} \cup
                               {[NoSession EXCEPT !.user = u] : u \in exists}]
    /\ req = [c \in Clients |-> Idle]
    /\ requests = 0 /\ events = 0
    /\ raced = FALSE /\ unrevoked = {}

-----------------------------------------------------------------------------
(* Admission: resolve_session, current_user and require_role.              *)

ActiveAdmins == {u \in exists : users[u].role = "admin" /\ ~users[u].disabled}

Resolves(s) == /\ s.user \in exists
               /\ ~s.expired
               /\ ~users[s.user].disabled

(* resolve_session deletes a row that no longer counts.                    *)
Unresolved(c) ==
    /\ up /\ req[c].pc = "idle"
    /\ session[c].user # Nobody /\ ~Resolves(session[c])
    /\ session' = [session EXCEPT ![c] = NoSession]
    /\ UNCHANGED <<up, exists, retired, users, req, requests, events, raced,
                   unrevoked>>

Arrives(c, r) ==
    /\ up /\ req[c].pc = "idle" /\ requests < MaxRequests
    /\ requests' = requests + 1
    /\ req' = [req EXCEPT ![c] = r]
    /\ UNCHANGED <<up, exists, retired, users, session, events, raced,
                   unrevoked>>

(* A password that must be changed admits nothing but that and the logout. *)
OwnRequest(c, op, pc) ==
    /\ Resolves(session[c])
    /\ Arrives(c, [Idle EXCEPT !.op = op, !.pc = pc, !.target = session[c].user])

AdminRequest(c, op, pc, u, body) ==
    /\ Resolves(session[c])
    /\ ~users[session[c].user].must
    /\ users[session[c].user].role = "admin"
    /\ Arrives(c, [Idle EXCEPT !.op = op, !.pc = pc, !.target = u,
                               !.body = body])

-----------------------------------------------------------------------------
(* What the steps of a request do to it.                                   *)

Done(c) == req' = [req EXCEPT ![c] = Idle]
Goes(c, pc) == req' = [req EXCEPT ![c].pc = pc]

(* A write of c: if it is one of roles, disabled flags or rows, what other *)
(* requests have read or counted is out of date.                           *)
Outdate(c, r, matters) ==
    req' = [d \in Clients |->
              IF d = c THEN r
              ELSE [req[d] EXCEPT !.stale = @ \/ (matters /\ req[d].pc # "idle")]]

(* History: the write of c leaves no administrator although it checked.    *)
NoteRace(c) ==
    raced' = (raced \/ (req[c].stale /\ ActiveAdmins # {} /\ ActiveAdmins' = {}))

-----------------------------------------------------------------------------
(* authenticate, first half: the row is read and refused, or the password  *)
(* compared with the hash read.                                            *)
Authenticable(u) ==
    /\ u \in exists
    /\ ~users[u].disabled
    /\ users[u].lock # "locked"

Verifying(op, u) ==
    [Idle EXCEPT !.op = op, !.pc = "auth", !.target = u,
                 !.seen = [gen |-> users[u].gen, fails |-> users[u].fails,
                           lock |-> users[u].lock]]

(* POST /login.                                                            *)
Login(c, u) ==
    /\ Authenticable(u)
    /\ Arrives(c, Verifying("login", u))

(* POST /password authenticates again.                                     *)
CurrentPassword(c) ==
    LET u == req[c].target IN
    /\ req[c].pc = "current"
    /\ \/ Authenticable(u)
          /\ req' = [req EXCEPT ![c] = Verifying("password", u)]
       \/ ~Authenticable(u) /\ Done(c)
    /\ UNCHANGED <<up, exists, retired, users, session, requests, events, raced,
                   unrevoked>>

(* Mutant: a success resets the counter and the lock whatever they are.    *)
Succeeded_Resets(row, seen) == [row EXCEPT !.fails = 0, !.lock = "none"]

(* The second half writes the columns whose value differs from the row     *)
(* read: a success leaves alone what another attempt wrote meanwhile.      *)
Succeeded(row, seen) ==
    [row EXCEPT !.fails = IF seen.fails = 0 THEN row.fails ELSE 0,
                !.lock = IF seen.lock = "none" THEN row.lock ELSE "none"]

(* Mutant: the attempt that reaches the limit is still counted.            *)
Failed_NoReset(row, seen) ==
    IF seen.fails + 1 >= MaxFails
    THEN [row EXCEPT !.fails = seen.fails + 1, !.lock = "locked"]
    ELSE [row EXCEPT !.fails = seen.fails + 1]

Failed(row, seen) ==
    IF seen.fails + 1 >= MaxFails
    THEN [row EXCEPT !.fails = 0, !.lock = "locked"]
    ELSE [row EXCEPT !.fails = seen.fails + 1]

(* The row is gone: the UPDATE matches nothing and the request fails.      *)
Authenticated(c) ==
    LET r == req[c] IN
    /\ r.pc = "auth"
    /\ \/ /\ r.target \in exists               \* the password is right
          /\ users' = [users EXCEPT ![r.target] = Succeeded(@, r.seen)]
          /\ \/ Goes(c, IF r.op = "login" THEN "session" ELSE "setpw")
             \/ r.op = "password" /\ Done(c)   \* the new password is refused
       \/ /\ r.target \in exists               \* it is wrong
          /\ users' = [users EXCEPT ![r.target] = Failed(@, r.seen)]
          /\ Done(c)
       \/ /\ r.target \notin exists
          /\ Done(c)
          /\ UNCHANGED users
    /\ UNCHANGED <<up, exists, retired, session, requests, events, raced,
                   unrevoked>>

(* set_password: an update of a missing row is silently none.              *)
SetPassword(c) ==
    LET r == req[c]
        gen == users[r.target].gen + 1 IN
    /\ r.pc = "setpw"
    /\ users' = IF r.target \in exists
                THEN [users EXCEPT ![r.target].gen = gen,
                                   ![r.target].must = FALSE,
                                   ![r.target].fails = 0,
                                   ![r.target].lock = "none"]
                ELSE users
    /\ req' = [req EXCEPT ![c].pc = "revoke", ![c].seen.gen = gen]
    /\ UNCHANGED <<up, exists, retired, session, requests, events, raced,
                   unrevoked>>

(* delete_user_sessions; the password request opens a new session next.    *)
Revoke(c) ==
    /\ req[c].pc = "revoke"
    /\ session' = [d \in Clients |-> IF session[d].user = req[c].target
                                     THEN NoSession ELSE session[d]]
    /\ IF req[c].op = "password" THEN Goes(c, "session") ELSE Done(c)
    /\ UNCHANGED <<up, exists, retired, users, requests, events, raced,
                   unrevoked>>

(* create_session; `late` notes that the password proved is not the        *)
(* account's any more.                                                     *)
CreateSession(c) ==
    LET r == req[c] IN
    /\ r.pc = "session"
    /\ session' = [session EXCEPT ![c] =
                     [user |-> r.target, gen |-> r.seen.gen, expired |-> FALSE,
                      late |-> r.seen.gen # users[r.target].gen]]
    /\ Done(c)
    /\ UNCHANGED <<up, exists, retired, users, requests, events, raced,
                   unrevoked>>

Logout(c) ==
    /\ req[c].pc = "logout"
    /\ session' = [session EXCEPT ![c] = NoSession]
    /\ Done(c)
    /\ UNCHANGED <<up, exists, retired, users, requests, events, raced,
                   unrevoked>>

-----------------------------------------------------------------------------
(* PATCH /users/{username}.                                                *)

Demotes(row, body) ==
    row.role = "admin" /\ body.role \notin {"keep", "admin"}
Disables(row, body) == row.role = "admin" /\ body.disabled = "yes"

Bit(b) == IF b THEN 1 ELSE 0

GetUser(c) ==
    LET r == req[c]
        row == users[r.target]
        checks == Bit(Demotes(row, r.body)) + Bit(Disables(row, r.body)) IN
    /\ r.pc = "get"
    /\ IF r.target \in exists
       THEN req' = [req EXCEPT ![c].pc = IF checks = 0 THEN "update" ELSE "count",
                               ![c].checks = checks, ![c].stale = FALSE]
       ELSE Done(c)
    /\ UNCHANGED <<up, exists, retired, users, session, requests, events, raced,
                   unrevoked>>

(* Mutant: the administrator himself is counted.                           *)
CountAdmins_Self(c) ==
    LET r == req[c] IN
    /\ r.pc = "count"
    /\ IF ActiveAdmins = {}
       THEN Done(c)
       ELSE req' = [req EXCEPT ![c].checks = r.checks - 1,
                               ![c].pc = IF r.checks = 1 THEN "update" ELSE "count"]
    /\ UNCHANGED <<up, exists, retired, users, session, requests, events, raced,
                   unrevoked>>

(* _assert_another_admin_remains, once for the role and once for the flag. *)
CountAdmins(c) ==
    LET r == req[c] IN
    /\ r.pc = "count"
    /\ IF ActiveAdmins \ {r.target} = {}
       THEN Done(c)
       ELSE req' = [req EXCEPT ![c].checks = r.checks - 1,
                               ![c].pc = IF r.checks = 1 THEN "update" ELSE "count"]
    /\ UNCHANGED <<up, exists, retired, users, session, requests, events, raced,
                   unrevoked>>

(* An administrator's password is temporary and lifts a lock.              *)
Updated(row, body) ==
    [role |-> IF body.role = "keep" THEN row.role ELSE body.role,
     disabled |-> IF body.disabled = "keep" THEN row.disabled
                  ELSE body.disabled = "yes",
     must |-> row.must \/ body.reset,
     gen |-> IF body.reset THEN row.gen + 1 ELSE row.gen,
     fails |-> IF body.reset THEN 0 ELSE row.fails,
     lock |-> IF body.reset THEN "none" ELSE row.lock]

(* Mutant: only a disabled account is signed out.                          *)
EndsSessions_Disabled(body) == body.disabled = "yes"

(* Sessions end when the password, the role or the flag changed.           *)
EndsSessions(body) == body.reset \/ body.disabled = "yes" \/ body.role # "keep"

UpdateUser(c) ==
    LET r == req[c] IN
    /\ r.pc = "update"
    /\ users' = IF r.target \in exists
                THEN [users EXCEPT ![r.target] = Updated(@, r.body)]
                ELSE users
    /\ Outdate(c, IF EndsSessions(r.body) THEN [r EXCEPT !.pc = "revoke", !.body = NoBody]
                  ELSE Idle,
                  r.body.role # "keep" \/ r.body.disabled # "keep")
    /\ UNCHANGED <<up, exists, retired, session, requests, events, unrevoked>>
    /\ NoteRace(c)

-----------------------------------------------------------------------------
(* DELETE, POST and POST .../unlock of /users.                             *)

(* _delete_user reads the row and counts ...                               *)
FindUser(c) ==
    LET u == req[c].target IN
    /\ req[c].pc = "find"
    /\ IF u \in exists /\ (users[u].role = "admin" =>
                              \E a, b \in ActiveAdmins : a # b)
       THEN req' = [req EXCEPT ![c].pc = "delete", ![c].stale = FALSE]
       ELSE Done(c)
    /\ UNCHANGED <<up, exists, retired, users, session, requests, events, raced,
                   unrevoked>>

(* ... and deletes.  The sessions of the account stay until resolved.      *)
DeleteUser(c) ==
    /\ req[c].pc = "delete"
    /\ exists' = exists \ {req[c].target}
    /\ retired' = retired \cup {req[c].target}
    /\ Outdate(c, Idle, TRUE)
    /\ UNCHANGED <<up, users, session, requests, events, unrevoked>>
    /\ NoteRace(c)

(* A name given up while the request was under way gets a row of its own,  *)
(* which is another account: left out.                                     *)
CreateUser(c) ==
    LET r == req[c] IN
    /\ r.pc = "create"
    /\ IF r.target \in exists \cup retired
       THEN UNCHANGED <<exists, users>>
       ELSE /\ exists' = exists \cup {r.target}
            /\ users' = [users EXCEPT ![r.target] = NewRow(r.body.role, FALSE)]
    /\ Done(c)
    /\ UNCHANGED <<up, retired, session, requests, events, raced, unrevoked>>

UnlockUser(c) ==
    LET u == req[c].target IN
    /\ req[c].pc = "unlock"
    /\ users' = IF u \in exists
                THEN [users EXCEPT ![u].fails = 0, ![u].lock = "none"]
                ELSE users
    /\ Done(c)
    /\ UNCHANGED <<up, exists, retired, session, requests, events, raced,
                   unrevoked>>

-----------------------------------------------------------------------------
(* Time and the server's life.                                             *)

Happens == events < MaxEvents /\ events' = events + 1

SessionExpires(c) ==
    /\ session[c].user # Nobody /\ ~session[c].expired
    /\ Happens
    /\ session' = [session EXCEPT ![c].expired = TRUE]
    /\ UNCHANGED <<up, exists, retired, users, req, requests, raced, unrevoked>>

LockLapses(u) ==
    /\ users[u].lock = "locked"
    /\ Happens
    /\ users' = [users EXCEPT ![u].lock = "lapsed"]
    /\ UNCHANGED <<up, exists, retired, session, req, requests, raced, unrevoked>>

(* The lifespan of the application: ensure_default_admin on an empty table *)
(* and purge_expired_sessions.                                             *)
Start ==
    /\ ~up
    /\ up' = TRUE
    /\ IF exists = {}
       THEN \E u \in Accounts \ retired :
              /\ exists' = {u}
              /\ users' = [users EXCEPT ![u] = NewRow("admin", TRUE)]
       ELSE UNCHANGED <<exists, users>>
    /\ session' = [c \in Clients |-> IF session[c].expired THEN NoSession
                                     ELSE session[c]]
    /\ UNCHANGED <<retired, req, requests, events, raced, unrevoked>>

(* A crash between two calls of a request: what was committed stays.       *)
Crash ==
    /\ up /\ Happens
    /\ up' = FALSE
    /\ unrevoked' = unrevoked \cup
                    {u \in Accounts : \E c \in Clients :
                                         req[c].pc = "revoke" /\ req[c].target = u}
    /\ req' = [c \in Clients |-> Idle]
    /\ UNCHANGED <<exists, retired, users, session, requests, raced>>

-----------------------------------------------------------------------------
Arrival(c) ==
    \/ \E u \in Accounts : Login(c, u)
    \/ OwnRequest(c, "password", "current")
    \/ OwnRequest(c, "logout", "logout")
    \/ \E u \in exists, body \in Bodies :
          AdminRequest(c, "update", "get", u, body)
    \/ \E u \in exists \ {session[c].user} :
          AdminRequest(c, "delete", "find", u, NoBody)
    \/ \E u \in Accounts \ (exists \cup retired), role \in Roles :
          AdminRequest(c, "create", "create", u, [NoBody EXCEPT !.role = role])
    \/ \E u \in exists : AdminRequest(c, "unlock", "unlock", u, NoBody)

AuthStep(c) ==
    \/ CurrentPassword(c)
    \/ Authenticated(c)
    \/ SetPassword(c)
    \/ Revoke(c)
    \/ CreateSession(c)
    \/ Logout(c)

AdminStep(c) ==
    \/ GetUser(c)
    \/ CountAdmins(c)
    \/ UpdateUser(c)
    \/ FindUser(c)
    \/ DeleteUser(c)
    \/ CreateUser(c)
    \/ UnlockUser(c)

Next ==
    \/ \E c \in Clients : \/ Unresolved(c)
                          \/ Arrival(c)
                          \/ AuthStep(c)
                          \/ AdminStep(c)
                          \/ SessionExpires(c)
    \/ \E u \in Accounts : LockLapses(u)
    \/ Start
    \/ Crash

Spec == Init /\ [][Next]_vars

-----------------------------------------------------------------------------
(* "cannot remove the last administrator": a running server has an active  *)
(* administrator, unless one was removed on a check that another request   *)
(* had made out of date in between (routes_users.py:108, store.py:438).    *)
AdminLostOnlyByRace == up /\ ActiveAdmins = {} => raced

(* A session proves the account's current password.  The exceptions are    *)
(* the moment before a request revokes, a revocation that died with the    *)
(* server, and a login that had compared the password before it changed    *)
(* (routes_users.py:131, routes_auth.py:167).                              *)
SessionsRevoked ==
    \A c \in Clients :
        LET s == session[c] IN
        s.user \in exists /\ s.gen # users[s.user].gen =>
            \/ s.late
            \/ s.user \in unrevoked
            \/ \E d \in Clients : req[d].pc = "revoke" /\ req[d].target = s.user

(* A lock is lifted by time, by an administrator, by a new password, or by *)
(* a login that saw an older lock already lapsed; never by one that read   *)
(* the row before the failures that locked it (store.py:491).              *)
LockHolds ==
    [][\A u \in exists :
          users[u].lock = "locked" /\ users'[u].lock = "none" =>
             \E c \in Clients :
                /\ req[c].target = u
                /\ \/ req[c].pc \in {"unlock", "update", "setpw"}
                   \/ req[c].pc = "auth" /\ req[c].seen.lock = "lapsed"]_vars

-----------------------------------------------------------------------------
(* What the program says of itself and does not keep.                      *)

(* Demoting, disabling or deleting the last administrator is refused, as   *)
(* it "would leave an appliance nobody can administer"                     *)
(* (routes_users.py:102).                                                  *)
AdminRemains == up => ActiveAdmins # {}

(* Sessions "are dropped on password change" (README.md:156): whoever is   *)
(* let in, once the request that changes the password has been through,    *)
(* proved the password that holds now.                                     *)
SessionsFollowPassword ==
    up => \A c \in Clients :
             LET s == session[c] IN
             s.user \in exists /\ s.gen # users[s.user].gen =>
                \E d \in Clients : req[d].pc = "revoke" /\ req[d].target = s.user
=============================================================================
