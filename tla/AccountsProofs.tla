---------------------------- MODULE AccountsProofs ----------------------------
(* Theorems about Accounts, for every value of its constants.              *)
EXTENDS Accounts, TLAPS

-----------------------------------------------------------------------------
(* Type correctness.  A request under way has a target; one that awaits a  *)
(* count has a check left; one that creates a row names its role.          *)

RequestOK(r) ==
  /\ r \in Request
  /\ r.pc # "idle" => r.target \in Accounts
  /\ r.pc = "count" => r.checks \in {1, 2}
  /\ r.pc = "create" => r.body.role \in Roles

TypeInv == TypeOK /\ \A c \in Clients : RequestOK(req[c])

LEMMA ConstantRecords ==
  /\ Idle \in Request /\ RequestOK(Idle)
  /\ NoBody \in Body /\ NotSeen \in Seen /\ NoSession \in Session
  /\ \A role \in Roles, must \in BOOLEAN : NewRow(role, must) \in Row
<1>1. 0 \in 0 .. MaxFails - 1
  BY AccountsAssumption
<1>2. NoBody \in Body /\ NotSeen \in Seen /\ NoSession \in Session
  BY <1>1 DEF NoBody, Body, NotSeen, Seen, NoSession, Session
<1>3. Idle \in Request
  BY <1>2 DEF Idle, Request
<1>4. RequestOK(Idle)
  BY <1>3 DEF RequestOK, Idle
<1>5. ASSUME NEW role \in Roles, NEW must \in BOOLEAN
      PROVE  NewRow(role, must) \in Row
  BY <1>1 DEF NewRow, Row
<1> QED BY <1>2, <1>3, <1>4, <1>5

(* What the writes of authenticate and update_user make of a row.          *)
LEMMA RowsOK ==
  ASSUME NEW row \in Row
  PROVE  /\ \A seen \in Seen : Succeeded(row, seen) \in Row /\ Failed(row, seen) \in Row
         /\ \A body \in Body : Updated(row, body) \in Row
<1>0. MaxFails \in Nat /\ 0 \in 0 .. MaxFails - 1
  BY AccountsAssumption
<1>1. ASSUME NEW seen \in Seen PROVE Succeeded(row, seen) \in Row
  BY <1>0 DEF Row, Seen, Succeeded
<1>2. ASSUME NEW seen \in Seen PROVE Failed(row, seen) \in Row
  <2>1. CASE seen.fails + 1 >= MaxFails
    BY <1>0, <2>1 DEF Row, Seen, Failed
  <2>2. CASE ~(seen.fails + 1 >= MaxFails)
    <3>1. seen.fails + 1 \in 0 .. MaxFails - 1
      BY <1>0, <2>2 DEF Seen
    <3> QED BY <2>2, <3>1 DEF Row, Failed
  <2> QED BY <2>1, <2>2
<1>3. ASSUME NEW body \in Body PROVE Updated(row, body) \in Row
  <2> DEFINE must == row.must \/ body.reset
             disabled == IF body.disabled = "keep" THEN row.disabled
                         ELSE body.disabled = "yes"
  <2>1. must \in BOOLEAN /\ disabled \in BOOLEAN
    BY DEF Row
  <2> HIDE DEF must, disabled
  <2>2. ASSUME NEW role \in Roles, NEW gen \in Nat, NEW fails \in 0 .. MaxFails - 1,
               NEW lock \in {"none", "locked", "lapsed"}
        PROVE  [role |-> role, disabled |-> disabled, must |-> must, gen |-> gen,
                fails |-> fails, lock |-> lock] \in Row
    BY <2>1 DEF Row
  <2> QED BY <1>0, <2>2 DEF Row, Body, Updated, must, disabled
<1> QED BY <1>1, <1>2, <1>3

LEMMA ArrivesType ==
  ASSUME TypeInv, NEW c \in Clients, NEW r, RequestOK(r), Arrives(c, r)
  PROVE  TypeInv'
<1>1. r \in Request
  BY DEF RequestOK
<1>2. requests' \in 0 .. MaxRequests
  BY AccountsAssumption DEF Arrives, TypeInv, TypeOK
<1>3. req' \in [Clients -> Request] /\ \A d \in Clients : RequestOK(req'[d])
  BY <1>1 DEF Arrives, TypeInv, TypeOK
<1> QED BY <1>2, <1>3 DEF Arrives, TypeInv, TypeOK

LEMMA VerifyingOK ==
  ASSUME TypeOK, NEW u \in Accounts, Authenticable(u),
         NEW op \in {"login", "password"}
  PROVE  RequestOK(Verifying(op, u))
<1> DEFINE s == [gen |-> users[u].gen, fails |-> users[u].fails,
                 lock |-> users[u].lock]
<1>1. s \in Seen
  BY DEF TypeOK, Row, Seen, Authenticable
<1>2. Verifying(op, u) = [Idle EXCEPT !.op = op, !.pc = "auth", !.target = u, !.seen = s]
  BY DEF Verifying
<1> HIDE DEF s
<1> QED BY <1>1, <1>2, ConstantRecords DEF RequestOK, Request

LEMMA ArrivalType ==
  ASSUME TypeInv, NEW c \in Clients, Arrival(c)
  PROVE  TypeInv'
<1>0. TypeOK /\ exists \subseteq Accounts /\ session \in [Clients -> Session]
  BY DEF TypeInv, TypeOK
<1>1. ASSUME NEW u \in Accounts, Login(c, u) PROVE TypeInv'
  BY <1>0, <1>1, VerifyingOK, ArrivesType DEF Login
<1>2. ASSUME NEW op \in {"password", "logout"}, NEW pc \in {"current", "logout"},
             OwnRequest(c, op, pc)
      PROVE  TypeInv'
  <2> DEFINE r == [Idle EXCEPT !.op = op, !.pc = pc, !.target = session[c].user]
  <2>1. session[c].user \in Accounts
    BY <1>0, <1>2 DEF OwnRequest, Resolves
  <2>2. RequestOK(r)
    BY <2>1, ConstantRecords DEF RequestOK, Request
  <2>3. Arrives(c, r)
    BY <1>2 DEF OwnRequest
  <2> QED BY <2>2, <2>3, ArrivesType
<1>3. ASSUME NEW op \in {"update", "delete", "create", "unlock"},
             NEW pc \in {"get", "find", "create", "unlock"},
             NEW u \in Accounts, NEW body \in Body,
             pc = "create" => body.role \in Roles,
             AdminRequest(c, op, pc, u, body)
      PROVE  TypeInv'
  <2> DEFINE r == [Idle EXCEPT !.op = op, !.pc = pc, !.target = u, !.body = body]
  <2>1. RequestOK(r)
    BY <1>3, ConstantRecords DEF RequestOK, Request
  <2>2. Arrives(c, r)
    BY <1>3 DEF AdminRequest
  <2> QED BY <2>1, <2>2, ArrivesType
<1>4. ASSUME NEW role \in Roles
      PROVE  /\ [NoBody EXCEPT !.role = role] \in Body
             /\ [NoBody EXCEPT !.role = role].role \in Roles
  BY ConstantRecords DEF Body
<1>5. \A body \in Bodies : body \in Body
  BY BodiesAssumption
<1> QED BY <1>0, <1>1, <1>2, <1>3, <1>4, <1>5, ConstantRecords DEF Arrival

(* The steps of a request change its own record, the user rows and the     *)
(* sessions.                                                               *)
LEMMA AuthStepType ==
  ASSUME TypeInv, NEW c \in Clients, AuthStep(c)
  PROVE  TypeInv'
<1> DEFINE r == req[c]
<1>0. /\ RequestOK(r) /\ r \in Request /\ r.seen \in Seen
      /\ users \in [Accounts -> Row] /\ req \in [Clients -> Request]
      /\ session \in [Clients -> Session]
      /\ r.pc # "idle" => r.target \in Accounts
  BY DEF TypeInv, TypeOK, RequestOK, Request
<1> SUFFICES /\ users' \in [Accounts -> Row]
             /\ session' \in [Clients -> Session]
             /\ \E q : RequestOK(q) /\ req' = [req EXCEPT ![c] = q]
             /\ UNCHANGED <<up, exists, retired, requests, events, raced, unrevoked>>
  <2> PICK q : RequestOK(q) /\ req' = [req EXCEPT ![c] = q]
    OBVIOUS
  <2>1. q \in Request
    BY DEF RequestOK
  <2>2. req' \in [Clients -> Request] /\ \A d \in Clients : RequestOK(req'[d])
    BY <1>0, <2>1 DEF TypeInv
  <2> QED BY <2>2 DEF TypeInv, TypeOK
<1>a. ASSUME NEW pc \in {"session", "setpw"}, r.pc = "auth" PROVE RequestOK([r EXCEPT !.pc = pc])
  BY <1>0, <1>a DEF RequestOK, Request
<1>1. CASE CurrentPassword(c)
  BY <1>0, <1>1, ConstantRecords, VerifyingOK
  DEF CurrentPassword, Done, TypeInv, TypeOK
<1>2. CASE Authenticated(c)
  <2>1. r.pc = "auth" /\ r.target \in Accounts
    BY <1>0, <1>2 DEF Authenticated
  <2>2. /\ Succeeded(users[r.target], r.seen) \in Row
        /\ Failed(users[r.target], r.seen) \in Row
    BY <1>0, <2>1, RowsOK
  <2>3. users' \in [Accounts -> Row]
    BY <1>0, <1>2, <2>1, <2>2 DEF Authenticated
  <2>4. \E q : RequestOK(q) /\ req' = [req EXCEPT ![c] = q]
    <3>1. ASSUME NEW pc, Goes(c, pc) PROVE req' = [req EXCEPT ![c] = [r EXCEPT !.pc = pc]]
      BY <3>1 DEF Goes
    <3>2. \/ Goes(c, "session") \/ Goes(c, "setpw") \/ Done(c)
      BY <1>2 DEF Authenticated
    <3> QED BY <1>0, <2>1, <1>a, <3>1, <3>2, ConstantRecords DEF Done
  <2> QED BY <1>0, <1>2, <2>3, <2>4 DEF Authenticated
<1>3. CASE SetPassword(c)
  <2> DEFINE g == users[r.target].gen + 1
             n == [users[r.target] EXCEPT !.gen = g, !.must = FALSE, !.fails = 0,
                                          !.lock = "none"]
             q == [r EXCEPT !.pc = "revoke", !.seen.gen = g]
  <2>1. r.target \in Accounts
    BY <1>0, <1>3 DEF SetPassword
  <2>2. g \in Nat /\ 0 \in 0 .. MaxFails - 1
    BY <1>0, <2>1, AccountsAssumption DEF Row
  <2>3. n \in Row
    BY <1>0, <2>1, <2>2 DEF Row
  <2>4. users' = users \/ users' = [users EXCEPT ![r.target] = n]
    BY <1>0, <1>3, <2>1 DEF SetPassword
  <2>5. [r.seen EXCEPT !.gen = g] \in Seen
    BY <1>0, <2>2 DEF Seen
  <2>6. RequestOK(q)
    BY <1>0, <2>1, <2>5 DEF RequestOK, Request
  <2>7. req' = [req EXCEPT ![c] = q]
    BY <1>0, <1>3 DEF SetPassword
  <2> HIDE DEF n, q
  <2>8. users' \in [Accounts -> Row]
    BY <1>0, <2>1, <2>3, <2>4
  <2> QED BY <1>0, <1>3, <2>6, <2>7, <2>8 DEF SetPassword
<1>4. CASE Revoke(c)
  <2>1. session' \in [Clients -> Session]
    BY <1>0, <1>4, ConstantRecords DEF Revoke
  <2>2. RequestOK([r EXCEPT !.pc = "session"])
    BY <1>0, <1>4 DEF Revoke, RequestOK, Request
  <2> QED BY <1>0, <1>4, <2>1, <2>2, ConstantRecords DEF Revoke, Goes, Done
<1>5. CASE CreateSession(c)
  <2> DEFINE s == [user |-> r.target, gen |-> r.seen.gen, expired |-> FALSE,
                   late |-> r.seen.gen # users[r.target].gen]
  <2>1. s \in Session
    BY <1>0, <1>5 DEF CreateSession, Session, Seen
  <2>2. session' \in [Clients -> Session]
    BY <1>0, <1>5, <2>1 DEF CreateSession
  <2> QED BY <1>0, <1>5, <2>2, ConstantRecords DEF CreateSession, Done
<1>6. CASE Logout(c)
  BY <1>0, <1>6, ConstantRecords DEF Logout, Done
<1> QED BY <1>1, <1>2, <1>3, <1>4, <1>5, <1>6 DEF AuthStep
(* A write that puts other requests out of date leaves their types alone.  *)
LEMMA OutdateOK ==
  ASSUME TypeInv, NEW c \in Clients, NEW q, RequestOK(q), NEW matters \in BOOLEAN,
         Outdate(c, q, matters)
  PROVE  req' \in [Clients -> Request] /\ \A d \in Clients : RequestOK(req'[d])
<1>1. ASSUME NEW d \in Clients PROVE RequestOK(req'[d])
  <2> DEFINE b == req[d].stale \/ (matters /\ req[d].pc # "idle")
  <2>1. RequestOK(req[d]) /\ b \in BOOLEAN
    BY DEF TypeInv
  <2>2. req'[d] = q \/ req'[d] = [req[d] EXCEPT !.stale = b]
    BY DEF Outdate
  <2> HIDE DEF b
  <2>3. RequestOK([req[d] EXCEPT !.stale = b])
    BY <2>1 DEF RequestOK, Request
  <2> QED BY <2>2, <2>3
<1> QED BY <1>1 DEF Outdate, RequestOK

LEMMA NoteRaceOK ==
  ASSUME NEW c \in Clients, NoteRace(c)
  PROVE  raced' \in BOOLEAN
BY DEF NoteRace

LEMMA AdminStepType ==
  ASSUME TypeInv, NEW c \in Clients, AdminStep(c)
  PROVE  TypeInv'
<1> DEFINE r == req[c]
<1>0. /\ RequestOK(r) /\ r \in Request /\ r.body \in Body
      /\ users \in [Accounts -> Row] /\ req \in [Clients -> Request]
      /\ exists \subseteq Accounts /\ retired \subseteq Accounts /\ raced \in BOOLEAN
      /\ r.pc # "idle" => r.target \in Accounts
  BY DEF TypeInv, TypeOK, RequestOK, Request
<1> SUFFICES /\ users' \in [Accounts -> Row]
             /\ exists' \subseteq Accounts /\ retired' \subseteq Accounts
             /\ raced' \in BOOLEAN
             /\ req' \in [Clients -> Request] /\ \A d \in Clients : RequestOK(req'[d])
             /\ UNCHANGED <<up, session, requests, events, unrevoked>>
  BY DEF TypeInv, TypeOK
<1>a. ASSUME NEW q, RequestOK(q), req' = [req EXCEPT ![c] = q]
      PROVE  req' \in [Clients -> Request] /\ \A d \in Clients : RequestOK(req'[d])
  BY <1>0, <1>a DEF RequestOK, TypeInv
<1>1. CASE GetUser(c)
  <2> DEFINE n == Bit(Demotes(users[r.target], r.body))
                    + Bit(Disables(users[r.target], r.body))
             q == [r EXCEPT !.pc = IF n = 0 THEN "update" ELSE "count",
                            !.checks = n, !.stale = FALSE]
  <2>1. n \in 0 .. 2 /\ (n # 0 => n \in {1, 2})
    BY DEF Bit
  <2>2. r.target \in Accounts
    BY <1>0, <1>1 DEF GetUser
  <2>3. req' = [req EXCEPT ![c] = q] \/ Done(c)
    BY <1>0, <1>1 DEF GetUser
  <2> HIDE DEF n
  <2>4. RequestOK(q)
    BY <1>0, <2>1, <2>2 DEF RequestOK, Request
  <2> QED BY <1>0, <1>1, <1>a, <2>3, <2>4, ConstantRecords DEF GetUser, Done
<1>2. CASE CountAdmins(c)
  <2> DEFINE q == [r EXCEPT !.checks = r.checks - 1,
                            !.pc = IF r.checks = 1 THEN "update" ELSE "count"]
  <2>1. r.pc = "count" /\ r.checks \in {1, 2} /\ r.target \in Accounts
    BY <1>0, <1>2 DEF CountAdmins, RequestOK
  <2>2. req' = [req EXCEPT ![c] = q] \/ Done(c)
    BY <1>0, <1>2 DEF CountAdmins
  <2>3. ASSUME NEW pc \in {"update", "count"}, NEW n \in 0 .. 2,
               pc = "count" => n \in {1, 2}
        PROVE  RequestOK([r EXCEPT !.checks = n, !.pc = pc])
    BY <1>0, <2>1, <2>3 DEF RequestOK, Request
  <2>4. RequestOK(q)
    <3>1. CASE r.checks = 1
      BY <2>3, <3>1
    <3>2. CASE r.checks = 2
      BY <2>3, <3>2
    <3> QED BY <2>1, <3>1, <3>2
  <2> HIDE DEF q
  <2> QED BY <1>0, <1>2, <1>a, <2>2, <2>4, ConstantRecords DEF CountAdmins, Done
<1>3. CASE UpdateUser(c)
  <2> DEFINE q == IF EndsSessions(r.body) THEN [r EXCEPT !.pc = "revoke", !.body = NoBody]
                  ELSE Idle
             matters == r.body.role # "keep" \/ r.body.disabled # "keep"
  <2>1. r.pc = "update" /\ r.target \in Accounts
    BY <1>0, <1>3 DEF UpdateUser
  <2>2. Updated(users[r.target], r.body) \in Row
    BY <1>0, <2>1, RowsOK
  <2>3. users' \in [Accounts -> Row]
    BY <1>0, <1>3, <2>1, <2>2 DEF UpdateUser
  <2>4. RequestOK(q)
    <3>1. RequestOK([r EXCEPT !.pc = "revoke", !.body = NoBody])
      BY <1>0, <2>1, ConstantRecords DEF RequestOK, Request
    <3> QED BY <3>1, ConstantRecords
  <2>5. Outdate(c, q, matters) /\ matters \in BOOLEAN
    BY <1>3 DEF UpdateUser
  <2> HIDE DEF q, matters
  <2>6. req' \in [Clients -> Request] /\ \A d \in Clients : RequestOK(req'[d])
    BY <2>4, <2>5, OutdateOK
  <2> QED BY <1>0, <1>3, <2>3, <2>6, NoteRaceOK DEF UpdateUser
<1>4. CASE FindUser(c)
  <2> DEFINE q == [r EXCEPT !.pc = "delete", !.stale = FALSE]
  <2>1. req' = [req EXCEPT ![c] = q] \/ Done(c)
    BY <1>0, <1>4 DEF FindUser
  <2>2. RequestOK(q)
    BY <1>0, <1>4 DEF FindUser, RequestOK, Request
  <2> QED BY <1>0, <1>4, <1>a, <2>1, <2>2, ConstantRecords DEF FindUser, Done
<1>5. CASE DeleteUser(c)
  <2>1. r.target \in Accounts /\ Outdate(c, Idle, TRUE)
    BY <1>0, <1>5 DEF DeleteUser
  <2>2. req' \in [Clients -> Request] /\ \A d \in Clients : RequestOK(req'[d])
    BY <2>1, ConstantRecords, OutdateOK
  <2> QED BY <1>0, <1>5, <2>1, <2>2, NoteRaceOK DEF DeleteUser
<1>6. CASE CreateUser(c)
  <2>1. r.target \in Accounts /\ r.body.role \in Roles
    BY <1>0, <1>6 DEF CreateUser, RequestOK
  <2>2. NewRow(r.body.role, FALSE) \in Row
    BY <2>1, ConstantRecords
  <2>3. users' \in [Accounts -> Row] /\ exists' \subseteq Accounts
    BY <1>0, <1>6, <2>1, <2>2 DEF CreateUser
  <2> QED BY <1>0, <1>6, <1>a, <2>3, ConstantRecords DEF CreateUser, Done
<1>7. CASE UnlockUser(c)
  <2> DEFINE n == [users[r.target] EXCEPT !.fails = 0, !.lock = "none"]
  <2>1. r.target \in Accounts /\ 0 \in 0 .. MaxFails - 1
    BY <1>0, <1>7, AccountsAssumption DEF UnlockUser
  <2>2. n \in Row
    BY <1>0, <2>1 DEF Row
  <2>3. users' = users \/ users' = [users EXCEPT ![r.target] = n]
    BY <1>0, <1>7, <2>1 DEF UnlockUser
  <2> HIDE DEF n
  <2>4. users' \in [Accounts -> Row]
    BY <1>0, <2>1, <2>2, <2>3
  <2> QED BY <1>0, <1>7, <1>a, <2>4, ConstantRecords DEF UnlockUser, Done
<1> QED BY <1>1, <1>2, <1>3, <1>4, <1>5, <1>6, <1>7 DEF AdminStep

(* Steps of nobody's request: time, and the life of the server.            *)
Elsewhere ==
  \/ \E c \in Clients : Unresolved(c) \/ SessionExpires(c)
  \/ \E u \in Accounts : LockLapses(u)
  \/ Start \/ Crash

LEMMA ElsewhereType ==
  ASSUME TypeInv, Elsewhere
  PROVE  TypeInv'
<1>0. /\ users \in [Accounts -> Row] /\ session \in [Clients -> Session]
      /\ exists \subseteq Accounts /\ retired \subseteq Accounts
      /\ req \in [Clients -> Request]
      /\ events \in 0 .. MaxEvents /\ MaxEvents \in Nat
  BY AccountsAssumption DEF TypeInv, TypeOK
<1>1. Happens => events' \in 0 .. MaxEvents
  BY <1>0 DEF Happens
<1>2. ASSUME NEW c \in Clients, Unresolved(c) PROVE TypeInv'
  <2>1. session' \in [Clients -> Session]
    BY <1>0, <1>2, ConstantRecords DEF Unresolved
  <2> QED BY <1>2, <2>1 DEF Unresolved, TypeInv, TypeOK
<1>3. ASSUME NEW c \in Clients, SessionExpires(c) PROVE TypeInv'
  <2>1. session' \in [Clients -> Session]
    BY <1>0, <1>3 DEF SessionExpires, Session
  <2> QED BY <1>1, <1>3, <2>1 DEF SessionExpires, TypeInv, TypeOK
<1>4. ASSUME NEW u \in Accounts, LockLapses(u) PROVE TypeInv'
  <2>1. users' \in [Accounts -> Row]
    BY <1>0, <1>4 DEF LockLapses, Row
  <2> QED BY <1>1, <1>4, <2>1 DEF LockLapses, TypeInv, TypeOK
<1>5. CASE Start
  <2>1. session' \in [Clients -> Session]
    BY <1>0, <1>5, ConstantRecords DEF Start
  <2>2. NewRow("admin", TRUE) \in Row
    BY ConstantRecords, AccountsAssumption
  <2>3. users' \in [Accounts -> Row] /\ exists' \subseteq Accounts
    BY <1>0, <1>5, <2>2 DEF Start
  <2> QED BY <1>5, <2>1, <2>3 DEF Start, TypeInv, TypeOK
<1>6. CASE Crash
  <2>1. req' \in [Clients -> Request] /\ \A c \in Clients : RequestOK(req'[c])
    BY <1>6, ConstantRecords DEF Crash
  <2>2. up' \in BOOLEAN /\ unrevoked' \subseteq Accounts
    BY <1>6 DEF Crash, TypeInv, TypeOK
  <2> QED BY <1>1, <1>6, <2>1, <2>2 DEF Crash, TypeInv, TypeOK
<1> QED BY <1>2, <1>3, <1>4, <1>5, <1>6 DEF Elsewhere

LEMMA NextCases ==
  ASSUME Next
  PROVE  \/ Elsewhere
         \/ \E c \in Clients : Arrival(c) \/ AuthStep(c) \/ AdminStep(c)
BY DEF Next, Elsewhere

LEMMA TypeInit == ASSUME Init PROVE TypeInv
<1>1. /\ NewRow("admin", FALSE) \in Row /\ NoSession \in Session
      /\ RequestOK(Idle) /\ Idle \in Request
      /\ Founders \subseteq Accounts /\ MaxRequests \in Nat /\ MaxEvents \in Nat
  BY ConstantRecords, AccountsAssumption
<1>2. exists \subseteq Accounts
  BY <1>1 DEF Init
<1>3. \A u \in exists : [NoSession EXCEPT !.user = u] \in Session
  BY <1>1, <1>2 DEF Session
<1>4. session \in [Clients -> Session]
  BY <1>1, <1>3 DEF Init
<1>5. users \in [Accounts -> Row] /\ req \in [Clients -> Request]
  BY <1>1 DEF Init
<1>6. /\ up \in BOOLEAN /\ retired \subseteq Accounts
      /\ requests \in 0 .. MaxRequests /\ events \in 0 .. MaxEvents
      /\ raced \in BOOLEAN /\ unrevoked \subseteq Accounts
  <2>1. /\ up = FALSE /\ retired = {} /\ requests = 0 /\ events = 0
        /\ raced = FALSE /\ unrevoked = {}
    BY DEF Init
  <2>2. requests \in 0 .. MaxRequests /\ events \in 0 .. MaxEvents
    BY <1>1, <2>1
  <2>3. up \in BOOLEAN /\ raced \in BOOLEAN
    BY <2>1
  <2>4. retired \subseteq Accounts /\ unrevoked \subseteq Accounts
    BY <2>1
  <2> QED BY <2>2, <2>3, <2>4
<1>7. \A c \in Clients : RequestOK(req[c])
  BY <1>1 DEF Init
<1> QED BY <1>2, <1>4, <1>5, <1>6, <1>7 DEF TypeInv, TypeOK

LEMMA TypeStep ==
  ASSUME TypeInv, [Next]_vars
  PROVE  TypeInv'
<1>1. CASE Next
  BY <1>1, NextCases, ElsewhereType, ArrivalType, AuthStepType, AdminStepType
<1>2. CASE UNCHANGED vars
  BY <1>2 DEF TypeInv, TypeOK, vars
<1> QED BY <1>1, <1>2

(* The tables, the cookies and the requests under way keep their types,    *)
(* whatever is asked of the program (store.py, api/).                      *)
THEOREM TypeCorrect == Spec => []TypeOK
<1>1. TypeInv => TypeOK
  BY DEF TypeInv
<1> QED BY <1>1, TypeInit, TypeStep, PTL DEF Spec
-----------------------------------------------------------------------------
(* The last administrator.  What a request has found out about the table   *)
(* still holds when it acts on it, unless it was put out of date.          *)

AdminsOf(ex, us) == {u \in ex : us[u].role = "admin" /\ ~us[u].disabled}

Checked(r, ex, us) ==
  ~r.stale =>
    /\ r.pc \in {"count", "update", "delete"} => r.target \in ex
    /\ r.pc = "update" /\ (\/ Demotes(us[r.target], r.body)
                           \/ Disables(us[r.target], r.body))
         => AdminsOf(ex, us) \ {r.target} # {}
    /\ r.pc = "delete" /\ AdminsOf(ex, us) # {}
         => AdminsOf(ex, us) \ {r.target} # {}

AdminInv ==
  /\ \A c \in Clients : Checked(req[c], exists, users)
  /\ ~up => \A c \in Clients : req[c].pc = "idle"
  /\ up \/ exists # {} => AdminsOf(exists, users) # {} \/ raced

(* No account leaves the table or changes its role or flag.                *)
Mild(ex, us, ex2, us2) ==
  /\ ex \subseteq ex2
  /\ \A u \in ex : us2[u].role = us[u].role /\ us2[u].disabled = us[u].disabled

LEMMA AdminsStay ==
  ASSUME NEW ex, NEW us, NEW ex2, NEW us2, Mild(ex, us, ex2, us2)
  PROVE  AdminsOf(ex, us) = AdminsOf(ex2, us2) \cap ex
BY DEF Mild, AdminsOf

LEMMA CheckedStays ==
  ASSUME NEW ex, NEW us, NEW ex2, NEW us2, Mild(ex, us, ex2, us2),
         NEW r, Checked(r, ex, us)
  PROVE  Checked(r, ex2, us2)
<1> SUFFICES ASSUME ~r.stale
             PROVE  Checked(r, ex2, us2)
  BY DEF Checked
<1> DEFINE A == AdminsOf(ex, us)
           B == AdminsOf(ex2, us2)
<1>1. A = B \cap ex /\ ex \subseteq ex2
  BY AdminsStay DEF Mild
<1> HIDE DEF A, B
<1>2. r.pc \in {"count", "update", "delete"} => r.target \in ex /\ r.target \in ex2
  BY <1>1 DEF Checked
<1>3. ASSUME r.pc = "update", Demotes(us2[r.target], r.body) \/ Disables(us2[r.target], r.body)
      PROVE  B \ {r.target} # {}
  <2>1. us2[r.target].role = us[r.target].role
    BY <1>2, <1>3 DEF Mild
  <2>2. A \ {r.target} # {}
    BY <1>3, <2>1 DEF Checked, Demotes, Disables, A
  <2> QED BY <1>1, <2>2
<1>4. ASSUME r.pc = "delete", B # {}
      PROVE  B \ {r.target} # {}
  <2>1. A # {} => A \ {r.target} # {}
    BY <1>4 DEF Checked, A
  <2>2. r.target \in ex
    BY <1>2, <1>4
  <2> QED BY <1>1, <1>4, <2>1, <2>2
<1> QED BY <1>2, <1>3, <1>4 DEF Checked, B

LEMMA CheckedElse ==
  ASSUME NEW r, NEW ex, NEW us,
         r.stale \/ r.pc \notin {"count", "update", "delete"}
  PROVE  Checked(r, ex, us)
BY DEF Checked

(* A step that is mild on the table and touches at most the request of c.  *)
LEMMA MildStep ==
  ASSUME AdminInv, NEW c \in Clients, up, up' = up, raced' = raced,
         Mild(exists, users, exists', users'),
         \A d \in Clients \ {c} : req'[d] = req[d],
         Checked(req'[c], exists', users')
  PROVE  AdminInv'
<1>1. ASSUME NEW d \in Clients \ {c} PROVE Checked(req'[d], exists', users')
  <2>1. Checked(req[d], exists, users)
    BY DEF AdminInv
  <2>2. Checked(req[d], exists', users')
    BY <2>1, CheckedStays
  <2> QED BY <2>2
<1>2. AdminsOf(exists, users) \subseteq AdminsOf(exists', users')
  BY AdminsStay
<1>3. \A d \in Clients : Checked(req'[d], exists', users')
  BY <1>1
<1> QED BY <1>2, <1>3 DEF AdminInv

LEMMA SameTable ==
  ASSUME UNCHANGED <<exists, users>>
  PROVE  Mild(exists, users, exists', users')
BY DEF Mild

(* A row that keeps role and flag.                                         *)
LEMMA SameRank ==
  ASSUME TypeInv, exists' = exists, NEW t \in Accounts, NEW row,
         row.role = users[t].role, row.disabled = users[t].disabled,
         users' = [users EXCEPT ![t] = row]
  PROVE  Mild(exists, users, exists', users')
BY DEF Mild, TypeInv, TypeOK

LEMMA AdminArrival ==
  ASSUME TypeInv, AdminInv, NEW c \in Clients, Arrival(c)
  PROVE  AdminInv'
<1>1. ASSUME NEW r, r.pc \notin {"count", "update", "delete"}, Arrives(c, r)
      PROVE  AdminInv'
  <2>1. Checked(req'[c], exists', users')
    BY <1>1, CheckedElse DEF Arrives, TypeInv, TypeOK
  <2>2. \A d \in Clients \ {c} : req'[d] = req[d]
    BY <1>1 DEF Arrives, TypeInv, TypeOK
  <2>3. up /\ up' = up /\ raced' = raced /\ UNCHANGED <<exists, users>>
    BY <1>1 DEF Arrives
  <2> QED BY <2>1, <2>2, <2>3, MildStep, SameTable
<1>2. ASSUME NEW op, NEW u PROVE Verifying(op, u).pc = "auth"
  BY DEF Verifying, Idle
<1>3. ASSUME NEW op, NEW pc, NEW t, NEW body
      PROVE  /\ [Idle EXCEPT !.op = op, !.pc = pc, !.target = t].pc = pc
             /\ [Idle EXCEPT !.op = op, !.pc = pc, !.target = t, !.body = body].pc = pc
  BY DEF Idle
<1>4. ASSUME NEW u, Login(c, u) PROVE AdminInv'
  BY <1>1, <1>2, <1>4 DEF Login
<1>5. ASSUME NEW op, NEW pc \in {"current", "logout"}, OwnRequest(c, op, pc)
      PROVE  AdminInv'
  <2> DEFINE r == [Idle EXCEPT !.op = op, !.pc = pc, !.target = session[c].user]
  <2>1. r.pc = pc /\ Arrives(c, r)
    BY <1>3, <1>5 DEF OwnRequest
  <2> HIDE DEF r
  <2> QED BY <1>1, <2>1
<1>6. ASSUME NEW op, NEW pc \in {"get", "find", "create", "unlock"}, NEW u, NEW body,
             AdminRequest(c, op, pc, u, body)
      PROVE  AdminInv'
  <2> DEFINE r == [Idle EXCEPT !.op = op, !.pc = pc, !.target = u, !.body = body]
  <2>1. r.pc = pc /\ Arrives(c, r)
    BY <1>3, <1>6 DEF AdminRequest
  <2> HIDE DEF r
  <2> QED BY <1>1, <2>1
<1> QED BY <1>4, <1>5, <1>6 DEF Arrival

LEMMA AdminAuthStep ==
  ASSUME TypeInv, AdminInv, NEW c \in Clients, AuthStep(c)
  PROVE  AdminInv'
<1> DEFINE r == req[c]
<1>0. /\ RequestOK(r) /\ r \in Request
      /\ users \in [Accounts -> Row] /\ req \in [Clients -> Request]
      /\ r.pc # "idle" => r.target \in Accounts
  BY DEF TypeInv, TypeOK, RequestOK
<1>1. r.pc # "idle" /\ up /\ UNCHANGED <<up, raced, exists>>
  BY DEF AuthStep, CurrentPassword, Authenticated, SetPassword, Revoke, CreateSession,
         Logout, AdminInv
<1> SUFFICES /\ Mild(exists, users, exists', users')
             /\ \E q : /\ q.pc \notin {"count", "update", "delete"}
                       /\ req' = [req EXCEPT ![c] = q]
  BY <1>0, <1>1, MildStep, CheckedElse
<1>a. Done(c) => \E q : /\ q.pc \notin {"count", "update", "delete"}
                        /\ req' = [req EXCEPT ![c] = q]
  BY DEF Done, Idle
<1>b. ASSUME NEW pc \in {"session", "setpw"}, Goes(c, pc)
      PROVE  \E q : /\ q.pc \notin {"count", "update", "delete"}
                    /\ req' = [req EXCEPT ![c] = q]
  <2> DEFINE q == [r EXCEPT !.pc = pc]
  <2>1. q.pc = pc /\ req' = [req EXCEPT ![c] = q]
    BY <1>0, <1>b DEF Goes, Request
  <2> QED BY <2>1
<1>2. CASE CurrentPassword(c)
  <2>1. Verifying("password", r.target).pc = "auth"
    BY DEF Verifying, Idle
  <2>2. users' = users
    BY <1>2 DEF CurrentPassword
  <2> QED BY <1>1, <1>2, <1>a, <2>1, <2>2, SameTable DEF CurrentPassword
<1>3. CASE Authenticated(c)
  <2> DEFINE ok == Succeeded(users[r.target], r.seen)
             no == Failed(users[r.target], r.seen)
  <2>1. /\ r.target \in Accounts /\ users[r.target] \in Row
    BY <1>0, <1>3 DEF Authenticated
  <2>2. /\ ok.role = users[r.target].role /\ ok.disabled = users[r.target].disabled
        /\ no.role = users[r.target].role /\ no.disabled = users[r.target].disabled
    BY <2>1 DEF Row, Succeeded, Failed
  <2>3. \/ users' = [users EXCEPT ![r.target] = ok]
        \/ users' = [users EXCEPT ![r.target] = no]
        \/ users' = users
    BY <1>0, <1>3, <2>1 DEF Authenticated
  <2> HIDE DEF ok, no
  <2>4. Mild(exists, users, exists', users')
    BY <1>1, <2>1, <2>2, <2>3, SameRank, SameTable
  <2>5. Done(c) \/ Goes(c, "session") \/ Goes(c, "setpw")
    BY <1>3 DEF Authenticated
  <2> QED BY <1>a, <1>b, <2>4, <2>5
<1>4. CASE SetPassword(c)
  <2> DEFINE g == users[r.target].gen + 1
             n == [users[r.target] EXCEPT !.gen = g, !.must = FALSE, !.fails = 0,
                                          !.lock = "none"]
             q == [r EXCEPT !.pc = "revoke", !.seen.gen = g]
  <2>1. r.target \in Accounts /\ users[r.target] \in Row
    BY <1>0, <1>4 DEF SetPassword
  <2>2. n.role = users[r.target].role /\ n.disabled = users[r.target].disabled
    BY <2>1 DEF Row
  <2>3. users' = users \/ users' = [users EXCEPT ![r.target] = n]
    BY <1>0, <1>4, <2>1 DEF SetPassword
  <2>4. q.pc = "revoke" /\ req' = [req EXCEPT ![c] = q]
    BY <1>0, <1>4 DEF SetPassword, Request
  <2> HIDE DEF n, q
  <2>5. Mild(exists, users, exists', users')
    BY <1>1, <2>1, <2>2, <2>3, SameRank, SameTable
  <2> QED BY <2>4, <2>5
<1>5. CASE Revoke(c)
  BY <1>1, <1>5, <1>a, <1>b, SameTable DEF Revoke
<1>6. CASE CreateSession(c)
  BY <1>1, <1>6, <1>a, SameTable DEF CreateSession
<1>7. CASE Logout(c)
  BY <1>1, <1>7, <1>a, SameTable DEF Logout
<1> QED BY <1>2, <1>3, <1>4, <1>5, <1>6, <1>7 DEF AuthStep
LEMMA AdminAdminStep ==
  ASSUME TypeInv, AdminInv, NEW c \in Clients, AdminStep(c)
  PROVE  AdminInv'
<1> DEFINE r == req[c]
           A == AdminsOf(exists, users)
<1>0. /\ RequestOK(r) /\ r \in Request /\ r.body \in Body /\ r.stale \in BOOLEAN
      /\ users \in [Accounts -> Row] /\ req \in [Clients -> Request]
      /\ r.pc # "idle" => r.target \in Accounts
      /\ Checked(r, exists, users) /\ A = ActiveAdmins
  BY DEF TypeInv, TypeOK, RequestOK, Request, AdminInv, AdminsOf, ActiveAdmins
<1>1. r.pc # "idle" /\ up /\ up' = up /\ (A # {} \/ raced)
  BY DEF AdminStep, GetUser, CountAdmins, UpdateUser, FindUser, DeleteUser,
         CreateUser, UnlockUser, AdminInv
<1>a. ASSUME Mild(exists, users, exists', users'), raced' = raced,
             NEW q, Checked(q, exists', users'), req' = [req EXCEPT ![c] = q]
      PROVE  AdminInv'
  BY <1>0, <1>1, <1>a, MildStep
<1>b. ASSUME Mild(exists, users, exists', users'), raced' = raced, Done(c)
      PROVE  AdminInv'
  <2>1. Checked(Idle, exists', users')
    BY CheckedElse DEF Idle
  <2> QED BY <1>a, <1>b, <2>1 DEF Done
(* A write after which every request that was checked is out of date.      *)
<1>c. ASSUME NEW q, q.pc \in {"idle", "revoke"}, req'[c] = q,
             \A d \in Clients \ {c} :
                req'[d] = [req[d] EXCEPT !.stale = req[d].stale \/ req[d].pc # "idle"]
      PROVE  \A d \in Clients : Checked(req'[d], exists', users')
  <2> SUFFICES ASSUME NEW d \in Clients
               PROVE  Checked(req'[d], exists', users')
    OBVIOUS
  <2>1. CASE d = c
    BY <1>c, <2>1, CheckedElse
  <2>2. CASE d # c
    <3>1. req[d] \in Request
      BY <1>0
    <3>2. /\ req'[d].pc = req[d].pc
          /\ req[d].pc # "idle" => req'[d].stale
      BY <1>c, <2>2, <3>1 DEF Request
    <3> QED BY <3>2, CheckedElse
  <2> QED BY <2>1, <2>2
<1>d. ASSUME ~r.stale => (A # {} => AdminsOf(exists', users') # {}), NoteRace(c)
      PROVE  AdminsOf(exists', users') # {} \/ raced'
  <2>1. ActiveAdmins' = AdminsOf(exists', users')
    BY DEF ActiveAdmins, AdminsOf
  <2> HIDE DEF A
  <2>2. raced' = (raced \/ (r.stale /\ A # {} /\ AdminsOf(exists', users') = {}))
    BY <1>0, <1>d, <2>1 DEF NoteRace
  <2> QED BY <1>1, <1>d, <2>2
<1>1a. CASE GetUser(c)
  <2> DEFINE n == Bit(Demotes(users[r.target], r.body))
                    + Bit(Disables(users[r.target], r.body))
             q == [r EXCEPT !.pc = IF n = 0 THEN "update" ELSE "count",
                            !.checks = n, !.stale = FALSE]
  <2>1. UNCHANGED <<exists, users, raced>>
    BY <1>1a DEF GetUser
  <2>2. CASE r.target \in exists
    <3>1. req' = [req EXCEPT ![c] = q]
      BY <1>0, <1>1a, <2>2 DEF GetUser
    <3>2. n = 0 => ~Demotes(users[r.target], r.body) /\ ~Disables(users[r.target], r.body)
      BY DEF Bit
    <3> HIDE DEF n
    <3>3. /\ q.target = r.target /\ q.body = r.body
          /\ q.pc \in {"update", "count"} /\ (q.pc = "update" => n = 0)
      BY <1>0 DEF Request
    <3> HIDE DEF q
    <3>4. Checked(q, exists, users)
      BY <2>2, <3>2, <3>3 DEF Checked
    <3> QED BY <1>a, <2>1, <3>1, <3>4, SameTable
  <2>3. CASE r.target \notin exists
    BY <1>1a, <1>b, <2>1, <2>3, SameTable DEF GetUser
  <2> QED BY <2>2, <2>3
<1>2. CASE CountAdmins(c)
  <2> DEFINE q == [r EXCEPT !.checks = r.checks - 1,
                            !.pc = IF r.checks = 1 THEN "update" ELSE "count"]
  <2>1. UNCHANGED <<exists, users, raced>>
    BY <1>2 DEF CountAdmins
  <2>2. CASE A \ {r.target} # {}
    <3>1. req' = [req EXCEPT ![c] = q]
      BY <1>0, <1>2, <2>2 DEF CountAdmins
    <3>2. /\ q.target = r.target /\ q.body = r.body /\ q.stale = r.stale
          /\ q.pc \in {"update", "count"}
      BY <1>0 DEF Request
    <3>3. r.pc = "count"
      BY <1>2 DEF CountAdmins
    <3> HIDE DEF q
    <3>4. Checked(q, exists, users)
      BY <1>0, <2>2, <3>2, <3>3 DEF Checked
    <3> QED BY <1>a, <2>1, <3>1, <3>4, SameTable
  <2>3. CASE A \ {r.target} = {}
    BY <1>0, <1>2, <1>b, <2>1, <2>3, SameTable DEF CountAdmins
  <2> QED BY <2>2, <2>3
<1>3. CASE UpdateUser(c)
  <2> DEFINE row == users[r.target]
             new == Updated(row, r.body)
             q == IF EndsSessions(r.body) THEN [r EXCEPT !.pc = "revoke", !.body = NoBody]
                  ELSE Idle
             matters == r.body.role # "keep" \/ r.body.disabled # "keep"
  <2>1. /\ r.pc = "update" /\ r.target \in Accounts /\ row \in Row
        /\ exists' = exists /\ NoteRace(c) /\ Outdate(c, q, matters)
        /\ users' = IF r.target \in exists THEN [users EXCEPT ![r.target] = new] ELSE users
    BY <1>0, <1>3 DEF UpdateUser
  <2>2. q.pc \in {"idle", "revoke"}
    BY <1>0 DEF Idle, Request
  <2> HIDE DEF q
  <2>3. CASE matters
    <3>1. \A d \in Clients : Checked(req'[d], exists', users')
      <4>1. req'[c] = q
        BY <2>1 DEF Outdate
      <4>2. \A d \in Clients \ {c} :
               req'[d] = [req[d] EXCEPT !.stale = req[d].stale \/ req[d].pc # "idle"]
        BY <2>1, <2>3 DEF Outdate
      <4> QED BY <1>c, <2>2, <4>1, <4>2
    <3>2. ASSUME ~r.stale, NEW a \in A
          PROVE  AdminsOf(exists', users') # {}
      <4>1. CASE r.target \notin exists
        BY <1>0, <2>1, <4>1 DEF AdminsOf
      <4>2. CASE r.target \in exists /\ \E b \in A : b # r.target
        <5>1. PICK b \in A : b # r.target
          BY <4>2
        <5>2. b \in exists' /\ users'[b] = users[b]
          BY <1>0, <2>1, <4>2, <5>1 DEF AdminsOf
        <5> QED BY <5>2 DEF AdminsOf
      <4>3. CASE r.target \in exists /\ A \subseteq {r.target}
        <5>1. a = r.target /\ row.role = "admin" /\ ~row.disabled
          BY <3>2, <4>3 DEF AdminsOf
        <5>2. ~Demotes(row, r.body) /\ ~Disables(row, r.body)
          BY <1>0, <2>1, <3>2, <4>3 DEF Checked
        <5>3. /\ r.body.role \in {"keep", "admin"} /\ r.body.disabled # "yes"
          BY <5>1, <5>2 DEF Demotes, Disables
        <5>4. new.role = "admin" /\ ~new.disabled
          BY <5>1, <5>3 DEF Updated
        <5>5. users'[a] = new /\ a \in exists'
          BY <1>0, <2>1, <4>3, <5>1
        <5> QED BY <5>4, <5>5 DEF AdminsOf
      <4> QED BY <4>1, <4>2, <4>3
    <3>3. AdminsOf(exists', users') # {} \/ raced'
      BY <1>d, <2>1, <3>2
    <3> QED BY <1>1, <3>1, <3>3 DEF AdminInv
  <2>4. CASE ~matters
    <3>1. new.role = row.role /\ new.disabled = row.disabled
      BY <2>4 DEF Updated
    <3> HIDE DEF new
    <3>2. Mild(exists, users, exists', users')
      BY <2>1, <3>1, SameRank, SameTable
    <3>3. ASSUME NEW d \in Clients PROVE Checked(req'[d], exists', users')
      <4>1. CASE d = c
        BY <2>1, <2>2, <4>1, CheckedElse DEF Outdate
      <4>2. CASE d # c
        <5>1. req[d] \in Request /\ Checked(req[d], exists', users')
          BY <1>0, <3>2, CheckedStays DEF AdminInv
        <5>2. /\ req'[d].pc = req[d].pc /\ req'[d].target = req[d].target
              /\ req'[d].body = req[d].body
              /\ req[d].stale => req'[d].stale
          BY <2>1, <4>2, <5>1 DEF Outdate, Request
        <5> QED BY <5>1, <5>2 DEF Checked
      <4> QED BY <4>1, <4>2
    <3>4. AdminsOf(exists', users') # {} \/ raced'
      <4>1. A # {} => AdminsOf(exists', users') # {}
        BY <3>2, AdminsStay
      <4> QED BY <1>d, <2>1, <4>1
    <3> QED BY <1>1, <3>3, <3>4 DEF AdminInv
  <2> QED BY <2>3, <2>4
<1>4. CASE FindUser(c)
  <2> DEFINE q == [r EXCEPT !.pc = "delete", !.stale = FALSE]
             u == r.target
  <2>1. UNCHANGED <<exists, users, raced>>
    BY <1>4 DEF FindUser
  <2>2. CASE u \in exists /\ (users[u].role = "admin" => \E a, b \in ActiveAdmins : a # b)
    <3>1. req' = [req EXCEPT ![c] = q]
      BY <1>0, <1>4, <2>2 DEF FindUser
    <3>2. q.target = u /\ q.pc = "delete"
      BY <1>0 DEF Request
    <3>3. A # {} => A \ {u} # {}
      <4>1. CASE users[u].role = "admin"
        BY <1>0, <2>2, <4>1
      <4>2. CASE users[u].role # "admin"
        BY <4>2 DEF AdminsOf
      <4> QED BY <4>1, <4>2
    <3> HIDE DEF q
    <3>4. Checked(q, exists, users)
      BY <2>2, <3>2, <3>3 DEF Checked
    <3> QED BY <1>a, <2>1, <3>1, <3>4, SameTable
  <2>3. CASE ~(u \in exists
                 /\ (users[u].role = "admin" => \E a, b \in ActiveAdmins : a # b))
    BY <1>4, <1>b, <2>1, <2>3, SameTable DEF FindUser
  <2> QED BY <2>2, <2>3
<1>5. CASE DeleteUser(c)
  <2>1. /\ r.pc = "delete" /\ exists' = exists \ {r.target} /\ users' = users
        /\ Outdate(c, Idle, TRUE) /\ NoteRace(c)
    BY <1>5 DEF DeleteUser
  <2>2. \A d \in Clients : Checked(req'[d], exists', users')
    <3>1. Idle.pc = "idle"
      BY DEF Idle
    <3>2. req'[c] = Idle
      BY <2>1 DEF Outdate
    <3>3. \A d \in Clients \ {c} :
             req'[d] = [req[d] EXCEPT !.stale = req[d].stale \/ req[d].pc # "idle"]
      BY <2>1 DEF Outdate
    <3> QED BY <1>c, <3>1, <3>2, <3>3
  <2>3. AdminsOf(exists', users') = A \ {r.target}
    BY <2>1 DEF AdminsOf
  <2>4. ~r.stale => (A # {} => A \ {r.target} # {})
    BY <1>0, <2>1 DEF Checked
  <2>5. AdminsOf(exists', users') # {} \/ raced'
    BY <1>d, <2>1, <2>3, <2>4
  <2> QED BY <1>1, <2>2, <2>5 DEF AdminInv
<1>6. CASE CreateUser(c)
  <2>1. Mild(exists, users, exists', users')
    <3>1. exists \subseteq Accounts
      BY DEF TypeInv, TypeOK
    <3> QED BY <1>0, <1>6, <3>1 DEF CreateUser, Mild
  <2> QED BY <1>6, <1>b, <2>1 DEF CreateUser
<1>7. CASE UnlockUser(c)
  <2> DEFINE n == [users[r.target] EXCEPT !.fails = 0, !.lock = "none"]
  <2>1. r.target \in Accounts /\ users[r.target] \in Row
    BY <1>0, <1>7 DEF UnlockUser
  <2>2. n.role = users[r.target].role /\ n.disabled = users[r.target].disabled
    BY <2>1 DEF Row
  <2>3. exists' = exists /\ (users' = users \/ users' = [users EXCEPT ![r.target] = n])
    BY <1>0, <1>7, <2>1 DEF UnlockUser
  <2> HIDE DEF n
  <2>4. Mild(exists, users, exists', users')
    BY <2>1, <2>2, <2>3, SameRank, SameTable
  <2> QED BY <1>7, <1>b, <2>4 DEF UnlockUser
<1> QED BY <1>1a, <1>2, <1>3, <1>4, <1>5, <1>6, <1>7 DEF AdminStep
LEMMA AdminElsewhere ==
  ASSUME TypeInv, AdminInv, Elsewhere
  PROVE  AdminInv'
<1>0. /\ users \in [Accounts -> Row] /\ exists \subseteq Accounts
      /\ \A c \in Clients : Checked(req[c], exists, users)
  BY DEF TypeInv, TypeOK, AdminInv
<1>1. ASSUME UNCHANGED <<up, raced, req>>, Mild(exists, users, exists', users'),
             exists' = exists
      PROVE  AdminInv'
  <2>1. \A c \in Clients : Checked(req[c], exists', users')
    BY <1>0, <1>1, CheckedStays
  <2>2. AdminsOf(exists, users) \subseteq AdminsOf(exists', users')
    BY <1>1, AdminsStay
  <2> QED BY <1>1, <2>1, <2>2 DEF AdminInv
<1>2. ASSUME NEW c \in Clients, Unresolved(c) \/ SessionExpires(c) PROVE AdminInv'
  BY <1>1, <1>2, SameTable DEF Unresolved, SessionExpires
<1>3. ASSUME NEW u \in Accounts, LockLapses(u) PROVE AdminInv'
  <2> DEFINE row == [users[u] EXCEPT !.lock = "lapsed"]
  <2>1. users' = [users EXCEPT ![u] = row]
    BY <1>0, <1>3 DEF LockLapses
  <2>2. row.role = users[u].role /\ row.disabled = users[u].disabled
    BY <1>0 DEF Row
  <2> HIDE DEF row
  <2>3. Mild(exists, users, exists', users')
    BY <1>3, <2>1, <2>2, SameRank DEF LockLapses
  <2> QED BY <1>1, <1>3, <2>3 DEF LockLapses
<1>4. CASE Start
  <2>1. \A c \in Clients : req'[c].pc = "idle"
    BY <1>4 DEF Start, AdminInv
  <2>2. \A c \in Clients : Checked(req'[c], exists', users')
    BY <2>1, CheckedElse
  <2>3. CASE exists = {}
    <3>1. PICK u \in Accounts : /\ exists' = {u}
                                /\ users' = [users EXCEPT ![u] = NewRow("admin", TRUE)]
      BY <1>4, <2>3 DEF Start
    <3>2. users'[u].role = "admin" /\ ~users'[u].disabled
      BY <1>0, <3>1 DEF NewRow
    <3>3. u \in AdminsOf(exists', users')
      BY <3>1, <3>2 DEF AdminsOf
    <3> QED BY <2>1, <2>2, <3>3 DEF AdminInv
  <2>4. CASE exists # {}
    BY <1>4, <2>1, <2>2, <2>4 DEF Start, AdminInv
  <2> QED BY <2>3, <2>4
<1>5. CASE Crash
  <2>1. \A c \in Clients : req'[c].pc = "idle"
    BY <1>5 DEF Crash, Idle
  <2>2. \A c \in Clients : Checked(req'[c], exists', users')
    BY <2>1, CheckedElse
  <2> QED BY <1>5, <2>1, <2>2 DEF Crash, AdminInv
<1> QED BY <1>2, <1>3, <1>4, <1>5 DEF Elsewhere

LEMMA AdminInit == ASSUME Init PROVE AdminInv
<1>1. \A c \in Clients : req[c].pc = "idle"
  BY DEF Init, Idle
<1>2. \A c \in Clients : Checked(req[c], exists, users)
  BY <1>1, CheckedElse
<1>3. exists \subseteq Accounts
  BY AccountsAssumption DEF Init
<1>4. \A u \in exists : u \in AdminsOf(exists, users)
  BY <1>3 DEF Init, AdminsOf, NewRow
<1>5. up = FALSE
  BY DEF Init
<1> QED BY <1>1, <1>2, <1>4, <1>5 DEF AdminInv

LEMMA AdminStepInv ==
  ASSUME TypeInv, AdminInv, [Next]_vars
  PROVE  AdminInv'
<1>1. CASE Next
  BY <1>1, NextCases, AdminElsewhere, AdminArrival, AdminAuthStep, AdminAdminStep
<1>2. CASE UNCHANGED vars
  BY <1>2 DEF AdminInv, vars
<1> QED BY <1>1, <1>2

(* However many requests demote, disable or delete administrators, and     *)
(* wherever they wait, a running server keeps one -- unless one of them    *)
(* acted on a check that another had put out of date                       *)
(* (routes_users.py:108, store.py:438).                                    *)
THEOREM AdministratorRemains == Spec => []AdminLostOnlyByRace
<1>1. AdminInv => AdminLostOnlyByRace
  BY DEF AdminInv, AdminLostOnlyByRace, AdminsOf, ActiveAdmins
<1> QED BY <1>1, TypeInit, TypeStep, AdminInit, AdminStepInv, PTL DEF Spec
-----------------------------------------------------------------------------
(* Sessions.  A cookie, and a request that proves a password, belong to an *)
(* account that exists or has been deleted.                                *)

Revoking(rq, u) == \E d \in Clients : rq[d].pc = "revoke" /\ rq[d].target = u

Excused(s, un, rq) == s.late \/ s.user \in un \/ Revoking(rq, s.user)

Proven(s, ex, us, un, rq) ==
  s.user \in ex /\ s.gen # us[s.user].gen => Excused(s, un, rq)

Owned(r, known) ==
  r.pc \in {"current", "auth", "setpw", "session"} \/ r.op = "password"
    => r.target \in known

Known == exists \cup retired

SessionInv ==
  /\ \A c \in Clients : /\ Proven(session[c], exists, users, unrevoked, req)
                        /\ session[c].user \in Known \cup {Nobody}
                        /\ Owned(req[c], Known)

LEMMA SessionsAreProven ==
  SessionsRevoked <=> \A c \in Clients : Proven(session[c], exists, users, unrevoked, req)
BY DEF SessionsRevoked, Proven, Excused, Revoking

(* Nobody stops revoking, and no generation changes.                       *)
LEMMA ProvenStays ==
  ASSUME NEW s, NEW ex, NEW us, NEW un, NEW rq, NEW ex2, NEW us2, NEW un2, NEW rq2,
         Proven(s, ex, us, un, rq),
         s.user \in ex2 => s.user \in ex,
         s.user \in ex2 => us2[s.user].gen = us[s.user].gen,
         un \subseteq un2,
         \A d \in Clients : rq[d].pc = "revoke" =>
            rq2[d].pc = "revoke" /\ rq2[d].target = rq[d].target
  PROVE  Proven(s, ex2, us2, un2, rq2)
BY DEF Proven, Excused, Revoking

(* A step that leaves the sessions alone.                                  *)
LEMMA SessionFrame ==
  ASSUME TypeInv, SessionInv, session' = session,
         \A c \in Clients : session[c].user \in exists' =>
            /\ session[c].user \in exists
            /\ users'[session[c].user].gen = users[session[c].user].gen,
         unrevoked \subseteq unrevoked', Known \subseteq Known',
         \A d \in Clients : req[d].pc = "revoke" =>
            req'[d].pc = "revoke" /\ req'[d].target = req[d].target,
         \A d \in Clients : Owned(req'[d], Known')
  PROVE  SessionInv'
<1>1. ASSUME NEW c \in Clients
      PROVE  Proven(session'[c], exists', users', unrevoked', req')
  <2>1. Proven(session[c], exists, users, unrevoked, req)
    BY DEF SessionInv
  <2>2. Proven(session[c], exists', users', unrevoked', req')
    BY <2>1, ProvenStays
  <2> QED BY <2>2
<1>2. \A c \in Clients : session'[c].user \in Known' \cup {Nobody}
  BY DEF SessionInv
<1> QED BY <1>1, <1>2 DEF SessionInv

(* A request of c that was not revoking goes on to q.                      *)
LEMMA OneRequest ==
  ASSUME TypeInv, SessionInv, NEW c \in Clients, req[c].pc # "revoke",
         NEW q, req' = [req EXCEPT ![c] = q], Owned(q, Known'),
         Known \subseteq Known'
  PROVE  /\ \A d \in Clients : req[d].pc = "revoke" =>
              req'[d].pc = "revoke" /\ req'[d].target = req[d].target
         /\ \A d \in Clients : Owned(req'[d], Known')
<1>1. \A d \in Clients : req'[d] = IF d = c THEN q ELSE req[d]
  BY DEF TypeInv, TypeOK
<1>2. \A d \in Clients : Owned(req[d], Known')
  BY DEF SessionInv, Owned
<1> QED BY <1>1, <1>2

LEMMA SessionArrival ==
  ASSUME TypeInv, SessionInv, NEW c \in Clients, Arrival(c)
  PROVE  SessionInv'
<1>0. TypeOK /\ exists \subseteq Accounts /\ Nobody \notin Accounts
  BY AccountsAssumption DEF TypeInv, TypeOK
<1>1. ASSUME NEW r, Owned(r, Known), Arrives(c, r) PROVE SessionInv'
  <2>1. req' = [req EXCEPT ![c] = r] /\ req[c].pc # "revoke" /\ Known' = Known
    BY <1>1 DEF Arrives, Known
  <2>2. UNCHANGED <<session, exists, users, unrevoked>>
    BY <1>1 DEF Arrives
  <2>3. Owned(r, Known')
    BY <1>1, <2>1
  <2> QED BY <2>1, <2>2, <2>3, OneRequest, SessionFrame
<1>2. ASSUME NEW u \in Accounts, Login(c, u) PROVE SessionInv'
  <2>1. Owned(Verifying("login", u), Known)
    BY <1>2 DEF Login, Authenticable, Verifying, Owned, Known, Idle
  <2> QED BY <1>1, <1>2, <2>1 DEF Login
<1>3. ASSUME NEW op \in {"password", "logout"}, NEW pc \in {"current", "logout"},
             OwnRequest(c, op, pc)
      PROVE  SessionInv'
  <2> DEFINE r == [Idle EXCEPT !.op = op, !.pc = pc, !.target = session[c].user]
  <2>1. r.target \in Known /\ Arrives(c, r)
    BY <1>3 DEF OwnRequest, Resolves, Known, Idle
  <2> HIDE DEF r
  <2> QED BY <1>1, <2>1 DEF Owned
<1>4. ASSUME NEW op \in {"update", "delete", "create", "unlock"},
             NEW pc \in {"get", "find", "create", "unlock"},
             NEW u, NEW body, AdminRequest(c, op, pc, u, body)
      PROVE  SessionInv'
  <2> DEFINE r == [Idle EXCEPT !.op = op, !.pc = pc, !.target = u, !.body = body]
  <2>1. r.op = op /\ r.pc = pc /\ Arrives(c, r)
    BY <1>4 DEF AdminRequest, Idle
  <2> HIDE DEF r
  <2> QED BY <1>1, <1>4, <2>1 DEF Owned
<1> QED BY <1>2, <1>3, <1>4 DEF Arrival

LEMMA SessionAuthStep ==
  ASSUME TypeInv, SessionInv, NEW c \in Clients, AuthStep(c)
  PROVE  SessionInv'
<1> DEFINE r == req[c]
<1>0. /\ RequestOK(r) /\ r \in Request /\ Owned(r, Known)
      /\ users \in [Accounts -> Row] /\ req \in [Clients -> Request]
      /\ session \in [Clients -> Session]
      /\ r.pc # "idle" => r.target \in Accounts
      /\ exists \subseteq Accounts /\ Nobody \notin Accounts
  BY AccountsAssumption DEF TypeInv, TypeOK, RequestOK, SessionInv
<1>1. /\ Known' = Known /\ exists' = exists
      /\ UNCHANGED <<unrevoked, retired>>
  BY DEF AuthStep, CurrentPassword, Authenticated, SetPassword, Revoke, CreateSession,
         Logout, Known
<1>a. Owned(Idle, Known)
  BY DEF Owned, Idle
<1>b. ASSUME NEW pc \in {"revoke", "session", "setpw"}, r.pc \in {"auth", "setpw"} \/ r.op = "password"
      PROVE  Owned([r EXCEPT !.pc = pc], Known)
  BY <1>0, <1>b DEF Owned, Request
<1>2. CASE CurrentPassword(c)
  <2>1. Authenticable(r.target) => Owned(Verifying("password", r.target), Known)
    BY DEF Authenticable, Verifying, Owned, Known, Idle
  <2>2. \E q : req' = [req EXCEPT ![c] = q] /\ Owned(q, Known)
    BY <1>2, <1>a, <2>1 DEF CurrentPassword, Done
  <2>3. r.pc # "revoke" /\ UNCHANGED <<session, users>>
    BY <1>2 DEF CurrentPassword
  <2> QED BY <1>1, <2>2, <2>3, OneRequest, SessionFrame
<1>3. CASE Authenticated(c)
  <2> DEFINE ok == Succeeded(users[r.target], r.seen)
             no == Failed(users[r.target], r.seen)
  <2>1. /\ r.pc = "auth" /\ r.target \in Accounts /\ users[r.target] \in Row
        /\ session' = session
    BY <1>0, <1>3 DEF Authenticated
  <2>2. ok.gen = users[r.target].gen /\ no.gen = users[r.target].gen
    BY <2>1 DEF Row, Succeeded, Failed
  <2>3. \/ users' = [users EXCEPT ![r.target] = ok]
        \/ users' = [users EXCEPT ![r.target] = no]
        \/ users' = users
    BY <1>0, <1>3, <2>1 DEF Authenticated
  <2> HIDE DEF ok, no
  <2>4. \A u \in Accounts : users'[u].gen = users[u].gen
    BY <1>0, <2>1, <2>2, <2>3
  <2>5. \E q : req' = [req EXCEPT ![c] = q] /\ Owned(q, Known)
    <3>1. ASSUME NEW pc \in {"session", "setpw"}, Goes(c, pc)
          PROVE  \E q : req' = [req EXCEPT ![c] = q] /\ Owned(q, Known)
      BY <1>0, <1>b, <2>1, <3>1 DEF Goes
    <3>2. Done(c) \/ Goes(c, "session") \/ Goes(c, "setpw")
      BY <1>3 DEF Authenticated
    <3> QED BY <1>a, <3>1, <3>2 DEF Done
  <2> QED BY <1>0, <1>1, <2>1, <2>4, <2>5, OneRequest, SessionFrame
<1>4. CASE SetPassword(c)
  <2> DEFINE g == users[r.target].gen + 1
             n == [users[r.target] EXCEPT !.gen = g, !.must = FALSE, !.fails = 0,
                                          !.lock = "none"]
             q == [r EXCEPT !.pc = "revoke", !.seen.gen = g]
  <2>1. r.pc = "setpw" /\ r.target \in Accounts /\ session' = session
    BY <1>0, <1>4 DEF SetPassword
  <2>2. users' = users \/ users' = [users EXCEPT ![r.target] = n]
    BY <1>0, <1>4, <2>1 DEF SetPassword
  <2>3. /\ q.pc = "revoke" /\ q.op = r.op /\ q.target = r.target
        /\ req' = [req EXCEPT ![c] = q]
    BY <1>0, <1>4 DEF SetPassword, Request
  <2> HIDE DEF n, q
  <2>4. /\ \A d \in Clients : req[d].pc = "revoke" =>
              req'[d].pc = "revoke" /\ req'[d].target = req[d].target
        /\ \A d \in Clients : Owned(req'[d], Known')
    <3>1. Owned(q, Known)
      BY <1>0, <2>1, <2>3 DEF Owned
    <3> QED BY <1>1, <2>1, <2>3, <3>1, OneRequest
  <2>5. Revoking(req', r.target)
    BY <1>0, <2>3 DEF Revoking
  <2>6. ASSUME NEW d \in Clients
        PROVE  Proven(session'[d], exists', users', unrevoked', req')
    <3>1. CASE session[d].user = r.target
      BY <2>1, <2>5, <3>1 DEF Proven, Excused
    <3>2. CASE session[d].user # r.target
      <4>1. session[d].user \in exists => users'[session[d].user] = users[session[d].user]
        BY <1>0, <2>2, <3>2
      <4>2. Proven(session[d], exists, users, unrevoked, req)
        BY DEF SessionInv
      <4>3. Proven(session[d], exists', users', unrevoked', req')
        BY <1>1, <2>4, <4>1, <4>2, ProvenStays
      <4> QED BY <2>1, <4>3
    <3> QED BY <3>1, <3>2
  <2> QED BY <1>1, <2>1, <2>4, <2>6 DEF SessionInv
<1>5. CASE Revoke(c)
  <2>1. /\ r.pc = "revoke" /\ UNCHANGED <<users>>
        /\ session' = [d \in Clients |-> IF session[d].user = r.target THEN NoSession
                                         ELSE session[d]]
    BY <1>5 DEF Revoke
  <2>2. \E q : req' = [req EXCEPT ![c] = q] /\ Owned(q, Known)
    BY <1>0, <1>5, <1>a, <1>b DEF Revoke, Goes, Done
  <2>3. \A d \in Clients : Owned(req'[d], Known')
    BY <1>0, <1>1, <2>2 DEF SessionInv
  <2>4. NoSession.user = Nobody
    BY DEF NoSession
  <2>5. ASSUME NEW d \in Clients
        PROVE  /\ Proven(session'[d], exists', users', unrevoked', req')
               /\ session'[d].user \in Known' \cup {Nobody}
    <3>1. CASE session[d].user = r.target
      BY <1>0, <1>1, <2>1, <2>4, <3>1 DEF Proven
    <3>2. CASE session[d].user # r.target
      <4>1. session'[d] = session[d]
        BY <2>1, <3>2
      <4>2. Proven(session[d], exists, users, unrevoked, req)
        BY DEF SessionInv
      <4>3. Revoking(req, session[d].user) => Revoking(req', session[d].user)
        BY <1>0, <2>2, <3>2 DEF Revoking
      <4>4. Proven(session[d], exists', users', unrevoked', req')
        BY <1>1, <2>1, <4>2, <4>3 DEF Proven, Excused
      <4> QED BY <1>1, <4>1, <4>4 DEF SessionInv
    <3> QED BY <3>1, <3>2
  <2> QED BY <2>3, <2>5 DEF SessionInv
<1>6. CASE CreateSession(c) \/ Logout(c)
  <2> DEFINE s == [user |-> r.target, gen |-> r.seen.gen, expired |-> FALSE,
                   late |-> r.seen.gen # users[r.target].gen]
  <2>1. /\ r.pc \in {"session", "logout"} /\ UNCHANGED <<users>> /\ Done(c)
        /\ \/ r.pc = "session" /\ session' = [session EXCEPT ![c] = s]
           \/ session' = [session EXCEPT ![c] = NoSession]
    BY <1>6 DEF CreateSession, Logout
  <2>2. /\ \A d \in Clients : req[d].pc = "revoke" =>
              req'[d].pc = "revoke" /\ req'[d].target = req[d].target
        /\ \A d \in Clients : Owned(req'[d], Known')
    <3>1. req' = [req EXCEPT ![c] = Idle]
      BY <2>1 DEF Done
    <3> QED BY <1>1, <1>a, <2>1, <3>1, OneRequest
  <2>3. ASSUME NEW d \in Clients \ {c}
        PROVE  /\ Proven(session'[d], exists', users', unrevoked', req')
               /\ session'[d].user \in Known' \cup {Nobody}
    <3>1. session'[d] = session[d]
      BY <1>0, <2>1
    <3>2. Proven(session[d], exists, users, unrevoked, req)
      BY DEF SessionInv
    <3>3. Proven(session[d], exists', users', unrevoked', req')
      BY <1>1, <2>1, <2>2, <3>2, ProvenStays
    <3> QED BY <1>1, <3>1, <3>3 DEF SessionInv
  <2>4. /\ Proven(session'[c], exists', users', unrevoked', req')
        /\ session'[c].user \in Known' \cup {Nobody}
    <3>1. CASE session'[c] = NoSession
      BY <1>0, <1>1, <3>1 DEF Proven, NoSession
    <3>2. CASE r.pc = "session" /\ session'[c] = s
      <4>1. s.user = r.target /\ s.gen = r.seen.gen /\ s.late = (s.gen # users[s.user].gen)
        OBVIOUS
      <4> HIDE DEF s
      <4>2. Proven(s, exists', users', unrevoked', req')
        BY <2>1, <4>1 DEF Proven, Excused
      <4>3. r.target \in Known
        BY <1>0, <3>2 DEF Owned
      <4> QED BY <1>1, <3>2, <4>1, <4>2, <4>3
    <3> QED BY <1>0, <2>1, <3>1, <3>2
  <2> QED BY <2>2, <2>3, <2>4 DEF SessionInv
<1> QED BY <1>2, <1>3, <1>4, <1>5, <1>6 DEF AuthStep

LEMMA SessionAdminStep ==
  ASSUME TypeInv, SessionInv, NEW c \in Clients, AdminStep(c)
  PROVE  SessionInv'
<1> DEFINE r == req[c]
<1>0. /\ RequestOK(r) /\ r \in Request /\ Owned(r, Known)
      /\ users \in [Accounts -> Row] /\ req \in [Clients -> Request]
      /\ session \in [Clients -> Session]
      /\ r.pc # "idle" => r.target \in Accounts
      /\ exists \subseteq Accounts /\ Nobody \notin Accounts
  BY AccountsAssumption DEF TypeInv, TypeOK, RequestOK, SessionInv
<1>1. /\ r.pc # "revoke" /\ session' = session
      /\ unrevoked' = unrevoked
  BY DEF AdminStep, GetUser, CountAdmins, UpdateUser, FindUser, DeleteUser, CreateUser,
         UnlockUser
<1>a. Owned(Idle, Known)
  BY DEF Owned, Idle
<1>b. ASSUME NEW q, q.op = r.op, q.target = r.target,
             q.pc \notin {"current", "auth", "setpw", "session"}
      PROVE  Owned(q, Known)
  BY <1>0, <1>b DEF Owned
(* The generations stay as they are, and so does who has an account.       *)
<1>c. ASSUME NEW q, req' = [req EXCEPT ![c] = q], Owned(q, Known),
             UNCHANGED <<exists, retired>>,
             \A u \in exists : users'[u].gen = users[u].gen
      PROVE  SessionInv'
  <2>1. Known' = Known
    BY <1>c DEF Known
  <2> QED BY <1>1, <1>c, <2>1, OneRequest, SessionFrame
<1>2. CASE GetUser(c)
  <2>1. ASSUME NEW pc \in {"update", "count"}, NEW n,
               req' = [req EXCEPT ![c] = [r EXCEPT !.pc = pc, !.checks = n, !.stale = FALSE]]
        PROVE  SessionInv'
    <3> DEFINE q == [r EXCEPT !.pc = pc, !.checks = n, !.stale = FALSE]
    <3>1. q.op = r.op /\ q.target = r.target /\ q.pc = pc
      BY <1>0 DEF Request
    <3> HIDE DEF q
    <3>2. req' = [req EXCEPT ![c] = q]
      BY <2>1 DEF q
    <3> QED BY <1>2, <1>b, <1>c, <3>1, <3>2 DEF GetUser
  <2>2. CASE Done(c)
    BY <1>2, <1>a, <1>c, <2>2 DEF GetUser, Done
  <2>3. CASE r.target \in exists
    <3> DEFINE n == Bit(Demotes(users[r.target], r.body)) + Bit(Disables(users[r.target], r.body))
    <3>1. req' = [req EXCEPT ![c].pc = IF n = 0 THEN "update" ELSE "count",
                             ![c].checks = n, ![c].stale = FALSE]
      BY <1>2, <2>3 DEF GetUser
    <3> HIDE DEF n
    <3>2. CASE n = 0
      BY <1>0, <2>1, <3>1, <3>2
    <3>3. CASE n # 0
      BY <1>0, <2>1, <3>1, <3>3
    <3> QED BY <3>2, <3>3
  <2> QED BY <1>2, <2>2, <2>3 DEF GetUser
<1>3. CASE CountAdmins(c)
  <2>1. ASSUME NEW pc \in {"update", "count"},
               req' = [req EXCEPT ![c] = [r EXCEPT !.checks = r.checks - 1, !.pc = pc]]
        PROVE  SessionInv'
    <3> DEFINE q == [r EXCEPT !.checks = r.checks - 1, !.pc = pc]
    <3>1. q.op = r.op /\ q.target = r.target /\ q.pc = pc
      BY <1>0 DEF Request
    <3> HIDE DEF q
    <3>2. req' = [req EXCEPT ![c] = q]
      BY <2>1 DEF q
    <3> QED BY <1>3, <1>b, <1>c, <3>1, <3>2 DEF CountAdmins
  <2>2. CASE Done(c)
    BY <1>3, <1>a, <1>c, <2>2 DEF CountAdmins, Done
  <2>3. CASE ~Done(c)
    <3>1. req' = [req EXCEPT ![c].checks = r.checks - 1,
                             ![c].pc = IF r.checks = 1 THEN "update" ELSE "count"]
      BY <1>3, <2>3 DEF CountAdmins
    <3>2. CASE r.checks = 1
      BY <1>0, <2>1, <3>1, <3>2
    <3>3. CASE r.checks # 1
      BY <1>0, <2>1, <3>1, <3>3
    <3> QED BY <3>2, <3>3
  <2> QED BY <2>2, <2>3
<1>4. CASE FindUser(c)
  <2> DEFINE q == [r EXCEPT !.pc = "delete", !.stale = FALSE]
  <2>1. q.op = r.op /\ q.target = r.target /\ q.pc = "delete"
    BY <1>0 DEF Request
  <2>2. req' = [req EXCEPT ![c] = q] \/ Done(c)
    BY <1>0, <1>4 DEF FindUser
  <2> HIDE DEF q
  <2> QED BY <1>4, <1>a, <1>b, <1>c, <2>1, <2>2 DEF FindUser, Done
<1>5. CASE UnlockUser(c)
  <2> DEFINE n == [users[r.target] EXCEPT !.fails = 0, !.lock = "none"]
  <2>1. users' = users \/ users' = [users EXCEPT ![r.target] = n]
    BY <1>0, <1>5 DEF UnlockUser
  <2>2. n.gen = users[r.target].gen
    BY <1>0, <1>5 DEF UnlockUser, Row
  <2> HIDE DEF n
  <2>3. \A u \in exists : users'[u].gen = users[u].gen
    BY <1>0, <2>1, <2>2
  <2> QED BY <1>5, <1>a, <1>c, <2>3 DEF UnlockUser, Done
<1>6. CASE CreateUser(c)
  <2>1. Done(c) /\ r.target \in Accounts /\ retired' = retired
    BY <1>0, <1>6 DEF CreateUser
  <2>2. CASE UNCHANGED <<exists, users>>
    BY <1>a, <1>c, <2>1, <2>2 DEF Done
  <2>3. CASE ~UNCHANGED <<exists, users>>
    <3> DEFINE n == NewRow(r.body.role, FALSE)
    <3>1. /\ r.target \notin Known /\ exists' = exists \cup {r.target}
          /\ users' = [users EXCEPT ![r.target] = n]
      BY <1>6, <2>3 DEF CreateUser, Known
    <3> HIDE DEF n
    <3>2. Known' = Known \cup {r.target}
      BY <2>1, <3>1 DEF Known
    <3>3. \A d \in Clients : session[d].user # r.target
      BY <1>0, <2>1, <3>1 DEF SessionInv
    <3>4. \A d \in Clients : session[d].user \in exists' =>
             /\ session[d].user \in exists
             /\ users'[session[d].user].gen = users[session[d].user].gen
      BY <1>0, <3>1, <3>3
    <3>5. Owned(Idle, Known')
      BY DEF Owned, Idle
    <3> QED BY <1>1, <2>1, <3>2, <3>4, <3>5, OneRequest, SessionFrame DEF Done
  <2> QED BY <2>2, <2>3
(* Outdate: the other requests only note that their check is out of date.  *)
<1>d. ASSUME NEW q, NEW m, Outdate(c, q, m), Owned(q, Known), Known \subseteq Known'
      PROVE  /\ \A d \in Clients : req[d].pc = "revoke" =>
                   req'[d].pc = "revoke" /\ req'[d].target = req[d].target
             /\ \A d \in Clients : Owned(req'[d], Known')
             /\ req'[c] = q
  <2>1. /\ req'[c] = q
        /\ \A d \in Clients \ {c} :
              /\ req'[d].pc = req[d].pc /\ req'[d].op = req[d].op
              /\ req'[d].target = req[d].target
    BY <1>0, <1>d DEF Outdate, Request
  <2>2. \A d \in Clients : Owned(req[d], Known)
    BY DEF SessionInv
  <2> QED BY <1>1, <1>d, <2>1, <2>2 DEF Owned
<1>7. CASE DeleteUser(c)
  <2>1. /\ exists' = exists \ {r.target} /\ retired' = retired \cup {r.target}
        /\ r.target \in Accounts /\ users' = users
    BY <1>0, <1>7 DEF DeleteUser
  <2>2. Known \subseteq Known'
    BY <2>1 DEF Known
  <2>3. Outdate(c, Idle, TRUE)
    BY <1>7 DEF DeleteUser
  <2>4. /\ \A d \in Clients : req[d].pc = "revoke" =>
              req'[d].pc = "revoke" /\ req'[d].target = req[d].target
        /\ \A d \in Clients : Owned(req'[d], Known')
    BY <1>a, <1>d, <2>2, <2>3
  <2> QED BY <1>1, <2>1, <2>2, <2>4, SessionFrame
<1>8. CASE UpdateUser(c)
  <2> DEFINE q == IF EndsSessions(r.body) THEN [r EXCEPT !.pc = "revoke", !.body = NoBody]
                  ELSE Idle
             n == Updated(users[r.target], r.body)
  <2>1. r.pc = "update" /\ r.target \in Accounts /\ UNCHANGED <<exists, retired>>
    BY <1>0, <1>8 DEF UpdateUser
  <2>2. Known' = Known
    BY <2>1 DEF Known
  <2>3. users' = users \/ users' = [users EXCEPT ![r.target] = n]
    BY <1>0, <1>8, <2>1 DEF UpdateUser
  <2>4. EndsSessions(r.body) => q.pc = "revoke" /\ q.target = r.target
    BY <1>0 DEF Request
  <2>5. ~EndsSessions(r.body) => n.gen = users[r.target].gen
    BY DEF EndsSessions, Updated
  <2>6. Owned(q, Known)
    <3>1. CASE EndsSessions(r.body)
      BY <1>0, <1>b, <2>4, <3>1 DEF Request
    <3>2. CASE ~EndsSessions(r.body)
      BY <1>a, <3>2
    <3> QED BY <3>1, <3>2
  <2>7. PICK m : Outdate(c, q, m)
    BY <1>8 DEF UpdateUser
  <2> HIDE DEF q, n
  <2>8. /\ \A d \in Clients : req[d].pc = "revoke" =>
              req'[d].pc = "revoke" /\ req'[d].target = req[d].target
        /\ \A d \in Clients : Owned(req'[d], Known')
        /\ req'[c] = q
    BY <1>d, <2>2, <2>6, <2>7
  <2>9. ASSUME NEW d \in Clients
        PROVE  Proven(session'[d], exists', users', unrevoked', req')
    <3>1. CASE session[d].user = r.target /\ EndsSessions(r.body)
      <4>1. Revoking(req', r.target)
        BY <2>4, <2>8, <3>1 DEF Revoking
      <4> QED BY <1>1, <3>1, <4>1 DEF Proven, Excused
    <3>2. CASE session[d].user # r.target \/ ~EndsSessions(r.body)
      <4>1. session[d].user \in exists =>
               users'[session[d].user].gen = users[session[d].user].gen
        BY <1>0, <2>1, <2>3, <2>5, <3>2
      <4>2. Proven(session[d], exists, users, unrevoked, req)
        BY DEF SessionInv
      <4>3. Proven(session[d], exists', users', unrevoked', req')
        BY <1>1, <2>1, <2>8, <4>1, <4>2, ProvenStays
      <4> QED BY <1>1, <4>3
    <3> QED BY <3>1, <3>2
  <2> QED BY <1>1, <2>2, <2>8, <2>9 DEF SessionInv
<1> QED BY <1>2, <1>3, <1>4, <1>5, <1>6, <1>7, <1>8 DEF AdminStep

LEMMA SessionElsewhere ==
  ASSUME TypeInv, SessionInv, Elsewhere
  PROVE  SessionInv'
<1>0. /\ users \in [Accounts -> Row] /\ req \in [Clients -> Request]
      /\ session \in [Clients -> Session]
      /\ exists \subseteq Accounts /\ Nobody \notin Accounts
      /\ \A c \in Clients : req[c].pc # "idle" => req[c].target \in Accounts
  BY AccountsAssumption DEF TypeInv, TypeOK, RequestOK
<1>a. Owned(Idle, Known')
  BY DEF Owned, Idle
<1>b. NoSession.user = Nobody
  BY DEF NoSession
(* Sessions are kept, expire or are dropped; nothing else changes.         *)
<1>c. ASSUME \A c \in Clients :
                \/ session'[c] = NoSession
                \/ session'[c].user = session[c].user /\ session'[c].gen = session[c].gen
                   /\ session'[c].late = session[c].late,
             UNCHANGED <<exists, retired, users, unrevoked, req>>
      PROVE  SessionInv'
  <2>1. ASSUME NEW c \in Clients
        PROVE  Proven(session'[c], exists', users', unrevoked', req')
    BY <1>0, <1>b, <1>c DEF SessionInv, Proven, Excused
  <2>2. Known' = Known
    BY <1>c DEF Known
  <2> QED BY <1>b, <1>c, <2>1, <2>2 DEF SessionInv
<1>1. ASSUME NEW c \in Clients, Unresolved(c) PROVE SessionInv'
  BY <1>0, <1>1, <1>c DEF Unresolved
<1>2. ASSUME NEW c \in Clients, SessionExpires(c) PROVE SessionInv'
  <2> DEFINE s == [session[c] EXCEPT !.expired = TRUE]
  <2>1. s.user = session[c].user /\ s.gen = session[c].gen /\ s.late = session[c].late
    BY <1>0 DEF Session
  <2>2. session' = [session EXCEPT ![c] = s]
    BY <1>0, <1>2 DEF SessionExpires
  <2> HIDE DEF s
  <2>3. \A d \in Clients : /\ session'[d].user = session[d].user
                           /\ session'[d].gen = session[d].gen
                           /\ session'[d].late = session[d].late
    BY <1>0, <2>1, <2>2
  <2> QED BY <1>2, <1>c, <2>3 DEF SessionExpires
<1>3. ASSUME NEW u \in Accounts, LockLapses(u) PROVE SessionInv'
  <2> DEFINE n == [users[u] EXCEPT !.lock = "lapsed"]
  <2>1. n.gen = users[u].gen
    BY <1>0 DEF Row
  <2>2. users' = [users EXCEPT ![u] = n] /\ UNCHANGED <<exists, retired, session, req, unrevoked>>
    BY <1>0, <1>3 DEF LockLapses
  <2> HIDE DEF n
  <2>3. \A a \in exists : users'[a].gen = users[a].gen
    BY <1>0, <2>1, <2>2
  <2>4. Known' = Known
    BY <2>2 DEF Known
  <2>5. \A d \in Clients : Owned(req'[d], Known')
    BY <2>2, <2>4 DEF SessionInv
  <2> QED BY <2>2, <2>3, <2>4, <2>5, SessionFrame
<1>4. CASE Start
  <2>1. /\ UNCHANGED <<retired, req, unrevoked>>
        /\ session' = [c \in Clients |-> IF session[c].expired THEN NoSession
                                         ELSE session[c]]
    BY <1>4 DEF Start
  <2>2. CASE UNCHANGED <<exists, users>>
    <3>1. \A c \in Clients : session'[c] = NoSession \/ session'[c] = session[c]
      BY <2>1
    <3> QED BY <1>c, <2>1, <2>2, <3>1
  <2>3. CASE ~UNCHANGED <<exists, users>>
    <3>1. PICK u \in Accounts \ retired :
             /\ exists' = {u} /\ exists = {}
             /\ users' = [users EXCEPT ![u] = NewRow("admin", TRUE)]
      BY <1>4, <2>3 DEF Start
    <3>2. Known' = Known \cup {u} /\ u \notin Known
      BY <2>1, <3>1 DEF Known
    <3>3. ASSUME NEW c \in Clients
          PROVE  /\ session'[c].user \in Known \cup {Nobody} /\ session'[c].user # u
                 /\ Owned(req'[c], Known')
      BY <1>0, <1>b, <2>1, <3>1, <3>2 DEF SessionInv, Owned
    <3>4. ASSUME NEW c \in Clients
          PROVE  Proven(session'[c], exists', users', unrevoked', req')
      BY <3>1, <3>3 DEF Proven
    <3> QED BY <3>2, <3>3, <3>4 DEF SessionInv
  <2> QED BY <2>2, <2>3
<1>5. CASE Crash
  <2>1. /\ UNCHANGED <<exists, retired, users, session>> /\ Known' = Known
        /\ unrevoked' = unrevoked \cup
                    {u \in Accounts : \E c \in Clients :
                                         req[c].pc = "revoke" /\ req[c].target = u}
        /\ req' = [c \in Clients |-> Idle]
    BY <1>5 DEF Crash, Known
  <2>2. ASSUME NEW u PROVE u \in unrevoked \/ Revoking(req, u) => u \in unrevoked'
    BY <1>0, <2>1 DEF Revoking
  <2>3. ASSUME NEW c \in Clients
        PROVE  /\ Proven(session'[c], exists', users', unrevoked', req')
               /\ Owned(req'[c], Known')
    BY <1>a, <2>1, <2>2 DEF SessionInv, Proven, Excused
  <2> QED BY <2>1, <2>3 DEF SessionInv
<1> QED BY <1>1, <1>2, <1>3, <1>4, <1>5 DEF Elsewhere

LEMMA SessionInit == ASSUME Init PROVE SessionInv
<1>1. /\ \A u \in Accounts : users[u].gen = 0
      /\ exists \subseteq Accounts /\ Nobody \notin Accounts
  BY AccountsAssumption DEF Init, NewRow
<1>2. ASSUME NEW c \in Clients
      PROVE  session[c].gen = 0 /\ session[c].user \in exists \cup {Nobody}
  <2>1. session[c] \in {NoSession} \cup {[NoSession EXCEPT !.user = u] : u \in exists}
    BY DEF Init
  <2> QED BY <2>1 DEF NoSession
<1>3. \A c \in Clients : Owned(req[c], Known)
  BY DEF Init, Idle, Owned
<1> QED BY <1>1, <1>2, <1>3 DEF SessionInv, Proven, Known

LEMMA SessionStepInv ==
  ASSUME TypeInv, SessionInv, [Next]_vars
  PROVE  SessionInv'
<1>1. CASE Next
  BY <1>1, NextCases, SessionElsewhere, SessionArrival, SessionAuthStep, SessionAdminStep
<1>2. CASE UNCHANGED vars
  BY <1>2 DEF SessionInv, Known, vars
<1> QED BY <1>1, <1>2

(* Whoever holds a session of an account proved its present password: the  *)
(* change of a password, by the owner or by an administrator, leaves no    *)
(* older session behind once its revocation is over (routes_auth.py:167,   *)
(* routes_users.py:131).  The exceptions are the three of the property.    *)
THEOREM SessionsEnd == Spec => []SessionsRevoked
<1>1. SessionInv => SessionsRevoked
  BY SessionsAreProven DEF SessionInv
<1> QED BY <1>1, TypeInit, TypeStep, SessionInit, SessionStepInv, PTL DEF Spec
-----------------------------------------------------------------------------
(* Locks.  What a step may do to a locked account.                         *)

Lifts(u, c) ==
  /\ req[c].target = u
  /\ \/ req[c].pc \in {"unlock", "update", "setpw"}
     \/ req[c].pc = "auth" /\ req[c].seen.lock = "lapsed"

LockKept ==
  \A u \in exists : users[u].lock = "locked" /\ users'[u].lock = "none" =>
     \E c \in Clients : Lifts(u, c)

(* A write to one row keeps the locks of the others.                       *)
LEMMA RowLock ==
  ASSUME TypeInv, NEW u \in Accounts, NEW n,
         users' = users \/ users' = [users EXCEPT ![u] = n],
         u \in exists /\ users[u].lock = "locked" /\ n.lock = "none" =>
            \E c \in Clients : Lifts(u, c)
  PROVE  LockKept
<1>1. users \in [Accounts -> Row] /\ exists \subseteq Accounts
  BY DEF TypeInv, TypeOK
<1>2. ASSUME NEW a \in exists, users[a].lock = "locked", users'[a].lock = "none"
      PROVE  \E c \in Clients : Lifts(a, c)
  BY <1>1, <1>2
<1> QED BY <1>2 DEF LockKept

LEMMA LockStep ==
  ASSUME TypeInv, [Next]_vars
  PROVE  LockKept
<1>0. /\ users \in [Accounts -> Row] /\ req \in [Clients -> Request]
      /\ exists \subseteq Accounts
      /\ \A c \in Clients : req[c].pc # "idle" => req[c].target \in Accounts
  BY DEF TypeInv, TypeOK, RequestOK
<1>a. ASSUME users' = users PROVE LockKept
  BY <1>a DEF LockKept
<1>1. ASSUME NEW c \in Clients, Arrival(c) \/ Unresolved(c) \/ SessionExpires(c)
      PROVE  LockKept
  BY <1>1, <1>a DEF Arrival, Login, OwnRequest, AdminRequest, Arrives, Unresolved,
                    SessionExpires
<1>2. ASSUME NEW c \in Clients, AuthStep(c) PROVE LockKept
  <2> DEFINE r == req[c]
             ok == Succeeded(users[r.target], r.seen)
             no == Failed(users[r.target], r.seen)
  <2>1. CASE Authenticated(c)
    <3>1. /\ r.pc = "auth" /\ r.target \in Accounts /\ users[r.target] \in Row
          /\ r \in Request
      BY <1>0, <2>1 DEF Authenticated
    <3>2. \/ users' = users
          \/ users' = [users EXCEPT ![r.target] = ok]
          \/ users' = [users EXCEPT ![r.target] = no]
      BY <1>0, <2>1, <3>1 DEF Authenticated
    <3>3. r.seen.lock \in {"none", "lapsed"}
      BY <3>1 DEF Request, Seen
    <3>4. users[r.target].lock = "locked" /\ ok.lock = "none" => Lifts(r.target, c)
      BY <3>1, <3>3 DEF Succeeded, Row, Lifts
    <3>5. users[r.target].lock = "locked" => no.lock # "none"
      BY <3>1 DEF Failed, Row
    <3> HIDE DEF ok, no
    <3> QED BY <3>1, <3>2, <3>4, <3>5, RowLock
  <2>2. CASE SetPassword(c)
    <3> DEFINE n == [users[r.target] EXCEPT !.gen = users[r.target].gen + 1,
                                            !.must = FALSE, !.fails = 0, !.lock = "none"]
    <3>1. /\ r.pc = "setpw" /\ r.target \in Accounts
          /\ users' = users \/ users' = [users EXCEPT ![r.target] = n]
      BY <1>0, <2>2 DEF SetPassword
    <3> HIDE DEF n
    <3> QED BY <3>1, RowLock DEF Lifts
  <2>3. CASE CurrentPassword(c) \/ Revoke(c) \/ CreateSession(c) \/ Logout(c)
    BY <1>a, <2>3 DEF CurrentPassword, Revoke, CreateSession, Logout
  <2> QED BY <1>2, <2>1, <2>2, <2>3 DEF AuthStep
<1>3. ASSUME NEW c \in Clients, AdminStep(c) PROVE LockKept
  <2> DEFINE r == req[c]
  <2>1. CASE UpdateUser(c)
    <3> DEFINE n == Updated(users[r.target], r.body)
    <3>1. /\ r.pc = "update" /\ r.target \in Accounts
          /\ users' = users \/ users' = [users EXCEPT ![r.target] = n]
      BY <1>0, <2>1 DEF UpdateUser
    <3> HIDE DEF n
    <3> QED BY <3>1, RowLock DEF Lifts
  <2>2. CASE UnlockUser(c)
    <3> DEFINE n == [users[r.target] EXCEPT !.fails = 0, !.lock = "none"]
    <3>1. /\ r.pc = "unlock" /\ r.target \in Accounts
          /\ users' = users \/ users' = [users EXCEPT ![r.target] = n]
      BY <1>0, <2>2 DEF UnlockUser
    <3> HIDE DEF n
    <3> QED BY <3>1, RowLock DEF Lifts
  <2>3. CASE CreateUser(c)
    <3> DEFINE n == NewRow(r.body.role, FALSE)
    <3>1. /\ r.target \in Accounts
          /\ \/ users' = users
             \/ r.target \notin exists /\ users' = [users EXCEPT ![r.target] = n]
      BY <1>0, <2>3 DEF CreateUser
    <3> HIDE DEF n
    <3> QED BY <1>a, <3>1, RowLock
  <2>4. CASE GetUser(c) \/ CountAdmins(c) \/ FindUser(c) \/ DeleteUser(c)
    BY <1>a, <2>4 DEF GetUser, CountAdmins, FindUser, DeleteUser
  <2> QED BY <1>3, <2>1, <2>2, <2>3, <2>4 DEF AdminStep
<1>4. ASSUME NEW u \in Accounts, LockLapses(u) PROVE LockKept
  <2> DEFINE n == [users[u] EXCEPT !.lock = "lapsed"]
  <2>1. n.lock = "lapsed" /\ users' = [users EXCEPT ![u] = n]
    BY <1>0, <1>4 DEF LockLapses, Row
  <2> HIDE DEF n
  <2> QED BY <2>1, RowLock
<1>5. CASE Start \/ Crash
  BY <1>5, <1>a DEF Start, Crash, LockKept
<1>6. CASE UNCHANGED vars
  BY <1>6, <1>a DEF vars
<1> QED BY <1>1, <1>2, <1>3, <1>4, <1>5, <1>6, NextCases DEF Elsewhere

(* A login that read its row before the failures that locked the account   *)
(* cannot lift the lock when it succeeds after them; only time, an         *)
(* administrator, a new password or a login that saw a lapsed lock does    *)
(* (store.py:491).                                                         *)
THEOREM LocksHold == Spec => LockHolds
<1>1. TypeInv /\ [Next]_vars =>
        [\A u \in exists :
            users[u].lock = "locked" /\ users'[u].lock = "none" =>
               \E c \in Clients :
                  /\ req[c].target = u
                  /\ \/ req[c].pc \in {"unlock", "update", "setpw"}
                     \/ req[c].pc = "auth" /\ req[c].seen.lock = "lapsed"]_vars
  BY LockStep DEF LockKept, Lifts
<1> QED BY <1>1, TypeInit, TypeStep, PTL DEF Spec, LockHolds
===============================================================================
