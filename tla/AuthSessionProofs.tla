------------------------- MODULE AuthSessionProofs -------------------------
(* Theorems about AuthSession for any set of requests, sessions, subjects, *)
(* authorizations and users, and any limits.                               *)
EXTENDS AuthSession, TLAPS

USE AuthAssumption

(* Every request a session or an authorization is read of has one. *)
WithAuth == {"binding", "upsert", "create", "check", "confirm", "refuse",
             "purge", "admitted", "handler"}
WithSession == {"drop", "check", "confirm", "admitted", "handler"}

Shape ==
  /\ \A s \in Session : session[s].state = "live" => session[s].auth \in Auth
  /\ \A r \in Request :
       /\ req[r].pc \in WithAuth => req[r].auth \in Auth
       /\ req[r].pc \in WithSession => req[r].sel \in Session
       /\ req[r].pc = "consume" => req[r].login \in Login /\ req[r].at \in Nat

Inv1 == TypeOK /\ Shape

(* Min2 is a natural number that neither argument exceeds.                 *)
THEOREM Min2Type == \A a, b \in Nat : Min2(a, b) \in Nat /\ Min2(a, b) <= a /\ Min2(a, b) <= b
  BY DEF Min2

(* session_expires_at gives a time.                                        *)
THEOREM ExpiresType == \A c, t \in Nat : ExpiresAt(c, t) \in Nat
  BY DEF ExpiresAt, Min2

(* The database starts well typed, with the users registered so far.       *)
THEOREM Inv1Init == Init => Inv1
<1> SUFFICES ASSUME Init PROVE Inv1  OBVIOUS
<1>1. TypeOK
  <2>1. account \in [Name -> {"absent", "disabled", "enabled"}]  BY DEF Init
  <2>2. binding \in [Subject -> Name \cup {None}]
    <3> SUFFICES ASSUME NEW u \in Subject
                 PROVE (IF \E n \in Name : Founder[n] = u
                        THEN CHOOSE n \in Name : Founder[n] = u ELSE None)
                       \in Name \cup {None}
      BY DEF Init
    <3> QED  OBVIOUS
  <2>3. session \in [Session -> SessionRow]  BY DEF Init, Blank, SessionRow
  <2>4. req \in [Request -> Req]  BY DEF Init, Idle, Req, Stage
  <2>5. row \in [Auth -> Row]  BY DEF Init, NoRow, Row
  <2> QED  BY <2>1, <2>2, <2>3, <2>4, <2>5 DEF Init, TypeOK
<1>2. Shape  BY DEF Init, Shape, Blank, Idle, WithAuth, WithSession
<1> QED  BY <1>1, <1>2 DEF Inv1

(* A request that has not begun is well typed.                             *)
THEOREM IdleType == Idle \in Req
  BY DEF Idle, Req, Stage

(* So is the record of a deleted session.                                  *)
THEOREM BlankType == Blank("gone") \in SessionRow
  BY DEF Blank, SessionRow

(* A field of a record may be set to any value of its type.                *)
THEOREM ReqFields ==
  ASSUME NEW x \in Req, NEW p \in Stage, NEW a \in Auth \cup {None},
         NEW u \in Name \cup {None}, NEW t \in Nat
  PROVE  /\ [x EXCEPT !.pc = p] \in Req
         /\ [x EXCEPT !.pc = p, !.auth = a] \in Req
         /\ [x EXCEPT !.pc = p, !.user = u] \in Req
         /\ [x EXCEPT !.pc = p, !.at = t] \in Req
         /\ [x EXCEPT !.pc = p, !.start = t] \in Req
  BY DEF Req

(* The stages that the code of sso_callback and resolve_request_session    *)
(* goes on to.                                                             *)
THEOREM StageType ==
  {"binding", "upsert", "create", "confirm", "admitted", "handler"} \subseteq Stage
  BY DEF Stage

(* The fields of an authorization may be set to values of their types.     *)
THEOREM RowFields ==
  ASSUME NEW x \in Row, NEW c \in {"active", "revoked"}, NEW t \in Nat,
         NEW u \in Name \cup {None}
  PROVE  /\ [x EXCEPT !.status = c, !.checked = t] \in Row
         /\ [x EXCEPT !.user = u] \in Row
  BY DEF Row

(* Every statement, answer and handler keeps the types.                    *)
THEOREM TypeNext == Inv1 /\ [Next]_vars => TypeOK'
<1> SUFFICES ASSUME Inv1, [Next]_vars PROVE TypeOK'  OBVIOUS
<1> USE IdleType, BlankType DEF Inv1, TypeOK, At, Finish
<1>1. CASE UNCHANGED vars  BY <1>1 DEF vars
<1>2. ASSUME NEW l \in Login, BeginLogin(l) PROVE TypeOK'
  <2>1. now + LoginTtl \in Nat  OBVIOUS
  <2>2. pending' \in [Login -> Nat \cup {None}]  BY <1>2, <2>1 DEF BeginLogin
  <2> QED  BY <1>2, <2>2 DEF BeginLogin
<1>3. ASSUME NEW r \in Request, NEW l \in Login, ReadLogin(r, l) PROVE TypeOK'
  <2> DEFINE x == [Idle EXCEPT !.pc = "consume", !.login = l, !.start = now, !.at = pending[l]]
  <2>1. pending[l] \in Nat  BY <1>3 DEF ReadLogin
  <2>2. x \in Req  BY <2>1 DEF Idle, Req, Stage
  <2>3. req' = [req EXCEPT ![r] = x]  BY <1>3 DEF ReadLogin
  <2> HIDE DEF x
  <2> QED  BY <1>3, <2>2, <2>3 DEF ReadLogin
<1>4. ASSUME NEW r \in Request, DeleteLogin(r) PROVE TypeOK'
  <2>1. [Idle EXCEPT !.pc = "exchange", !.start = req[r].start] \in Req
    <3>1. req[r].start \in Nat  BY DEF Req
    <3> QED  BY <3>1 DEF Idle, Req, Stage
  <2>2. req' \in [Request -> Req]  BY <1>4, <2>1 DEF DeleteLogin
  <2> QED  BY <1>4, <2>2 DEF DeleteLogin
<1>5. ASSUME NEW r \in Request, NEW a \in Auth, ExchangeCode(r, a) PROVE TypeOK'
  <2>0. "binding" \in Stage  BY DEF Stage
  <2>1. [req[r] EXCEPT !.pc = "binding", !.auth = a] \in Req  BY <2>0, ReqFields
  <2>2. req' = [req EXCEPT ![r] = [req[r] EXCEPT !.pc = "binding", !.auth = a]]
    BY <1>5 DEF ExchangeCode
  <2> QED  BY <1>5, <2>1, <2>2 DEF ExchangeCode
<1>6. ASSUME NEW r \in Request, FindBinding(r) PROVE TypeOK'
  <2> DEFINE u == BoundUser(req[r].auth)
  <2>1. u \in Name \cup {None}  BY <1>6 DEF FindBinding, Shape, WithAuth, BoundUser
  <2> HIDE DEF u
  <2>0. "upsert" \in Stage  BY DEF Stage
  <2>2. [req[r] EXCEPT !.pc = "upsert", !.user = u] \in Req  BY <2>0, <2>1, ReqFields
  <2>3. req' = [req EXCEPT ![r] = [req[r] EXCEPT !.pc = "upsert", !.user = u]]
    BY <1>6 DEF FindBinding, u
  <2>4. req' \in [Request -> Req]  BY <2>2, <2>3
  <2> QED  BY <1>6, <2>4 DEF FindBinding
<1>7. ASSUME NEW r \in Request, UpsertAuthorization(r) PROVE TypeOK'
  <2> DEFINE a == req[r].auth
             u == UpsertedUser(r)
  <2>1. a \in Auth  BY <1>7 DEF UpsertAuthorization, Shape, WithAuth
  <2>2. u \in Name \cup {None}
    <3>1. req[r].user \in Name \cup {None}  BY DEF Req
    <3>2. row[a].user \in Name \cup {None}  BY <2>1 DEF Row
    <3> QED  BY <3>1, <3>2 DEF UpsertedUser
  <2>3. req[r].start \in Nat  BY DEF Req
  <2> HIDE DEF u
  <2>4. [status |-> "active", checked |-> req[r].start, user |-> u] \in Row
    BY <2>2, <2>3 DEF Row
  <2>5. row' \in [Auth -> Row]  BY <1>7, <2>1, <2>4 DEF UpsertAuthorization, u
  <2>6. [req[r] EXCEPT !.pc = "create"] \in Req  BY StageType, ReqFields
  <2>7. req' = [req EXCEPT ![r] = [req[r] EXCEPT !.pc = "create"]]
    BY <1>7 DEF UpsertAuthorization, Continue
  <2>8. req' \in [Request -> Req]  BY <2>6, <2>7
  <2> QED  BY <1>7, <2>5, <2>8 DEF UpsertAuthorization
<1>8. ASSUME NEW r \in Request, NEW s \in Session, CreateSession(r, s) PROVE TypeOK'
  <2> DEFINE e == ExpiresAt(req[r].start, req[r].start)
             x == [state |-> "live", auth |-> req[r].auth, user |-> req[r].user,
                   reg |-> IF req[r].user = None THEN "pending" ELSE "active",
                   created |-> now, expires |-> e]
  <2>1. /\ req[r].start \in Nat
        /\ req[r].auth \in Auth \cup {None}
        /\ req[r].user \in Name \cup {None}
    BY DEF Req
  <2>2. e \in Nat  BY <2>1, ExpiresType
  <2>3. x \in SessionRow
    <3> HIDE DEF e
    <3> QED  BY <2>1, <2>2 DEF SessionRow
  <2>4. session' = [session EXCEPT ![s] = x]  BY <1>8 DEF CreateSession
  <2> HIDE DEF x
  <2>5. session' \in [Session -> SessionRow]  BY <2>3, <2>4
  <2> QED  BY <1>8, <2>5 DEF CreateSession
<1>9. ASSUME NEW r \in Request, NEW s \in Session, FindSession(r, s) PROVE TypeOK'
  <2>1. ASSUME NEW p \in Stage PROVE Captured(s, p) \in Req
    <3>1. /\ session[s].auth \in Auth \cup {None}
          /\ session[s].user \in Name \cup {None}
          /\ session[s].reg \in {"pending", "active", None}
      BY DEF SessionRow
    <3>2. (session[s].user # None /\ account[session[s].user] = "disabled") \in BOOLEAN
      OBVIOUS
    <3> QED  BY <3>1, <3>2 DEF Captured, Idle, Req
  <2>2. Dropping(s) \in Req  BY DEF Dropping, Idle, Req, Stage
  <2>3. "admitted" \in Stage /\ "check" \in Stage  BY DEF Stage
  <2>4. \E x \in Req : req' = [req EXCEPT ![r] = x]
    BY <1>9, <2>1, <2>2, <2>3 DEF FindSession
  <2> QED  BY <1>9, <2>4 DEF FindSession
<1>10. ASSUME NEW r \in Request, DropSession(r) PROVE TypeOK'  BY <1>10 DEF DropSession
<1>11. ASSUME NEW r \in Request, CheckAuthorization(r) PROVE TypeOK'
  <2>1. [req[r] EXCEPT !.pc = "confirm", !.at = now] \in Req  BY StageType, ReqFields
  <2>2. req[r].auth \in Auth  BY <1>11 DEF CheckAuthorization, Shape, WithAuth
  <2>3. Refusing(req[r].auth) \in Req  BY <2>2 DEF Refusing, Idle, Req, Stage
  <2>4. \E x \in Req : req' = [req EXCEPT ![r] = x]
    BY <1>11, <2>1, <2>3 DEF CheckAuthorization
  <2> QED  BY <1>11, <2>4 DEF CheckAuthorization
<1>12. ASSUME NEW r \in Request, ConfirmAuthorization(r) PROVE TypeOK'
  <2> DEFINE a == req[r].auth
  <2>1. a \in Auth  BY <1>12 DEF ConfirmAuthorization, Shape, WithAuth
  <2>2. PICK t \in ArrivalTimes(r) :
          /\ row' = [row EXCEPT ![a].status = "active", ![a].checked = t]
          /\ req' = [req EXCEPT ![r].pc = "admitted", ![r].at = t]
    BY <1>12 DEF ConfirmAuthorization
  <2>3. t \in Nat
    <3>1. req[r].at \in Nat  BY DEF Req
    <3> QED  BY <3>1 DEF ArrivalTimes
  <2> HIDE DEF a
  <2>4. [row[a] EXCEPT !.status = "active", !.checked = t] \in Row  BY <2>1, <2>3, RowFields
  <2>5. row' \in [Auth -> Row]  BY <2>1, <2>2, <2>4
  <2>6. [req[r] EXCEPT !.pc = "admitted", !.at = t] \in Req  BY <2>3, StageType, ReqFields
  <2>7. req' \in [Request -> Req]  BY <2>2, <2>6
  <2> QED  BY <1>12, <2>5, <2>7 DEF ConfirmAuthorization
<1>13. ASSUME NEW r \in Request, RefuseAuthorization(r) PROVE TypeOK'
  <2> DEFINE a == req[r].auth
  <2>1. a \in Auth  BY <1>13 DEF RefuseAuthorization, Shape, WithAuth
  <2>2. row' = IF row[a].status = "absent" THEN row
               ELSE [row EXCEPT ![a].status = "revoked", ![a].checked = 0]
    BY <1>13 DEF RefuseAuthorization
  <2>3. req' = [req EXCEPT ![r] = [Idle EXCEPT !.pc = "purge", !.auth = a]]
    BY <1>13 DEF RefuseAuthorization
  <2> HIDE DEF a
  <2>4. [row[a] EXCEPT !.status = "revoked", !.checked = 0] \in Row  BY <2>1, RowFields
  <2>5. row' \in [Auth -> Row]  BY <2>1, <2>2, <2>4
  <2>6. [Idle EXCEPT !.pc = "purge", !.auth = a] \in Req  BY <2>1 DEF Idle, Req, Stage
  <2>7. req' \in [Request -> Req]  BY <2>3, <2>6
  <2> QED  BY <1>13, <2>5, <2>7 DEF RefuseAuthorization
<1>14. ASSUME NEW r \in Request, PurgeSessions(r) PROVE TypeOK'
  BY <1>14 DEF PurgeSessions
<1>15. ASSUME NEW r \in Request, TouchSession(r) PROVE TypeOK'
  <2> DEFINE s == req[r].sel
             e == ExpiresAt(session[s].created, req[r].start)
  <2>1. s \in Session  BY <1>15 DEF TouchSession, Shape, WithSession
  <2>2. e \in Nat
    <3>1. session[s].created \in Nat  BY <2>1 DEF SessionRow
    <3>2. req[r].start \in Nat  BY DEF Req
    <3> QED  BY <3>1, <3>2, ExpiresType
  <2>3. session' = IF session[s].state # "live" THEN session
                   ELSE [session EXCEPT ![s].expires = e]
    BY <1>15 DEF TouchSession, Renewed
  <2> HIDE DEF e
  <2>4. [session[s] EXCEPT !.expires = e] \in SessionRow
    <3>1. session[s] \in SessionRow  BY <2>1
    <3> HIDE DEF s
    <3> QED  BY <3>1, <2>2 DEF SessionRow
  <2>5. session' \in [Session -> SessionRow]
    <3> HIDE DEF s
    <3> QED  BY <2>1, <2>3, <2>4
  <2>6. [req[r] EXCEPT !.pc = "handler", !.start = 0] \in Req  BY StageType, ReqFields
  <2>7. req' = [req EXCEPT ![r] = [req[r] EXCEPT !.pc = "handler", !.start = 0]]
    BY <1>15 DEF TouchSession, Handle
  <2>8. req' \in [Request -> Req]  BY <2>6, <2>7
  <2> QED  BY <1>15, <2>5, <2>8 DEF TouchSession
<1>16. ASSUME NEW r \in Request, SkipTouch(r) PROVE TypeOK'
  <2>1. [req[r] EXCEPT !.pc = "handler", !.start = 0] \in Req  BY StageType, ReqFields
  <2>2. req' = [req EXCEPT ![r] = [req[r] EXCEPT !.pc = "handler", !.start = 0]]
    BY <1>16 DEF SkipTouch, Handle
  <2> QED  BY <1>16, <2>1, <2>2 DEF SkipTouch
<1>17. ASSUME NEW r \in Request, NEW n \in Name, BindUsername(r, n) PROVE TypeOK'
  <2> DEFINE a == req[r].auth
             s == req[r].sel
  <2>1. a \in Auth /\ s \in Session
    BY <1>17 DEF BindUsername, Shape, WithAuth, WithSession
  <2>2. /\ row' = [row EXCEPT ![a].user = n]
        /\ session' = IF session[s].state # "live" THEN session
                      ELSE [session EXCEPT ![s].user = n, ![s].reg = "active"]
    BY <1>17 DEF BindUsername
  <2> HIDE DEF a, s
  <2>3. [row[a] EXCEPT !.user = n] \in Row  BY <2>1 DEF Row
  <2>4. row' \in [Auth -> Row]  BY <2>1, <2>2, <2>3
  <2>5. [session[s] EXCEPT !.user = n, !.reg = "active"] \in SessionRow
    BY <2>1 DEF SessionRow
  <2>6. session' \in [Session -> SessionRow]  BY <2>1, <2>2, <2>5
  <2>7. account' \in [Name -> {"absent", "disabled", "enabled"}]
    BY <1>17 DEF BindUsername, NewAccount
  <2>8. binding' \in [Subject -> Name \cup {None}]  BY <1>17 DEF BindUsername
  <2> QED  BY <1>17, <2>4, <2>6, <2>7, <2>8 DEF BindUsername
<1>18. ASSUME NEW r \in Request, Logout(r) PROVE TypeOK'
  <2>1. req[r].sel \in Session  BY <1>18 DEF Logout, Shape, WithSession
  <2>2. Dropping(req[r].sel) \in Req  BY <2>1 DEF Dropping, Idle, Req, Stage
  <2>3. req' \in [Request -> Req]  BY <1>18, <2>2 DEF Logout
  <2> QED  BY <1>18, <2>3 DEF Logout
<1>19. ASSUME NEW r \in Request, NEW n \in Name, DisableUser(r, n) PROVE TypeOK'
  BY <1>19 DEF DisableUser
<1>20. ASSUME NEW r \in Request, NEW n \in Name, EnableUser(r, n) PROVE TypeOK'
  BY <1>20 DEF EnableUser
<1>21. ASSUME NEW r \in Request, EndRequest(r) PROVE TypeOK'  BY <1>21 DEF EndRequest
<1>22. ASSUME NEW r \in Request, NEW a \in Auth, RevocationWebhook(r, a) PROVE TypeOK'
  <2>1. Refusing(a) \in Req  BY DEF Refusing, Idle, Req, Stage
  <2> QED  BY <1>22, <2>1 DEF RevocationWebhook
<1>23. ASSUME NEW a \in Auth, RemoteRevoke(a) PROVE TypeOK'  BY <1>23 DEF RemoteRevoke
<1>24. CASE Tick  BY <1>24 DEF Tick
<1> HIDE DEF Inv1, TypeOK, At, Finish
<1> QED
  BY <1>1, <1>2, <1>3, <1>4, <1>5, <1>6, <1>7, <1>8, <1>9, <1>10, <1>11,
     <1>12, <1>13, <1>14, <1>15, <1>16, <1>17, <1>18, <1>19, <1>20, <1>21,
     <1>22, <1>23, <1>24 DEF Next, SignIn, Middleware, Handler

(* What the second statement of consume_pending_sso_login leaves in the    *)
(* request: it goes on, or ends.                                           *)
THEOREM DeletedLogin ==
  ASSUME TypeOK, NEW r \in Request, DeleteLogin(r)
  PROVE  /\ \A q \in Request : q # r => req'[q] = req[q]
         /\ req'[r].pc \in {"exchange", "idle"}
         /\ req'[r].start \in {req[r].start, 0}
<1> DEFINE x == [Idle EXCEPT !.pc = "exchange", !.start = req[r].start]
<1>1. req' = [req EXCEPT ![r] = x] \/ req' = [req EXCEPT ![r] = Idle]
  BY DEF DeleteLogin, Finish
<1>2. /\ x.pc = "exchange" /\ x.start = req[r].start
      /\ Idle.pc = "idle" /\ Idle.start = 0
  BY DEF Idle
<1> HIDE DEF x
<1>3. req'[r] = x \/ req'[r] = Idle  BY <1>1 DEF TypeOK
<1>4. \A q \in Request : q # r => req'[q] = req[q]  BY <1>1 DEF TypeOK
<1> QED  BY <1>2, <1>3, <1>4

(* What resolve_request_session holds after its first statement: a session *)
(* to drop, or a copy of the row and a decision on a fresh cached status.  *)
THEOREM FoundSession ==
  ASSUME TypeOK, NEW r \in Request, NEW s \in Session, FindSession(r, s)
  PROVE  /\ \A q \in Request : q # r => req'[q] = req[q]
         /\ req'[r].pc \in {"drop", "check", "admitted"}
         /\ req'[r].start \in {0, now}
         /\ req'[r].pc \in {"check", "admitted"} =>
              /\ req'[r].sel = s
              /\ req'[r].auth = session[s].auth
              /\ req'[r].user = session[s].user
              /\ req'[r].reg = session[s].reg
              /\ req'[r].at = now
              /\ req'[r].disabled = (session[s].user # None /\ account[session[s].user] = "disabled")
         /\ req'[r].pc = "admitted" =>
              /\ row[session[s].auth].status = "active"
              /\ row[session[s].auth].checked + CacheTtl > now
<1> DEFINE p == IF CacheFresh(session[s].auth) THEN "admitted" ELSE "check"
           x == Captured(s, p)
           d == (session[s].user # None /\ account[session[s].user] = "disabled")
<1>1. \A q \in Request : q # r => req'[q] = req[q]  BY DEF FindSession, TypeOK
<1>2. CASE ~Usable(s)
  <2>1. req'[r] = Dropping(s)  BY <1>2 DEF FindSession, TypeOK
  <2>2. Dropping(s).pc = "drop" /\ Dropping(s).start = 0  BY DEF Dropping, Idle
  <2> QED  BY <1>1, <2>1, <2>2
<1>3. CASE Usable(s)
  <2>1. req'[r] = x  BY <1>3 DEF FindSession, TypeOK
  <2>2. p \in {"admitted", "check"}
        /\ (p = "admitted" => row[session[s].auth].checked + CacheTtl > now)
    BY DEF CacheFresh
  <2> HIDE DEF p
  <2>3. /\ x.pc = p /\ x.start = now /\ x.sel = s /\ x.auth = session[s].auth
        /\ x.user = session[s].user /\ x.reg = session[s].reg
        /\ x.at = now /\ x.disabled = d
    BY DEF Captured, Idle
  <2>4. row[session[s].auth].status = "active"  BY <1>3 DEF Usable
  <2> HIDE DEF x
  <2> QED  BY <1>1, <2>1, <2>2, <2>3, <2>4
<1> QED  BY <1>2, <1>3

(* The Shape of the records is kept.                                       *)
THEOREM ShapeNext == Inv1 /\ [Next]_vars => Shape'
<1> SUFFICES ASSUME Inv1, [Next]_vars PROVE Shape'  OBVIOUS
<1> USE DEF Inv1, TypeOK, Shape, WithAuth, WithSession, At, Finish, Continue, Idle,
            Blank
<1>1. CASE UNCHANGED vars  BY <1>1 DEF vars
<1>2. ASSUME NEW l \in Login, BeginLogin(l)
      PROVE  Shape'
  BY <1>2 DEF BeginLogin
<1>3. ASSUME NEW r \in Request, NEW l \in Login, ReadLogin(r, l)
      PROVE  Shape'
  BY <1>3 DEF ReadLogin
<1>4. ASSUME NEW r \in Request, DeleteLogin(r)
      PROVE  Shape'
  <2>1. /\ \A q \in Request : q # r => req'[q] = req[q]
        /\ req'[r].pc \in {"exchange", "idle"}
        /\ req'[r].start \in {req[r].start, 0}
    BY <1>4, DeletedLogin
  <2>2. UNCHANGED <<now, remote, revokedAt, row, session, account, binding, approved>>
    BY <1>4 DEF DeleteLogin
  <2> QED  BY <2>1, <2>2
<1>5. ASSUME NEW r \in Request, NEW a \in Auth, ExchangeCode(r, a)
      PROVE  Shape'
  BY <1>5 DEF ExchangeCode
<1>6. ASSUME NEW r \in Request, FindBinding(r)
      PROVE  Shape'
  BY <1>6 DEF FindBinding
<1>7. ASSUME NEW r \in Request, UpsertAuthorization(r)
      PROVE  Shape'
  BY <1>7 DEF UpsertAuthorization
<1>8. ASSUME NEW r \in Request, NEW s \in Session, CreateSession(r, s)
      PROVE  Shape'
  BY <1>8 DEF CreateSession
<1>9. ASSUME NEW r \in Request, NEW s \in Session, FindSession(r, s)
      PROVE  Shape'
  <2>1. /\ \A q \in Request : q # r => req'[q] = req[q]
        /\ req'[r].pc \in {"drop", "check", "admitted"}
    BY <1>9, FoundSession
  <2>2. req'[r].pc \in WithSession => req'[r].sel = s
    BY <1>9 DEF FindSession, Captured, Dropping
  <2>3. req'[r].pc \in WithAuth => req'[r].auth = session[s].auth
    BY <1>9 DEF FindSession, Captured, Dropping
  <2>4. session[s].state = "live" /\ UNCHANGED session  BY <1>9 DEF FindSession
  <2> QED  BY <2>1, <2>2, <2>3, <2>4
<1>10. ASSUME NEW r \in Request, DropSession(r)
      PROVE  Shape'
  BY <1>10 DEF DropSession
<1>11. ASSUME NEW r \in Request, CheckAuthorization(r)
      PROVE  Shape'
  BY <1>11 DEF CheckAuthorization, Refusing
<1>12. ASSUME NEW r \in Request, ConfirmAuthorization(r)
      PROVE  Shape'
  BY <1>12 DEF ConfirmAuthorization
<1>13. ASSUME NEW r \in Request, RefuseAuthorization(r)
      PROVE  Shape'
  BY <1>13 DEF RefuseAuthorization
<1>14. ASSUME NEW r \in Request, PurgeSessions(r)
      PROVE  Shape'
  BY <1>14 DEF PurgeSessions
<1>15. ASSUME NEW r \in Request, TouchSession(r)
      PROVE  Shape'
  BY <1>15 DEF TouchSession, Renewed, Handle
<1>16. ASSUME NEW r \in Request, SkipTouch(r)
      PROVE  Shape'
  BY <1>16 DEF SkipTouch, Handle
<1>17. ASSUME NEW r \in Request, NEW n \in Name, BindUsername(r, n)
      PROVE  Shape'
  BY <1>17 DEF BindUsername
<1>18. ASSUME NEW r \in Request, Logout(r)
      PROVE  Shape'
  BY <1>18 DEF Logout, Dropping
<1>19. ASSUME NEW r \in Request, NEW n \in Name, DisableUser(r, n)
      PROVE  Shape'
  BY <1>19 DEF DisableUser
<1>20. ASSUME NEW r \in Request, NEW n \in Name, EnableUser(r, n)
      PROVE  Shape'
  BY <1>20 DEF EnableUser
<1>21. ASSUME NEW r \in Request, EndRequest(r)
      PROVE  Shape'
  BY <1>21 DEF EndRequest
<1>22. ASSUME NEW r \in Request, NEW a \in Auth, RevocationWebhook(r, a)
      PROVE  Shape'
  BY <1>22 DEF RevocationWebhook, Refusing
<1>23. ASSUME NEW a \in Auth, RemoteRevoke(a)
      PROVE  Shape'
  BY <1>23 DEF RemoteRevoke
<1>24. CASE Tick  BY <1>24 DEF Tick
<1> HIDE DEF Inv1, Shape
<1> QED
  BY <1>1, <1>2, <1>3, <1>4, <1>5, <1>6, <1>7, <1>8, <1>9, <1>10, <1>11,
     <1>12, <1>13, <1>14, <1>15, <1>16, <1>17, <1>18, <1>19, <1>20,
     <1>21, <1>22, <1>23, <1>24
  DEF Next, SignIn, Middleware, Handler

(* Inv1 is inductive.                                                      *)
THEOREM Inv1Next == Inv1 /\ [Next]_vars => Inv1'
  BY TypeNext, ShapeNext DEF Inv1

(* The components of the state keep their types (TypeOK).                  *)
THEOREM TypeCorrect == Spec => []TypeOK
<1>1. Inv1 => TypeOK  BY DEF Inv1
<1> QED  BY Inv1Init, Inv1Next, <1>1, PTL DEF Spec

(* The types and the shape of the records always hold.                     *)
THEOREM Inv1Correct == Spec => []Inv1
  BY Inv1Init, Inv1Next, PTL DEF Spec
-----------------------------------------------------------------------------
(* What is known of an authorization that the SSO has revoked: nothing     *)
(* written to its row or held by a request was read after the revocation,  *)
(* except for the delay of an answer.                                      *)
SignedIn == {"binding", "upsert", "create"}

RowRecent ==
  \A a \in Auth : row[a].status = "active" =>
    /\ remote[a] # "none"
    /\ row[a].checked <= now
    /\ remote[a] = "revoked" => row[a].checked <= revokedAt[a] + Latency

ReqRecent ==
  \A r \in Request :
    /\ req[r].start <= now
    /\ req[r].pc \in SignedIn =>
         /\ remote[req[r].auth] # "none"
         /\ remote[req[r].auth] = "revoked" => req[r].start <= revokedAt[req[r].auth]
    /\ req[r].pc = "confirm" =>
         /\ remote[req[r].auth] # "none"
         /\ req[r].at <= now
         /\ remote[req[r].auth] = "revoked" => req[r].at <= revokedAt[req[r].auth]
    /\ req[r].pc \in {"admitted", "handler"} =>
         /\ remote[req[r].auth] # "none"
         /\ req[r].at <= now
         /\ remote[req[r].auth] = "revoked" =>
              req[r].at <= revokedAt[req[r].auth] + CacheTtl + Latency

RecentInv == RowRecent /\ ReqRecent

(* Initially nothing has been decided about any authorization.             *)
THEOREM RecentInit == Init => RecentInv
  BY DEF Init, RecentInv, RowRecent, ReqRecent, NoRow, Idle, SignedIn

(* An answer is stamped when it is given and stored at most Latency later; *)
(* a sign-in is stamped before its exchange; a cached status is used for at *)
(* most CacheTtl.  No step ages a decision beyond their sum.               *)
THEOREM RecentNext == Inv1 /\ RecentInv /\ [Next]_vars => RecentInv'
<1> SUFFICES ASSUME Inv1, RecentInv, [Next]_vars PROVE RecentInv'  OBVIOUS
<1>0. /\ now \in Nat /\ CacheTtl \in Nat /\ Latency \in Nat
      /\ \A a \in Auth : revokedAt[a] \in Nat /\ row[a].checked \in Nat
      /\ \A r \in Request : req[r].start \in Nat /\ req[r].at \in Nat
  BY DEF Inv1, TypeOK, Row, Req
<1> USE <1>0 DEF Inv1, TypeOK, Shape, WithAuth, WithSession, At, Finish, Continue,
            Idle, RecentInv, RowRecent, ReqRecent, SignedIn
<1>1. CASE UNCHANGED vars  BY <1>1 DEF vars
<1>2. ASSUME NEW l \in Login, BeginLogin(l)
      PROVE  RecentInv'
  BY <1>2 DEF BeginLogin
<1>3. ASSUME NEW r \in Request, NEW l \in Login, ReadLogin(r, l)
      PROVE  RecentInv'
  BY <1>3 DEF ReadLogin
<1>4. ASSUME NEW r \in Request, DeleteLogin(r)
      PROVE  RecentInv'
  <2>1. /\ \A q \in Request : q # r => req'[q] = req[q]
        /\ req'[r].pc \in {"exchange", "idle"}
        /\ req'[r].start \in {req[r].start, 0}
    BY <1>4, DeletedLogin
  <2>2. UNCHANGED <<now, remote, revokedAt, row, session, account, binding, approved>>
    BY <1>4 DEF DeleteLogin
  <2> QED  BY <2>1, <2>2
<1>5. ASSUME NEW r \in Request, NEW a \in Auth, ExchangeCode(r, a)
      PROVE  RecentInv'
  BY <1>5 DEF ExchangeCode
<1>6. ASSUME NEW r \in Request, FindBinding(r)
      PROVE  RecentInv'
  BY <1>6 DEF FindBinding
<1>7. ASSUME NEW r \in Request, UpsertAuthorization(r)
      PROVE  RecentInv'
  BY <1>7 DEF UpsertAuthorization
<1>8. ASSUME NEW r \in Request, NEW s \in Session, CreateSession(r, s)
      PROVE  RecentInv'
  BY <1>8 DEF CreateSession
<1>9. ASSUME NEW r \in Request, NEW s \in Session, FindSession(r, s)
      PROVE  RecentInv'
  <2> DEFINE a == session[s].auth
  <2>1. a \in Auth  BY <1>9 DEF FindSession
  <2>2. /\ \A q \in Request : q # r => req'[q] = req[q]
        /\ req'[r].start <= now
        /\ req'[r].pc \in {"drop", "check", "admitted"}
    BY <1>9, FoundSession
  <2>3. ASSUME req'[r].pc = "admitted"
        PROVE  /\ req'[r].auth = a
               /\ req'[r].at = now
               /\ row[a].status = "active"
               /\ row[a].checked + CacheTtl > now
    BY <1>9, <2>3, FoundSession
  <2>4. UNCHANGED <<now, remote, revokedAt, row>>  BY <1>9 DEF FindSession
  <2>5. RowRecent'  BY <2>4
  <2>6. ASSUME req'[r].pc = "admitted"
        PROVE  /\ remote[a] # "none"
               /\ remote[a] = "revoked" => now <= revokedAt[a] + CacheTtl + Latency
    <3>1. remote[a] # "none"  BY <2>1, <2>3, <2>6
    <3>2. ASSUME remote[a] = "revoked" PROVE now <= revokedAt[a] + CacheTtl + Latency
      <4>1. row[a].checked <= revokedAt[a] + Latency  BY <2>1, <2>3, <2>6, <3>2
      <4>2. row[a].checked + CacheTtl > now  BY <2>3, <2>6
      <4>3. row[a].checked \in Nat /\ revokedAt[a] \in Nat  BY <2>1
      <4> QED  BY <4>1, <4>2, <4>3
    <3> QED  BY <3>1, <3>2
  <2>7. ReqRecent'
    <3> SUFFICES ASSUME NEW q \in Request
                 PROVE ReqRecent!(q)'
      OBVIOUS
    <3>1. CASE q = r  BY <3>1, <2>2, <2>3, <2>4, <2>6
    <3>2. CASE q # r  BY <3>2, <2>2, <2>4
    <3> QED  BY <3>1, <3>2
  <2> QED  BY <2>5, <2>7
<1>10. ASSUME NEW r \in Request, DropSession(r)
      PROVE  RecentInv'
  BY <1>10 DEF DropSession
<1>11. ASSUME NEW r \in Request, CheckAuthorization(r)
      PROVE  RecentInv'
  BY <1>11 DEF CheckAuthorization, Refusing
<1>12. ASSUME NEW r \in Request, ConfirmAuthorization(r)
      PROVE  RecentInv'
  <2> DEFINE a == req[r].auth
  <2>1. a \in Auth  BY <1>12 DEF ConfirmAuthorization
  <2>2. PICK t \in ArrivalTimes(r) :
          /\ row' = [row EXCEPT ![a].status = "active", ![a].checked = t]
          /\ req' = [req EXCEPT ![r].pc = "admitted", ![r].at = t]
    BY <1>12 DEF ConfirmAuthorization
  <2>3. t \in Nat /\ t <= now /\ t <= req[r].at + Latency
    <3> DEFINE m == Min2(req[r].at + Latency, now)
    <3>1. req[r].at + Latency \in Nat  OBVIOUS
    <3>2. m \in Nat /\ m <= req[r].at + Latency /\ m <= now  BY <3>1, Min2Type
    <3>3. t \in req[r].at .. m  BY DEF ArrivalTimes
    <3> HIDE DEF m
    <3> QED  BY <3>1, <3>2, <3>3
  <2>4. UNCHANGED <<now, remote, revokedAt>>  BY <1>12 DEF ConfirmAuthorization
  <2>5. /\ remote[a] # "none"
        /\ remote[a] = "revoked" => t <= revokedAt[a] + Latency
    <3>1. req[r].pc = "confirm"  BY <1>12 DEF ConfirmAuthorization
    <3>2. req[r].at \in Nat /\ revokedAt[a] \in Nat  BY <2>1
    <3> QED  BY <3>1, <3>2, <2>3
  <2>6. RowRecent'
    <3> SUFFICES ASSUME NEW b \in Auth, row'[b].status = "active"
                 PROVE  /\ remote[b] # "none"
                        /\ row'[b].checked <= now
                        /\ remote[b] = "revoked" => row'[b].checked <= revokedAt[b] + Latency
      BY <2>4
    <3>1. CASE b = a  BY <3>1, <2>1, <2>2, <2>3, <2>5 DEF Row
    <3>2. CASE b # a  BY <3>2, <2>2
    <3> QED  BY <3>1, <3>2
  <2>7. /\ \A q \in Request : q # r => req'[q] = req[q]
        /\ req'[r] = [req[r] EXCEPT !.pc = "admitted", !.at = t]
    BY <2>2
  <2>8. /\ req'[r].pc = "admitted" /\ req'[r].at = t
        /\ req'[r].auth = a /\ req'[r].start = req[r].start
    BY <2>7 DEF Req
  <2>9. remote[a] = "revoked" => t <= revokedAt[a] + CacheTtl + Latency
    <3>1. revokedAt[a] \in Nat  BY <2>1
    <3> QED  BY <3>1, <2>3, <2>5
  <2>10. ReqRecent'
    <3> SUFFICES ASSUME NEW q \in Request
                 PROVE ReqRecent!(q)'
      OBVIOUS
    <3>1. CASE q = r  BY <3>1, <2>3, <2>4, <2>5, <2>8, <2>9
    <3>2. CASE q # r  BY <3>2, <2>4, <2>7
    <3> QED  BY <3>1, <3>2
  <2> QED  BY <2>6, <2>10
<1>13. ASSUME NEW r \in Request, RefuseAuthorization(r)
      PROVE  RecentInv'
  BY <1>13 DEF RefuseAuthorization
<1>14. ASSUME NEW r \in Request, PurgeSessions(r)
      PROVE  RecentInv'
  BY <1>14 DEF PurgeSessions
<1>15. ASSUME NEW r \in Request, TouchSession(r)
      PROVE  RecentInv'
  BY <1>15 DEF TouchSession, Renewed, Handle
<1>16. ASSUME NEW r \in Request, SkipTouch(r)
      PROVE  RecentInv'
  BY <1>16 DEF SkipTouch, Handle
<1>17. ASSUME NEW r \in Request, NEW n \in Name, BindUsername(r, n)
      PROVE  RecentInv'
  BY <1>17 DEF BindUsername
<1>18. ASSUME NEW r \in Request, Logout(r)
      PROVE  RecentInv'
  BY <1>18 DEF Logout, Dropping
<1>19. ASSUME NEW r \in Request, NEW n \in Name, DisableUser(r, n)
      PROVE  RecentInv'
  BY <1>19 DEF DisableUser
<1>20. ASSUME NEW r \in Request, NEW n \in Name, EnableUser(r, n)
      PROVE  RecentInv'
  BY <1>20 DEF EnableUser
<1>21. ASSUME NEW r \in Request, EndRequest(r)
      PROVE  RecentInv'
  BY <1>21 DEF EndRequest
<1>22. ASSUME NEW r \in Request, NEW a \in Auth, RevocationWebhook(r, a)
      PROVE  RecentInv'
  BY <1>22 DEF RevocationWebhook, Refusing
<1>23. ASSUME NEW a \in Auth, RemoteRevoke(a)
      PROVE  RecentInv'
  BY <1>23 DEF RemoteRevoke
<1>24. CASE Tick  BY <1>24 DEF Tick
<1> HIDE DEF Inv1, RecentInv
<1> QED
  BY <1>1, <1>2, <1>3, <1>4, <1>5, <1>6, <1>7, <1>8, <1>9, <1>10, <1>11,
     <1>12, <1>13, <1>14, <1>15, <1>16, <1>17, <1>18, <1>19, <1>20,
     <1>21, <1>22, <1>23, <1>24
  DEF Next, SignIn, Middleware, Handler

(* No request is let through to a handler on a decision taken more than    *)
(* CacheTtl and the delay of one answer after the SSO revoked the          *)
(* authorization (RevocationTakesHold).                                    *)
THEOREM RevocationCorrect == Spec => []RevocationTakesHold
<1>1. RecentInv => RevocationTakesHold
  BY DEF RecentInv, ReqRecent, RevocationTakesHold, Admitted, At
<1> QED  BY Inv1Correct, RecentInit, RecentNext, <1>1, PTL DEF Spec
-----------------------------------------------------------------------------
(* Users.  A sign-in holds the user its subject is bound to, and a request  *)
(* holds the authorization of its session, whose selector is never used    *)
(* again.                                                                  *)
Serving == {"check", "confirm", "admitted", "handler"}

SignInsAgree ==
  \A r \in Request :
    /\ req[r].pc \in {"upsert", "create"} /\ req[r].user # None =>
         binding[SubjectOf[req[r].auth]] = req[r].user
    /\ req[r].pc = "create" /\ req[r].user # None =>
         row[req[r].auth].user = req[r].user

CapturesAgree ==
  \A r \in Request : req[r].pc \in Serving =>
    /\ session[req[r].sel].state # "unused"
    /\ session[req[r].sel].state = "live" =>
         session[req[r].sel].auth = req[r].auth

IdentityInv == IdentityAgrees /\ SignInsAgree /\ CapturesAgree

(* The users registered so far are each bound to one subject.              *)
THEOREM IdentityInit == Init => IdentityInv
<1> SUFFICES ASSUME Init PROVE IdentityInv  OBVIOUS
<1>1. SessionsAgree /\ RowsAgree /\ SignInsAgree /\ CapturesAgree
  BY DEF Init, SessionsAgree, RowsAgree, SignInsAgree, CapturesAgree, Blank, NoRow,
         Idle, Serving
<1>2. ASSUME NEW u \in Subject
      PROVE  /\ binding[u] # None => binding[u] \in Name /\ Founder[binding[u]] = u
             /\ \A n \in Name : Founder[n] = u => binding[u] = n
  <2>1. CASE \E n \in Name : Founder[n] = u
    <3>1. binding[u] = CHOOSE n \in Name : Founder[n] = u  BY <2>1 DEF Init
    <3>2. binding[u] \in Name /\ Founder[binding[u]] = u  BY <2>1, <3>1
    <3>3. u # None  OBVIOUS
    <3> QED  BY <3>2, <3>3
  <2>2. CASE ~\E n \in Name : Founder[n] = u  BY <2>2 DEF Init
  <2> QED  BY <2>1, <2>2
<1>3. AccountsAgree
  <2>1. ASSUME NEW n \in Name
        PROVE  account[n] # "absent" <=> \E u \in Subject : binding[u] = n
    <3>1. account[n] # "absent" <=> Founder[n] # None  BY DEF Init
    <3>2. Founder[n] # None => Founder[n] \in Subject /\ binding[Founder[n]] = n
      BY <1>2
    <3>3. ASSUME NEW u \in Subject, binding[u] = n PROVE Founder[n] # None
      BY <1>2, <3>3
    <3> QED  BY <3>1, <3>2, <3>3
  <2>2. ASSUME NEW u \in Subject, NEW v \in Subject, binding[u] = binding[v],
               binding[u] # None
        PROVE  u = v
    BY <1>2, <2>2
  <2> QED  BY <2>1, <2>2 DEF AccountsAgree
<1> QED  BY <1>1, <1>3 DEF IdentityInv, IdentityAgrees

(* The unique constraints of bind_username_to_subject bind a subject and a *)
(* name once and for all, so what a sign-in read of a binding stays true.  *)
THEOREM IdentityNext == Inv1 /\ IdentityInv /\ [Next]_vars => IdentityInv'
<1> SUFFICES ASSUME Inv1, IdentityInv, [Next]_vars PROVE IdentityInv'  OBVIOUS
<1> USE DEF Inv1, TypeOK, Shape, WithAuth, WithSession, At, Finish, Continue, Idle,
            Blank, IdentityInv, IdentityAgrees, SessionsAgree, RowsAgree,
            AccountsAgree, SignInsAgree, CapturesAgree, Serving
<1>1. CASE UNCHANGED vars  BY <1>1 DEF vars
<1>2. ASSUME NEW l \in Login, BeginLogin(l)
      PROVE  IdentityInv'
  BY <1>2 DEF BeginLogin
<1>3. ASSUME NEW r \in Request, NEW l \in Login, ReadLogin(r, l)
      PROVE  IdentityInv'
  BY <1>3 DEF ReadLogin
<1>4. ASSUME NEW r \in Request, DeleteLogin(r)
      PROVE  IdentityInv'
  <2>1. /\ \A q \in Request : q # r => req'[q] = req[q]
        /\ req'[r].pc \in {"exchange", "idle"}
        /\ req'[r].start \in {req[r].start, 0}
    BY <1>4, DeletedLogin
  <2>2. UNCHANGED <<now, remote, revokedAt, row, session, account, binding, approved>>
    BY <1>4 DEF DeleteLogin
  <2> QED  BY <2>1, <2>2
<1>5. ASSUME NEW r \in Request, NEW a \in Auth, ExchangeCode(r, a)
      PROVE  IdentityInv'
  BY <1>5 DEF ExchangeCode
<1>6. ASSUME NEW r \in Request, FindBinding(r)
      PROVE  IdentityInv'
  BY <1>6 DEF FindBinding, BoundUser
<1>7. ASSUME NEW r \in Request, UpsertAuthorization(r)
      PROVE  IdentityInv'
  BY <1>7 DEF UpsertAuthorization, UpsertedUser
<1>8. ASSUME NEW r \in Request, NEW s \in Session, CreateSession(r, s)
      PROVE  IdentityInv'
  BY <1>8 DEF CreateSession
<1>9. ASSUME NEW r \in Request, NEW s \in Session, FindSession(r, s)
      PROVE  IdentityInv'
  <2>0. /\ \A q \in Request : q # r => req'[q] = req[q]
        /\ req'[r].pc \in {"drop", "check", "admitted"}
    BY <1>9, FoundSession
  <2>1. /\ \A q \in Request : q # r => req'[q] = req[q]
        /\ req'[r].pc \in {"drop", "check", "admitted"}
        /\ session[s].state = "live"
        /\ UNCHANGED <<row, session, account, binding>>
    BY <1>9, <2>0 DEF FindSession
  <2>2. req'[r].pc \in Serving => req'[r].sel = s /\ req'[r].auth = session[s].auth
    BY <1>9, <2>1, FoundSession
  <2>3. IdentityAgrees'  BY <2>1
  <2>4. SignInsAgree'  BY <2>1
  <2>5. CapturesAgree'
    <3> SUFFICES ASSUME NEW q \in Request
                 PROVE CapturesAgree!(q)'
      OBVIOUS
    <3>1. CASE q = r  BY <3>1, <2>1, <2>2
    <3>2. CASE q # r  BY <3>2, <2>1
    <3> QED  BY <3>1, <3>2
  <2> QED  BY <2>3, <2>4, <2>5
<1>10. ASSUME NEW r \in Request, DropSession(r)
      PROVE  IdentityInv'
  BY <1>10 DEF DropSession
<1>11. ASSUME NEW r \in Request, CheckAuthorization(r)
      PROVE  IdentityInv'
  BY <1>11 DEF CheckAuthorization, Refusing
<1>12. ASSUME NEW r \in Request, ConfirmAuthorization(r)
      PROVE  IdentityInv'
  BY <1>12 DEF ConfirmAuthorization
<1>13. ASSUME NEW r \in Request, RefuseAuthorization(r)
      PROVE  IdentityInv'
  BY <1>13 DEF RefuseAuthorization
<1>14. ASSUME NEW r \in Request, PurgeSessions(r)
      PROVE  IdentityInv'
  BY <1>14 DEF PurgeSessions
<1>15. ASSUME NEW r \in Request, TouchSession(r)
      PROVE  IdentityInv'
  BY <1>15 DEF TouchSession, Renewed, Handle
<1>16. ASSUME NEW r \in Request, SkipTouch(r)
      PROVE  IdentityInv'
  BY <1>16 DEF SkipTouch, Handle
<1>17. ASSUME NEW r \in Request, NEW n \in Name, BindUsername(r, n)
      PROVE  IdentityInv'
  <2> DEFINE a == req[r].auth
             u == SubjectOf[a]
             s == req[r].sel
  <2>1. /\ a \in Auth
        /\ s \in Session
        /\ session[s].state = "live" => session[s].auth = a
    BY <1>17 DEF BindUsername
  <2>2. u \in Subject  BY <2>1
  <2> HIDE DEF a, u, s
  <2>3. /\ account[n] = "absent" /\ binding[u] = None
        /\ account' = [account EXCEPT ![n] = "disabled"]
        /\ binding' = [binding EXCEPT ![u] = n]
        /\ row' = [row EXCEPT ![a].user = n]
        /\ session' = IF session[s].state # "live" THEN session
                      ELSE [session EXCEPT ![s].user = n, ![s].reg = "active"]
        /\ req' = [req EXCEPT ![r] = Idle]
    BY <1>17 DEF BindUsername, Bindable, NewAccount, a, u, s
  <2>4. /\ n # None
        /\ \A v \in Subject : binding[v] # n
        /\ \A b \in Auth : SubjectOf[b] = u => row[b].user = None
    BY <2>3
  <2>5. SessionsAgree'  BY <2>1, <2>2, <2>3, <2>4 DEF SessionRow, u
  <2>6. RowsAgree'  BY <2>1, <2>2, <2>3, <2>4 DEF Row, u
  <2>7. AccountsAgree'  BY <2>2, <2>3, <2>4
  <2>8. SignInsAgree'  BY <2>1, <2>2, <2>3, <2>4 DEF u, Req
  <2>9. CapturesAgree'  BY <2>1, <2>3
  <2> QED  BY <2>5, <2>6, <2>7, <2>8, <2>9
<1>18. ASSUME NEW r \in Request, Logout(r)
      PROVE  IdentityInv'
  BY <1>18 DEF Logout, Dropping
<1>19. ASSUME NEW r \in Request, NEW n \in Name, DisableUser(r, n)
      PROVE  IdentityInv'
  BY <1>19 DEF DisableUser
<1>20. ASSUME NEW r \in Request, NEW n \in Name, EnableUser(r, n)
      PROVE  IdentityInv'
  BY <1>20 DEF EnableUser
<1>21. ASSUME NEW r \in Request, EndRequest(r)
      PROVE  IdentityInv'
  BY <1>21 DEF EndRequest
<1>22. ASSUME NEW r \in Request, NEW a \in Auth, RevocationWebhook(r, a)
      PROVE  IdentityInv'
  BY <1>22 DEF RevocationWebhook, Refusing
<1>23. ASSUME NEW a \in Auth, RemoteRevoke(a)
      PROVE  IdentityInv'
  BY <1>23 DEF RemoteRevoke
<1>24. CASE Tick  BY <1>24 DEF Tick
<1> HIDE DEF Inv1, IdentityInv
<1> QED
  BY <1>1, <1>2, <1>3, <1>4, <1>5, <1>6, <1>7, <1>8, <1>9, <1>10, <1>11,
     <1>12, <1>13, <1>14, <1>15, <1>16, <1>17, <1>18, <1>19, <1>20,
     <1>21, <1>22, <1>23, <1>24
  DEF Next, SignIn, Middleware, Handler

(* Sessions, authorizations, subjects and accounts agree on who a session  *)
(* belongs to (IdentityAgrees).                                            *)
THEOREM IdentityCorrect == Spec => []IdentityAgrees
<1>1. IdentityInv => IdentityAgrees  BY DEF IdentityInv
<1> QED  BY Inv1Correct, IdentityInit, IdentityNext, <1>1, PTL DEF Spec
-----------------------------------------------------------------------------
(* An account that is enabled was enabled by an administrator, and so was  *)
(* the account of every request captured as registered and not disabled.   *)
ApprovalInv ==
  /\ \A n \in Name : account[n] = "enabled" => n \in approved
  /\ \A r \in Request :
       req[r].pc \in Serving /\ req[r].reg = "active" /\ ~req[r].disabled =>
         req[r].user \in approved

(* No request has read a session yet.                                      *)
THEOREM ApprovalInit == Init => ApprovalInv
  BY DEF Init, ApprovalInv, Idle, Serving

(* An account is enabled only by an administrator, and a request's copy of *)
(* disabled_at can only be older than the account's.                       *)
THEOREM ApprovalNext == Inv1 /\ IdentityInv /\ ApprovalInv /\ [Next]_vars => ApprovalInv'
<1> SUFFICES ASSUME Inv1, IdentityInv, ApprovalInv, [Next]_vars PROVE ApprovalInv'
  OBVIOUS
<1> USE DEF Inv1, TypeOK, Shape, WithAuth, WithSession, At, Finish, Continue, Idle,
            Blank, ApprovalInv, Serving
<1>1. CASE UNCHANGED vars  BY <1>1 DEF vars
<1>2. ASSUME NEW l \in Login, BeginLogin(l)
      PROVE  ApprovalInv'
  BY <1>2 DEF BeginLogin
<1>3. ASSUME NEW r \in Request, NEW l \in Login, ReadLogin(r, l)
      PROVE  ApprovalInv'
  BY <1>3 DEF ReadLogin
<1>4. ASSUME NEW r \in Request, DeleteLogin(r)
      PROVE  ApprovalInv'
  <2>1. /\ \A q \in Request : q # r => req'[q] = req[q]
        /\ req'[r].pc \in {"exchange", "idle"}
        /\ req'[r].start \in {req[r].start, 0}
    BY <1>4, DeletedLogin
  <2>2. UNCHANGED <<now, remote, revokedAt, row, session, account, binding, approved>>
    BY <1>4 DEF DeleteLogin
  <2> QED  BY <2>1, <2>2
<1>5. ASSUME NEW r \in Request, NEW a \in Auth, ExchangeCode(r, a)
      PROVE  ApprovalInv'
  BY <1>5 DEF ExchangeCode
<1>6. ASSUME NEW r \in Request, FindBinding(r)
      PROVE  ApprovalInv'
  BY <1>6 DEF FindBinding
<1>7. ASSUME NEW r \in Request, UpsertAuthorization(r)
      PROVE  ApprovalInv'
  BY <1>7 DEF UpsertAuthorization
<1>8. ASSUME NEW r \in Request, NEW s \in Session, CreateSession(r, s)
      PROVE  ApprovalInv'
  BY <1>8 DEF CreateSession
<1>9. ASSUME NEW r \in Request, NEW s \in Session, FindSession(r, s)
      PROVE  ApprovalInv'
  <2>0. /\ \A q \in Request : q # r => req'[q] = req[q]
        /\ req'[r].pc \in {"drop", "check", "admitted"}
    BY <1>9, FoundSession
  <2>1. /\ \A q \in Request : q # r => req'[q] = req[q]
        /\ req'[r].pc \in {"drop", "check", "admitted"}
        /\ UNCHANGED <<account, approved>>
    BY <1>9, <2>0 DEF FindSession
  <2>2. ASSUME req'[r].pc \in Serving, req'[r].reg = "active", ~req'[r].disabled
        PROVE  req'[r].user \in approved
    <3> DEFINE n == session[s].user
    <3>0. /\ req'[r].user = n
          /\ req'[r].reg = session[s].reg
          /\ req'[r].disabled = (n # None /\ account[n] = "disabled")
      <4>1. req'[r].pc \in {"check", "admitted"}  BY <2>1, <2>2
      <4> HIDE DEF TypeOK
      <4> QED  BY <1>9, <4>1, FoundSession
    <3>1. /\ req'[r].user = n /\ session[s].reg = "active"
          /\ ~(n # None /\ account[n] = "disabled")
      BY <2>2, <3>0
    <3>2. session[s].state = "live" /\ session[s].auth \in Auth
      BY <1>9 DEF FindSession
    <3>3. n # None /\ row[session[s].auth].user = n
      BY <3>1, <3>2 DEF IdentityInv, IdentityAgrees, SessionsAgree
    <3>4. binding[SubjectOf[session[s].auth]] = n
      BY <3>2, <3>3 DEF IdentityInv, IdentityAgrees, RowsAgree
    <3>5. n \in Name  BY <3>2, <3>3 DEF Row
    <3>6. account[n] # "absent"
      BY <3>2, <3>4, <3>5 DEF IdentityInv, IdentityAgrees, AccountsAgree
    <3>7. account[n] = "enabled"  BY <3>1, <3>3, <3>5, <3>6
    <3> QED  BY <3>1, <3>5, <3>7
  <2> QED  BY <2>1, <2>2
<1>10. ASSUME NEW r \in Request, DropSession(r)
      PROVE  ApprovalInv'
  BY <1>10 DEF DropSession
<1>11. ASSUME NEW r \in Request, CheckAuthorization(r)
      PROVE  ApprovalInv'
  BY <1>11 DEF CheckAuthorization, Refusing
<1>12. ASSUME NEW r \in Request, ConfirmAuthorization(r)
      PROVE  ApprovalInv'
  BY <1>12 DEF ConfirmAuthorization
<1>13. ASSUME NEW r \in Request, RefuseAuthorization(r)
      PROVE  ApprovalInv'
  BY <1>13 DEF RefuseAuthorization
<1>14. ASSUME NEW r \in Request, PurgeSessions(r)
      PROVE  ApprovalInv'
  BY <1>14 DEF PurgeSessions
<1>15. ASSUME NEW r \in Request, TouchSession(r)
      PROVE  ApprovalInv'
  BY <1>15 DEF TouchSession, Renewed, Handle
<1>16. ASSUME NEW r \in Request, SkipTouch(r)
      PROVE  ApprovalInv'
  BY <1>16 DEF SkipTouch, Handle
<1>17. ASSUME NEW r \in Request, NEW n \in Name, BindUsername(r, n)
      PROVE  ApprovalInv'
  BY <1>17 DEF BindUsername, NewAccount
<1>18. ASSUME NEW r \in Request, Logout(r)
      PROVE  ApprovalInv'
  BY <1>18 DEF Logout, Dropping
<1>19. ASSUME NEW r \in Request, NEW n \in Name, DisableUser(r, n)
      PROVE  ApprovalInv'
  BY <1>19 DEF DisableUser
<1>20. ASSUME NEW r \in Request, NEW n \in Name, EnableUser(r, n)
      PROVE  ApprovalInv'
  BY <1>20 DEF EnableUser
<1>21. ASSUME NEW r \in Request, EndRequest(r)
      PROVE  ApprovalInv'
  BY <1>21 DEF EndRequest
<1>22. ASSUME NEW r \in Request, NEW a \in Auth, RevocationWebhook(r, a)
      PROVE  ApprovalInv'
  BY <1>22 DEF RevocationWebhook, Refusing
<1>23. ASSUME NEW a \in Auth, RemoteRevoke(a)
      PROVE  ApprovalInv'
  BY <1>23 DEF RemoteRevoke
<1>24. CASE Tick  BY <1>24 DEF Tick
<1> HIDE DEF Inv1, ApprovalInv
<1> QED
  BY <1>1, <1>2, <1>3, <1>4, <1>5, <1>6, <1>7, <1>8, <1>9, <1>10, <1>11,
     <1>12, <1>13, <1>14, <1>15, <1>16, <1>17, <1>18, <1>19, <1>20,
     <1>21, <1>22, <1>23, <1>24
  DEF Next, SignIn, Middleware, Handler

(* Only an account that an administrator has enabled reaches a handler as  *)
(* a registered one (ActivationRequired).                                  *)
THEOREM ActivationCorrect == Spec => []ActivationRequired
<1>1. ApprovalInv => ActivationRequired
  BY DEF ApprovalInv, ActivationRequired, Registered, At, Serving
<1> QED
  BY Inv1Correct, IdentityInit, IdentityNext, ApprovalInit, ApprovalNext, <1>1,
     PTL DEF Spec
-----------------------------------------------------------------------------
(* session_expires_at stays within the absolute limit, if there is one.    *)
THEOREM ExpiresCapped ==
  AbsoluteTtl > 0 => \A c, t \in Nat : ExpiresAt(c, t) <= c + AbsoluteTtl
  BY DEF ExpiresAt, Min2

(* The steps that write a session give it a lifetime within the limit, and *)
(* the others keep it or delete it.                                        *)
THEOREM LifetimeNext == Inv1 /\ RecentInv /\ LifetimeCapped /\ [Next]_vars => LifetimeCapped'
<1> SUFFICES ASSUME Inv1, RecentInv, LifetimeCapped, [Next]_vars PROVE LifetimeCapped'
  OBVIOUS
<1> USE DEF Inv1, TypeOK, Shape, WithSession, At, LifetimeCapped, Blank
<1>1. CASE UNCHANGED vars  BY <1>1 DEF vars
<1>2. ASSUME NEW l \in Login, BeginLogin(l)
      PROVE  LifetimeCapped'
  BY <1>2 DEF BeginLogin
<1>3. ASSUME NEW r \in Request, NEW l \in Login, ReadLogin(r, l)
      PROVE  LifetimeCapped'
  BY <1>3 DEF ReadLogin
<1>4. ASSUME NEW r \in Request, DeleteLogin(r)
      PROVE  LifetimeCapped'
  BY <1>4 DEF DeleteLogin
<1>5. ASSUME NEW r \in Request, NEW a \in Auth, ExchangeCode(r, a)
      PROVE  LifetimeCapped'
  BY <1>5 DEF ExchangeCode
<1>6. ASSUME NEW r \in Request, FindBinding(r)
      PROVE  LifetimeCapped'
  BY <1>6 DEF FindBinding
<1>7. ASSUME NEW r \in Request, UpsertAuthorization(r)
      PROVE  LifetimeCapped'
  BY <1>7 DEF UpsertAuthorization
<1>8. ASSUME NEW r \in Request, NEW s \in Session, CreateSession(r, s)
      PROVE  LifetimeCapped'
  <2> SUFFICES ASSUME AbsoluteTtl > 0, NEW q \in Session
               PROVE  session'[q].expires <= session'[q].created + AbsoluteTtl
    OBVIOUS
  <2> DEFINE e == ExpiresAt(req[r].start, req[r].start)
  <2>1. req[r].start \in Nat  BY DEF Req
  <2>2. e \in Nat /\ e <= req[r].start + AbsoluteTtl  BY <2>1, ExpiresCapped, ExpiresType
  <2>3. req[r].start <= now  BY DEF RecentInv, ReqRecent
  <2>4. /\ session'[s].expires = e
        /\ session'[s].created = now
        /\ q # s => session'[q] = session[q]
    BY <1>8 DEF CreateSession
  <2> HIDE DEF e
  <2>5. CASE q = s  BY <2>1, <2>2, <2>3, <2>4, <2>5
  <2>6. CASE q # s  BY <2>4, <2>6
  <2> QED  BY <2>5, <2>6
<1>9. ASSUME NEW r \in Request, NEW s \in Session, FindSession(r, s)
      PROVE  LifetimeCapped'
  BY <1>9 DEF FindSession, Captured, Dropping, Usable
<1>10. ASSUME NEW r \in Request, DropSession(r)
      PROVE  LifetimeCapped'
  BY <1>10 DEF DropSession
<1>11. ASSUME NEW r \in Request, CheckAuthorization(r)
      PROVE  LifetimeCapped'
  BY <1>11 DEF CheckAuthorization, Refusing
<1>12. ASSUME NEW r \in Request, ConfirmAuthorization(r)
      PROVE  LifetimeCapped'
  BY <1>12 DEF ConfirmAuthorization
<1>13. ASSUME NEW r \in Request, RefuseAuthorization(r)
      PROVE  LifetimeCapped'
  BY <1>13 DEF RefuseAuthorization
<1>14. ASSUME NEW r \in Request, PurgeSessions(r)
      PROVE  LifetimeCapped'
  BY <1>14 DEF PurgeSessions
<1>15. ASSUME NEW r \in Request, TouchSession(r)
      PROVE  LifetimeCapped'
  <2> SUFFICES ASSUME AbsoluteTtl > 0, NEW q \in Session
               PROVE  session'[q].expires <= session'[q].created + AbsoluteTtl
    OBVIOUS
  <2> DEFINE s == req[r].sel
             e == ExpiresAt(session[s].created, req[r].start)
  <2>1. s \in Session  BY <1>15 DEF TouchSession
  <2>2. req[r].start \in Nat /\ session[s].created \in Nat  BY <2>1 DEF Req, SessionRow
  <2>3. e \in Nat /\ e <= session[s].created + AbsoluteTtl
    BY <2>2, ExpiresCapped, ExpiresType
  <2>4. session' = session \/ session' = [session EXCEPT ![s].expires = e]
    BY <1>15 DEF TouchSession, Renewed
  <2> HIDE DEF e, s
  <2>5. /\ q # s => session'[q] = session[q]
        /\ session'[q].created = session[q].created
        /\ session'[s].expires \in {session[s].expires, e}
    BY <2>1, <2>4 DEF SessionRow
  <2>6. CASE q = s  BY <2>1, <2>2, <2>3, <2>5, <2>6
  <2>7. CASE q # s  BY <2>5, <2>7
  <2> QED  BY <2>6, <2>7
<1>16. ASSUME NEW r \in Request, SkipTouch(r)
      PROVE  LifetimeCapped'
  BY <1>16 DEF SkipTouch, Handle
<1>17. ASSUME NEW r \in Request, NEW n \in Name, BindUsername(r, n)
      PROVE  LifetimeCapped'
  BY <1>17 DEF BindUsername
<1>18. ASSUME NEW r \in Request, Logout(r)
      PROVE  LifetimeCapped'
  BY <1>18 DEF Logout, Dropping
<1>19. ASSUME NEW r \in Request, NEW n \in Name, DisableUser(r, n)
      PROVE  LifetimeCapped'
  BY <1>19 DEF DisableUser
<1>20. ASSUME NEW r \in Request, NEW n \in Name, EnableUser(r, n)
      PROVE  LifetimeCapped'
  BY <1>20 DEF EnableUser
<1>21. ASSUME NEW r \in Request, EndRequest(r)
      PROVE  LifetimeCapped'
  BY <1>21 DEF EndRequest
<1>22. ASSUME NEW r \in Request, NEW a \in Auth, RevocationWebhook(r, a)
      PROVE  LifetimeCapped'
  BY <1>22 DEF RevocationWebhook, Refusing
<1>23. ASSUME NEW a \in Auth, RemoteRevoke(a)
      PROVE  LifetimeCapped'
  BY <1>23 DEF RemoteRevoke
<1>24. CASE Tick  BY <1>24 DEF Tick
<1> HIDE DEF Inv1, LifetimeCapped
<1> QED
  BY <1>1, <1>2, <1>3, <1>4, <1>5, <1>6, <1>7, <1>8, <1>9, <1>10, <1>11,
     <1>12, <1>13, <1>14, <1>15, <1>16, <1>17, <1>18, <1>19, <1>20,
     <1>21, <1>22, <1>23, <1>24
  DEF Next, SignIn, Middleware, Handler

(* A session never outlives its absolute limit (LifetimeCapped).           *)
THEOREM LifetimeCorrect == Spec => []LifetimeCapped
<1>1. Init => LifetimeCapped  BY DEF Init, LifetimeCapped, Blank
<1> QED
  BY Inv1Correct, RecentInit, RecentNext, LifetimeNext, <1>1, PTL DEF Spec
-----------------------------------------------------------------------------
(* The steps that write a session delete it, or keep what it belongs to:   *)
(* one whose user is set belongs to a subject that is bound, which         *)
(* bind_username_to_subject refuses.                                       *)
THEOREM SessionStepNext == Inv1 /\ IdentityInv /\ [Next]_vars => SessionStep
<1> SUFFICES ASSUME Inv1, IdentityInv, [Next]_vars PROVE SessionStep  OBVIOUS
<1> USE DEF Inv1, TypeOK, Shape, WithAuth, WithSession, At, SessionStep, Blank,
            IdentityInv, IdentityAgrees, SessionsAgree, RowsAgree, CapturesAgree,
            Serving
<1>1. CASE UNCHANGED vars  BY <1>1 DEF vars
<1>2. ASSUME NEW l \in Login, BeginLogin(l)
      PROVE  SessionStep
  BY <1>2 DEF BeginLogin
<1>3. ASSUME NEW r \in Request, NEW l \in Login, ReadLogin(r, l)
      PROVE  SessionStep
  BY <1>3 DEF ReadLogin
<1>4. ASSUME NEW r \in Request, DeleteLogin(r)
      PROVE  SessionStep
  BY <1>4 DEF DeleteLogin
<1>5. ASSUME NEW r \in Request, NEW a \in Auth, ExchangeCode(r, a)
      PROVE  SessionStep
  BY <1>5 DEF ExchangeCode
<1>6. ASSUME NEW r \in Request, FindBinding(r)
      PROVE  SessionStep
  BY <1>6 DEF FindBinding
<1>7. ASSUME NEW r \in Request, UpsertAuthorization(r)
      PROVE  SessionStep
  BY <1>7 DEF UpsertAuthorization
<1>8. ASSUME NEW r \in Request, NEW s \in Session, CreateSession(r, s)
      PROVE  SessionStep
  BY <1>8 DEF CreateSession
<1>9. ASSUME NEW r \in Request, NEW s \in Session, FindSession(r, s)
      PROVE  SessionStep
  BY <1>9 DEF FindSession, Captured, Dropping, Usable
<1>10. ASSUME NEW r \in Request, DropSession(r)
      PROVE  SessionStep
  BY <1>10 DEF DropSession
<1>11. ASSUME NEW r \in Request, CheckAuthorization(r)
      PROVE  SessionStep
  BY <1>11 DEF CheckAuthorization, Refusing
<1>12. ASSUME NEW r \in Request, ConfirmAuthorization(r)
      PROVE  SessionStep
  BY <1>12 DEF ConfirmAuthorization
<1>13. ASSUME NEW r \in Request, RefuseAuthorization(r)
      PROVE  SessionStep
  BY <1>13 DEF RefuseAuthorization
<1>14. ASSUME NEW r \in Request, PurgeSessions(r)
      PROVE  SessionStep
  BY <1>14 DEF PurgeSessions
<1>15. ASSUME NEW r \in Request, TouchSession(r)
      PROVE  SessionStep
  BY <1>15 DEF TouchSession, Renewed, Handle
<1>16. ASSUME NEW r \in Request, SkipTouch(r)
      PROVE  SessionStep
  BY <1>16 DEF SkipTouch, Handle
<1>17. ASSUME NEW r \in Request, NEW n \in Name, BindUsername(r, n)
      PROVE  SessionStep
  BY <1>17 DEF BindUsername, Bindable
<1>18. ASSUME NEW r \in Request, Logout(r)
      PROVE  SessionStep
  BY <1>18 DEF Logout, Dropping
<1>19. ASSUME NEW r \in Request, NEW n \in Name, DisableUser(r, n)
      PROVE  SessionStep
  BY <1>19 DEF DisableUser
<1>20. ASSUME NEW r \in Request, NEW n \in Name, EnableUser(r, n)
      PROVE  SessionStep
  BY <1>20 DEF EnableUser
<1>21. ASSUME NEW r \in Request, EndRequest(r)
      PROVE  SessionStep
  BY <1>21 DEF EndRequest
<1>22. ASSUME NEW r \in Request, NEW a \in Auth, RevocationWebhook(r, a)
      PROVE  SessionStep
  BY <1>22 DEF RevocationWebhook, Refusing
<1>23. ASSUME NEW a \in Auth, RemoteRevoke(a)
      PROVE  SessionStep
  BY <1>23 DEF RemoteRevoke
<1>24. CASE Tick  BY <1>24 DEF Tick
<1> HIDE DEF Inv1, IdentityInv, SessionStep
<1> QED
  BY <1>1, <1>2, <1>3, <1>4, <1>5, <1>6, <1>7, <1>8, <1>9, <1>10, <1>11,
     <1>12, <1>13, <1>14, <1>15, <1>16, <1>17, <1>18, <1>19, <1>20,
     <1>21, <1>22, <1>23, <1>24
  DEF Next, SignIn, Middleware, Handler

(* A session that was deleted stays deleted, and keeps its authorization   *)
(* and its user while it lives (SessionOneWay).                            *)
THEOREM SessionOneWayCorrect == Spec => SessionOneWay
<1>1. Inv1 /\ IdentityInv /\ [Next]_vars => [SessionStep]_vars
  BY SessionStepNext
<1> QED
  BY Inv1Correct, IdentityInit, IdentityNext, <1>1, PTL DEF Spec, SessionOneWay
=============================================================================
