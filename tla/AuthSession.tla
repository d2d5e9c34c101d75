---------------------------- MODULE AuthSession ----------------------------
(***************************************************************************)
(* Sign-in through the external SSO, sessions, the cached status of SSO    *)
(* authorizations, registration of a user name, and the administrator's    *)
(* switch over accounts (server/src/auth/, server/src/db.rs,               *)
(* server/src/internal_api/v2/identity.rs).                                *)
(*                                                                         *)
(* One action is one SQL statement or transaction, one answer of the SSO,  *)
(* or the code between two awaits.  A request keeps in req[r] what it read *)
(* before an await: the middleware's SessionRecord, which every handler    *)
(* trusts, and the sign-in it is completing.  Any request may end after    *)
(* any step, on an error or because the process stops.                     *)
(*                                                                         *)
(* A user row is known by its user name, which is unique.  is_admin is     *)
(* only ever set by hand in the database: Admin is a constant.             *)
(***************************************************************************)
EXTENDS Integers

CONSTANTS
  Request,     \* requests in progress at the same time
  Login,       \* pending_sso_logins.state values
  Session,     \* session selectors
  Subject,     \* SSO subjects
  Auth,        \* SSO authorizations
  Name,        \* user names
  None,        \* NULL
  SubjectOf,   \* the subject of an authorization, decided by the SSO
  Admin,       \* the users with is_admin
  Founder,     \* the subjects of the users registered and enabled so far
  CacheTtl,    \* sso.authorization_cache_ttl_seconds
  Latency,     \* the time limit of auth_http_client
  LoginTtl,    \* session.pending_login_ttl_seconds
  SessionTtl,  \* session.ttl_hours
  AbsoluteTtl, \* session.absolute_ttl_hours, 0 for no limit
  MaxTime      \* bound: the clock

ASSUME AuthAssumption ==
  /\ SubjectOf \in [Auth -> Subject]
  /\ None \notin Subject \cup Name \cup Session \cup Auth \cup Login
  /\ Admin \subseteq Name
  /\ Founder \in [Name -> Subject \cup {None}]
  /\ \A m, n \in Name : Founder[m] = Founder[n] => m = n \/ Founder[m] = None
  /\ {CacheTtl, Latency, LoginTtl, SessionTtl, AbsoluteTtl, MaxTime} \subseteq Nat

VARIABLES
  now,       \* the clock
  remote,    \* what the SSO says of each authorization
  revokedAt, \* history: when it revoked the authorization
  pending,   \* expires_at of the pending login, None if there is no row
  row,       \* iam.user_sso_authorizations
  session,   \* iam.sessions
  account,   \* iam.users: "absent", "disabled" (disabled_at set) or "enabled"
  binding,   \* iam.user_sso_subjects: the user of a subject
  approved,  \* history: the users enabled at some time
  req        \* what each request has read, and what it does next

vars == <<now, remote, revokedAt, pending, row, session, account, binding,
          approved, req>>

Min2(a, b) == IF a < b THEN a ELSE b

Row == [status: {"absent", "active", "revoked"}, checked: Nat,
        user: Name \cup {None}]
SessionRow == [state: {"unused", "live", "gone"}, auth: Auth \cup {None},
               user: Name \cup {None}, reg: {"pending", "active", None},
               created: Nat, expires: Nat]
Stage == {"idle", "consume", "exchange", "binding", "upsert", "create",
          "drop", "check", "confirm", "refuse", "purge", "admitted", "handler"}
Req == [pc: Stage, login: Login \cup {None}, sel: Session \cup {None},
        auth: Auth \cup {None}, user: Name \cup {None},
        reg: {"pending", "active", None}, disabled: BOOLEAN,
        start: Nat, at: Nat]

NoRow == [status |-> "absent", checked |-> 0, user |-> None]
Blank(state) == [state |-> state, auth |-> None, user |-> None, reg |-> None,
                 created |-> 0, expires |-> 0]
Idle == [pc |-> "idle", login |-> None, sel |-> None, auth |-> None,
         user |-> None, reg |-> None, disabled |-> FALSE, start |-> 0, at |-> 0]

TypeOK ==
  /\ now \in Nat
  /\ remote \in [Auth -> {"none", "active", "revoked"}]
  /\ revokedAt \in [Auth -> Nat]
  /\ pending \in [Login -> Nat \cup {None}]
  /\ row \in [Auth -> Row]
  /\ session \in [Session -> SessionRow]
  /\ account \in [Name -> {"absent", "disabled", "enabled"}]
  /\ binding \in [Subject -> Name \cup {None}]
  /\ approved \subseteq Name
  /\ req \in [Request -> Req]

Init ==
  /\ now = 0
  /\ remote = [a \in Auth |-> "none"]
  /\ revokedAt = [a \in Auth |-> 0]
  /\ pending = [l \in Login |-> None]
  /\ row = [a \in Auth |-> NoRow]
  /\ session = [s \in Session |-> Blank("unused")]
  /\ account = [n \in Name |-> IF Founder[n] = None THEN "absent" ELSE "enabled"]
  /\ binding = [u \in Subject |-> IF \E n \in Name : Founder[n] = u
                                    THEN CHOOSE n \in Name : Founder[n] = u
                                    ELSE None]
  /\ approved = {n \in Name : Founder[n] # None}
  /\ req = [r \in Request |-> Idle]

At(r, stage) == req[r].pc = stage
Finish(r) == req' = [req EXCEPT ![r] = Idle]
Continue(r, stage) == req' = [req EXCEPT ![r].pc = stage]

----------------------------------------------------------------------------
(* Sign-in *)

\* begin_sso_login: drop the expired logins and record a new one.  Its state
\* is a fresh UUID, which nothing in progress can hold.
BeginLogin(l) ==
  /\ pending[l] = None
  /\ \A r \in Request : req[r].login # l
  /\ pending' = [k \in Login |->
                   IF k = l THEN now + LoginTtl
                   ELSE IF pending[k] # None /\ pending[k] <= now THEN None
                   ELSE pending[k]]
  /\ UNCHANGED <<now, remote, revokedAt, row, session, account, binding,
                 approved, req>>

\* The first statement of consume_pending_sso_login; the row is not locked.
ReadLogin(r, l) ==
  /\ At(r, "idle")
  /\ pending[l] # None
  /\ req' = [req EXCEPT ![r] = [Idle EXCEPT !.pc = "consume", !.login = l,
                                            !.start = now, !.at = pending[l]]]
  /\ UNCHANGED <<now, remote, revokedAt, pending, row, session, account,
                 binding, approved>>

\* The second statement and the commit.  That the DELETE may find no row is
\* not looked at; a login that has expired ends the request.
DeleteLogin(r) ==
  /\ At(r, "consume")
  /\ pending' = [pending EXCEPT ![req[r].login] = None]
  /\ IF req[r].at > req[r].start
     THEN req' = [req EXCEPT ![r] = [Idle EXCEPT !.pc = "exchange",
                                                 !.start = req[r].start]]
     ELSE Finish(r)
  /\ UNCHANGED <<now, remote, revokedAt, row, session, account, binding,
                 approved>>

\* The SSO exchanges the code for an authorization of the subject that signed
\* in, a new one or one it still holds active.
ExchangeCode(r, a) ==
  /\ At(r, "exchange")
  /\ remote[a] # "revoked"
  /\ remote' = [remote EXCEPT ![a] = "active"]
  /\ req' = [req EXCEPT ![r].pc = "binding", ![r].auth = a]
  /\ UNCHANGED <<now, revokedAt, pending, row, session, account, binding,
                 approved>>

BoundUser(a) == binding[SubjectOf[a]]

FindBinding(r) ==
  /\ At(r, "binding")
  /\ req' = [req EXCEPT ![r].pc = "upsert", ![r].user = BoundUser(req[r].auth)]
  /\ UNCHANGED <<now, remote, revokedAt, pending, row, session, account,
                 binding, approved>>

\* As UpsertedUser, without COALESCE.
UpsertedUserPlain(r) == req[r].user

\* A user already there is not overwritten by NULL.
UpsertedUser(r) ==
  IF req[r].user # None THEN req[r].user ELSE row[req[r].auth].user

\* last_checked_at is the time the callback began.
UpsertAuthorization(r) ==
  /\ At(r, "upsert")
  /\ row' = [row EXCEPT ![req[r].auth] =
               [status |-> "active", checked |-> req[r].start,
                user |-> UpsertedUser(r)]]
  /\ Continue(r, "create")
  /\ UNCHANGED <<now, remote, revokedAt, pending, session, account, binding,
                 approved>>

\* As ExpiresAt, without the absolute limit.
ExpiresAtUncapped(created, time) == time + SessionTtl

\* session_expires_at
ExpiresAt(created, time) ==
  IF AbsoluteTtl > 0 THEN Min2(time + SessionTtl, created + AbsoluteTtl)
                     ELSE time + SessionTtl

CreateSession(r, s) ==
  /\ At(r, "create")
  /\ session[s].state = "unused"
  /\ session' = [session EXCEPT ![s] =
       [state |-> "live", auth |-> req[r].auth, user |-> req[r].user,
        reg |-> IF req[r].user = None THEN "pending" ELSE "active",
        created |-> now, expires |-> ExpiresAt(req[r].start, req[r].start)]]
  /\ Finish(r)
  /\ UNCHANGED <<now, remote, revokedAt, pending, row, account, binding,
                 approved>>
----------------------------------------------------------------------------
(* resolve_request_session, before every handler *)

\* The session, its user and its authorization as one statement finds them.
Captured(s, stage) ==
  LET x == session[s] IN
  [Idle EXCEPT !.pc = stage, !.sel = s, !.auth = x.auth, !.user = x.user,
               !.reg = x.reg, !.start = now, !.at = now,
               !.disabled = x.user # None /\ account[x.user] = "disabled"]

Usable(s) == session[s].expires > now /\ row[session[s].auth].status = "active"

\* As CacheFresh, with no limit.
CacheTrusted(a) == row[a].status = "active"

CacheFresh(a) == row[a].checked + CacheTtl > now

Dropping(s) == [Idle EXCEPT !.pc = "drop", !.sel = s]

\* An expired session, or one of a revoked authorization, will be deleted;
\* others go to the handler, or to the SSO first.
FindSession(r, s) ==
  /\ At(r, "idle")
  /\ session[s].state = "live"
  /\ req' = [req EXCEPT ![r] =
               IF ~Usable(s) THEN Dropping(s)
               ELSE Captured(s, IF CacheFresh(session[s].auth) THEN "admitted"
                                ELSE "check")]
  /\ UNCHANGED <<now, remote, revokedAt, pending, row, session, account,
                 binding, approved>>

\* delete_session
DropSession(r) ==
  /\ At(r, "drop")
  /\ session' = [session EXCEPT ![req[r].sel] = Blank("gone")]
  /\ Finish(r)
  /\ UNCHANGED <<now, remote, revokedAt, pending, row, account, binding,
                 approved>>

Refusing(a) == [Idle EXCEPT !.pc = "refuse", !.auth = a]

\* check_authorization: the SSO answers.  "revoked" also stands for 404.
CheckAuthorization(r) ==
  /\ At(r, "check")
  /\ req' = [req EXCEPT ![r] =
               IF remote[req[r].auth] = "active"
               THEN [req[r] EXCEPT !.pc = "confirm", !.at = now]
               ELSE Refusing(req[r].auth)]
  /\ UNCHANGED <<now, remote, revokedAt, pending, row, session, account,
                 binding, approved>>

\* The times at which the code may have read the clock after an answer given
\* at req[r].at: the client gives up on an answer slower than Latency.
ArrivalTimes(r) == req[r].at .. Min2(req[r].at + Latency, now)

\* update_authorization_status, unconditional: the row says what this request
\* was told, whatever another request has written since.
ConfirmAuthorization(r) ==
  /\ At(r, "confirm")
  /\ \E t \in ArrivalTimes(r) :
       /\ row' = [row EXCEPT ![req[r].auth].status = "active",
                             ![req[r].auth].checked = t]
       /\ req' = [req EXCEPT ![r].pc = "admitted", ![r].at = t]
  /\ UNCHANGED <<now, remote, revokedAt, pending, session, account, binding,
                 approved>>

\* The last_checked_at of a row that is not active is never read.
RefuseAuthorization(r) ==
  /\ At(r, "refuse")
  /\ LET a == req[r].auth IN
       /\ row' = IF row[a].status = "absent" THEN row
                 ELSE [row EXCEPT ![a].status = "revoked", ![a].checked = 0]
       /\ req' = [req EXCEPT ![r] = [Idle EXCEPT !.pc = "purge", !.auth = a]]
  /\ UNCHANGED <<now, remote, revokedAt, pending, session, account, binding,
                 approved>>

\* delete_sessions_by_authorization, a statement of its own.
PurgeSessions(r) ==
  /\ At(r, "purge")
  /\ session' = [s \in Session |->
                   IF session[s].state = "live" /\ session[s].auth = req[r].auth
                   THEN Blank("gone") ELSE session[s]]
  /\ Finish(r)
  /\ UNCHANGED <<now, remote, revokedAt, pending, row, account, binding,
                 approved>>

\* revocation_webhook, up to the SSO's answer; an active authorization is
\* left alone.
RevocationWebhook(r, a) ==
  /\ At(r, "idle")
  /\ remote[a] # "active"
  /\ req' = [req EXCEPT ![r] = Refusing(a)]
  /\ UNCHANGED <<now, remote, revokedAt, pending, row, session, account,
                 binding, approved>>

Handle(r) == req' = [req EXCEPT ![r].pc = "handler", ![r].start = 0]

\* touch_session updates no row if the session has been deleted.
Renewed(r) ==
  LET s == req[r].sel IN
  IF session[s].state # "live" THEN session
  ELSE [session EXCEPT ![s].expires = ExpiresAt(session[s].created, req[r].start)]

\* When session.auto_renew is set and the path renews.
TouchSession(r) ==
  /\ At(r, "admitted")
  /\ session' = Renewed(r)
  /\ Handle(r)
  /\ UNCHANGED <<now, remote, revokedAt, pending, row, account, binding,
                 approved>>

SkipTouch(r) ==
  /\ At(r, "admitted")
  /\ Handle(r)
  /\ UNCHANGED <<now, remote, revokedAt, pending, row, session, account,
                 binding, approved>>
----------------------------------------------------------------------------
(* The handlers *)

\* require_registered_session
Registered(r) ==
  At(r, "handler") /\ req[r].reg = "active" /\ ~req[r].disabled

\* require_admin_session, or require_capability(IdentityWrite)
IsAdmin(r) == Registered(r) /\ req[r].user \in Admin

\* As Bindable, without the unique constraint on sso_subject_id.
NameFree(u, n) == account[n] = "absent"

\* A user name or a subject that is taken violates a unique constraint and
\* rolls everything back.
Bindable(u, n) == account[n] = "absent" /\ binding[u] = None

\* As NewAccount, without the activation.
NewAccountOpen == "enabled"

\* disabled_at is set when the row is inserted.
NewAccount == "disabled"

\* bind_username_to_subject: one transaction.
BindUsername(r, n) ==
  LET a == req[r].auth
      s == req[r].sel IN
  /\ At(r, "handler")
  /\ req[r].reg = "pending"
  /\ Bindable(SubjectOf[a], n)
  /\ account' = [account EXCEPT ![n] = NewAccount]
  /\ binding' = [binding EXCEPT ![SubjectOf[a]] = n]
  /\ row' = [row EXCEPT ![a].user = n]
  /\ session' = IF session[s].state # "live" THEN session
                ELSE [session EXCEPT ![s].user = n, ![s].reg = "active"]
  /\ Finish(r)
  /\ UNCHANGED <<now, remote, revokedAt, pending, approved>>

\* internal_logout: ask the SSO to revoke the authorization, ignore whether
\* it did, and delete this session.
Logout(r) ==
  /\ At(r, "handler")
  /\ LET a == req[r].auth IN
       \/ UNCHANGED <<remote, revokedAt>>
       \/ /\ remote[a] = "active"
          /\ remote' = [remote EXCEPT ![a] = "revoked"]
          /\ revokedAt' = [revokedAt EXCEPT ![a] = now]
  /\ req' = [req EXCEPT ![r] = Dropping(req[r].sel)]
  /\ UNCHANGED <<now, pending, row, session, account, binding, approved>>

\* disable_user: the account and its sessions, in one transaction.
DisableUser(r, n) ==
  /\ IsAdmin(r)
  /\ n # req[r].user
  /\ account[n] = "enabled"
  /\ account' = [account EXCEPT ![n] = "disabled"]
  /\ session' = [s \in Session |->
                   IF session[s].state = "live" /\ session[s].user = n
                   THEN Blank("gone") ELSE session[s]]
  /\ Finish(r)
  /\ UNCHANGED <<now, remote, revokedAt, pending, row, binding, approved>>

EnableUser(r, n) ==
  /\ IsAdmin(r)
  /\ account[n] = "disabled"
  /\ account' = [account EXCEPT ![n] = "enabled"]
  /\ approved' = approved \cup {n}
  /\ Finish(r)
  /\ UNCHANGED <<now, remote, revokedAt, pending, row, session, binding>>

\* A handler that changes nothing here, an error, a refusal or a crash.
EndRequest(r) ==
  /\ ~At(r, "idle")
  /\ Finish(r)
  /\ UNCHANGED <<now, remote, revokedAt, pending, row, session, account,
                 binding, approved>>
----------------------------------------------------------------------------
(* The SSO and the clock *)

RemoteRevoke(a) ==
  /\ remote[a] = "active"
  /\ remote' = [remote EXCEPT ![a] = "revoked"]
  /\ revokedAt' = [revokedAt EXCEPT ![a] = now]
  /\ UNCHANGED <<now, pending, row, session, account, binding, approved, req>>

Tick ==
  /\ now < MaxTime
  /\ now' = now + 1
  /\ UNCHANGED <<remote, revokedAt, pending, row, session, account, binding,
                 approved, req>>

SignIn(r) ==
  \/ \E l \in Login : ReadLogin(r, l)
  \/ DeleteLogin(r)
  \/ \E a \in Auth : ExchangeCode(r, a)
  \/ FindBinding(r)
  \/ UpsertAuthorization(r)
  \/ \E s \in Session : CreateSession(r, s)

Middleware(r) ==
  \/ \E s \in Session : FindSession(r, s)
  \/ DropSession(r)
  \/ CheckAuthorization(r)
  \/ ConfirmAuthorization(r)
  \/ RefuseAuthorization(r)
  \/ PurgeSessions(r)
  \/ TouchSession(r)
  \/ SkipTouch(r)

Handler(r) ==
  \/ \E n \in Name : BindUsername(r, n)
  \/ Logout(r)
  \/ \E n \in Name : DisableUser(r, n)
  \/ \E n \in Name : EnableUser(r, n)
  \/ EndRequest(r)

Next ==
  \/ \E l \in Login : BeginLogin(l)
  \/ \E r \in Request : \/ SignIn(r)
                        \/ Middleware(r)
                        \/ Handler(r)
                        \/ \E a \in Auth : RevocationWebhook(r, a)
  \/ \E a \in Auth : RemoteRevoke(a)
  \/ Tick

Spec == Init /\ [][Next]_vars
----------------------------------------------------------------------------
(* Properties *)

Admitted(r) == At(r, "admitted") \/ At(r, "handler")

\* The status is cached for CacheTtl, a request that was told "active" may
\* overwrite what the webhook wrote, and a sign-in under way recreates what
\* the webhook deleted.  Even so, no request reaches a handler on a decision
\* taken more than CacheTtl and one answer's delay after the SSO revoked the
\* authorization (refresh_authorization_if_needed, sso_callback).
RevocationTakesHold ==
  \A r \in Request : Admitted(r) /\ remote[req[r].auth] = "revoked" =>
    req[r].at <= revokedAt[req[r].auth] + CacheTtl + Latency

SessionsAgree ==
  \A s \in Session : session[s].state = "live" =>
    /\ (session[s].reg = "active") <=> (session[s].user # None)
    /\ session[s].user # None => row[session[s].auth].user = session[s].user

RowsAgree ==
  \A a \in Auth : row[a].user # None => binding[SubjectOf[a]] = row[a].user

AccountsAgree ==
  /\ \A n \in Name : account[n] # "absent" <=> \E u \in Subject : binding[u] = n
  /\ \A u, v \in Subject : binding[u] = binding[v] => u = v \/ binding[u] = None

\* Two sign-ins of one subject, two registrations of one session and an
\* upsert that read the binding before a registration leave the four tables
\* in agreement: a session is registered exactly if it has a user, its
\* authorization has the same user, who is the one bound to the subject, and
\* an account is that of exactly one subject (find_subject_binding to
\* create_session, bind_username_to_subject).
IdentityAgrees == SessionsAgree /\ RowsAgree /\ AccountsAgree

\* The documentation (docs/api.md:254): after registering, an account can be
\* used only once an administrator has enabled it.  No order of registration,
\* second sign-in and requests in progress admits an account before.
ActivationRequired ==
  \A r \in Request : Registered(r) => req[r].user \in approved

SessionStep ==
  \A s \in Session :
    /\ session[s].state = "gone" => session'[s].state = "gone"
    /\ session[s].state = "live" =>
         \/ session'[s].state = "gone"
         \/ /\ session'[s].state = "live"
            /\ session'[s].auth = session[s].auth
            /\ session[s].user # None => session'[s].user = session[s].user

\* A selector is used once: a session that was deleted, by a logout, a
\* revocation or a disabled account, is not brought back by a request that
\* still renews it, and while it lives it keeps its authorization and, once
\* it has one, its user (touch_session, bind_username_to_subject).
SessionOneWay == [][SessionStep]_vars

\* Renewals, in whatever order they arrive, never carry a session past its
\* absolute limit (session_expires_at).
LifetimeCapped ==
  AbsoluteTtl > 0 =>
    \A s \in Session : session[s].expires <= session[s].created + AbsoluteTtl
=============================================================================
