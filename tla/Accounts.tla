------------------------------ MODULE Accounts ------------------------------
(***************************************************************************)
(* User accounts: the first administrator, logins by password, passkey or  *)
(* OAuth identity, the second factor and its recovery codes, sessions, and *)
(* the administrator's changes to a user.  Each handler is a few store     *)
(* calls; between two of them the other requests run.  A ticket is a       *)
(* one-time token the Panel hands out (an MFA challenge, a passkey         *)
(* ceremony, an OAuth state, an e-mail confirmation).                      *)
(* What a caller proves (a password, a TOTP code, an identity) is an input.*)
(* The attempt limiter is keyed by the caller's address too, so an attempt *)
(* from another address always passes it; it and the failure counter are   *)
(* abstracted: a failed login may or may not lock the account.  A user who *)
(* is disabled or locked is "barred": no guard tells the two apart.        *)
(***************************************************************************)
EXTENDS Naturals, Sequences, FiniteSets

CONSTANTS
  Users,      \* user ids
  Procs,      \* requests that may be in flight together
  Subjects,   \* identities at an OAuth provider
  None,       \* an absent id
  MfaModes,   \* the second-factor policies an administrator may set
  Statuses,   \* the statuses an administrator gives a user
  MaxIssued   \* bound: sessions, tickets and sets of recovery codes ever issued

ASSUME AccountsAssumption == None \notin Users \cup Subjects /\ MaxIssued \in Nat

VARIABLES
  user,      \* user -> its row, its second factor and its passkeys
  sess,      \* sessions, in order of creation
  ticket,    \* tickets, in order of creation
  links,     \* oauth_user_links: <<subject, user>>
  req,       \* process -> the request it is serving
  codeUse,   \* recovery code -> how often it was accepted (a ghost)
  founders   \* users created by the setup page (a ghost)

vars == <<user, sess, ticket, links, req, codeUse, founders>>

Absent == [st |-> "absent", admin |-> FALSE, mfa |-> FALSE, pending |-> FALSE, codes |-> {},
           passkey |-> FALSE]
Idle == [op |-> "idle", u |-> None, x |-> 0]
Deleted == [Absent EXCEPT !.st = "deleted"]
Gone == [u |-> None, st |-> "gone"]

Init ==
  /\ user = [u \in Users |-> Absent]
  /\ sess = <<>> /\ ticket = <<>> /\ links = {}
  /\ req = [p \in Procs |-> Idle]
  /\ codeUse = <<>> /\ founders = {}

\* A request goes on to its next store call, or is answered.
Serve(p, op, u, x) == req' = [req EXCEPT ![p] = [op |-> op, u |-> u, x |-> x]]
Done(p) == req' = [req EXCEPT ![p] = Idle]
Room == Len(sess) + Len(ticket) + Len(codeUse) < MaxIssued

\* ------------------------------------------------------------------ sessions --

GetUser(u) == u # None /\ user[u].st \notin {"absent", "deleted"}
Barred(u) == user[u].st = "barred"

GetSession(i) == sess[i].st = "live"

\* The user must exist; the user's status is not asked for.
Authenticated(i) == GetSession(i) /\ GetUser(sess[i].u)

\* Until the password is changed only the account's own pages are served.
Permitted(i) == Authenticated(i) /\ user[sess[i].u].st # "pending_password_change"

CreateSession(u) == Room /\ sess' = Append(sess, [u |-> u, st |-> "live"])

DeleteSession(i) == sess' = [sess EXCEPT ![i] = Gone]

DeleteUserSessions(u) ==
  sess' = [i \in DOMAIN sess |-> IF sess[i].u = u THEN Gone ELSE sess[i]]

\* Mutant: the refresh writes the session it has read.
RefreshUpserts(i, u) == sess' = [sess EXCEPT ![i] = [u |-> u, st |-> "live"]]

\* The idle deadline moves only if the row is still there.  The clock was read
\* when the request came, so a deadline that has passed since then moves too.
RefreshSessionAt(i, u) ==
  sess' = IF sess[i].st = "gone" THEN sess ELSE [sess EXCEPT ![i].st = "live"]

\* The update locks an account whatever its status is.
RecordLoginFailure(u) ==
  IF GetUser(u) THEN UNCHANGED user \/ user' = [user EXCEPT ![u].st = "barred"] ELSE UNCHANGED user

\* ------------------------------------------------------------------- tickets --

Issue(kind, u) ==
  Room /\ ticket' = Append(ticket, [kind |-> kind, u |-> u, uses |-> 0])

\* A row that is gone holds nothing.
Withdrawn(t) == [ticket[t] EXCEPT !.kind = "spent", !.u = None]

\* The row is locked, deleted and only then acted on.
Spend(t) == ticket' = [ticket EXCEPT ![t] = [Withdrawn(t) EXCEPT !.uses = @ + 1]]

CreateMFAChallenge(u) == Issue("mfa", u)
GetMFAChallenge(t) == ticket[t].kind = "mfa"
DeleteMFAChallenge(t) == ticket' = [ticket EXCEPT ![t] = Withdrawn(t)]

CreatePasskeyCeremonySession(ceremony, u) == Issue(ceremony, u)

\* A ceremony of the other kind is deleted as well, and refused.
ConsumePasskeyCeremonySession(t) == ticket[t].kind \in {"login", "registration"} /\ Spend(t)

CreateOAuthLoginState(purpose) == Issue(purpose, None)
ConsumeOAuthLoginState(t) == ticket[t].kind \in {"oauth_login", "account_link"} /\ Spend(t)

CreateEmailChangeChallenge(u) == Issue("email", u)
ConsumeEmailChangeChallenge(t) == ticket[t].kind = "email" /\ Spend(t)

\* ----------------------------------------------------------- the second factor --

\* The second factor is asked for if the user has one or the policy wants one.
PasskeyRequired(mode) == mode = "passkey"
LoginMFARequirement(u, mode) == user[u].mfa \/ mode = "totp"

\* Mutant: a recovery code is accepted because it was there when the
\* configuration was read.
ConsumeStale(u, c) ==
  /\ user' = [user EXCEPT ![u].codes = @ \ {c}]
  /\ codeUse' = [codeUse EXCEPT ![c] = @ + 1]

\* The row is locked, and the code must still be among the hashes.
ConsumeRecoveryCode(u, c) ==
  /\ user[u].mfa /\ c \in user[u].codes
  /\ user' = [user EXCEPT ![u].codes = @ \ {c}]
  /\ codeUse' = [codeUse EXCEPT ![c] = @ + 1]

NewCodes(u, row) ==
  /\ Room
  /\ codeUse' = Append(codeUse, 0)
  /\ user' = [user EXCEPT ![u] = [row EXCEPT !.codes = {Len(codeUse) + 1}]]

\* The new codes replace the ones in use although the new secret is not
\* confirmed yet.
StartTOTPEnrollment(u) == NewCodes(u, [user[u] EXCEPT !.pending = TRUE])

ConfirmTOTPEnrollment(u) ==
  user[u].pending /\ user' = [user EXCEPT ![u].mfa = TRUE, ![u].pending = FALSE]

DisableMFA(u) == user' = [user EXCEPT ![u].mfa = FALSE, ![u].pending = FALSE, ![u].codes = {}]

RegenerateRecoveryCodes(u) == user[u].mfa /\ NewCodes(u, user[u])

CreatePasskeyCredential(u) == user' = [user EXCEPT ![u].passkey = TRUE]
FindPasskeyCredential(u) == user[u].passkey
DeletePasskeyCredential(u) == user[u].passkey /\ user' = [user EXCEPT ![u].passkey = FALSE]

\* ------------------------------------------------------------ identities, users --

FindOAuthUserLink(s) == {u \in Users : <<s, u>> \in links}

\* Mutant: an identity is linked without the unique key.
LinkAgain(s, u) == links' = links \cup {<<s, u>>}

LinkOAuthUser(s, u) == FindOAuthUserLink(s) = {} /\ links' = links \cup {<<s, u>>}

DeleteOAuthUserLink(s, u) == <<s, u>> \in links /\ links' = links \ {<<s, u>>}

\* Mutant: the role's name need not be new.
CreateFirstAdminAgain(u) ==
  /\ user[u].st = "absent"
  /\ user' = [user EXCEPT ![u] = [Absent EXCEPT !.st = "active", !.admin = TRUE]]

\* The role super_admin is created with the user, and its name is unique.
CreateFirstAdmin(u) ==
  /\ user[u].st = "absent" /\ founders = {}
  /\ user' = [user EXCEPT ![u] = [Absent EXCEPT !.st = "active", !.admin = TRUE]]

CreateOAuthUser(u) ==
  user[u].st = "absent" /\ user' = [user EXCEPT ![u] = [Absent EXCEPT !.st = "active"]]

CreateUser(u) ==
  user[u].st = "absent" /\ user' = [user EXCEPT ![u] = [Absent EXCEPT !.st = "pending_password_change"]]

\* The password is not in the model, the status is.
ChangePassword(u) == user' = [user EXCEPT ![u].st = "active"]
ResetPassword(u) == GetUser(u) /\ user' = [user EXCEPT ![u].st = "pending_password_change"]

UpdateUser(u, admin) ==
  user' = IF GetUser(u) THEN [user EXCEPT ![u].admin = admin] ELSE user

CountActiveSuperAdmins == Cardinality({u \in Users : user[u].admin /\ user[u].st = "active"})

\* The count is read before the status is written, in a statement of its own.
MaySetStatus(u, st) == user[u].admin /\ st = "barred" => CountActiveSuperAdmins > 1
SetUserStatus(u, st) == user' = IF GetUser(u) THEN [user EXCEPT ![u].st = st] ELSE user

\* The last active administrator stays.
MayDelete(u) == user[u].admin /\ user[u].st = "active" => CountActiveSuperAdmins > 1

\* Everything the user has goes with the row, in one transaction.  The id is
\* never used again.
DeleteUser(u) ==
  /\ user' = [user EXCEPT ![u] = Deleted]
  /\ DeleteUserSessions(u)
  /\ ticket' = [t \in DOMAIN ticket |-> IF ticket[t].u = u THEN Withdrawn(t) ELSE ticket[t]]
  /\ links' = {l \in links : l[2] # u}

\* ----------------------------------------------------------------- the setup --

SetupFirstAdmin(p) ==
  /\ \/ /\ req[p] = Idle /\ \A u \in Users : ~GetUser(u)
        /\ Serve(p, "setup", None, 0) /\ UNCHANGED <<user, founders>>
     \/ /\ req[p].op = "setup" /\ Done(p)
        /\ \/ \E u \in Users : CreateFirstAdmin(u) /\ founders' = founders \cup {u}
           \/ UNCHANGED <<user, founders>>
  /\ UNCHANGED <<sess, ticket, links, codeUse>>

\* -------------------------------------------------------------------- logins --

\* What follows a proved identity: refused when the policy wants a factor the
\* user does not have.
Proceed(p, u, mode) ==
  \/ LoginMFARequirement(u, mode) /\ user[u].mfa /\ CreateMFAChallenge(u) /\ Done(p)
  \/ LoginMFARequirement(u, mode) /\ ~user[u].mfa /\ Done(p) /\ UNCHANGED ticket
  \/ ~LoginMFARequirement(u, mode) /\ Serve(p, "complete", u, 0) /\ UNCHANGED ticket

Login(p, u, correct, mode) ==
  /\ req[p] = Idle /\ GetUser(u)
  /\ IF Barred(u) \/ ~correct
       THEN RecordLoginFailure(u) /\ UNCHANGED <<req, ticket>>
       ELSE UNCHANGED user /\ ~PasskeyRequired(mode) /\ Proceed(p, u, mode)
  /\ UNCHANGED <<sess, links, codeUse, founders>>

\* The session is created whatever happened to the user in between.
CompleteLogin(p) ==
  /\ req[p].op = "complete"
  /\ CreateSession(req[p].u) /\ Done(p)
  /\ UNCHANGED <<user, ticket, links, codeUse, founders>>

StartPasskeyLogin ==
  /\ CreatePasskeyCeremonySession("login", None)
  /\ UNCHANGED <<user, sess, links, req, codeUse, founders>>

\* The ceremony is consumed, then the credential names the user.
FinishPasskeyLogin(p, mode) ==
  /\ \/ /\ req[p] = Idle
        /\ \E t \in DOMAIN ticket :
             /\ ConsumePasskeyCeremonySession(t)
             /\ IF ticket[t].kind = "login" THEN Serve(p, "passkey", None, 0) ELSE UNCHANGED req
     \/ /\ req[p].op = "passkey"
        /\ \/ \E u \in Users : GetUser(u) /\ FindPasskeyCredential(u) /\ Proceed(p, u, mode)
           \/ Done(p) /\ UNCHANGED ticket
  /\ UNCHANGED <<user, sess, links, codeUse, founders>>

StartOAuthLogin ==
  /\ CreateOAuthLoginState("oauth_login")
  /\ UNCHANGED <<user, sess, links, req, codeUse, founders>>

StartCurrentUserOAuthLink(i) ==
  /\ Permitted(i) /\ CreateOAuthLoginState("account_link")
  /\ UNCHANGED <<user, sess, links, req, codeUse, founders>>

ContinueOAuthLogin(p, u, mode) ==
  IF PasskeyRequired(mode) THEN Done(p) /\ UNCHANGED ticket ELSE Proceed(p, u, mode)

\* The state is consumed before the provider is asked who the caller is; a
\* caller it does not vouch for is turned away.
FinishOAuthLogin(p, s, mode) ==
  /\ \/ /\ req[p] = Idle
        /\ \E t \in DOMAIN ticket : ConsumeOAuthLoginState(t) /\ Serve(p, ticket[t].kind, None, 0)
     \/ /\ req[p].op = "oauth_login"
        /\ \/ \E u \in FindOAuthUserLink(s) :
                GetUser(u) /\ ~Barred(u) /\ ContinueOAuthLogin(p, u, mode)
           \/ Done(p) /\ UNCHANGED ticket
  /\ UNCHANGED <<user, sess, links, codeUse, founders>>

\* An unknown identity gets a new user, then a link.  If another callback has
\* linked it meanwhile the new user stays behind without a link.
AutoProvisionOAuthUser(p, s, mode) ==
  /\ \/ /\ req[p].op = "oauth_login" /\ FindOAuthUserLink(s) = {}
        /\ \E u \in Users : CreateOAuthUser(u) /\ Serve(p, "provisioned", u, s)
        /\ UNCHANGED <<ticket, links>>
     \/ /\ req[p].op = "provisioned" /\ req[p].x = s /\ UNCHANGED user
        /\ IF GetUser(req[p].u) /\ FindOAuthUserLink(s) = {}
             THEN LinkOAuthUser(s, req[p].u) /\ ContinueOAuthLogin(p, req[p].u, mode)
             ELSE Done(p) /\ UNCHANGED <<ticket, links>>
  /\ UNCHANGED <<sess, codeUse, founders>>

\* A signed-in user links an identity nobody has.
FinishCurrentUserOAuthLink(p, s) ==
  /\ \/ /\ req[p].op = "account_link" /\ UNCHANGED links
        /\ \/ \E i \in DOMAIN sess : /\ Authenticated(i) /\ ~Barred(sess[i].u) /\ FindOAuthUserLink(s) = {}
                                     /\ Serve(p, "link", sess[i].u, s)
           \/ Done(p)
     \/ /\ req[p].op = "link" /\ req[p].x = s /\ Done(p)
        /\ IF GetUser(req[p].u) THEN LinkOAuthUser(s, req[p].u) \/ UNCHANGED links ELSE UNCHANGED links
  /\ UNCHANGED <<user, sess, ticket, codeUse, founders>>

\* The user, or an administrator for the user.
DeleteUserOAuthLink(s, u) ==
  /\ \E i \in DOMAIN sess : Permitted(i)
  /\ DeleteOAuthUserLink(s, u)
  /\ UNCHANGED <<user, sess, ticket, req, codeUse, founders>>

\* ------------------------------------------- requests that need the second factor --

\* The challenge and the codes are read; c = 0 stands for a TOTP code.
MfaVerifyLoginChallenge(p, t, c) ==
  /\ req[p] = Idle /\ GetMFAChallenge(t)
  /\ GetUser(ticket[t].u) /\ ~Barred(ticket[t].u) /\ user[ticket[t].u].mfa
  /\ c \in user[ticket[t].u].codes \cup {0}
  /\ Serve(p, "mfa", ticket[t].u, <<t, c>>)
  /\ UNCHANGED <<user, sess, ticket, links, codeUse, founders>>

\* The code of an open request: right, or a recovery code that is spent.
VerifyMFAConfigCode(u, c) ==
  IF c = 0 THEN UNCHANGED <<user, codeUse>> ELSE ConsumeRecoveryCode(u, c)

\* A challenge is good for one wrong answer; one that two requests have read
\* serves both.
MfaAnswer(p) ==
  /\ req[p].op = "mfa"
  /\ DeleteMFAChallenge(req[p].x[1])
  /\ \/ VerifyMFAConfigCode(req[p].u, req[p].x[2]) /\ Serve(p, "complete", req[p].u, 0)
     \/ RecordLoginFailure(req[p].u) /\ Done(p) /\ UNCHANGED codeUse
  /\ UNCHANGED <<sess, links, founders>>

\* A signed-in user's change to the second factor asks for a code first.
MfaAuthorize(p, i, c, op) ==
  /\ req[p] = Idle /\ Permitted(i)
  /\ IF user[sess[i].u].mfa THEN VerifyMFAConfigCode(sess[i].u, c)
     ELSE op = "enroll" /\ c = 0 /\ UNCHANGED <<user, codeUse>>
  /\ Serve(p, op, sess[i].u, 0)
  /\ UNCHANGED <<sess, ticket, links, founders>>

MfaEnroll(p) ==
  /\ req[p].op = "enroll" /\ Done(p)
  /\ IF GetUser(req[p].u) THEN StartTOTPEnrollment(req[p].u) ELSE UNCHANGED <<user, codeUse>>
  /\ UNCHANGED <<sess, ticket, links, founders>>

MfaDisable(p) ==
  /\ req[p].op = "disable" /\ Done(p) /\ DisableMFA(req[p].u)
  /\ UNCHANGED <<sess, ticket, links, codeUse, founders>>

MfaRegenerateRecoveryCodes(p) ==
  /\ req[p].op = "regenerate" /\ Done(p)
  /\ IF user[req[p].u].mfa THEN RegenerateRecoveryCodes(req[p].u) ELSE UNCHANGED <<user, codeUse>>
  /\ UNCHANGED <<sess, ticket, links, founders>>

MfaVerifyEnrollment(i) ==
  /\ Authenticated(i) /\ ConfirmTOTPEnrollment(sess[i].u)
  /\ UNCHANGED <<sess, ticket, links, req, codeUse, founders>>

StartPasskeyRegistration(i) ==
  /\ Permitted(i) /\ CreatePasskeyCeremonySession("registration", sess[i].u)
  /\ UNCHANGED <<user, sess, links, req, codeUse, founders>>

\* Consumed first: a ceremony of another user, or a login's, is lost by that.
FinishPasskeyRegistration(p) ==
  /\ \/ /\ req[p] = Idle /\ UNCHANGED user
        /\ \E t \in DOMAIN ticket, i \in DOMAIN sess :
             /\ Permitted(i) /\ ConsumePasskeyCeremonySession(t)
             /\ IF ticket[t].kind = "registration" /\ ticket[t].u = sess[i].u
                  THEN Serve(p, "register", ticket[t].u, 0) ELSE UNCHANGED req
     \/ /\ req[p].op = "register" /\ Done(p) /\ UNCHANGED ticket
        /\ IF GetUser(req[p].u) THEN CreatePasskeyCredential(req[p].u) ELSE UNCHANGED user
  /\ UNCHANGED <<sess, links, codeUse, founders>>

DeletePasskey(i) ==
  /\ Permitted(i) /\ DeletePasskeyCredential(sess[i].u)
  /\ UNCHANGED <<sess, ticket, links, req, codeUse, founders>>

\* ------------------------------------------------- sessions and the own account --

Logout(i) ==
  /\ Authenticated(i) /\ DeleteSession(i)
  /\ UNCHANGED <<user, ticket, links, req, codeUse, founders>>

\* A deadline passes; the next request with the session deletes its row.
SessionLapses(i) ==
  /\ \/ sess[i].st = "live" /\ sess' = [sess EXCEPT ![i].st = "lapsed"]
     \/ sess[i].st = "lapsed" /\ DeleteSession(i)
  /\ UNCHANGED <<user, ticket, links, req, codeUse, founders>>

\* The session is read, then its idle deadline is written.
RefreshSession(p) ==
  /\ \/ /\ req[p] = Idle /\ UNCHANGED sess
        /\ \E i \in DOMAIN sess : Permitted(i) /\ Serve(p, "refresh", sess[i].u, i)
     \/ req[p].op = "refresh" /\ RefreshSessionAt(req[p].x, req[p].u) /\ Done(p)
  /\ UNCHANGED <<user, ticket, links, codeUse, founders>>

\* The password is written and the account active, then the sessions go, unless
\* that fails: its error is dropped.
ChangeOwnPassword(p) ==
  /\ \/ /\ req[p] = Idle /\ UNCHANGED sess
        /\ \E i \in DOMAIN sess : Authenticated(i) /\ ChangePassword(sess[i].u) /\ Serve(p, "purge", sess[i].u, 0)
     \/ /\ req[p].op = "purge" /\ Done(p) /\ UNCHANGED user
        /\ DeleteUserSessions(req[p].u) \/ UNCHANGED sess
  /\ UNCHANGED <<ticket, links, codeUse, founders>>

UpdateCurrentUserEmail(i) ==
  /\ Permitted(i) /\ CreateEmailChangeChallenge(sess[i].u)
  /\ UNCHANGED <<user, sess, links, req, codeUse, founders>>

\* By the link in the mail, or by the Panel when the mail cannot be sent.  The
\* address itself is not in the model.
ConfirmCurrentUserEmail ==
  /\ \E t \in DOMAIN ticket : ConsumeEmailChangeChallenge(t)
  /\ UNCHANGED <<user, sess, links, req, codeUse, founders>>

\* --------------------------------------------------- the administrator's changes --

\* A super administrator is changed by another one only, and made by one only.
ValidateUserStatusActor(i, u) == user[u].admin => user[sess[i].u].admin
ValidateRoleAssignment(i, admin) == admin => user[sess[i].u].admin

\* Nobody changes their own roles, and the last active super administrator
\* keeps the role.
ValidateUserRoleUpdate(i, u, admin) ==
  /\ sess[i].u # u /\ ValidateRoleAssignment(i, admin)
  /\ user[u].admin /\ user[u].st = "active" /\ ~admin => CountActiveSuperAdmins > 1

CreateUserHandler(u) ==
  /\ \E i \in DOMAIN sess : Permitted(i)
  /\ CreateUser(u)
  /\ UNCHANGED <<sess, ticket, links, req, codeUse, founders>>

UpdateUserHandler(p, admin) ==
  /\ \/ /\ req[p] = Idle /\ UNCHANGED user
        /\ \E u \in Users, i \in DOMAIN sess :
             GetUser(u) /\ Permitted(i) /\ ValidateUserRoleUpdate(i, u, admin) /\ Serve(p, "roles", u, admin)
     \/ req[p].op = "roles" /\ req[p].x = admin /\ Done(p) /\ UpdateUser(req[p].u, admin)
  /\ UNCHANGED <<sess, ticket, links, codeUse, founders>>

SetUserStatusHandler(p, st) ==
  /\ \/ /\ req[p] = Idle /\ UNCHANGED user
        /\ \E u \in Users, i \in DOMAIN sess :
             /\ GetUser(u) /\ Permitted(i) /\ ValidateUserStatusActor(i, u) /\ MaySetStatus(u, st)
             /\ Serve(p, "status", u, st)
     \/ req[p].op = "status" /\ req[p].x = st /\ Done(p) /\ SetUserStatus(req[p].u, st)
  /\ UNCHANGED <<sess, ticket, links, codeUse, founders>>

\* The sessions are deleted once more after the transaction.
DeleteUserHandler(p) ==
  /\ \/ /\ req[p] = Idle /\ UNCHANGED <<user, sess, ticket, links>>
        /\ \E u \in Users, i \in DOMAIN sess :
             /\ GetUser(u) /\ Permitted(i) /\ sess[i].u # u /\ ValidateUserStatusActor(i, u) /\ MayDelete(u)
             /\ Serve(p, "delete", u, 0)
     \/ /\ req[p].op = "delete"
        /\ IF GetUser(req[p].u) THEN DeleteUser(req[p].u) /\ Serve(p, "purge", req[p].u, 0)
           ELSE Done(p) /\ UNCHANGED <<user, sess, ticket, links>>
  /\ UNCHANGED <<codeUse, founders>>

ResetPasswordHandler(u) ==
  /\ \E i \in DOMAIN sess : Permitted(i) /\ ValidateUserStatusActor(i, u)
  /\ ResetPassword(u)
  /\ UNCHANGED <<sess, ticket, links, req, codeUse, founders>>

\* ------------------------------------------------------------- specification --

Codes == 0..Len(codeUse)

RequestNext(p) ==
  \/ SetupFirstAdmin(p)
  \/ \E u \in Users, correct \in BOOLEAN, mode \in MfaModes : Login(p, u, correct, mode)
  \/ CompleteLogin(p)
  \/ \E mode \in MfaModes : FinishPasskeyLogin(p, mode)
  \/ \E s \in Subjects, mode \in MfaModes : FinishOAuthLogin(p, s, mode)
  \/ \E s \in Subjects, mode \in MfaModes : AutoProvisionOAuthUser(p, s, mode)
  \/ \E s \in Subjects : FinishCurrentUserOAuthLink(p, s)
  \/ \E t \in DOMAIN ticket, c \in Codes : MfaVerifyLoginChallenge(p, t, c)
  \/ MfaAnswer(p)
  \/ \E i \in DOMAIN sess, c \in Codes, op \in {"enroll", "disable", "regenerate"} : MfaAuthorize(p, i, c, op)
  \/ MfaEnroll(p)
  \/ MfaDisable(p)
  \/ MfaRegenerateRecoveryCodes(p)
  \/ FinishPasskeyRegistration(p)
  \/ RefreshSession(p)
  \/ ChangeOwnPassword(p)
  \/ \E admin \in BOOLEAN : UpdateUserHandler(p, admin)
  \/ \E st \in Statuses : SetUserStatusHandler(p, st)
  \/ DeleteUserHandler(p)

SessionNext(i) ==
  \/ StartCurrentUserOAuthLink(i)
  \/ MfaVerifyEnrollment(i)
  \/ StartPasskeyRegistration(i)
  \/ DeletePasskey(i)
  \/ Logout(i)
  \/ SessionLapses(i)
  \/ UpdateCurrentUserEmail(i)

Next ==
  \/ \E p \in Procs : RequestNext(p)
  \/ \E i \in DOMAIN sess : SessionNext(i)
  \/ StartPasskeyLogin
  \/ StartOAuthLogin
  \/ \E s \in Subjects, u \in Users : DeleteUserOAuthLink(s, u)
  \/ ConfirmCurrentUserEmail
  \/ \E u \in Users : CreateUserHandler(u)
  \/ \E u \in Users : ResetPasswordHandler(u)

Spec == Init /\ [][Next]_vars

\* ---------------------------------------------------------------- properties --

\* However the requests that carry it interleave, a one-time ticket is acted
\* on once, and a recovery code is accepted once (auth_mfa_mariadb.go
\* ConsumeRecoveryCode, ConsumePasskeyCeremonySession, ConsumeOAuthLoginState).
\* An MFA challenge is not such a ticket: it is read, and deleted later.
SpentOnce ==
  /\ \A t \in DOMAIN ticket : ticket[t].uses <= 1
  /\ \A c \in DOMAIN codeUse : codeUse[c] <= 1

\* A session whose row was deleted, by a logout, a password change, a deleted
\* user or its deadline, never comes back, although a refresh reads it first
\* and writes it later (auth_sessions_mariadb.go, refreshSessionAt).
SessionEndsForGood ==
  [][\A i \in DOMAIN sess : sess[i] = Gone => sess'[i] = Gone]_vars

\* An identity signs in one user at most, although callbacks look the link up
\* before they provision a user or create the link (oauth_login.go).
OneIdentityOneUser == \A s \in Subjects : Cardinality(FindOAuthUserLink(s)) <= 1

\* However many setup requests saw an empty user table, one of them creates
\* the first administrator (server_bootstrap.go, setupFirstAdmin).
OneFounder == Cardinality(founders) <= 1
=============================================================================
