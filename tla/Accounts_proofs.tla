--------------------------- MODULE Accounts_proofs ---------------------------
(***************************************************************************)
(* Proofs about Accounts, for any users, requests in flight, identities,   *)
(* policies and bounds.  The invariant has one part per table, since a     *)
(* handler changes a few of them at a time.                                *)
(***************************************************************************)
EXTENDS Accounts, TLAPS, FiniteSetTheorems, SequenceTheorems

Person == Users \cup {None}
Session == [u : Person, st : {"live", "lapsed", "gone"}]
TicketKinds == {"mfa", "login", "registration", "oauth_login", "account_link", "email", "spent"}
Ticket == [kind : TicketKinds, u : Person, uses : {0, 1}]
UserRow == [st : Statuses \cup {"absent", "deleted", "active", "barred", "pending_password_change"},
            admin : BOOLEAN, mfa : BOOLEAN, pending : BOOLEAN, codes : SUBSET Nat,
            passkey : BOOLEAN]

\* Calls that are made for a user whose row was read before.
ForUser == {"mfa", "disable", "regenerate"}

\* A request serves a user or nobody, and makes such a call for a user only.
ReqOK == /\ DOMAIN req = Procs
         /\ \A p \in Procs : req[p].u \in Person
         /\ \A p \in Procs : req[p].op \in ForUser => req[p].u \in Users

SessOK == sess \in Seq(Session)

\* A ticket that was acted on is never acted on again.
TicketsOK == /\ ticket \in Seq(Ticket)
             /\ \A t \in DOMAIN ticket : ticket[t].uses = 1 => ticket[t].kind = "spent"

\* The recovery codes a user has were never accepted, and are no other user's.
CodesOK == /\ user \in [Users -> UserRow]
           /\ codeUse \in Seq({0, 1})
           /\ \A u \in Users : \A c \in user[u].codes : c \in DOMAIN codeUse /\ codeUse[c] = 0
           /\ \A u, v \in Users : \A c \in user[u].codes \cap user[v].codes : u = v

LinksOK == /\ links \subseteq Subjects \X Users
           /\ \A l, k \in links : l[1] = k[1] => l = k

FoundersOK == founders \subseteq Users /\ \A u, v \in founders : u = v

IInv == ReqOK /\ SessOK /\ TicketsOK /\ CodesOK /\ LinksOK /\ FoundersOK

-----------------------------------------------------------------------------
(* Sequences. *)

(* A function on the domain of a sequence with values in S is a sequence. *)
LEMMA SameDomainSeq ==
  ASSUME NEW S, NEW s \in Seq(S), NEW f \in [DOMAIN s -> S]
  PROVE  f \in Seq(S)
<1>1. DOMAIN s = 1 .. Len(s) /\ Len(s) \in Nat
  OBVIOUS
<1> QED BY <1>1

(* One element of a sequence is replaced, or the index is not one of its. *)
LEMMA ReplacedSeq ==
  ASSUME NEW S, NEW s \in Seq(S), NEW i, NEW e, i \in DOMAIN s => e \in S
  PROVE  /\ [s EXCEPT ![i] = e] \in Seq(S)
         /\ DOMAIN [s EXCEPT ![i] = e] = DOMAIN s
         /\ \A j \in DOMAIN s : [s EXCEPT ![i] = e][j] = IF j = i THEN e ELSE s[j]
<1>1. s \in [DOMAIN s -> S]
  OBVIOUS
<1>2. [s EXCEPT ![i] = e] \in [DOMAIN s -> S]
  BY <1>1
<1> QED BY <1>1, <1>2, SameDomainSeq

(* An element is added at the end. *)
LEMMA ExtendedSeq ==
  ASSUME NEW S, NEW s \in Seq(S), NEW e \in S
  PROVE  /\ Append(s, e) \in Seq(S)
         /\ DOMAIN Append(s, e) = DOMAIN s \cup {Len(s) + 1}
         /\ Len(s) + 1 \notin DOMAIN s
         /\ \A j \in DOMAIN s : Append(s, e)[j] = s[j]
         /\ Append(s, e)[Len(s) + 1] = e
<1>1. DOMAIN s = 1 .. Len(s) /\ Len(s) \in Nat
  OBVIOUS
<1>2. Append(s, e) \in Seq(S) /\ Len(Append(s, e)) = Len(s) + 1
  BY AppendProperties
<1>3. DOMAIN Append(s, e) = 1 .. (Len(s) + 1)
  BY <1>1, <1>2
<1> QED BY <1>1, <1>2, <1>3, AppendProperties

-----------------------------------------------------------------------------
(* What the store calls do to the tables. *)

(* A request is served on or answered. *)
LEMMA ServeOK ==
  ASSUME ReqOK, NEW p \in Procs, NEW o, NEW u \in Person, NEW x,
         o \in ForUser => u \in Users,
         Serve(p, o, u, x) \/ Done(p)
  PROVE  ReqOK'
<1>1. Idle.u = None /\ Idle.op \notin ForUser
  BY DEF Idle, ForUser
<1>2. CASE Serve(p, o, u, x)
  BY <1>2 DEF Serve, ReqOK, Person
<1>3. CASE Done(p)
  BY <1>1, <1>3 DEF Done, ReqOK, Person
<1> QED BY <1>2, <1>3

(* A ticket is issued. *)
LEMMA IssueOK ==
  ASSUME TicketsOK, NEW k \in TicketKinds, NEW u \in Person, Issue(k, u)
  PROVE  TicketsOK'
<1> DEFINE new == [kind |-> k, u |-> u, uses |-> 0]
<1>1. new \in Ticket /\ new.uses = 0
  BY DEF Ticket
<1>2. ticket' = Append(ticket, new)
  BY DEF Issue
<1> HIDE DEF new
<1> QED BY <1>1, <1>2, ExtendedSeq DEF TicketsOK

(* A row withdrawn is spent, and has been acted on as often as before. *)
LEMMA WithdrawnOK ==
  ASSUME TicketsOK, NEW t \in DOMAIN ticket
  PROVE  /\ ticket[t] \in Ticket
         /\ Withdrawn(t) \in Ticket /\ Withdrawn(t).kind = "spent"
         /\ Withdrawn(t).uses = ticket[t].uses
<1>1. ticket[t] \in Ticket
  BY DEF TicketsOK
<1> QED BY <1>1 DEF Withdrawn, Ticket, TicketKinds, Person

(* A ticket that is not spent is consumed. *)
LEMMA SpendOK ==
  ASSUME TicketsOK, NEW t \in DOMAIN ticket, ticket[t].kind # "spent", Spend(t)
  PROVE  TicketsOK'
<1> DEFINE e == [Withdrawn(t) EXCEPT !.uses = @ + 1]
<1>1. Withdrawn(t) \in Ticket /\ Withdrawn(t).kind = "spent" /\ Withdrawn(t).uses = 0
  BY WithdrawnOK DEF TicketsOK, Ticket
<1>2. e \in Ticket /\ e.kind = "spent"
  BY <1>1 DEF Ticket
<1>3. ticket' = [ticket EXCEPT ![t] = e]
  BY DEF Spend
<1> HIDE DEF e
<1> QED BY <1>2, <1>3, ReplacedSeq DEF TicketsOK

(* Tickets are withdrawn, one by one or all of a user. *)
LEMMA DeleteTicketsOK ==
  ASSUME TicketsOK, DOMAIN ticket' = DOMAIN ticket,
         ticket' = [t \in DOMAIN ticket' |-> ticket'[t]],
         \A t \in DOMAIN ticket : ticket'[t] \in {ticket[t], Withdrawn(t)}
  PROVE  TicketsOK'
<1>1. \A t \in DOMAIN ticket : ticket'[t] \in Ticket
  BY WithdrawnOK
<1>2. ticket' \in [DOMAIN ticket -> Ticket]
  BY <1>1
<1>3. ticket' \in Seq(Ticket)
  BY <1>2, SameDomainSeq DEF TicketsOK
<1>4. \A t \in DOMAIN ticket : ticket'[t].uses = 1 => ticket'[t].kind = "spent"
  BY WithdrawnOK DEF TicketsOK
<1> QED BY <1>3, <1>4 DEF TicketsOK

(* A user's row is rewritten and keeps no more codes than it had. *)
LEMMA RewrittenRowOK ==
  ASSUME CodesOK, NEW u \in Users, NEW row \in UserRow,
         row.codes \subseteq user[u].codes,
         user' = [user EXCEPT ![u] = row], UNCHANGED codeUse
  PROVE  CodesOK'
<1>1. user' \in [Users -> UserRow]
  BY DEF CodesOK
<1>2. \A v \in Users : user'[v].codes \subseteq user[v].codes
  BY DEF CodesOK
<1> QED BY <1>1, <1>2 DEF CodesOK

(* One step of the handlers that write a row without touching its codes. *)
LEMMA FieldOK ==
  ASSUME CodesOK, NEW u \in Users, UNCHANGED codeUse,
         \/ \E st \in {"active", "barred", "pending_password_change"} \cup Statuses :
              user' = [user EXCEPT ![u].st = st]
         \/ \E b \in BOOLEAN : \/ user' = [user EXCEPT ![u].admin = b]
                              \/ user' = [user EXCEPT ![u].passkey = b]
         \/ user' = [user EXCEPT ![u].mfa = TRUE, ![u].pending = FALSE]
         \/ DisableMFA(u)
         \/ user' = user
  PROVE  CodesOK'
<1> user[u] \in UserRow /\ user \in [Users -> UserRow]
  BY DEF CodesOK
<1>1. CASE \E st \in {"active", "barred", "pending_password_change"} \cup Statuses :
             user' = [user EXCEPT ![u].st = st]
  <2>1. PICK st \in {"active", "barred", "pending_password_change"} \cup Statuses :
          user' = [user EXCEPT ![u].st = st]
    BY <1>1
  <2> DEFINE row == [user[u] EXCEPT !.st = st]
  <2>2. row \in UserRow /\ row.codes = user[u].codes
    BY DEF UserRow
  <2>3. user' = [user EXCEPT ![u] = row]
    BY <2>1
  <2> HIDE DEF row
  <2> QED BY <2>2, <2>3, RewrittenRowOK
<1>2. CASE \E b \in BOOLEAN : user' = [user EXCEPT ![u].admin = b]
  <2>1. PICK b \in BOOLEAN : user' = [user EXCEPT ![u].admin = b]
    BY <1>2
  <2> DEFINE row == [user[u] EXCEPT !.admin = b]
  <2>2. row \in UserRow /\ row.codes = user[u].codes
    BY DEF UserRow
  <2>3. user' = [user EXCEPT ![u] = row]
    BY <2>1
  <2> HIDE DEF row
  <2> QED BY <2>2, <2>3, RewrittenRowOK
<1>3. CASE \E b \in BOOLEAN : user' = [user EXCEPT ![u].passkey = b]
  <2>1. PICK b \in BOOLEAN : user' = [user EXCEPT ![u].passkey = b]
    BY <1>3
  <2> DEFINE row == [user[u] EXCEPT !.passkey = b]
  <2>2. row \in UserRow /\ row.codes = user[u].codes
    BY DEF UserRow
  <2>3. user' = [user EXCEPT ![u] = row]
    BY <2>1
  <2> HIDE DEF row
  <2> QED BY <2>2, <2>3, RewrittenRowOK
<1>4. CASE user' = [user EXCEPT ![u].mfa = TRUE, ![u].pending = FALSE]
  <2> DEFINE row == [user[u] EXCEPT !.mfa = TRUE, !.pending = FALSE]
  <2>2. row \in UserRow /\ row.codes = user[u].codes
    BY DEF UserRow
  <2>3. user' = [user EXCEPT ![u] = row]
    BY <1>4
  <2> HIDE DEF row
  <2> QED BY <2>2, <2>3, RewrittenRowOK
<1>5. CASE DisableMFA(u)
  <2> DEFINE row == [user[u] EXCEPT !.mfa = FALSE, !.pending = FALSE, !.codes = {}]
  <2>2. row \in UserRow /\ row.codes \subseteq user[u].codes
    BY DEF UserRow
  <2>3. user' = [user EXCEPT ![u] = row]
    BY <1>5 DEF DisableMFA
  <2> HIDE DEF row
  <2> QED BY <2>2, <2>3, RewrittenRowOK
<1>6. CASE user' = user
  BY <1>6 DEF CodesOK
<1> QED BY <1>1, <1>2, <1>3, <1>4, <1>5, <1>6

(* A user is created, or deleted with its codes. *)
LEMMA FreshRowOK ==
  ASSUME CodesOK, NEW u \in Users, NEW row, UNCHANGED codeUse,
         row \in {Deleted, [Absent EXCEPT !.st = "active"],
                 [Absent EXCEPT !.st = "active", !.admin = TRUE],
                 [Absent EXCEPT !.st = "pending_password_change"]},
         user' = [user EXCEPT ![u] = row]
  PROVE  CodesOK'
<1>1. row \in UserRow /\ row.codes = {}
  BY DEF Deleted, Absent, UserRow
<1> QED BY <1>1, RewrittenRowOK

(* A recovery code is accepted while its owner still has it. *)
LEMMA ConsumeRecoveryCodeOK ==
  ASSUME CodesOK, NEW u \in Users, NEW c, ConsumeRecoveryCode(u, c)
  PROVE  CodesOK'
<1> user[u] \in UserRow /\ user \in [Users -> UserRow]
  BY DEF CodesOK
<1> DEFINE row == [user[u] EXCEPT !.codes = @ \ {c}]
<1>1. row \in UserRow /\ row.codes = user[u].codes \ {c}
  BY DEF UserRow
<1>2. user' = [user EXCEPT ![u] = row]
  BY DEF ConsumeRecoveryCode
<1>3. c \in user[u].codes /\ c \in DOMAIN codeUse /\ codeUse[c] = 0
  BY DEF ConsumeRecoveryCode, CodesOK
<1>4. codeUse' = [codeUse EXCEPT ![c] = 1]
  BY <1>3 DEF ConsumeRecoveryCode
<1> HIDE DEF row
<1>5. /\ codeUse' \in Seq({0, 1}) /\ DOMAIN codeUse' = DOMAIN codeUse
      /\ \A j \in DOMAIN codeUse : j # c => codeUse'[j] = codeUse[j]
  BY <1>4, ReplacedSeq DEF CodesOK
<1>6. user' \in [Users -> UserRow]
  BY <1>1, <1>2
<1>7. \A v \in Users : user'[v].codes \subseteq user[v].codes \ {c}
  <2> TAKE v \in Users
  <2>1. CASE v = u
    BY <2>1, <1>1, <1>2
  <2>2. CASE v # u
    BY <2>2, <1>2, <1>3 DEF CodesOK
  <2> QED BY <2>1, <2>2
<1>8. \A v \in Users : \A d \in user'[v].codes : d \in DOMAIN codeUse' /\ codeUse'[d] = 0
  BY <1>5, <1>7 DEF CodesOK
<1>9. \A v, w \in Users : \A d \in user'[v].codes \cap user'[w].codes : v = w
  BY <1>7 DEF CodesOK
<1> QED BY <1>5, <1>6, <1>8, <1>9 DEF CodesOK

(* New recovery codes replace the user's old ones. *)
LEMMA NewCodesOK ==
  ASSUME CodesOK, NEW u \in Users, NEW old \in UserRow, NewCodes(u, old)
  PROVE  CodesOK'
<1> DEFINE c == Len(codeUse) + 1
<1> DEFINE row == [old EXCEPT !.codes = {c}]
<1>1. codeUse' = Append(codeUse, 0) /\ user' = [user EXCEPT ![u] = row]
  BY DEF NewCodes
<1>2. c \in Nat
  BY DEF CodesOK
<1>3. /\ codeUse' \in Seq({0, 1}) /\ DOMAIN codeUse' = DOMAIN codeUse \cup {c}
      /\ c \notin DOMAIN codeUse /\ codeUse'[c] = 0
      /\ \A j \in DOMAIN codeUse : codeUse'[j] = codeUse[j]
  BY <1>1, ExtendedSeq DEF CodesOK
<1> HIDE DEF c
<1>4. row \in UserRow /\ row.codes = {c}
  BY <1>2 DEF UserRow
<1> HIDE DEF row
<1>5. user' \in [Users -> UserRow] /\ user'[u].codes = {c}
      /\ \A v \in Users : v # u => user'[v].codes = user[v].codes
  BY <1>1, <1>4 DEF CodesOK
<1>6. \A v \in Users : c \notin user[v].codes
  BY <1>3 DEF CodesOK
<1>7. \A v \in Users : \A d \in user'[v].codes : d \in DOMAIN codeUse' /\ codeUse'[d] = 0
  BY <1>3, <1>5 DEF CodesOK
<1>8. \A v, w \in Users : \A d \in user'[v].codes \cap user'[w].codes : v = w
  BY <1>5, <1>6 DEF CodesOK
<1> QED BY <1>3, <1>5, <1>7, <1>8 DEF CodesOK

-----------------------------------------------------------------------------
(* Which actions change a table. *)

(* The founders are recorded by the setup page. *)
LEMMA FoundersFrame ==
  ASSUME Next
  PROVE  UNCHANGED founders \/ \E p \in Procs : SetupFirstAdmin(p)
<1>1. CASE \E p \in Procs : RequestNext(p)
  BY <1>1, ZenonT(60) DEF RequestNext, Login, CompleteLogin, FinishPasskeyLogin, FinishOAuthLogin,
       AutoProvisionOAuthUser, FinishCurrentUserOAuthLink, MfaVerifyLoginChallenge, MfaAnswer,
       MfaAuthorize, MfaEnroll, MfaDisable, MfaRegenerateRecoveryCodes, FinishPasskeyRegistration,
       RefreshSession, ChangeOwnPassword, UpdateUserHandler, SetUserStatusHandler, DeleteUserHandler
<1>2. CASE \E i \in DOMAIN sess : SessionNext(i)
  BY <1>2 DEF SessionNext, StartCurrentUserOAuthLink, MfaVerifyEnrollment, StartPasskeyRegistration,
       DeletePasskey, Logout, SessionLapses, UpdateCurrentUserEmail
<1> QED BY <1>1, <1>2 DEF Next, StartPasskeyLogin, StartOAuthLogin, DeleteUserOAuthLink,
          ConfirmCurrentUserEmail, CreateUserHandler, ResetPasswordHandler

(* The links are changed by the OAuth callbacks, the link's removal and the
   user's deletion. *)
LEMMA LinksFrame ==
  ASSUME Next
  PROVE  \/ UNCHANGED links
         \/ \E p \in Procs, s \in Subjects, mode \in MfaModes : AutoProvisionOAuthUser(p, s, mode)
         \/ \E p \in Procs, s \in Subjects : FinishCurrentUserOAuthLink(p, s)
         \/ \E p \in Procs : DeleteUserHandler(p)
         \/ \E s \in Subjects, u \in Users : DeleteUserOAuthLink(s, u)
<1>1. CASE \E p \in Procs : RequestNext(p)
  BY <1>1, ZenonT(60) DEF RequestNext, SetupFirstAdmin, Login, CompleteLogin, FinishPasskeyLogin,
       FinishOAuthLogin, MfaVerifyLoginChallenge, MfaAnswer, MfaAuthorize, MfaEnroll, MfaDisable,
       MfaRegenerateRecoveryCodes, FinishPasskeyRegistration, RefreshSession, ChangeOwnPassword,
       UpdateUserHandler, SetUserStatusHandler
<1>2. CASE \E i \in DOMAIN sess : SessionNext(i)
  BY <1>2 DEF SessionNext, StartCurrentUserOAuthLink, MfaVerifyEnrollment, StartPasskeyRegistration,
       DeletePasskey, Logout, SessionLapses, UpdateCurrentUserEmail
<1> QED BY <1>1, <1>2 DEF Next, StartPasskeyLogin, StartOAuthLogin,
          ConfirmCurrentUserEmail, CreateUserHandler, ResetPasswordHandler

(* The sessions are changed by a login, a refresh, a changed password, a
   deleted user, a logout and a deadline. *)
LEMMA SessFrame ==
  ASSUME Next
  PROVE  \/ UNCHANGED sess
         \/ \E p \in Procs : \/ CompleteLogin(p) \/ RefreshSession(p)
                             \/ ChangeOwnPassword(p) \/ DeleteUserHandler(p)
         \/ \E i \in DOMAIN sess : Logout(i) \/ SessionLapses(i)
<1>1. CASE \E p \in Procs : RequestNext(p)
  BY <1>1, ZenonT(60) DEF RequestNext, SetupFirstAdmin, Login, FinishPasskeyLogin, FinishOAuthLogin,
       AutoProvisionOAuthUser, FinishCurrentUserOAuthLink, MfaVerifyLoginChallenge, MfaAnswer,
       MfaAuthorize, MfaEnroll, MfaDisable, MfaRegenerateRecoveryCodes, FinishPasskeyRegistration,
       UpdateUserHandler, SetUserStatusHandler
<1>2. CASE \E i \in DOMAIN sess : SessionNext(i)
  BY <1>2 DEF SessionNext, StartCurrentUserOAuthLink, MfaVerifyEnrollment, StartPasskeyRegistration,
       DeletePasskey, UpdateCurrentUserEmail
<1> QED BY <1>1, <1>2 DEF Next, StartPasskeyLogin, StartOAuthLogin, DeleteUserOAuthLink,
          ConfirmCurrentUserEmail, CreateUserHandler, ResetPasswordHandler

-----------------------------------------------------------------------------
(* The inductive step, one table at a time. *)

(* Whoever has a session that is good for a request is a user. *)
LEMMA CallerIsUser ==
  ASSUME SessOK, NEW i \in DOMAIN sess
  PROVE  /\ sess[i] \in Session
         /\ Authenticated(i) => sess[i].u \in Users
         /\ Permitted(i) => sess[i].u \in Users
<1>1. sess[i] \in Session
  BY DEF SessOK
<1>2. sess[i].u \in Users \cup {None}
  BY <1>1 DEF Session, Person
<1> QED BY <1>1, <1>2 DEF Permitted, Authenticated, GetUser

(* The first administrator is created once. *)
LEMMA FoundersStep ==
  ASSUME FoundersOK, Next
  PROVE  FoundersOK'
<1>1. CASE UNCHANGED founders
  BY <1>1 DEF FoundersOK
<1>2. CASE \E p \in Procs : SetupFirstAdmin(p)
  BY <1>2 DEF SetupFirstAdmin, CreateFirstAdmin, FoundersOK
<1> QED BY <1>1, <1>2, FoundersFrame

(* An identity is linked only while nobody has it. *)
LEMMA LinkOK ==
  ASSUME LinksOK, NEW s \in Subjects, NEW u \in Users, LinkOAuthUser(s, u)
  PROVE  LinksOK'
<1>1. \A v \in Users : <<s, v>> \notin links
  BY DEF LinkOAuthUser, FindOAuthUserLink
<1>2. \A l \in links : l[1] # s
  BY <1>1 DEF LinksOK
<1>3. links' = links \cup {<<s, u>>} /\ <<s, u>> \in Subjects \X Users /\ <<s, u>>[1] = s
  BY DEF LinkOAuthUser
<1>4. links' \subseteq Subjects \X Users
  BY <1>3 DEF LinksOK
<1>5. \A l, k \in links' : l[1] = k[1] => l = k
  BY <1>2, <1>3 DEF LinksOK
<1> QED BY <1>4, <1>5 DEF LinksOK

(* Every step leaves an identity with one user at most. *)
LEMMA LinksStep ==
  ASSUME ReqOK, LinksOK, Next
  PROVE  LinksOK'
<1> USE DEF Person
<1>1. CASE UNCHANGED links
  BY <1>1 DEF LinksOK
<1>2. ASSUME NEW p \in Procs, NEW s \in Subjects, NEW mode \in MfaModes,
             AutoProvisionOAuthUser(p, s, mode)
      PROVE  LinksOK'
  <2>1. UNCHANGED links \/ (GetUser(req[p].u) /\ LinkOAuthUser(s, req[p].u))
    BY <1>2 DEF AutoProvisionOAuthUser
  <2> QED BY <2>1, <1>1, LinkOK DEF ReqOK, GetUser
<1>3. ASSUME NEW p \in Procs, NEW s \in Subjects, FinishCurrentUserOAuthLink(p, s)
      PROVE  LinksOK'
  <2>1. UNCHANGED links \/ (GetUser(req[p].u) /\ LinkOAuthUser(s, req[p].u))
    BY <1>3 DEF FinishCurrentUserOAuthLink
  <2> QED BY <2>1, <1>1, LinkOK DEF ReqOK, GetUser
<1>4. ASSUME NEW p \in Procs, DeleteUserHandler(p)
      PROVE  LinksOK'
  <2>1. links' \subseteq links
    BY <1>4 DEF DeleteUserHandler, DeleteUser
  <2> QED BY <2>1 DEF LinksOK
<1>5. ASSUME NEW s \in Subjects, NEW u \in Users, DeleteUserOAuthLink(s, u)
      PROVE  LinksOK'
  <2>1. links' \subseteq links
    BY <1>5 DEF DeleteUserOAuthLink, DeleteOAuthUserLink
  <2> QED BY <2>1 DEF LinksOK
<1> QED BY <1>1, <1>2, <1>3, <1>4, <1>5, LinksFrame

(* Every step leaves a table of sessions, and those that were gone stay so. *)
LEMMA SessStep ==
  ASSUME ReqOK, SessOK, Next
  PROVE  SessOK' /\ \A i \in DOMAIN sess : sess[i] = Gone => sess'[i] = Gone
<1> DEFINE Ended == \A i \in DOMAIN sess : sess[i] = Gone => sess'[i] = Gone
<1> USE DEF Person
<1>0. Gone \in Session /\ Gone.st = "gone"
  BY DEF Gone, Session
<1>1. CASE UNCHANGED sess
  BY <1>1 DEF SessOK
<1>2. ASSUME NEW i, DeleteSession(i)
      PROVE  SessOK' /\ Ended
  BY <1>0, <1>2, ReplacedSeq DEF DeleteSession, SessOK
<1>3. ASSUME NEW u, DeleteUserSessions(u)
      PROVE  SessOK' /\ Ended
  <2>1. sess' \in [DOMAIN sess -> Session]
    BY <1>0, <1>3 DEF DeleteUserSessions, SessOK
  <2>2. SessOK'
    BY <2>1, SameDomainSeq DEF SessOK
  <2> QED BY <2>2, <1>3 DEF DeleteUserSessions
<1>4. ASSUME NEW i, NEW st \in {"live", "lapsed"}, sess[i].st # "gone",
             sess' = [sess EXCEPT ![i].st = st]
      PROVE  SessOK' /\ Ended
  <2> DEFINE e == [sess[i] EXCEPT !.st = st]
  <2>1. i \in DOMAIN sess => e \in Session
    BY CallerIsUser DEF Session
  <2>2. sess' = [sess EXCEPT ![i] = e]
    BY <1>4
  <2> HIDE DEF e
  <2>3. /\ sess' \in Seq(Session)
        /\ \A j \in DOMAIN sess : sess'[j] = IF j = i THEN e ELSE sess[j]
    BY <2>1, <2>2, ReplacedSeq DEF SessOK
  <2>4. \A j \in DOMAIN sess : sess[j] = Gone => j # i
    BY <1>0, <1>4
  <2> QED BY <2>3, <2>4 DEF SessOK
<1>5. ASSUME NEW p \in Procs, CompleteLogin(p)
      PROVE  SessOK' /\ Ended
  <2> DEFINE e == [u |-> req[p].u, st |-> "live"]
  <2>1. e \in Session
    BY DEF ReqOK, Session
  <2>2. sess' = Append(sess, e)
    BY <1>5 DEF CompleteLogin, CreateSession
  <2> HIDE DEF e
  <2> QED BY <2>1, <2>2, ExtendedSeq DEF SessOK
<1>6. ASSUME NEW p \in Procs, RefreshSession(p)
      PROVE  SessOK' /\ Ended
  <2>1. UNCHANGED sess \/ (sess[req[p].x].st # "gone"
                           /\ sess' = [sess EXCEPT ![req[p].x].st = "live"])
    BY <1>6 DEF RefreshSession, RefreshSessionAt
  <2> QED BY <2>1, <1>1, <1>4
<1>7. ASSUME NEW p \in Procs, ChangeOwnPassword(p) \/ DeleteUserHandler(p)
      PROVE  SessOK' /\ Ended
  BY <1>1, <1>3, <1>7 DEF ChangeOwnPassword, DeleteUserHandler, DeleteUser
<1>8. ASSUME NEW i \in DOMAIN sess, Logout(i) \/ SessionLapses(i)
      PROVE  SessOK' /\ Ended
  <2>1. DeleteSession(i) \/ (sess[i].st = "live" /\ sess' = [sess EXCEPT ![i].st = "lapsed"])
    BY <1>8 DEF Logout, SessionLapses
  <2> QED BY <2>1, <1>2, <1>4
<1> QED BY <1>1, <1>5, <1>6, <1>7, <1>8, SessFrame

(* What follows a proved identity issues a challenge at most. *)
LEMMA ProceedOK ==
  ASSUME TicketsOK, NEW p, NEW u \in Users, NEW mode,
         Proceed(p, u, mode) \/ ContinueOAuthLogin(p, u, mode)
  PROVE  TicketsOK'
<1>1. UNCHANGED ticket \/ Issue("mfa", u)
  BY DEF Proceed, ContinueOAuthLogin, CreateMFAChallenge
<1>2. CASE UNCHANGED ticket
  BY <1>2 DEF TicketsOK
<1>3. CASE Issue("mfa", u)
  BY <1>3, IssueOK DEF TicketKinds, Person
<1> QED BY <1>1, <1>2, <1>3

(* The tickets that are consumed are not spent yet. *)
LEMMA ConsumeOK ==
  ASSUME TicketsOK, NEW t \in DOMAIN ticket,
         \/ ConsumePasskeyCeremonySession(t)
         \/ ConsumeOAuthLoginState(t)
         \/ ConsumeEmailChangeChallenge(t)
  PROVE  TicketsOK'
<1>1. ticket[t].kind # "spent" /\ Spend(t)
  BY DEF ConsumePasskeyCeremonySession, ConsumeOAuthLoginState, ConsumeEmailChangeChallenge
<1> QED BY <1>1, SpendOK

(* Every request leaves tickets that were acted on once at most. *)
LEMMA TicketsRequest ==
  ASSUME ReqOK, TicketsOK, LinksOK, NEW p \in Procs, RequestNext(p)
  PROVE  TicketsOK'
<1>1. CASE UNCHANGED ticket
  BY <1>1 DEF TicketsOK
<1>2. ASSUME NEW u \in Users, NEW correct, NEW mode, Login(p, u, correct, mode)
      PROVE  TicketsOK'
  BY <1>1, <1>2, ProceedOK DEF Login
<1>3. ASSUME NEW mode, FinishPasskeyLogin(p, mode)
      PROVE  TicketsOK'
  BY <1>1, <1>3, ProceedOK, ConsumeOK DEF FinishPasskeyLogin
<1>4. ASSUME NEW s \in Subjects, NEW mode, FinishOAuthLogin(p, s, mode)
      PROVE  TicketsOK'
  <2>1. \A u \in FindOAuthUserLink(s) : u \in Users
    BY DEF FindOAuthUserLink
  <2> QED BY <1>1, <1>4, <2>1, ProceedOK, ConsumeOK DEF FinishOAuthLogin
<1>5. ASSUME NEW s \in Subjects, NEW mode, AutoProvisionOAuthUser(p, s, mode)
      PROVE  TicketsOK'
  <2>1. GetUser(req[p].u) => req[p].u \in Users
    BY DEF GetUser, ReqOK, Person
  <2> QED BY <1>1, <1>5, <2>1, ProceedOK DEF AutoProvisionOAuthUser
<1>6. ASSUME MfaAnswer(p)
      PROVE  TicketsOK'
  <2> DEFINE t == req[p].x[1]
  <2>1. ticket' = [ticket EXCEPT ![t] = Withdrawn(t)]
    BY <1>6 DEF MfaAnswer, DeleteMFAChallenge
  <2> HIDE DEF t
  <2>2. /\ DOMAIN ticket' = DOMAIN ticket /\ ticket' = [k \in DOMAIN ticket' |-> ticket'[k]]
        /\ \A k \in DOMAIN ticket : ticket'[k] \in {ticket[k], Withdrawn(k)}
    BY <2>1
  <2> QED BY <2>2, DeleteTicketsOK
<1>7. ASSUME FinishPasskeyRegistration(p)
      PROVE  TicketsOK'
  BY <1>1, <1>7, ConsumeOK DEF FinishPasskeyRegistration
<1>8. ASSUME DeleteUserHandler(p)
      PROVE  TicketsOK'
  <2>1. CASE DeleteUser(req[p].u)
    <3>1. ticket' = [t \in DOMAIN ticket |->
                       IF ticket[t].u = req[p].u THEN Withdrawn(t) ELSE ticket[t]]
      BY <2>1 DEF DeleteUser
    <3>2. /\ DOMAIN ticket' = DOMAIN ticket /\ ticket' = [k \in DOMAIN ticket' |-> ticket'[k]]
          /\ \A k \in DOMAIN ticket : ticket'[k] \in {ticket[k], Withdrawn(k)}
      BY <3>1
    <3> QED BY <3>2, DeleteTicketsOK
  <2> QED BY <1>1, <1>8, <2>1 DEF DeleteUserHandler
<1>9. \/ UNCHANGED ticket
      \/ \E u \in Users, correct \in BOOLEAN, mode \in MfaModes : Login(p, u, correct, mode)
      \/ \E mode \in MfaModes : FinishPasskeyLogin(p, mode)
      \/ \E s \in Subjects, mode \in MfaModes : FinishOAuthLogin(p, s, mode)
      \/ \E s \in Subjects, mode \in MfaModes : AutoProvisionOAuthUser(p, s, mode)
      \/ MfaAnswer(p)
      \/ FinishPasskeyRegistration(p)
      \/ DeleteUserHandler(p)
  BY DEF RequestNext, SetupFirstAdmin, CompleteLogin, FinishCurrentUserOAuthLink,
       MfaVerifyLoginChallenge, MfaAuthorize, MfaEnroll, MfaDisable, MfaRegenerateRecoveryCodes,
       RefreshSession, ChangeOwnPassword, UpdateUserHandler, SetUserStatusHandler
<1> QED BY <1>1, <1>2, <1>3, <1>4, <1>5, <1>6, <1>7, <1>8, <1>9

(* So does every other step. *)
LEMMA TicketsStep ==
  ASSUME ReqOK, SessOK, TicketsOK, LinksOK, Next
  PROVE  TicketsOK'
<1> USE DEF Person, TicketKinds
<1>1. CASE \E p \in Procs : RequestNext(p)
  BY <1>1, TicketsRequest
<1>2. CASE UNCHANGED ticket
  BY <1>2 DEF TicketsOK
<1>3. ASSUME NEW i \in DOMAIN sess, SessionNext(i)
      PROVE  TicketsOK'
  <2>1. \/ UNCHANGED ticket
        \/ Issue("account_link", None)
        \/ Permitted(i) /\ (Issue("registration", sess[i].u) \/ Issue("email", sess[i].u))
    BY <1>3 DEF SessionNext, StartCurrentUserOAuthLink, MfaVerifyEnrollment,
         StartPasskeyRegistration, DeletePasskey, Logout, SessionLapses, UpdateCurrentUserEmail,
         CreateOAuthLoginState, CreatePasskeyCeremonySession, CreateEmailChangeChallenge
  <2> QED BY <2>1, <1>2, IssueOK, CallerIsUser
<1>4. CASE StartPasskeyLogin \/ StartOAuthLogin
  BY <1>4, IssueOK DEF StartPasskeyLogin, StartOAuthLogin, CreateOAuthLoginState,
       CreatePasskeyCeremonySession
<1>5. CASE ConfirmCurrentUserEmail
  BY <1>5, ConsumeOK DEF ConfirmCurrentUserEmail
<1> QED BY <1>1, <1>2, <1>3, <1>4, <1>5 DEF Next, DeleteUserOAuthLink, CreateUserHandler,
          ResetPasswordHandler

(* Every request leaves recovery codes that were not accepted yet. *)
LEMMA CodesRequest ==
  ASSUME ReqOK, SessOK, CodesOK, NEW p \in Procs, RequestNext(p)
  PROVE  CodesOK'
<1>0. /\ GetUser(req[p].u) => req[p].u \in Users
      /\ \A u \in Users : user[u] \in UserRow
  BY DEF GetUser, ReqOK, Person, CodesOK
<1>1. CASE UNCHANGED <<user, codeUse>>
  BY <1>1 DEF CodesOK
<1>2. ASSUME SetupFirstAdmin(p)
      PROVE  CodesOK'
  BY <1>1, <1>2, FreshRowOK DEF SetupFirstAdmin, CreateFirstAdmin
<1>3. ASSUME NEW u, RecordLoginFailure(u), UNCHANGED codeUse, u \in Users
      PROVE  CodesOK'
  BY <1>3, FieldOK DEF RecordLoginFailure
<1>4. ASSUME NEW u \in Users, NEW correct, NEW mode, Login(p, u, correct, mode)
      PROVE  CodesOK'
  BY <1>1, <1>3, <1>4 DEF Login
<1>5. ASSUME NEW s \in Subjects, NEW mode, AutoProvisionOAuthUser(p, s, mode)
      PROVE  CodesOK'
  BY <1>1, <1>5, FreshRowOK DEF AutoProvisionOAuthUser, CreateOAuthUser
<1>6. ASSUME MfaAnswer(p)
      PROVE  CodesOK'
  <2>1. req[p].u \in Users
    BY <1>6 DEF MfaAnswer, ReqOK, ForUser
  <2> QED BY <1>1, <1>3, <1>6, <2>1, ConsumeRecoveryCodeOK DEF MfaAnswer, VerifyMFAConfigCode
<1>7. ASSUME NEW i \in DOMAIN sess, NEW c, NEW op, MfaAuthorize(p, i, c, op)
      PROVE  CodesOK'
  <2>1. sess[i].u \in Users
    BY <1>7, CallerIsUser DEF MfaAuthorize
  <2> QED BY <1>1, <1>7, <2>1, ConsumeRecoveryCodeOK DEF MfaAuthorize, VerifyMFAConfigCode
<1>8. ASSUME MfaEnroll(p)
      PROVE  CodesOK'
  <2>1. UNCHANGED <<user, codeUse>> \/ (GetUser(req[p].u) /\ StartTOTPEnrollment(req[p].u))
    BY <1>8 DEF MfaEnroll
  <2>2. ASSUME NEW u \in Users
        PROVE  [user[u] EXCEPT !.pending = TRUE] \in UserRow
    BY <1>0 DEF UserRow
  <2> QED BY <1>0, <1>1, <2>1, <2>2, NewCodesOK DEF StartTOTPEnrollment
<1>9. ASSUME MfaDisable(p) \/ MfaRegenerateRecoveryCodes(p)
      PROVE  CodesOK'
  <2>1. req[p].u \in Users
    BY <1>9 DEF MfaDisable, MfaRegenerateRecoveryCodes, ReqOK, ForUser
  <2> QED BY <2>1, <1>0, <1>1, <1>9, FieldOK, NewCodesOK DEF MfaDisable, MfaRegenerateRecoveryCodes,
       RegenerateRecoveryCodes
<1>10. ASSUME FinishPasskeyRegistration(p)
       PROVE  CodesOK'
  BY <1>0, <1>1, <1>10, FieldOK DEF FinishPasskeyRegistration, CreatePasskeyCredential
<1>11. ASSUME ChangeOwnPassword(p)
       PROVE  CodesOK'
  BY <1>1, <1>11, FieldOK, CallerIsUser DEF ChangeOwnPassword, ChangePassword
<1>12. ASSUME NEW admin \in BOOLEAN, UpdateUserHandler(p, admin)
       PROVE  CodesOK'
  BY <1>0, <1>1, <1>12, FieldOK DEF UpdateUserHandler, UpdateUser
<1>13. ASSUME NEW st \in Statuses, SetUserStatusHandler(p, st)
       PROVE  CodesOK'
  BY <1>0, <1>1, <1>13, FieldOK DEF SetUserStatusHandler, SetUserStatus
<1>14. ASSUME DeleteUserHandler(p)
       PROVE  CodesOK'
  BY <1>0, <1>1, <1>14, FreshRowOK DEF DeleteUserHandler, DeleteUser
<1>15. \/ UNCHANGED <<user, codeUse>>
       \/ SetupFirstAdmin(p)
       \/ \E u \in Users, correct \in BOOLEAN, mode \in MfaModes : Login(p, u, correct, mode)
       \/ \E s \in Subjects, mode \in MfaModes : AutoProvisionOAuthUser(p, s, mode)
       \/ MfaAnswer(p)
       \/ \E i \in DOMAIN sess, c \in Codes, op \in {"enroll", "disable", "regenerate"} :
            MfaAuthorize(p, i, c, op)
       \/ MfaEnroll(p)
       \/ MfaDisable(p) \/ MfaRegenerateRecoveryCodes(p)
       \/ FinishPasskeyRegistration(p)
       \/ ChangeOwnPassword(p)
       \/ \E admin \in BOOLEAN : UpdateUserHandler(p, admin)
       \/ \E st \in Statuses : SetUserStatusHandler(p, st)
       \/ DeleteUserHandler(p)
  BY DEF RequestNext, CompleteLogin, FinishPasskeyLogin, FinishOAuthLogin,
       FinishCurrentUserOAuthLink, MfaVerifyLoginChallenge, RefreshSession
<1> QED BY <1>1, <1>2, <1>4, <1>5, <1>6, <1>7, <1>8, <1>9, <1>10, <1>11, <1>12, <1>13, <1>14, <1>15

(* So does every other step. *)
LEMMA CodesStep ==
  ASSUME ReqOK, SessOK, CodesOK, Next
  PROVE  CodesOK'
<1>1. CASE \E p \in Procs : RequestNext(p)
  BY <1>1, CodesRequest
<1>2. CASE UNCHANGED <<user, codeUse>>
  BY <1>2 DEF CodesOK
<1>3. ASSUME NEW i \in DOMAIN sess, SessionNext(i)
      PROVE  CodesOK'
  <2>1. CASE MfaVerifyEnrollment(i)
    BY <2>1, FieldOK, CallerIsUser DEF MfaVerifyEnrollment, ConfirmTOTPEnrollment
  <2>2. CASE DeletePasskey(i)
    BY <2>2, FieldOK, CallerIsUser DEF DeletePasskey, DeletePasskeyCredential
  <2> QED BY <1>2, <1>3, <2>1, <2>2 DEF SessionNext, StartCurrentUserOAuthLink,
            StartPasskeyRegistration, Logout, SessionLapses, UpdateCurrentUserEmail
<1>4. ASSUME NEW u \in Users, CreateUserHandler(u)
      PROVE  CodesOK'
  BY <1>4, FreshRowOK DEF CreateUserHandler, CreateUser
<1>5. ASSUME NEW u \in Users, ResetPasswordHandler(u)
      PROVE  CodesOK'
  BY <1>5, FieldOK DEF ResetPasswordHandler, ResetPassword
<1> QED BY <1>1, <1>2, <1>3, <1>4, <1>5 DEF Next, StartPasskeyLogin, StartOAuthLogin,
          DeleteUserOAuthLink, ConfirmCurrentUserEmail

(* What follows a proved identity serves that user. *)
LEMMA ProceedServes ==
  ASSUME ReqOK, NEW p \in Procs, NEW u \in Users, NEW mode,
         Proceed(p, u, mode) \/ ContinueOAuthLogin(p, u, mode)
  PROVE  ReqOK'
<1>1. Done(p) \/ Serve(p, "complete", u, 0)
  BY DEF Proceed, ContinueOAuthLogin
<1> QED BY <1>1, ServeOK DEF ForUser, Person

(* Every request goes on serving a user or nobody. *)
LEMMA ReqRequest ==
  ASSUME ReqOK, SessOK, TicketsOK, NEW p \in Procs, RequestNext(p)
  PROVE  ReqOK'
<1>0. /\ None \in Person /\ Users \subseteq Person /\ req[p].u \in Person
      /\ GetUser(req[p].u) => req[p].u \in Users
      /\ \A i \in DOMAIN sess : sess[i].u \in Person
  <2>1. \A i \in DOMAIN sess : sess[i].u \in Person
    BY CallerIsUser DEF Session
  <2> QED BY <2>1 DEF Person, ReqOK, GetUser
<1>1. CASE UNCHANGED req
  BY <1>1 DEF ReqOK
<1>2. CASE Done(p)
  <2>1. "idle" \notin ForUser
    BY DEF ForUser
  <2>2. Serve(p, "idle", None, 0)
    BY <1>2 DEF Done, Serve, Idle
  <2> QED BY <1>0, <2>1, <2>2, ServeOK
<1>3. ASSUME NEW o, NEW u \in Person, NEW x, o \notin ForUser, Serve(p, o, u, x)
      PROVE  ReqOK'
  BY <1>3, ServeOK
<1>4. CASE SetupFirstAdmin(p)
  BY <1>0, <1>2, <1>3, <1>4 DEF SetupFirstAdmin, ForUser
<1>5. ASSUME NEW u \in Users, NEW correct, NEW mode, Login(p, u, correct, mode)
      PROVE  ReqOK'
  BY <1>1, <1>5, ProceedServes DEF Login
<1>6. ASSUME NEW mode, FinishPasskeyLogin(p, mode)
      PROVE  ReqOK'
  BY <1>0, <1>1, <1>2, <1>3, <1>6, ProceedServes DEF FinishPasskeyLogin, ForUser
<1>7. ASSUME NEW s \in Subjects, NEW mode, FinishOAuthLogin(p, s, mode)
      PROVE  ReqOK'
  <2>1. ASSUME NEW t \in DOMAIN ticket, ConsumeOAuthLoginState(t)
        PROVE  ticket[t].kind \notin ForUser
    BY <2>1 DEF ConsumeOAuthLoginState, ForUser
  <2>2. \A u \in FindOAuthUserLink(s) : u \in Users
    BY DEF FindOAuthUserLink
  <2> QED BY <1>0, <1>2, <1>3, <1>7, <2>1, <2>2, ProceedServes DEF FinishOAuthLogin
<1>8. ASSUME NEW s \in Subjects, NEW mode, AutoProvisionOAuthUser(p, s, mode)
      PROVE  ReqOK'
  BY <1>0, <1>2, <1>3, <1>8, ProceedServes DEF AutoProvisionOAuthUser, ForUser
<1>9. ASSUME NEW s \in Subjects, FinishCurrentUserOAuthLink(p, s)
      PROVE  ReqOK'
  BY <1>0, <1>2, <1>3, <1>9 DEF FinishCurrentUserOAuthLink, ForUser
<1>10. ASSUME NEW t \in DOMAIN ticket, NEW c, MfaVerifyLoginChallenge(p, t, c)
       PROVE  ReqOK'
  <2>1. ticket[t].u \in Person
    BY WithdrawnOK DEF Ticket
  <2>2. ticket[t].u \in Users
    BY <1>10, <2>1 DEF MfaVerifyLoginChallenge, GetUser, Person
  <2>3. Serve(p, "mfa", ticket[t].u, <<t, c>>)
    BY <1>10 DEF MfaVerifyLoginChallenge
  <2> QED BY <2>1, <2>2, <2>3, ServeOK
<1>11. CASE MfaAnswer(p)
  BY <1>0, <1>2, <1>3, <1>11 DEF MfaAnswer, ForUser
<1>12. ASSUME NEW i \in DOMAIN sess, NEW c, NEW op, MfaAuthorize(p, i, c, op)
       PROVE  ReqOK'
  <2>1. sess[i].u \in Users /\ Serve(p, op, sess[i].u, 0)
    BY <1>12, CallerIsUser DEF MfaAuthorize
  <2> QED BY <1>0, <2>1, ServeOK
<1>13. CASE FinishPasskeyRegistration(p)
  <2>1. \A t \in DOMAIN ticket : ticket[t].u \in Person
    BY WithdrawnOK DEF Ticket
  <2> QED BY <1>0, <1>1, <1>2, <1>3, <1>13, <2>1 DEF FinishPasskeyRegistration, ForUser
<1>14. CASE RefreshSession(p) \/ ChangeOwnPassword(p)
  BY <1>0, <1>2, <1>3, <1>14 DEF RefreshSession, ChangeOwnPassword, ForUser
<1>15. ASSUME NEW x, UpdateUserHandler(p, x) \/ SetUserStatusHandler(p, x)
       PROVE  ReqOK'
  BY <1>0, <1>2, <1>3, <1>15 DEF UpdateUserHandler, SetUserStatusHandler, ForUser
<1>16. CASE DeleteUserHandler(p)
  BY <1>0, <1>2, <1>3, <1>16 DEF DeleteUserHandler, ForUser
<1>17. CASE CompleteLogin(p) \/ MfaEnroll(p) \/ MfaDisable(p) \/ MfaRegenerateRecoveryCodes(p)
  BY <1>2, <1>17 DEF CompleteLogin, MfaEnroll, MfaDisable, MfaRegenerateRecoveryCodes
<1> QED BY <1>4, <1>5, <1>6, <1>7, <1>8, <1>9, <1>10, <1>11, <1>12, <1>13, <1>14, <1>15,
          <1>16, <1>17 DEF RequestNext

(* No other step concerns a request in flight. *)
LEMMA ReqStep ==
  ASSUME ReqOK, SessOK, TicketsOK, Next
  PROVE  ReqOK'
<1>1. CASE \E p \in Procs : RequestNext(p)
  BY <1>1, ReqRequest
<1>2. CASE UNCHANGED req
  BY <1>2 DEF ReqOK
<1>3. CASE \E i \in DOMAIN sess : SessionNext(i)
  BY <1>2, <1>3 DEF SessionNext, StartCurrentUserOAuthLink, MfaVerifyEnrollment,
       StartPasskeyRegistration, DeletePasskey, Logout, SessionLapses, UpdateCurrentUserEmail
<1> QED BY <1>1, <1>2, <1>3 DEF Next, StartPasskeyLogin, StartOAuthLogin, DeleteUserOAuthLink,
          ConfirmCurrentUserEmail, CreateUserHandler, ResetPasswordHandler

-----------------------------------------------------------------------------
(* The invariant and what follows from it. *)

(* The invariant holds at the start. *)
LEMMA InitOK == Init => IInv
<1> SUFFICES ASSUME Init PROVE IInv
  OBVIOUS
<1>1. Absent \in UserRow /\ Absent.codes = {} /\ Idle.u = None /\ Idle.op \notin ForUser
  BY DEF Absent, UserRow, Idle, ForUser
<1>2. ReqOK
  BY <1>1 DEF Init, ReqOK, Person
<1>3. CodesOK
  BY <1>1 DEF Init, CodesOK
<1>4. SessOK /\ TicketsOK /\ LinksOK /\ FoundersOK
  BY DEF Init, SessOK, TicketsOK, LinksOK, FoundersOK
<1> QED BY <1>2, <1>3, <1>4 DEF IInv

(* Every step keeps it. *)
LEMMA NextOK == IInv /\ [Next]_vars => IInv'
<1> SUFFICES ASSUME IInv, [Next]_vars PROVE IInv'
  OBVIOUS
<1>1. CASE Next
  BY <1>1, ReqStep, SessStep, TicketsStep, CodesStep, LinksStep, FoundersStep DEF IInv
<1>2. CASE UNCHANGED vars
  <2>1. ReqOK' /\ SessOK'
    BY <1>2 DEF IInv, vars, ReqOK, SessOK
  <2>2. TicketsOK' /\ CodesOK'
    BY <1>2 DEF IInv, vars, TicketsOK, CodesOK
  <2>3. LinksOK' /\ FoundersOK'
    BY <1>2 DEF IInv, vars, LinksOK, FoundersOK
  <2> QED BY <2>1, <2>2, <2>3 DEF IInv
<1> QED BY <1>1, <1>2

(* The invariant holds in every state of every behaviour. *)
LEMMA Inductive == Spec => []IInv
BY InitOK, NextOK, PTL DEF Spec

(* A set whose elements are all the same has one at most. *)
LEMMA AtMostOne ==
  ASSUME NEW S, \A x, y \in S : x = y
  PROVE  Cardinality(S) <= 1
<1>1. CASE S = {}
  BY <1>1, FS_EmptySet
<1>2. CASE S # {}
  <2>1. PICK x : x \in S
    BY <1>2
  <2>2. S = {x}
    BY <2>1
  <2> QED BY <2>2, FS_Singleton
<1> QED BY <1>1, <1>2

(* A one-time ticket is acted on once and a recovery code is accepted once
   (auth_mfa_mariadb.go), for any number of requests in flight. *)
THEOREM TicketsSpentOnce == Spec => []SpentOnce
<1>1. ASSUME IInv PROVE SpentOnce
  <2>1. \A t \in DOMAIN ticket : ticket[t].uses \in {0, 1}
    BY <1>1, WithdrawnOK DEF IInv, Ticket
  <2>2. \A c \in DOMAIN codeUse : codeUse[c] \in {0, 1}
    BY <1>1 DEF IInv, CodesOK
  <2> QED BY <2>1, <2>2 DEF SpentOnce
<1> QED BY <1>1, Inductive, PTL

(* An identity signs in one user at most, for any number of OAuth callbacks
   that looked it up at the same time (oauth_login.go). *)
THEOREM IdentityUnique == Spec => []OneIdentityOneUser
<1>1. ASSUME IInv PROVE OneIdentityOneUser
  <2> SUFFICES ASSUME NEW s \in Subjects
               PROVE  Cardinality(FindOAuthUserLink(s)) <= 1
    BY DEF OneIdentityOneUser
  <2>1. \A u, v \in FindOAuthUserLink(s) : u = v
    <3> TAKE u, v \in FindOAuthUserLink(s)
    <3>1. <<s, u>> \in links /\ <<s, v>> \in links
      BY DEF FindOAuthUserLink
    <3>2. <<s, u>> = <<s, v>>
      BY <1>1, <3>1 DEF IInv, LinksOK
    <3> QED BY <3>2
  <2> QED BY <2>1, AtMostOne
<1> QED BY <1>1, Inductive, PTL

(* However many setup requests saw an empty user table, one of them creates
   the first administrator (server_bootstrap.go). *)
THEOREM FounderUnique == Spec => []OneFounder
<1>1. ASSUME IInv PROVE OneFounder
  BY <1>1, AtMostOne DEF IInv, FoundersOK, OneFounder
<1> QED BY <1>1, Inductive, PTL

(* A session whose row was deleted never comes back, whatever refresh had read
   it before (auth_sessions_mariadb.go, refreshSessionAt). *)
THEOREM SessionsEnd == Spec => SessionEndsForGood
<1>1. IInv /\ [Next]_vars => [\A i \in DOMAIN sess : sess[i] = Gone => sess'[i] = Gone]_vars
  BY SessStep DEF IInv
<1> QED BY <1>1, Inductive, PTL DEF Spec, SessionEndsForGood
=============================================================================
