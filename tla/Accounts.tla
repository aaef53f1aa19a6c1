------------------------------ MODULE Accounts ------------------------------
(***************************************************************************)
(* Accounts of dCalCon: roles and status, passwords, browser sessions and  *)
(* password-reset tokens.                                                  *)
(*                                                                         *)
(* A request is checked against its session once (SessionOrBearer,         *)
(* RequireAdmin) and then runs statement by statement; only what runs in   *)
(* WithTx is one step.  Passwords are numbered in the order in which they  *)
(* are set.  A session that has expired is as good as deleted              *)
(* (userBySessionID), so both are the absence of its row.                  *)
(***************************************************************************)
EXTENDS Naturals, FiniteSets

CONSTANTS
  User, Root,    \* Root is the administrator that bootstrap.Admin creates
  Session,       \* identifiers of sessions
  Token,         \* reset tokens
  Handler,       \* requests in progress
  None,
  MaxRequests    \* bound on the number of requests

Role == {"admin", "user"}
Status == {"active", "disabled"}
Account == [role : Role, status : Status, pwd : Nat]
Row == [user : User, pwd : Nat, late : BOOLEAN]
Reset == [user : User, state : {"open", "used", "expired"}]

ASSUME RootAssumption == Root \in User
ASSUME NoneAssumption ==
  None \notin User \cup Session \cup Token \cup Account \cup Row \cup Reset
ASSUME BoundAssumption == MaxRequests \in Nat

VARIABLES
  acct,      \* users: role, status and password of each account
  sess,      \* sessions; pwd and late are history: the password its holder
             \* last gave, and whether the account changed while it signed in
  tok,       \* password_reset_tokens
  newest,    \* history: the token issued last for each user
  pwds,      \* how many passwords have been set
  hd,        \* locals of each request
  requests,  \* how many requests have started
  cut,       \* history: users whose sessions were not deleted as they should
  crossed    \* history: two patches were past their checks at the same time

vars == <<acct, sess, tok, newest, pwds, hd, requests, cut, crossed>>

Idle == [pc |-> "idle", kind |-> "none", user |-> None, keep |-> None,
         pwd |-> 0, late |-> FALSE, role |-> "user", status |-> "active"]

Init ==
  /\ acct = [u \in User |-> IF u = Root THEN [role |-> "admin", status |-> "active", pwd |-> 0]
                            ELSE None]
  /\ sess = [s \in Session |-> None]
  /\ tok = [t \in Token |-> None]
  /\ newest = [u \in User |-> None]
  /\ pwds = 0
  /\ hd = [w \in Handler |-> Idle]
  /\ requests = 0
  /\ cut = {}
  /\ crossed = FALSE

Start(w, locals) ==
  /\ hd[w].pc = "idle" /\ requests < MaxRequests
  /\ requests' = requests + 1
  /\ hd' = [hd EXCEPT ![w] = locals]

Finish(w) == hd' = [hd EXCEPT ![w] = Idle]

Active(u) == acct[u] # None /\ acct[u].status = "active"
ActiveAdmins == {u \in User : Active(u) /\ acct[u].role = "admin"}

(* SessionOrBearer lets a session of an active account in.                 *)
SignedIn(s) == sess[s] # None /\ Active(sess[s].user)

(* The sign-ins under way for u, which have checked the old account.       *)
Overtaken(u) ==
  [w \in Handler |-> IF hd[w].pc = "session" /\ hd[w].user = u
                     THEN [hd[w] EXCEPT !.late = TRUE] ELSE hd[w]]

-----------------------------------------------------------------------------
(* Signing in and out.                                                     *)

(* login: Authenticate, and then the session is created.                   *)
Authenticate(w, u) ==
  /\ Active(u)
  /\ Start(w, [Idle EXCEPT !.pc = "session", !.kind = "login", !.user = u,
                           !.pwd = acct[u].pwd])
  /\ UNCHANGED <<acct, sess, tok, newest, pwds, cut, crossed>>

CreateSession(w, s) ==
  /\ hd[w].pc = "session" /\ sess[s] = None
  /\ sess' = [sess EXCEPT ![s] = [user |-> hd[w].user, pwd |-> hd[w].pwd,
                                  late |-> hd[w].late]]
  /\ Finish(w)
  /\ UNCHANGED <<acct, tok, newest, pwds, requests, cut, crossed>>

(* logout, or the session expires.                                         *)
DeleteSession(s) ==
  /\ sess[s] # None
  /\ sess' = [sess EXCEPT ![s] = None]
  /\ UNCHANGED <<acct, tok, newest, pwds, hd, requests, cut, crossed>>

-----------------------------------------------------------------------------
(* Requests of a signed-in user.                                           *)

(* revokeSessions, which keeps the session that asks for it.               *)
revokeSessions(w, s) ==
  /\ SignedIn(s)
  /\ Start(w, [Idle EXCEPT !.pc = "purge", !.kind = "revoke",
                           !.user = sess[s].user, !.keep = s])
  /\ UNCHANGED <<acct, sess, tok, newest, pwds, cut, crossed>>

(* changePassword; a client without the cookie keeps no session.           *)
changePassword(w, s, keep) ==
  /\ SignedIn(s) /\ keep \in {s, None}
  /\ Start(w, [Idle EXCEPT !.pc = "auth", !.kind = "change",
                           !.user = sess[s].user, !.keep = keep])
  /\ UNCHANGED <<acct, sess, tok, newest, pwds, cut, crossed>>

AuthenticateCurrent(w) ==
  /\ hd[w].pc = "auth" /\ Active(hd[w].user)
  /\ hd' = [hd EXCEPT ![w].pc = "setpw"]
  /\ UNCHANGED <<acct, sess, tok, newest, pwds, requests, cut, crossed>>

(* SetPassword, whoever asked for it.                                      *)
SetPassword(w) ==
  LET u == hd[w].user IN
  /\ hd[w].pc = "setpw"
  /\ pwds' = pwds + 1
  /\ acct' = [acct EXCEPT ![u].pwd = pwds + 1]
  /\ sess' = [s \in Session |-> IF s = hd[w].keep /\ sess[s] # None /\ sess[s].user = u
                                THEN [sess[s] EXCEPT !.pwd = pwds + 1] ELSE sess[s]]
  /\ hd' = [Overtaken(u) EXCEPT ![w].pc = "purge"]
  /\ UNCHANGED <<tok, newest, requests, cut, crossed>>

(* Mutant: the sessions stay.                                              *)
PurgeNothing(w) ==
  /\ hd[w].pc = "purge"
  /\ Finish(w)
  /\ UNCHANGED <<acct, sess, tok, newest, pwds, requests, cut, crossed>>

(* DeleteSessionsForUserExcept and DeleteSessionsForUser.                  *)
DeleteSessionsForUser(w) ==
  /\ hd[w].pc = "purge"
  /\ sess' = [s \in Session |->
       IF sess[s] # None /\ sess[s].user = hd[w].user /\ s # hd[w].keep
       THEN None ELSE sess[s]]
  /\ Finish(w)
  /\ UNCHANGED <<acct, tok, newest, pwds, requests, cut, crossed>>

-----------------------------------------------------------------------------
(* Requests of an administrator: RequireAdmin looks at the role once.      *)
RequireAdmin(s) == SignedIn(s) /\ acct[sess[s].user].role = "admin"

adminCreateUser(w, s, u, role) ==
  /\ RequireAdmin(s)
  /\ Start(w, [Idle EXCEPT !.pc = "create", !.kind = "create", !.user = u, !.role = role])
  /\ UNCHANGED <<acct, sess, tok, newest, pwds, cut, crossed>>

CreateUser(w) ==
  /\ hd[w].pc = "create"
  /\ \/ /\ acct[hd[w].user] = None
        /\ pwds' = pwds + 1
        /\ acct' = [acct EXCEPT ![hd[w].user] =
                      [role |-> hd[w].role, status |-> "active", pwd |-> pwds + 1]]
     \/ acct[hd[w].user] # None /\ UNCHANGED <<acct, pwds>>
  /\ Finish(w)
  /\ UNCHANGED <<sess, tok, newest, requests, cut, crossed>>

adminResetPassword(w, s, u) ==
  /\ RequireAdmin(s) /\ acct[u] # None
  /\ Start(w, [Idle EXCEPT !.pc = "setpw", !.kind = "reset", !.user = u])
  /\ UNCHANGED <<acct, sess, tok, newest, pwds, cut, crossed>>

(* resetWithTOTP: the code of the user's authenticator stands in for the   *)
(* password; SignIn has the authenticator.                                 *)
resetWithTOTP(w, u) ==
  /\ Active(u)
  /\ Start(w, [Idle EXCEPT !.pc = "setpw", !.kind = "totp", !.user = u])
  /\ UNCHANGED <<acct, sess, tok, newest, pwds, cut, crossed>>

(* adminPatchUser reads the row; the fields that are not in the request    *)
(* keep the value that was read.  It refuses to disable the caller.        *)
adminPatchUser(w, s, u, role, status) ==
  /\ RequireAdmin(s) /\ acct[u] # None
  /\ ~(sess[s].user = u /\ status = "disabled")
  /\ Start(w, [Idle EXCEPT
       !.pc = IF u \in ActiveAdmins /\ (role # "admin" \/ status # "active")
              THEN "count" ELSE "update",
       !.kind = "patch", !.user = u, !.role = role, !.status = status])
  /\ UNCHANGED <<acct, sess, tok, newest, pwds, cut, crossed>>

(* Mutant: one administrator is enough.                                    *)
CountOne(w) ==
  /\ hd[w].pc = "count"
  /\ IF Cardinality(ActiveAdmins) < 1 THEN Finish(w)
     ELSE hd' = [hd EXCEPT ![w].pc = "update"]
  /\ UNCHANGED <<acct, sess, tok, newest, pwds, requests, cut, crossed>>

(* "cannot remove the last active administrator".                          *)
ActiveAdminCount(w) ==
  /\ hd[w].pc = "count"
  /\ IF Cardinality(ActiveAdmins) <= 1 THEN Finish(w)
     ELSE hd' = [hd EXCEPT ![w].pc = "update"]
  /\ UNCHANGED <<acct, sess, tok, newest, pwds, requests, cut, crossed>>

AdminUpdateUser(w) ==
  LET u == hd[w].user IN
  /\ hd[w].pc = "update"
  /\ acct' = [acct EXCEPT ![u].role = hd[w].role, ![u].status = hd[w].status]
  /\ IF hd[w].status = "disabled" THEN hd' = [Overtaken(u) EXCEPT ![w].pc = "purge"]
     ELSE Finish(w)
  /\ crossed' = (crossed \/ \E v \in Handler \ {w} : hd[v].pc = "update")
  /\ UNCHANGED <<sess, tok, newest, pwds, requests, cut>>

-----------------------------------------------------------------------------
(* Recovery by mail.                                                       *)

(* Mutant: a token for an address that nobody has.                         *)
issueForAnyone(w, u) ==
  /\ Start(w, [Idle EXCEPT !.pc = "token", !.kind = "recover", !.user = u])
  /\ UNCHANGED <<acct, sess, tok, newest, pwds, cut, crossed>>

(* recover and adminSendRecovery look up an active account first.          *)
issueRecovery(w, u) ==
  /\ Active(u)
  /\ Start(w, [Idle EXCEPT !.pc = "token", !.kind = "recover", !.user = u])
  /\ UNCHANGED <<acct, sess, tok, newest, pwds, cut, crossed>>

(* Mutant: the earlier tokens stay open.                                   *)
AddPasswordReset(w, t) ==
  /\ hd[w].pc = "token" /\ tok[t] = None
  /\ tok' = [tok EXCEPT ![t] = [user |-> hd[w].user, state |-> "open"]]
  /\ newest' = [newest EXCEPT ![hd[w].user] = t]
  /\ Finish(w)
  /\ UNCHANGED <<acct, sess, pwds, requests, cut, crossed>>

ReplacePasswordReset(w, t) ==
  /\ hd[w].pc = "token" /\ tok[t] = None
  /\ tok' = [x \in Token |->
       IF x = t THEN [user |-> hd[w].user, state |-> "open"]
       ELSE IF tok[x] # None /\ tok[x].user = hd[w].user /\ tok[x].state = "open"
            THEN [tok[x] EXCEPT !.state = "used"] ELSE tok[x]]
  /\ newest' = [newest EXCEPT ![hd[w].user] = t]
  /\ Finish(w)
  /\ UNCHANGED <<acct, sess, pwds, requests, cut, crossed>>

(* resetPassword: the token is used up, the password is set and the        *)
(* sessions are deleted in one transaction.                                *)
ConsumePasswordReset(t) ==
  LET u == tok[t].user IN
  /\ requests < MaxRequests /\ tok[t] # None /\ tok[t].state = "open"
  /\ requests' = requests + 1
  /\ tok' = [tok EXCEPT ![t].state = "used"]
  /\ pwds' = pwds + 1
  /\ acct' = [acct EXCEPT ![u].pwd = pwds + 1]
  /\ sess' = [s \in Session |->
       IF sess[s] # None /\ sess[s].user = u THEN None ELSE sess[s]]
  /\ hd' = Overtaken(u)
  /\ UNCHANGED <<newest, cut, crossed>>

(* Two hours pass.                                                         *)
ExpireToken(t) ==
  /\ tok[t] # None /\ tok[t].state = "open"
  /\ tok' = [tok EXCEPT ![t].state = "expired"]
  /\ UNCHANGED <<acct, sess, newest, pwds, hd, requests, cut, crossed>>

-----------------------------------------------------------------------------
(* A request ends early.  The deletion of sessions is best effort: its     *)
(* error is ignored.                                                       *)
Abandon(w) ==
  /\ hd[w].pc # "idle"
  /\ cut' = IF hd[w].pc = "purge" THEN cut \cup {hd[w].user} ELSE cut
  /\ Finish(w)
  /\ UNCHANGED <<acct, sess, tok, newest, pwds, requests, crossed>>

Step(w) ==
  \/ \E s \in Session : CreateSession(w, s)
  \/ AuthenticateCurrent(w) \/ SetPassword(w) \/ DeleteSessionsForUser(w)
  \/ CreateUser(w) \/ ActiveAdminCount(w) \/ AdminUpdateUser(w)
  \/ \E t \in Token : ReplacePasswordReset(w, t)

Next ==
  \/ \E w \in Handler :
       \/ \E u \in User : Authenticate(w, u) \/ issueRecovery(w, u) \/ resetWithTOTP(w, u)
       \/ \E s \in Session :
            \/ revokeSessions(w, s)
            \/ \E keep \in {s, None} : changePassword(w, s, keep)
            \/ \E u \in User :
                 \/ adminResetPassword(w, s, u)
                 \/ \E role \in Role : adminCreateUser(w, s, u, role)
                 \/ \E role \in Role, status \in Status : adminPatchUser(w, s, u, role, status)
       \/ Step(w)
       \/ Abandon(w)
  \/ \E s \in Session : DeleteSession(s)
  \/ \E t \in Token : ConsumePasswordReset(t) \/ ExpireToken(t)

Spec == Init /\ [][Next]_vars

-----------------------------------------------------------------------------
(* Properties.                                                             *)

HandlerLocals ==
  {r \in [pc : {"idle", "session", "auth", "setpw", "purge", "create", "count",
                "update", "token"},
          kind : {"none", "login", "revoke", "change", "create", "reset", "patch", "recover", "totp"},
          user : User \cup {None}, keep : Session \cup {None}, pwd : Nat,
          late : BOOLEAN, role : Role, status : Status] :
     /\ r.pc # "idle" => r.user \in User
     /\ r.pc \in {"count", "update"} => r.keep = None}

(* Every variable keeps its type; whoever has a session, a token or a      *)
(* request under way that is not its creation has an account.              *)
TypeOK ==
  /\ acct \in [User -> Account \cup {None}]
  /\ sess \in [Session -> Row \cup {None}]
  /\ tok \in [Token -> Reset \cup {None}]
  /\ newest \in [User -> Token \cup {None}]
  /\ pwds \in Nat /\ requests \in Nat
  /\ cut \subseteq User /\ crossed \in BOOLEAN
  /\ hd \in [Handler -> HandlerLocals]
  /\ \A s \in Session : sess[s] # None => acct[sess[s].user] # None
  /\ \A t \in Token : tok[t] # None => acct[tok[t].user] # None
  /\ \A w \in Handler : hd[w].pc \notin {"idle", "create"} => acct[hd[w].user] # None

(* "cannot remove the last active administrator": there is always one,     *)
(* unless two patches counted before either of them was written.           *)
AdminRemains == crossed \/ ActiveAdmins # {}

Stale(s) == sess[s].pwd # acct[sess[s].user].pwd \/ acct[sess[s].user].status = "disabled"

(* Changing, resetting or recovering a password and disabling an account   *)
(* end its sessions: one whose holder does not know the password, or whose *)
(* account is disabled, is about to be deleted, was signing in while that  *)
(* happened, or outlived a deletion that failed.                           *)
NoStaleSessions ==
  \A s \in Session : sess[s] # None /\ Stale(s) =>
    \/ sess[s].late
    \/ sess[s].user \in cut
    \/ \E w \in Handler : hd[w].pc = "purge" /\ hd[w].user = sess[s].user /\ hd[w].keep # s

(* Only the reset link sent last works, and only once, however many were   *)
(* asked for at the same time.                                             *)
OnlyNewestOpen ==
  \A t \in Token : tok[t] # None /\ tok[t].state = "open" => newest[tok[t].user] = t
=============================================================================
