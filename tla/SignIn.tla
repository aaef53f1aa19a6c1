------------------------------- MODULE SignIn -------------------------------
(***************************************************************************)
(* Proving who you are to dCalCon, for one account and one client address: *)
(* the dashboard login, DAV Basic, the reset of a password with the        *)
(* authenticator, the authenticator itself, app passwords, and the rate    *)
(* limiter in front of them.                                               *)
(*                                                                         *)
(* Secrets of the authenticator are numbered; 0 is the empty string, which *)
(* has codes like any other key of an HMAC.  A code is the number of the   *)
(* secret it belongs to: the clock skew that otp.Valid forgives is left    *)
(* out.  The key that seals secrets does not change.  The account is       *)
(* active and its password fixed; Accounts has the rest.                   *)
(***************************************************************************)
EXTENDS RateLimit

CONSTANTS
  Key,           \* the limited operations that are tried
  App,           \* identifiers of app passwords
  MaxApps,       \* limits.MaxAppPasswords
  Handler,       \* requests in progress
  NoCode,        \* the request carries no code
  Settings,      \* are the authenticator and app passwords changed?
  MaxRequests,   \* bound on the number of requests
  MaxTime        \* bound on the clock

(* Hits are the requests that count whatever comes of them.                *)
Hits == {"recover", "webcal"}
ASSUME KeyAssumption == Key \subseteq {"login", "dav", "reset-totp", "reset"} \cup Hits
ASSUME AppAssumption == MaxApps \in Nat \ {0} /\ IsFiniteSet(Handler)
ASSUME BoundAssumption == MaxRequests \in Nat /\ MaxTime \in Nat /\ Settings \in BOOLEAN
ASSUME NoCodeAssumption == NoCode \notin Nat /\ App \cap {"password", "wrong"} = {}

VARIABLES
  now,       \* the clock
  bucket,    \* the limiter's bucket of each key
  totp,      \* totp_secret, totp_pending and totp_enabled
  secrets,   \* how many secrets have been generated
  apps,      \* app_passwords
  revoked,   \* app passwords that have been deleted: they never come back
  hd,        \* locals of each request
  requests,  \* how many requests have started
  saw,       \* history: what held at some time of each request under way
  spent      \* history: the failures and the served hits of each key within
             \* the last Window, since it last succeeded

vars == <<now, bucket, totp, secrets, apps, revoked, hd, requests, saw, spent>>

Code == Nat \cup {NoCode}
Credential == {"password", "wrong"} \cup App

Factor == [secret : Nat, pending : Nat, enabled : BOOLEAN]
Off == [secret |-> 0, pending |-> 0, enabled |-> FALSE]

Idle == [pc |-> "idle", key |-> "none", no |-> 0, cred |-> "wrong",
         code |-> NoCode, secret |-> 0, err |-> FALSE]

Init ==
  /\ now = 1
  /\ bucket = [k \in Key |-> Empty]
  /\ totp = Off
  /\ secrets = 0
  /\ apps = {} /\ revoked = {}
  /\ hd = [w \in Handler |-> Idle]
  /\ requests = 0
  /\ saw = [w \in Handler |-> {}]
  /\ spent = [k \in Key |-> {}]

Start(w, locals) ==
  /\ hd[w].pc = "idle" /\ requests < MaxRequests
  /\ requests' = requests + 1
  /\ hd' = [hd EXCEPT ![w] = locals]

Goto(w, pc) == hd' = [hd EXCEPT ![w].pc = pc]
Finish(w) == hd' = [hd EXCEPT ![w] = Idle]

account == <<totp, secrets, apps, revoked>>
limiter == <<bucket, spent>>

-----------------------------------------------------------------------------
(* Limited requests.                                                       *)

(* What a client sends: where the code does not look at the password or    *)
(* the code, one value stands for all.                                     *)
Sent(k) ==
  LET codes == 0 .. secrets \cup {NoCode}
  IN  CASE k = "login" -> Credential \X codes
        [] k = "dav" -> Credential \X {NoCode}
        [] k = "reset-totp" -> {"wrong"} \X codes
        [] OTHER -> {"wrong"} \X {NoCode}

(* Where a request goes once Allow has let it in.                          *)
First(k) == CASE k \in {"login", "dav"} -> "password"
              [] k = "reset-totp" -> "totp"
              [] k = "reset" -> "link"
              [] OTHER -> "fail"

(* A request begins with Allow; a locked key refuses it.                   *)
Attempt(w, k, cred, code) ==
  /\ bucket' = [bucket EXCEPT ![k] = Allow(@, now)]
  /\ IF Locked(bucket[k], now)
     THEN requests < MaxRequests /\ requests' = requests + 1 /\ hd[w].pc = "idle" /\ hd' = hd
     ELSE Start(w, [Idle EXCEPT !.pc = First(k), !.key = k, !.no = requests + 1,
                                !.cred = cred, !.code = code])
  /\ UNCHANGED <<now, account, spent>>

(* Authenticate with the dashboard password.  login refuses an app         *)
(* password; AuthenticateDAV goes on to look for one.                      *)
Authenticate(w) ==
  /\ hd[w].pc = "password"
  /\ Goto(w, CASE hd[w].cred = "password" -> "totp"
               [] hd[w].key = "dav" -> "app"
               [] OTHER -> "fail")
  /\ UNCHANGED <<now, account, limiter, requests>>

(* The database fails: login refuses; AuthenticateDAV falls through to the *)
(* app passwords.                                                          *)
AuthenticateFails(w) ==
  /\ hd[w].pc = "password"
  /\ Goto(w, IF hd[w].key = "dav" THEN "app" ELSE "fail")
  /\ UNCHANGED <<now, account, limiter, requests>>

Valid(code, secret) == code = secret

(* Mutant: a login without a code passes.                                  *)
totpFieldsLenient(w) ==
  /\ hd[w].pc = "totp"
  /\ Goto(w, IF hd[w].key = "dav" /\ totp.enabled THEN "fail" ELSE "granted")
  /\ UNCHANGED <<now, account, limiter, requests>>

(* What TOTPState says decides.  A login without the code that is needed   *)
(* is answered "authenticator code required" and not counted.              *)
totpFields(w) ==
  LET h == hd[w]
      ok == Valid(h.code, totp.secret)
  IN
  /\ h.pc = "totp"
  /\ \/ h.key = "login" /\ totp.enabled /\ h.code = NoCode /\ Finish(w)
     \/ h.key = "login" /\ totp.enabled /\ h.code # NoCode
        /\ Goto(w, IF ok THEN "granted" ELSE "fail")
     \/ h.key = "login" /\ ~totp.enabled /\ Goto(w, "granted")
     \/ h.key = "dav" /\ Goto(w, IF totp.enabled THEN "fail" ELSE "granted")
     \/ h.key = "reset-totp"
        /\ Goto(w, IF totp.enabled /\ ok THEN "granted" ELSE "fail")
  /\ UNCHANGED <<now, account, limiter, requests>>

(* TOTPState fails: AuthenticateDAV lets the request in all the same.      *)
totpFieldsFails(w) ==
  /\ hd[w].pc = "totp"
  /\ IF hd[w].key = "dav" THEN hd' = [hd EXCEPT ![w].pc = "granted", ![w].err = TRUE]
     ELSE Goto(w, "fail")
  /\ UNCHANGED <<now, account, limiter, requests>>

(* authenticateAppPassword; an error of the database is a mismatch.        *)
authenticateAppPassword(w) ==
  /\ hd[w].pc = "app"
  /\ \/ hd[w].cred \in apps /\ Goto(w, "granted")
     \/ Goto(w, "fail")
  /\ UNCHANGED <<now, account, limiter, requests>>

(* ConsumePasswordReset, whose outcome is a matter of Accounts.            *)
ConsumePasswordReset(w) ==
  /\ hd[w].pc = "link"
  /\ \E pc \in {"granted", "fail"} : Goto(w, pc)
  /\ UNCHANGED <<now, account, limiter, requests>>

(* A bad request, which is not counted: resetPassword looks at it after    *)
(* Allow, resetWithTOTP fails to store the password.                       *)
Rejected(w) ==
  /\ \/ hd[w].pc = "link"
     \/ hd[w].pc = "granted" /\ hd[w].key = "reset-totp"
  /\ Finish(w)
  /\ UNCHANGED <<now, account, limiter, requests>>

(* The request is counted; of the hits only those that are served.         *)
Failed(w) ==
  LET k == hd[w].key
      f == [at |-> now, by |-> hd[w].no]
  IN
  /\ hd[w].pc = "fail"
  /\ bucket' = [bucket EXCEPT ![k] = Fail(@, f)]
  /\ spent' = IF k \in Hits /\ Locked(bucket'[k], now) THEN spent
              ELSE [spent EXCEPT ![k] = @ \cup {f}]
  /\ Finish(w)
  /\ UNCHANGED <<now, account, requests>>

(* Access is given and the failures are forgotten.                         *)
Success(w) ==
  LET k == hd[w].key IN
  /\ hd[w].pc = "granted"
  /\ bucket' = [bucket EXCEPT ![k] = Empty]
  /\ spent' = [spent EXCEPT ![k] = {}]
  /\ Finish(w)
  /\ UNCHANGED <<now, account, requests>>

-----------------------------------------------------------------------------
(* The authenticator, from a session.                                      *)

(* totpSetup generates a secret; totpCancel withdraws it.                  *)
totpSetup(w) ==
  /\ ~totp.enabled
  /\ Start(w, [Idle EXCEPT !.pc = "pending", !.secret = secrets + 1])
  /\ secrets' = secrets + 1
  /\ UNCHANGED <<now, totp, apps, revoked, limiter>>

totpCancel(w) ==
  /\ ~totp.enabled
  /\ Start(w, [Idle EXCEPT !.pc = "pending", !.secret = 0])
  /\ UNCHANGED <<now, account, limiter>>

(* Mutant: the statement does not look at totp_enabled.                    *)
SetPendingAlways(w) ==
  /\ hd[w].pc = "pending"
  /\ totp' = [totp EXCEPT !.pending = hd[w].secret]
  /\ Finish(w)
  /\ UNCHANGED <<now, secrets, apps, revoked, limiter, requests>>

SetTOTPPending(w) ==
  /\ hd[w].pc = "pending"
  /\ totp' = IF totp.enabled THEN totp ELSE [totp EXCEPT !.pending = hd[w].secret]
  /\ Finish(w)
  /\ UNCHANGED <<now, secrets, apps, revoked, limiter, requests>>

(* Mutant: nothing needs to be pending.                                    *)
totpEnableUnset(w, code) ==
  /\ ~totp.enabled /\ Valid(code, totp.pending)
  /\ Start(w, [Idle EXCEPT !.pc = "enable", !.secret = totp.pending])
  /\ UNCHANGED <<now, account, limiter>>

(* totpEnable checks a code against the pending secret it has read.        *)
totpEnable(w, code) ==
  /\ ~totp.enabled /\ totp.pending # 0 /\ Valid(code, totp.pending)
  /\ Start(w, [Idle EXCEPT !.pc = "enable", !.secret = totp.pending])
  /\ UNCHANGED <<now, account, limiter>>

EnableTOTP(w) ==
  /\ hd[w].pc = "enable"
  /\ totp' = [secret |-> hd[w].secret, pending |-> 0, enabled |-> TRUE]
  /\ Finish(w)
  /\ UNCHANGED <<now, secrets, apps, revoked, limiter, requests>>

(* totpDisable wants the password or a code of the secret it has read;     *)
(* adminDisableTOTP wants neither.                                         *)
totpDisable(w, cred, code) ==
  /\ cred = "password" \/ (totp.enabled /\ Valid(code, totp.secret))
  /\ Start(w, [Idle EXCEPT !.pc = "disable"])
  /\ UNCHANGED <<now, account, limiter>>

adminDisableTOTP(w) ==
  /\ Start(w, [Idle EXCEPT !.pc = "disable"])
  /\ UNCHANGED <<now, account, limiter>>

DisableTOTP(w) ==
  /\ hd[w].pc = "disable"
  /\ totp' = Off
  /\ Finish(w)
  /\ UNCHANGED <<now, secrets, apps, revoked, limiter, requests>>

-----------------------------------------------------------------------------
(* App passwords, from a session.                                          *)

(* Mutant: the limit is not looked at.                                     *)
createUncounted(w) ==
  /\ Start(w, [Idle EXCEPT !.pc = "insert"])
  /\ UNCHANGED <<now, account, limiter>>

createAppPassword(w) ==
  /\ Cardinality(apps) < MaxApps
  /\ Start(w, [Idle EXCEPT !.pc = "insert"])
  /\ UNCHANGED <<now, account, limiter>>

InsertAppPassword(w, p) ==
  /\ hd[w].pc = "insert" /\ p \notin apps \cup revoked
  /\ apps' = apps \cup {p}
  /\ Finish(w)
  /\ UNCHANGED <<now, totp, secrets, revoked, limiter, requests>>

DeleteAppPassword(p) ==
  /\ p \in apps
  /\ apps' = apps \ {p} /\ revoked' = revoked \cup {p}
  /\ UNCHANGED <<now, totp, secrets, limiter, hd, requests>>

-----------------------------------------------------------------------------
(* The environment.                                                        *)

Tick ==
  /\ now < MaxTime
  /\ now' = now + 1
  /\ spent' = [k \in Key |-> prune(spent[k], now + 1)]
  /\ UNCHANGED <<bucket, account, hd, requests>>

(* Allow of another key, when the limiter has many buckets.                *)
gcLocked ==
  /\ bucket' = [k \in Key |-> Collected(bucket[k], now)]
  /\ bucket' # bucket
  /\ UNCHANGED <<now, account, spent, hd, requests>>

(* The process ends and starts again: the limiter is in memory.            *)
Restart ==
  /\ bucket' = [k \in Key |-> Empty]
  /\ spent' = [k \in Key |-> {}]
  /\ hd' = [w \in Handler |-> Idle]
  /\ <<bucket, hd>>' # <<bucket, hd>>
  /\ UNCHANGED <<now, account, requests>>

-----------------------------------------------------------------------------
Step(w) ==
  \/ Authenticate(w) \/ AuthenticateFails(w)
  \/ totpFields(w) \/ totpFieldsFails(w) \/ authenticateAppPassword(w)
  \/ ConsumePasswordReset(w) \/ Rejected(w) \/ Failed(w) \/ Success(w)
  \/ SetTOTPPending(w) \/ EnableTOTP(w) \/ DisableTOTP(w)
  \/ \E p \in App : InsertAppPassword(w, p)

Request(w) ==
  \/ \E k \in Key : \E s \in Sent(k) : Attempt(w, k, s[1], s[2])
  \/ /\ Settings
     /\ \/ totpSetup(w) \/ totpCancel(w) \/ adminDisableTOTP(w) \/ createAppPassword(w)
        \/ \E code \in 0 .. secrets :
             totpEnable(w, code) \/ \E cred \in Credential : totpDisable(w, cred, code)

Action ==
  \/ \E w \in Handler : Request(w) \/ Step(w)
  \/ \E p \in App : DeleteAppPassword(p)
  \/ Tick \/ gcLocked \/ Restart

(* What the requests under way may rely on.                                *)
World == [totp |-> totp, apps |-> apps]

Next ==
  /\ Action
  /\ saw' = [w \in Handler |-> IF hd'[w].pc = "idle" THEN {} ELSE saw[w] \cup {World'}]

Spec == Init /\ [][Next]_vars

-----------------------------------------------------------------------------
(* Properties.                                                             *)

HandlerLocals ==
  {r \in [pc : {"idle", "password", "totp", "app", "link", "fail", "granted",
                "pending", "enable", "disable", "insert"},
          key : Key \cup {"none"}, no : Nat, cred : Credential, code : Code,
          secret : Nat, err : BOOLEAN] :
     /\ r.pc \in {"password", "totp", "app", "link", "fail", "granted"} => r.key \in Key
     /\ r.pc = "enable" => r.secret # 0}

(* Every variable keeps its type; a counted request has a key, and what is *)
(* enabled is a secret.                                                    *)
TypeOK ==
  /\ now \in Nat /\ requests \in Nat /\ secrets \in Nat
  /\ bucket \in [Key -> Bucket]
  /\ spent \in [Key -> SUBSET Failure]
  /\ totp \in Factor
  /\ apps \subseteq App /\ revoked \subseteq App
  /\ hd \in [Handler -> HandlerLocals]
  /\ saw \in [Handler -> SUBSET [totp : Factor, apps : SUBSET App]]

(* What a request h was proved by, in one of the worlds S.                 *)
Proven(h, S) ==
  CASE h.key = "login" ->
         h.cred = "password" /\ \E x \in S : ~x.totp.enabled \/ h.code = x.totp.secret
    [] h.key = "dav" ->
         \/ h.cred = "password" /\ (h.err \/ \E x \in S : ~x.totp.enabled)
         \/ \E x \in S : h.cred \in x.apps
    [] h.key = "reset-totp" -> \E x \in S : x.totp.enabled /\ h.code = x.totp.secret
    [] OTHER -> TRUE

(* Access is only given for what proved the user's identity at some time   *)
(* of the request, however setting up, disabling and revoking interleave   *)
(* with it: a login for the password and, with the authenticator on, its   *)
(* code; DAV for an app password, or for the dashboard password while the  *)
(* authenticator was off (or could not be looked up, which the code lets   *)
(* pass); a reset for the code of an authenticator that was on.            *)
AccessProven ==
  \A w \in Handler : hd[w].pc = "granted" => Proven(hd[w], saw[w])

(* The columns of the authenticator agree: on with a secret and nothing    *)
(* pending, or off without a secret (SetTOTPPending, EnableTOTP and        *)
(* DisableTOTP, each run on the strength of an earlier read).              *)
FactorConsistent ==
  IF totp.enabled THEN totp.secret # 0 /\ totp.pending = 0 ELSE totp.secret = 0

(* The limit on app passwords is passed by no more than the requests that  *)
(* counted at the same time.                                               *)
AppsBounded == Cardinality(apps) < MaxApps + Cardinality(Handler)

(* "8 / 15m then lockout", when the lock lasts as long as the Window (both *)
(* default to 15 minutes): within any Window a key takes Max failures, one *)
(* more for each other request that was let in before the lock, and one    *)
(* for each that fails so late that the lock is over: the next Allow wipes *)
(* those out.                                                              *)
GuessesBounded ==
  Lockout >= Window =>
    \A k \in Key : Cardinality(spent[k]) <= Max + 2 * (Cardinality(Handler) - 1)

(* Max failures lock the key: it is never open with so many.               *)
LockedAtMax ==
  \A k \in Key : Cardinality(bucket[k].fails) >= Max => bucket[k].until # 0
=============================================================================
