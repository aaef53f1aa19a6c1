--------------------------- MODULE AccountsProofs ---------------------------
(***************************************************************************)
(* Proofs about Accounts for any number of users, sessions, tokens and     *)
(* overlapping requests.                                                   *)
(***************************************************************************)
EXTENDS Accounts, FiniteSetTheorems, TLAPS

(* A sign-in under way has checked the account as it is now, unless it is  *)
(* marked late.                                                            *)
SignInsChecked ==
  \A w \in Handler : hd[w].pc = "session" =>
    \/ hd[w].late
    \/ hd[w].pwd = acct[hd[w].user].pwd /\ acct[hd[w].user].status = "active"

Inv == TypeOK /\ SignInsChecked /\ NoStaleSessions /\ OnlyNewestOpen

-----------------------------------------------------------------------------
(* A request that is over has typed locals.                                *)
LEMMA IdleTyped == Idle \in HandlerLocals /\ Idle.pc = "idle"
BY DEF Idle, HandlerLocals, Role, Status

(* The invariant holds when bootstrap.Admin has made the administrator.    *)
LEMMA InitInv == Init => Inv
<1> SUFFICES ASSUME Init PROVE Inv
  OBVIOUS
<1>1. [role |-> "admin", status |-> "active", pwd |-> 0] \in Account
  BY DEF Account, Role, Status
<1>2. TypeOK
  BY <1>1, IdleTyped DEF Init, TypeOK
<1> QED
  BY <1>2, IdleTyped DEF Init, Inv, SignInsChecked, NoStaleSessions, OnlyNewestOpen

-----------------------------------------------------------------------------
(* Requests start.                                                         *)

(* A request starts with typed locals, on an account that is there.        *)
LEMMA StartKeeps ==
  ASSUME Inv, NEW w \in Handler, NEW L \in HandlerLocals, Start(w, L),
         UNCHANGED <<acct, sess, tok, newest, pwds, cut, crossed>>,
         L.pc \notin {"idle", "create"} => acct[L.user] # None,
         L.pc = "session" => L.pwd = acct[L.user].pwd /\ acct[L.user].status = "active"
  PROVE  Inv'
<1>1. hd \in [Handler -> HandlerLocals] /\ requests \in Nat
  BY DEF Inv, TypeOK
<1>2. hd' \in [Handler -> HandlerLocals] /\ requests' \in Nat
  BY <1>1 DEF Start
<1>3. hd'[w] = L /\ \A v \in Handler \ {w} : hd'[v] = hd[v]
  BY <1>1 DEF Start
<1>4. TypeOK'
  BY <1>2, <1>3 DEF Inv, TypeOK
<1>5. SignInsChecked'
  BY <1>3 DEF Inv, SignInsChecked
<1>6. NoStaleSessions'
  <2> SUFFICES ASSUME NEW s \in Session, sess[s] # None, Stale(s),
                      ~sess[s].late, sess[s].user \notin cut
               PROVE  \E v \in Handler : hd'[v].pc = "purge" /\ hd'[v].user = sess[s].user
                                         /\ hd'[v].keep # s
    BY DEF NoStaleSessions, Stale
  <2>1. PICK v \in Handler : hd[v].pc = "purge" /\ hd[v].user = sess[s].user
                             /\ hd[v].keep # s
    BY DEF Inv, NoStaleSessions
  <2>2. v # w
    BY <2>1 DEF Start
  <2> QED  BY <1>3, <2>1, <2>2
<1>7. OnlyNewestOpen'
  BY DEF Inv, OnlyNewestOpen
<1> QED  BY <1>4, <1>5, <1>6, <1>7 DEF Inv

(* Every action that starts a request.                                     *)
LEMMA StartsKeep ==
  ASSUME Inv, NEW w \in Handler,
         \/ \E u \in User : Authenticate(w, u) \/ issueRecovery(w, u) \/ resetWithTOTP(w, u)
         \/ \E s \in Session :
              \/ revokeSessions(w, s)
              \/ \E keep \in {s, None} : changePassword(w, s, keep)
              \/ \E u \in User :
                   \/ adminResetPassword(w, s, u)
                   \/ \E role \in Role : adminCreateUser(w, s, u, role)
                   \/ \E role \in Role, status \in Status : adminPatchUser(w, s, u, role, status)
  PROVE  Inv'
<1>1. acct \in [User -> Account \cup {None}] /\ sess \in [Session -> Row \cup {None}]
  BY DEF Inv, TypeOK
<1>2. \A s \in Session : sess[s] # None => sess[s].user \in User /\ acct[sess[s].user] # None
  BY <1>1 DEF Inv, TypeOK, Row
<1>3. \A u \in User : acct[u] # None => acct[u].pwd \in Nat
  BY <1>1 DEF Account
<1>4. CASE \E u \in User : Authenticate(w, u) \/ issueRecovery(w, u) \/ resetWithTOTP(w, u)
  <2>1. PICK u \in User : Authenticate(w, u) \/ issueRecovery(w, u) \/ resetWithTOTP(w, u)
    BY <1>4
  <2>2. acct[u] # None /\ acct[u].status = "active" /\ acct[u].pwd \in Nat
    BY <1>3, <2>1 DEF Authenticate, issueRecovery, resetWithTOTP, Active
  <2>3. CASE Authenticate(w, u)
    <3> DEFINE L == [Idle EXCEPT !.pc = "session", !.kind = "login", !.user = u,
                                 !.pwd = acct[u].pwd]
    <3>1. L \in HandlerLocals /\ L.pc = "session" /\ L.user = u /\ L.pwd = acct[u].pwd
      BY <2>2 DEF HandlerLocals, Idle, Role, Status
    <3>2. Start(w, L) /\ UNCHANGED <<acct, sess, tok, newest, pwds, cut, crossed>>
      BY <2>3 DEF Authenticate
    <3> HIDE DEF L
    <3> QED  BY <2>2, <3>1, <3>2, StartKeeps
  <2>4. CASE issueRecovery(w, u)
    <3> DEFINE L == [Idle EXCEPT !.pc = "token", !.kind = "recover", !.user = u]
    <3>1. L \in HandlerLocals /\ L.pc = "token" /\ L.user = u
      BY DEF HandlerLocals, Idle, Role, Status
    <3>2. Start(w, L) /\ UNCHANGED <<acct, sess, tok, newest, pwds, cut, crossed>>
      BY <2>4 DEF issueRecovery
    <3> HIDE DEF L
    <3> QED  BY <2>2, <3>1, <3>2, StartKeeps
  <2>5. CASE resetWithTOTP(w, u)
    <3> DEFINE L == [Idle EXCEPT !.pc = "setpw", !.kind = "totp", !.user = u]
    <3>1. L \in HandlerLocals /\ L.pc = "setpw" /\ L.user = u
      BY DEF HandlerLocals, Idle, Role, Status
    <3>2. Start(w, L) /\ UNCHANGED <<acct, sess, tok, newest, pwds, cut, crossed>>
      BY <2>5 DEF resetWithTOTP
    <3> HIDE DEF L
    <3> QED  BY <2>2, <3>1, <3>2, StartKeeps
  <2> QED  BY <2>1, <2>3, <2>4, <2>5
<1>5. CASE \E s \in Session : revokeSessions(w, s) \/ \E keep \in {s, None} : changePassword(w, s, keep)
  <2>1. PICK s \in Session : revokeSessions(w, s) \/ \E keep \in {s, None} : changePassword(w, s, keep)
    BY <1>5
  <2>2. PICK u \in User : u = sess[s].user /\ acct[u] # None
    BY <1>2, <2>1 DEF revokeSessions, changePassword, SignedIn
  <2>3. CASE revokeSessions(w, s)
    <3> DEFINE L == [Idle EXCEPT !.pc = "purge", !.kind = "revoke", !.user = u, !.keep = s]
    <3>1. L \in HandlerLocals /\ L.pc = "purge" /\ L.user = u
      BY DEF HandlerLocals, Idle, Role, Status
    <3>2. Start(w, L) /\ UNCHANGED <<acct, sess, tok, newest, pwds, cut, crossed>>
      BY <2>2, <2>3 DEF revokeSessions
    <3> HIDE DEF L
    <3> QED  BY <2>2, <3>1, <3>2, StartKeeps
  <2>4. CASE \E keep \in {s, None} : changePassword(w, s, keep)
    <3>1. PICK keep \in {s, None} : changePassword(w, s, keep)
      BY <2>4
    <3> DEFINE L == [Idle EXCEPT !.pc = "auth", !.kind = "change", !.user = u, !.keep = keep]
    <3>2. L \in HandlerLocals /\ L.pc = "auth" /\ L.user = u
      BY DEF HandlerLocals, Idle, Role, Status
    <3>3. Start(w, L) /\ UNCHANGED <<acct, sess, tok, newest, pwds, cut, crossed>>
      BY <2>2, <3>1 DEF changePassword
    <3> HIDE DEF L
    <3> QED  BY <2>2, <3>2, <3>3, StartKeeps
  <2> QED  BY <2>1, <2>3, <2>4
<1>6. CASE \E s \in Session, u \in User :
             \/ adminResetPassword(w, s, u)
             \/ \E role \in Role : adminCreateUser(w, s, u, role)
  <2>1. PICK s \in Session, u \in User :
             \/ adminResetPassword(w, s, u)
             \/ \E role \in Role : adminCreateUser(w, s, u, role)
    BY <1>6
  <2>2. CASE adminResetPassword(w, s, u)
    <3> DEFINE L == [Idle EXCEPT !.pc = "setpw", !.kind = "reset", !.user = u]
    <3>1. L \in HandlerLocals /\ L.pc = "setpw" /\ L.user = u
      BY DEF HandlerLocals, Idle, Role, Status
    <3>2. Start(w, L) /\ UNCHANGED <<acct, sess, tok, newest, pwds, cut, crossed>> /\ acct[u] # None
      BY <2>2 DEF adminResetPassword
    <3> HIDE DEF L
    <3> QED  BY <3>1, <3>2, StartKeeps
  <2>3. CASE \E role \in Role : adminCreateUser(w, s, u, role)
    <3>1. PICK role \in Role : adminCreateUser(w, s, u, role)
      BY <2>3
    <3> DEFINE L == [Idle EXCEPT !.pc = "create", !.kind = "create", !.user = u, !.role = role]
    <3>2. L \in HandlerLocals /\ L.pc = "create"
      BY DEF HandlerLocals, Idle, Role, Status
    <3>3. Start(w, L) /\ UNCHANGED <<acct, sess, tok, newest, pwds, cut, crossed>>
      BY <3>1 DEF adminCreateUser
    <3> HIDE DEF L
    <3> QED  BY <3>2, <3>3, StartKeeps
  <2> QED  BY <2>1, <2>2, <2>3
<1>7. CASE \E s \in Session, u \in User, role \in Role, status \in Status :
             adminPatchUser(w, s, u, role, status)
  <2>1. PICK s \in Session, u \in User, role \in Role, status \in Status :
             adminPatchUser(w, s, u, role, status)
    BY <1>7
  <2>2. PICK p \in {"count", "update"} :
          p = IF u \in ActiveAdmins /\ (role # "admin" \/ status # "active")
              THEN "count" ELSE "update"
    OBVIOUS
  <2> DEFINE L == [Idle EXCEPT !.pc = p, !.kind = "patch", !.user = u,
                               !.role = role, !.status = status]
  <2>3. L \in HandlerLocals /\ L.pc = p /\ L.user = u
    BY DEF HandlerLocals, Idle, Role, Status
  <2>4. Start(w, L) /\ UNCHANGED <<acct, sess, tok, newest, pwds, cut, crossed>> /\ acct[u] # None
    BY <2>1, <2>2 DEF adminPatchUser
  <2> HIDE DEF L
  <2> QED  BY <2>2, <2>3, <2>4, StartKeeps
<1> QED  BY <1>4, <1>5, <1>6, <1>7

-----------------------------------------------------------------------------
(* Steps of a request.                                                     *)

(* A step that leaves the accounts, the sessions and whoever is purging    *)
(* alone disturbs only the types.                                          *)
LEMMA QuietKeeps ==
  ASSUME Inv, UNCHANGED <<acct, sess, tok, newest, pwds, crossed>>,
         requests' \in Nat, cut' \subseteq User, hd' \in [Handler -> HandlerLocals],
         \A v \in Handler : \/ hd'[v] = hd[v]
                            \/ /\ hd'[v].pc # "session"
                               /\ hd'[v].pc \notin {"idle", "create"} => acct[hd'[v].user] # None
                               /\ hd[v].pc = "purge" => hd[v].user \in cut',
         cut \subseteq cut'
  PROVE  Inv'
<1>1. TypeOK'
  BY DEF Inv, TypeOK
<1>2. SignInsChecked'
  BY DEF Inv, SignInsChecked
<1>3. NoStaleSessions'
  BY DEF Inv, NoStaleSessions, Stale
<1>4. OnlyNewestOpen'
  BY DEF Inv, OnlyNewestOpen
<1> QED  BY <1>1, <1>2, <1>3, <1>4 DEF Inv

(* AuthenticateCurrent, the refusal of ActiveAdminCount and a request that *)
(* is cut off change no table.                                             *)
LEMMA QuietSteps ==
  ASSUME Inv, NEW w \in Handler,
         AuthenticateCurrent(w) \/ ActiveAdminCount(w) \/ Abandon(w)
  PROVE  Inv'
<1>1. hd \in [Handler -> HandlerLocals] /\ requests \in Nat /\ cut \subseteq User
  BY DEF Inv, TypeOK
<1>2. hd[w].pc # "idle" => hd[w].user \in User
  BY <1>1 DEF HandlerLocals
<1>3. \A v \in Handler : hd[v].pc \notin {"idle", "create"} => acct[hd[v].user] # None
  BY DEF Inv, TypeOK
<1>4. CASE Finish(w) /\ hd[w].pc = "count" /\ UNCHANGED <<acct, sess, tok, newest, pwds, requests, cut, crossed>>
  <2>1. hd' \in [Handler -> HandlerLocals] /\ hd'[w].pc = "idle"
        /\ \A v \in Handler \ {w} : hd'[v] = hd[v]
    BY <1>1, <1>4, IdleTyped DEF Finish
  <2> QED  BY <1>1, <1>4, <2>1, QuietKeeps
<1>5. CASE Abandon(w)
  <2>1. hd' \in [Handler -> HandlerLocals] /\ hd'[w].pc = "idle"
        /\ \A v \in Handler \ {w} : hd'[v] = hd[v]
    BY <1>1, <1>5, IdleTyped DEF Abandon, Finish
  <2>2. cut' \subseteq User /\ cut \subseteq cut' /\ (hd[w].pc = "purge" => hd[w].user \in cut')
    BY <1>1, <1>2, <1>5 DEF Abandon
  <2>3. UNCHANGED <<acct, sess, tok, newest, pwds, requests, crossed>>
    BY <1>5 DEF Abandon
  <2> QED  BY <1>1, <2>1, <2>2, <2>3, QuietKeeps
<1>6. ASSUME NEW p, <<hd[w].pc, p>> \in {<<"auth", "setpw">>, <<"count", "update">>},
             hd' = [hd EXCEPT ![w].pc = p],
             UNCHANGED <<acct, sess, tok, newest, pwds, requests, cut, crossed>>
      PROVE  Inv'
  <2>1. [hd[w] EXCEPT !.pc = p] \in HandlerLocals
    BY <1>1, <1>6 DEF HandlerLocals
  <2>2. hd' \in [Handler -> HandlerLocals] /\ hd'[w].pc = p /\ hd'[w].user = hd[w].user
        /\ \A v \in Handler \ {w} : hd'[v] = hd[v]
    <3>1. hd' = [hd EXCEPT ![w] = [hd[w] EXCEPT !.pc = p]]
      BY <1>1, <1>6
    <3>2. [hd[w] EXCEPT !.pc = p].pc = p /\ [hd[w] EXCEPT !.pc = p].user = hd[w].user
      BY <1>1 DEF HandlerLocals
    <3> QED  BY <1>1, <2>1, <3>1, <3>2
  <2>3. acct[hd'[w].user] # None
    BY <1>3, <1>6, <2>2
  <2> QED  BY <1>1, <1>6, <2>2, <2>3, QuietKeeps
<1> QED  BY <1>4, <1>5, <1>6 DEF AuthenticateCurrent, ActiveAdminCount

(* What Overtaken changes: sign-ins for u are marked late.                 *)
LEMMA OvertakenFacts ==
  ASSUME hd \in [Handler -> HandlerLocals], NEW u
  PROVE  /\ Overtaken(u) \in [Handler -> HandlerLocals]
         /\ \A v \in Handler :
              /\ Overtaken(u)[v].pc = hd[v].pc
              /\ Overtaken(u)[v].user = hd[v].user
              /\ Overtaken(u)[v].keep = hd[v].keep
              /\ Overtaken(u)[v].pwd = hd[v].pwd
              /\ hd[v].late => Overtaken(u)[v].late
              /\ hd[v].pc = "session" /\ hd[v].user = u => Overtaken(u)[v].late
<1> SUFFICES ASSUME NEW v \in Handler
             PROVE  /\ Overtaken(u)[v] \in HandlerLocals
                    /\ Overtaken(u)[v].pc = hd[v].pc
                    /\ Overtaken(u)[v].user = hd[v].user
                    /\ Overtaken(u)[v].keep = hd[v].keep
                    /\ Overtaken(u)[v].pwd = hd[v].pwd
                    /\ hd[v].late => Overtaken(u)[v].late
                    /\ hd[v].pc = "session" /\ hd[v].user = u => Overtaken(u)[v].late
  BY DEF Overtaken
<1>1. hd[v] \in HandlerLocals
  OBVIOUS
<1> QED  BY <1>1 DEF Overtaken, HandlerLocals

(* A session created by a sign-in that was not overtaken is a current one. *)
LEMMA CreateSessionKeeps ==
  ASSUME Inv, NEW w \in Handler, NEW s \in Session, CreateSession(w, s)
  PROVE  Inv'
<1>1. hd \in [Handler -> HandlerLocals] /\ sess \in [Session -> Row \cup {None}]
  BY DEF Inv, TypeOK
<1>2. hd[w].pc = "session" /\ UNCHANGED <<acct, tok, newest, pwds, requests, cut, crossed>>
  BY DEF CreateSession
<1>3. hd' \in [Handler -> HandlerLocals] /\ hd'[w].pc = "idle"
      /\ \A v \in Handler \ {w} : hd'[v] = hd[v]
  BY <1>1, IdleTyped DEF CreateSession, Finish
<1> DEFINE r == [user |-> hd[w].user, pwd |-> hd[w].pwd, late |-> hd[w].late]
<1>4. r \in Row
  BY <1>1, <1>2 DEF HandlerLocals, Row
<1>5. sess' \in [Session -> Row \cup {None}] /\ sess'[s] = r
      /\ \A x \in Session \ {s} : sess'[x] = sess[x]
  BY <1>1, <1>4 DEF CreateSession
<1>6. r.user = hd[w].user /\ r.pwd = hd[w].pwd /\ r.late = hd[w].late
  OBVIOUS
<1>7. acct[r.user] # None /\ (r.late \/ (r.pwd = acct[r.user].pwd /\ acct[r.user].status = "active"))
  BY <1>2, <1>6 DEF Inv, TypeOK, SignInsChecked
<1> HIDE DEF r
<1>8. TypeOK'
  BY <1>2, <1>3, <1>5, <1>7 DEF Inv, TypeOK
<1>9. SignInsChecked'
  BY <1>2, <1>3 DEF Inv, SignInsChecked
<1>10. NoStaleSessions'
  <2> SUFFICES ASSUME NEW x \in Session, sess'[x] # None, Stale(x)', ~sess'[x].late,
                      sess'[x].user \notin cut'
               PROVE  \E v \in Handler : hd'[v].pc = "purge" /\ hd'[v].user = sess'[x].user
                                         /\ hd'[v].keep # x
    BY DEF NoStaleSessions
  <2>1. x # s
    BY <1>2, <1>5, <1>7 DEF Stale
  <2>2. sess'[x] = sess[x]
    BY <1>5, <2>1
  <2>3. Stale(x)
    BY <1>2, <2>2 DEF Stale
  <2>4. PICK v \in Handler : hd[v].pc = "purge" /\ hd[v].user = sess[x].user /\ hd[v].keep # x
    BY <1>2, <2>2, <2>3 DEF Inv, NoStaleSessions
  <2> QED  BY <1>2, <1>3, <2>2, <2>4
<1>11. OnlyNewestOpen'
  BY <1>2 DEF Inv, OnlyNewestOpen
<1> QED  BY <1>8, <1>9, <1>10, <1>11 DEF Inv

(* The password of u becomes the next one: who signs in is overtaken, and  *)
(* every session of u is in line to be deleted, kept by hand or gone.      *)
LEMMA SetPasswordKeeps ==
  ASSUME Inv, NEW w \in Handler, SetPassword(w)
  PROVE  Inv'
<1>1. hd \in [Handler -> HandlerLocals] /\ sess \in [Session -> Row \cup {None}]
      /\ acct \in [User -> Account \cup {None}] /\ pwds \in Nat
  BY DEF Inv, TypeOK
<1>2. PICK u \in User : u = hd[w].user /\ acct[u] # None
  BY <1>1 DEF SetPassword, HandlerLocals, Inv, TypeOK
<1>3. hd[w].pc = "setpw" /\ UNCHANGED <<tok, newest, requests, cut, crossed>> /\ pwds' = pwds + 1
  BY DEF SetPassword
<1>4. [acct[u] EXCEPT !.pwd = pwds + 1] \in Account
      /\ [acct[u] EXCEPT !.pwd = pwds + 1].pwd = pwds + 1
      /\ [acct[u] EXCEPT !.pwd = pwds + 1].status = acct[u].status
  BY <1>1, <1>2 DEF Account
<1>5. acct' \in [User -> Account \cup {None}] /\ acct'[u].pwd = pwds + 1
      /\ acct'[u].status = acct[u].status /\ acct'[u] \in Account
      /\ \A x \in User \ {u} : acct'[x] = acct[x]
  <2>1. acct' = [acct EXCEPT ![u] = [acct[u] EXCEPT !.pwd = pwds + 1]]
    BY <1>1, <1>2 DEF SetPassword
  <2> QED  BY <1>1, <1>4, <2>1
<1>6. \A x \in User : acct[x] # None => acct'[x] # None
  BY <1>5, NoneAssumption
<1>7. sess' \in [Session -> Row \cup {None}]
      /\ \A x \in Session : \/ sess'[x] = sess[x] /\ ~(x = hd[w].keep /\ sess[x] # None /\ sess[x].user = u)
                            \/ /\ sess'[x] = [sess[x] EXCEPT !.pwd = pwds + 1]
                               /\ x = hd[w].keep /\ sess[x] # None /\ sess[x].user = u
                               /\ sess'[x].user = sess[x].user /\ sess'[x].late = sess[x].late
                               /\ sess'[x].pwd = pwds + 1
  <2> SUFFICES ASSUME NEW x \in Session
               PROVE  /\ sess'[x] \in Row \cup {None}
                      /\ \/ sess'[x] = sess[x] /\ ~(x = hd[w].keep /\ sess[x] # None /\ sess[x].user = u)
                         \/ /\ sess'[x] = [sess[x] EXCEPT !.pwd = pwds + 1]
                            /\ x = hd[w].keep /\ sess[x] # None /\ sess[x].user = u
                            /\ sess'[x].user = sess[x].user /\ sess'[x].late = sess[x].late
                            /\ sess'[x].pwd = pwds + 1
    BY DEF SetPassword
  <2>1. CASE x = hd[w].keep /\ sess[x] # None /\ sess[x].user = u
    <3>1. sess'[x] = [sess[x] EXCEPT !.pwd = pwds + 1]
      BY <1>2, <2>1 DEF SetPassword
    <3> QED  BY <1>1, <2>1, <3>1 DEF Row
  <2>2. CASE ~(x = hd[w].keep /\ sess[x] # None /\ sess[x].user = u)
    BY <1>1, <1>2, <2>2 DEF SetPassword
  <2> QED  BY <2>1, <2>2
<1>8. /\ hd' \in [Handler -> HandlerLocals]
      /\ hd'[w].pc = "purge" /\ hd'[w].user = u /\ hd'[w].keep = hd[w].keep
      /\ \A v \in Handler \ {w} : hd'[v] = Overtaken(u)[v]
  <2> DEFINE O == Overtaken(u)
             n == [O[w] EXCEPT !.pc = "purge"]
  <2>1. O \in [Handler -> HandlerLocals] /\ O[w].user = u /\ O[w].keep = hd[w].keep
    BY <1>1, <1>2, OvertakenFacts
  <2>2. n \in HandlerLocals /\ n.pc = "purge" /\ n.user = u /\ n.keep = hd[w].keep
    BY <2>1 DEF HandlerLocals
  <2>3. hd' = [O EXCEPT ![w].pc = "purge"]
    BY <1>2 DEF SetPassword
  <2>4. hd' = [O EXCEPT ![w] = n]
    BY <2>1, <2>3
  <2> HIDE DEF O, n
  <2>5. hd' \in [Handler -> HandlerLocals] /\ hd'[w] = n /\ \A v \in Handler \ {w} : hd'[v] = O[v]
    BY <2>1, <2>2, <2>4
  <2> QED  BY <2>2, <2>5 DEF O
<1>9. TypeOK'
  <2>1. \A x \in Session : sess'[x] # None => acct'[sess'[x].user] # None
    BY <1>1, <1>6, <1>7 DEF Inv, TypeOK, Row
  <2>2. \A t \in Token : tok'[t] # None => acct'[tok'[t].user] # None
    BY <1>3, <1>6 DEF Inv, TypeOK, Reset
  <2>3. \A v \in Handler : hd'[v].pc \notin {"idle", "create"} => acct'[hd'[v].user] # None
    <3> SUFFICES ASSUME NEW v \in Handler, hd'[v].pc \notin {"idle", "create"}
                 PROVE  acct'[hd'[v].user] # None
      OBVIOUS
    <3>1. hd'[v].user = hd[v].user /\ hd[v].pc \notin {"idle", "create"}
      BY <1>1, <1>2, <1>3, <1>8, OvertakenFacts
    <3> QED  BY <1>1, <1>6, <3>1 DEF HandlerLocals, Inv, TypeOK
  <2> QED  BY <1>1, <1>3, <1>5, <1>7, <1>8, <2>1, <2>2, <2>3 DEF Inv, TypeOK
<1>10. SignInsChecked'
  <2> SUFFICES ASSUME NEW v \in Handler, hd'[v].pc = "session", ~hd'[v].late
               PROVE  hd'[v].pwd = acct'[hd'[v].user].pwd /\ acct'[hd'[v].user].status = "active"
    BY DEF SignInsChecked
  <2>1. v # w
    BY <1>8
  <2>2. hd[v].pc = "session" /\ ~hd[v].late /\ hd[v].user # u /\ hd'[v].user = hd[v].user
        /\ hd'[v].pwd = hd[v].pwd /\ hd[v].user \in User
    BY <1>1, <1>8, <2>1, OvertakenFacts DEF HandlerLocals
  <2> QED  BY <1>5, <2>2 DEF Inv, SignInsChecked
<1>11. NoStaleSessions'
  <2> SUFFICES ASSUME NEW x \in Session, sess'[x] # None, Stale(x)', ~sess'[x].late,
                      sess'[x].user \notin cut'
               PROVE  \E v \in Handler : hd'[v].pc = "purge" /\ hd'[v].user = sess'[x].user
                                         /\ hd'[v].keep # x
    BY DEF NoStaleSessions
  <2>1. sess[x] # None /\ sess'[x].user = sess[x].user /\ ~sess[x].late
        /\ sess[x].user \notin cut /\ sess[x].user \in User
    BY <1>1, <1>3, <1>7 DEF Row
  <2>2. CASE sess[x].user = u /\ hd[w].keep # x
    BY <1>8, <2>1, <2>2
  <2>3. CASE sess[x].user # u \/ hd[w].keep = x
    <3>1. Stale(x)
      <4>1. CASE sess[x].user # u
        BY <1>5, <1>7, <2>1, <4>1 DEF Stale
      <4>2. CASE sess[x].user = u /\ hd[w].keep = x
        BY <1>5, <1>7, <2>1, <4>2 DEF Stale
      <4> QED  BY <2>3, <4>1, <4>2
    <3>2. PICK v \in Handler : hd[v].pc = "purge" /\ hd[v].user = sess[x].user /\ hd[v].keep # x
      BY <2>1, <3>1 DEF Inv, NoStaleSessions
    <3>3. v # w
      BY <1>3, <3>2
    <3> QED  BY <1>1, <1>8, <2>1, <3>2, <3>3, OvertakenFacts
  <2> QED  BY <2>2, <2>3
<1>12. OnlyNewestOpen'
  BY <1>3 DEF Inv, OnlyNewestOpen
<1> QED  BY <1>9, <1>10, <1>11, <1>12 DEF Inv

(* Deleting the sessions of a user leaves only the one that is kept, and   *)
(* that one is either current or in somebody else's line.                  *)
LEMMA DeleteSessionsForUserKeeps ==
  ASSUME Inv, NEW w \in Handler, DeleteSessionsForUser(w)
  PROVE  Inv'
<1>1. hd \in [Handler -> HandlerLocals] /\ sess \in [Session -> Row \cup {None}]
  BY DEF Inv, TypeOK
<1>2. hd[w].pc = "purge" /\ UNCHANGED <<acct, tok, newest, pwds, requests, cut, crossed>>
  BY DEF DeleteSessionsForUser
<1>3. hd' \in [Handler -> HandlerLocals] /\ hd'[w].pc = "idle"
      /\ \A v \in Handler \ {w} : hd'[v] = hd[v]
  BY <1>1, IdleTyped DEF DeleteSessionsForUser, Finish
<1>4. sess' \in [Session -> Row \cup {None}]
      /\ \A x \in Session : sess'[x] # None =>
           sess'[x] = sess[x] /\ ~(sess[x].user = hd[w].user /\ x # hd[w].keep)
  BY <1>1 DEF DeleteSessionsForUser
<1>5. TypeOK'
  BY <1>2, <1>3, <1>4 DEF Inv, TypeOK
<1>6. SignInsChecked'
  BY <1>2, <1>3 DEF Inv, SignInsChecked
<1>7. NoStaleSessions'
  <2> SUFFICES ASSUME NEW x \in Session, sess'[x] # None, Stale(x)', ~sess'[x].late,
                      sess'[x].user \notin cut'
               PROVE  \E v \in Handler : hd'[v].pc = "purge" /\ hd'[v].user = sess'[x].user
                                         /\ hd'[v].keep # x
    BY DEF NoStaleSessions
  <2>1. sess'[x] = sess[x] /\ ~(sess[x].user = hd[w].user /\ x # hd[w].keep)
    BY <1>4
  <2>2. Stale(x)
    BY <1>2, <2>1 DEF Stale
  <2>3. PICK v \in Handler : hd[v].pc = "purge" /\ hd[v].user = sess[x].user /\ hd[v].keep # x
    BY <1>2, <2>1, <2>2 DEF Inv, NoStaleSessions
  <2>4. v # w
    BY <2>1, <2>3
  <2> QED  BY <1>3, <2>1, <2>3, <2>4
<1>8. OnlyNewestOpen'
  BY <1>2 DEF Inv, OnlyNewestOpen
<1> QED  BY <1>5, <1>6, <1>7, <1>8 DEF Inv

(* A new account has no session, no token and no request yet.              *)
LEMMA CreateUserKeeps ==
  ASSUME Inv, NEW w \in Handler, CreateUser(w)
  PROVE  Inv'
<1>1. hd \in [Handler -> HandlerLocals] /\ acct \in [User -> Account \cup {None}]
      /\ pwds \in Nat /\ sess \in [Session -> Row \cup {None}] /\ tok \in [Token -> Reset \cup {None}]
  BY DEF Inv, TypeOK
<1>2. hd[w].pc = "create" /\ UNCHANGED <<sess, tok, newest, requests, cut, crossed>>
  BY DEF CreateUser
<1>3. hd' \in [Handler -> HandlerLocals] /\ hd'[w].pc = "idle"
      /\ \A v \in Handler \ {w} : hd'[v] = hd[v]
  BY <1>1, IdleTyped DEF CreateUser, Finish
<1>4. PICK u \in User, role \in Role : u = hd[w].user /\ role = hd[w].role
  BY <1>1, <1>2 DEF HandlerLocals
<1> DEFINE a == [role |-> role, status |-> "active", pwd |-> pwds + 1]
<1>5. a \in Account
  BY <1>1 DEF Account, Status
<1>6. acct' \in [User -> Account \cup {None}] /\ pwds' \in Nat
      /\ \A x \in User : acct[x] # None => acct'[x] = acct[x]
  <2>1. CASE acct[u] = None /\ acct' = [acct EXCEPT ![u] = a] /\ pwds' = pwds + 1
    <3> HIDE DEF a
    <3> QED  BY <1>1, <1>5, <2>1
  <2>2. CASE UNCHANGED <<acct, pwds>>
    BY <1>1, <2>2
  <2> QED  BY <1>4, <2>1, <2>2 DEF CreateUser
<1>7. \A v \in Handler : hd[v].pc \notin {"idle", "create"} =>
        acct[hd[v].user] # None /\ acct'[hd[v].user] = acct[hd[v].user]
  BY <1>1, <1>6 DEF HandlerLocals, Inv, TypeOK
<1>8. \A x \in Session : sess[x] # None =>
        acct[sess[x].user] # None /\ acct'[sess[x].user] = acct[sess[x].user]
  BY <1>1, <1>6 DEF Row, Inv, TypeOK
<1>9. \A t \in Token : tok[t] # None => acct'[tok[t].user] # None
  BY <1>1, <1>6 DEF Reset, Inv, TypeOK
<1>10. TypeOK'
  BY <1>2, <1>3, <1>6, <1>7, <1>8, <1>9 DEF Inv, TypeOK
<1>11. SignInsChecked'
  BY <1>3, <1>7 DEF Inv, SignInsChecked
<1>12. NoStaleSessions'
  <2> SUFFICES ASSUME NEW x \in Session, sess[x] # None, Stale(x)', ~sess[x].late,
                      sess[x].user \notin cut
               PROVE  \E v \in Handler : hd'[v].pc = "purge" /\ hd'[v].user = sess[x].user
                                         /\ hd'[v].keep # x
    BY <1>2 DEF NoStaleSessions
  <2>1. Stale(x)
    BY <1>2, <1>8 DEF Stale
  <2>2. PICK v \in Handler : hd[v].pc = "purge" /\ hd[v].user = sess[x].user /\ hd[v].keep # x
    BY <2>1 DEF Inv, NoStaleSessions
  <2> QED  BY <1>2, <1>3, <2>2
<1>13. OnlyNewestOpen'
  BY <1>2 DEF Inv, OnlyNewestOpen
<1> QED  BY <1>10, <1>11, <1>12, <1>13 DEF Inv

(* An account that is disabled has its sessions in line to be deleted, and *)
(* one that is patched otherwise is active, with the password it had.      *)
LEMMA AdminUpdateUserKeeps ==
  ASSUME Inv, NEW w \in Handler, AdminUpdateUser(w)
  PROVE  Inv'
<1>1. hd \in [Handler -> HandlerLocals] /\ acct \in [User -> Account \cup {None}]
      /\ sess \in [Session -> Row \cup {None}] /\ tok \in [Token -> Reset \cup {None}]
  BY DEF Inv, TypeOK
<1>2. hd[w].pc = "update" /\ UNCHANGED <<sess, tok, newest, pwds, requests, cut>>
      /\ crossed' \in BOOLEAN
  BY DEF AdminUpdateUser
<1>3. PICK u \in User, role \in Role, status \in Status :
        u = hd[w].user /\ role = hd[w].role /\ status = hd[w].status /\ acct[u] # None
  BY <1>1, <1>2 DEF HandlerLocals, Inv, TypeOK
<1> DEFINE a == [acct[u] EXCEPT !.role = role, !.status = status]
<1>4. a \in Account /\ a.pwd = acct[u].pwd /\ a.status = status
  <2>1. PICK r \in Account : r = acct[u]
    BY <1>1, <1>3
  <2>2. [r EXCEPT !.role = role, !.status = status] \in Account
        /\ [r EXCEPT !.role = role, !.status = status].pwd = r.pwd
        /\ [r EXCEPT !.role = role, !.status = status].status = status
    BY DEF Account
  <2> QED  BY <2>1, <2>2
<1>5. acct' = [acct EXCEPT ![u] = a]
  BY <1>1, <1>3 DEF AdminUpdateUser
<1> HIDE DEF a
<1>6. acct' \in [User -> Account \cup {None}] /\ acct'[u] = a /\ a # None
      /\ \A x \in User \ {u} : acct'[x] = acct[x]
  BY <1>1, <1>4, <1>5, NoneAssumption
<1>7. /\ hd' \in [Handler -> HandlerLocals]
      /\ \/ hd'[w].pc = "idle" /\ status = "active"
         \/ hd'[w].pc = "purge" /\ hd'[w].user = u /\ hd'[w].keep = hd[w].keep /\ status = "disabled"
      /\ \A v \in Handler \ {w} : hd'[v] = IF status = "disabled" THEN Overtaken(u)[v] ELSE hd[v]
  <2>1. CASE status = "disabled"
    <3> DEFINE O == Overtaken(u)
               n == [O[w] EXCEPT !.pc = "purge"]
    <3>1. O \in [Handler -> HandlerLocals] /\ O[w].user = u /\ O[w].keep = hd[w].keep
      BY <1>1, <1>3, OvertakenFacts
    <3>2. n \in HandlerLocals /\ n.pc = "purge" /\ n.user = u /\ n.keep = hd[w].keep
      BY <3>1 DEF HandlerLocals
    <3>3. hd' = [O EXCEPT ![w].pc = "purge"]
      BY <1>3, <2>1 DEF AdminUpdateUser
    <3>4. hd' = [O EXCEPT ![w] = n]
      BY <3>1, <3>3
    <3> HIDE DEF O, n
    <3>5. hd' \in [Handler -> HandlerLocals] /\ hd'[w] = n /\ \A v \in Handler \ {w} : hd'[v] = O[v]
      BY <3>1, <3>2, <3>4
    <3> QED  BY <2>1, <3>2, <3>5 DEF O
  <2>2. CASE status = "active"
    BY <1>1, <1>3, <2>2, IdleTyped DEF AdminUpdateUser, Finish
  <2> QED  BY <2>1, <2>2 DEF Status
<1>8. \A v \in Handler \ {w} :
        /\ hd'[v].pc = hd[v].pc /\ hd'[v].user = hd[v].user /\ hd'[v].keep = hd[v].keep
        /\ hd'[v].pwd = hd[v].pwd /\ (hd[v].late => hd'[v].late)
        /\ status = "disabled" /\ hd[v].pc = "session" /\ hd[v].user = u => hd'[v].late
  BY <1>1, <1>7, OvertakenFacts
<1>9. TypeOK'
  <2>1. \A x \in Session : sess'[x] # None => acct'[sess'[x].user] # None
    BY <1>1, <1>2, <1>6 DEF Inv, TypeOK, Row
  <2>2. \A t \in Token : tok'[t] # None => acct'[tok'[t].user] # None
    BY <1>1, <1>2, <1>6 DEF Inv, TypeOK, Reset
  <2>3. \A v \in Handler : hd'[v].pc \notin {"idle", "create"} => acct'[hd'[v].user] # None
    <3> SUFFICES ASSUME NEW v \in Handler, hd'[v].pc \notin {"idle", "create"}
                 PROVE  acct'[hd'[v].user] # None
      OBVIOUS
    <3>1. hd'[v].user = hd[v].user /\ hd[v].pc \notin {"idle", "create"}
      BY <1>2, <1>3, <1>7, <1>8
    <3> QED  BY <1>1, <1>6, <3>1 DEF HandlerLocals, Inv, TypeOK
  <2> QED  BY <1>2, <1>6, <1>7, <2>1, <2>2, <2>3 DEF Inv, TypeOK
<1>10. SignInsChecked'
  <2> SUFFICES ASSUME NEW v \in Handler, hd'[v].pc = "session", ~hd'[v].late
               PROVE  hd'[v].pwd = acct'[hd'[v].user].pwd /\ acct'[hd'[v].user].status = "active"
    BY DEF SignInsChecked
  <2>1. v # w
    BY <1>7
  <2>2. hd[v].pc = "session" /\ ~hd[v].late /\ hd'[v].user = hd[v].user
        /\ hd'[v].pwd = hd[v].pwd /\ hd[v].user \in User /\ (status = "disabled" => hd[v].user # u)
    BY <1>1, <1>8, <2>1 DEF HandlerLocals
  <2>3. hd[v].pwd = acct[hd[v].user].pwd /\ acct[hd[v].user].status = "active"
    BY <2>2 DEF Inv, SignInsChecked
  <2> QED  BY <1>4, <1>6, <2>2, <2>3 DEF Status
<1>11. NoStaleSessions'
  <2> SUFFICES ASSUME NEW x \in Session, sess[x] # None, Stale(x)', ~sess[x].late,
                      sess[x].user \notin cut
               PROVE  \E v \in Handler : hd'[v].pc = "purge" /\ hd'[v].user = sess[x].user
                                         /\ hd'[v].keep # x
    BY <1>2 DEF NoStaleSessions
  <2>1. sess[x].user \in User
    BY <1>1 DEF Row
  <2>2. CASE Stale(x)
    <3>1. PICK v \in Handler : hd[v].pc = "purge" /\ hd[v].user = sess[x].user /\ hd[v].keep # x
      BY <2>2 DEF Inv, NoStaleSessions
    <3>2. v # w
      BY <1>2, <3>1
    <3> QED  BY <1>8, <3>1, <3>2
  <2>3. CASE ~Stale(x)
    <3>1. sess[x].user = u /\ status = "disabled"
      BY <1>2, <1>4, <1>6, <2>1, <2>3 DEF Stale, Status
    <3>2. hd[w].keep # x
      BY <1>1, <1>2, NoneAssumption DEF HandlerLocals
    <3> QED  BY <1>7, <3>1, <3>2
  <2> QED  BY <2>2, <2>3
<1>12. OnlyNewestOpen'
  BY <1>2 DEF Inv, OnlyNewestOpen
<1> QED  BY <1>9, <1>10, <1>11, <1>12 DEF Inv

-----------------------------------------------------------------------------
(* Reset tokens and the end of a session.                                  *)

(* Issuing a token closes the open ones of the same user.                  *)
LEMMA ReplacePasswordResetKeeps ==
  ASSUME Inv, NEW w \in Handler, NEW t \in Token, ReplacePasswordReset(w, t)
  PROVE  Inv'
<1>1. hd \in [Handler -> HandlerLocals] /\ tok \in [Token -> Reset \cup {None}]
      /\ newest \in [User -> Token \cup {None}]
  BY DEF Inv, TypeOK
<1>2. hd[w].pc = "token" /\ UNCHANGED <<acct, sess, pwds, requests, cut, crossed>>
  BY DEF ReplacePasswordReset
<1>3. hd' \in [Handler -> HandlerLocals] /\ hd'[w].pc = "idle"
      /\ \A v \in Handler \ {w} : hd'[v] = hd[v]
  BY <1>1, IdleTyped DEF ReplacePasswordReset, Finish
<1>4. PICK u \in User : u = hd[w].user /\ acct[u] # None
  BY <1>1, <1>2 DEF HandlerLocals, Inv, TypeOK
<1>5. newest' \in [User -> Token \cup {None}] /\ newest'[u] = t
      /\ \A x \in User \ {u} : newest'[x] = newest[x]
  BY <1>1, <1>4 DEF ReplacePasswordReset
<1>6. \A x \in Token :
        /\ tok'[x] \in Reset \cup {None}
        /\ x = t => tok'[x].user = u
        /\ x # t /\ tok'[x] # None => tok[x] # None /\ tok'[x].user = tok[x].user
        /\ x # t /\ tok'[x] # None /\ tok'[x].state = "open" =>
             tok[x].state = "open" /\ tok[x].user # u
  <2> SUFFICES ASSUME NEW x \in Token
               PROVE  /\ tok'[x] \in Reset \cup {None}
                      /\ x = t => tok'[x].user = u
                      /\ x # t /\ tok'[x] # None => tok[x] # None /\ tok'[x].user = tok[x].user
                      /\ x # t /\ tok'[x] # None /\ tok'[x].state = "open" =>
                           tok[x].state = "open" /\ tok[x].user # u
    OBVIOUS
  <2>1. CASE x = t
    BY <1>4, <2>1 DEF ReplacePasswordReset, Reset
  <2>2. CASE x # t /\ tok[x] # None /\ tok[x].user = u /\ tok[x].state = "open"
    <3>1. tok'[x] = [tok[x] EXCEPT !.state = "used"]
      BY <1>4, <2>2 DEF ReplacePasswordReset
    <3> QED  BY <1>1, <2>2, <3>1 DEF Reset
  <2>3. CASE x # t /\ ~(tok[x] # None /\ tok[x].user = u /\ tok[x].state = "open")
    <3>1. tok'[x] = tok[x]
      BY <1>4, <2>3 DEF ReplacePasswordReset
    <3> QED  BY <1>1, <2>3, <3>1
  <2> QED  BY <2>1, <2>2, <2>3
<1>7. tok' \in [Token -> Reset \cup {None}]
  BY <1>6 DEF ReplacePasswordReset
<1>8. TypeOK'
  BY <1>2, <1>3, <1>4, <1>5, <1>6, <1>7 DEF Inv, TypeOK
<1>9. SignInsChecked'
  BY <1>2, <1>3 DEF Inv, SignInsChecked
<1>10. NoStaleSessions'
  <2>1. \A v \in Handler : hd[v].pc = "purge" => hd'[v] = hd[v]
    BY <1>2, <1>3
  <2> QED  BY <1>2, <2>1 DEF Inv, NoStaleSessions, Stale
<1>11. OnlyNewestOpen'
  <2> SUFFICES ASSUME NEW x \in Token, tok'[x] # None, tok'[x].state = "open"
               PROVE  newest'[tok'[x].user] = x
    BY DEF OnlyNewestOpen
  <2>1. CASE x = t
    BY <1>5, <1>6, <2>1
  <2>2. CASE x # t
    <3>1. tok[x] # None /\ tok[x].state = "open" /\ tok[x].user # u /\ tok'[x].user = tok[x].user
      BY <1>6, <2>2
    <3>2. tok[x].user \in User /\ newest[tok[x].user] = x
      BY <1>1, <3>1 DEF Reset, Inv, OnlyNewestOpen
    <3> QED  BY <1>5, <3>1, <3>2
  <2> QED  BY <2>1, <2>2
<1> QED  BY <1>8, <1>9, <1>10, <1>11 DEF Inv

(* Recovery ends every session of its user in the same transaction.        *)
LEMMA ConsumePasswordResetKeeps ==
  ASSUME Inv, NEW t \in Token, ConsumePasswordReset(t)
  PROVE  Inv'
<1>1. hd \in [Handler -> HandlerLocals] /\ sess \in [Session -> Row \cup {None}]
      /\ acct \in [User -> Account \cup {None}] /\ pwds \in Nat /\ requests \in Nat
      /\ tok \in [Token -> Reset \cup {None}]
  BY DEF Inv, TypeOK
<1>2. tok[t] # None /\ UNCHANGED <<newest, cut, crossed>> /\ pwds' = pwds + 1 /\ requests' = requests + 1
  BY DEF ConsumePasswordReset
<1>3. PICK u \in User : u = tok[t].user /\ acct[u] # None
  BY <1>1, <1>2 DEF Reset, Inv, TypeOK
<1> DEFINE a == [acct[u] EXCEPT !.pwd = pwds + 1]
           k == [tok[t] EXCEPT !.state = "used"]
<1>4. a \in Account
  BY <1>1, <1>3 DEF Account
<1>5. k \in Reset /\ k.user = u /\ k.state = "used"
  BY <1>1, <1>2, <1>3 DEF Reset
<1>6. acct' = [acct EXCEPT ![u] = a] /\ tok' = [tok EXCEPT ![t] = k]
  BY <1>1, <1>3 DEF ConsumePasswordReset
<1> HIDE DEF a, k
<1>7. acct' \in [User -> Account \cup {None}] /\ acct'[u] = a /\ a # None
      /\ \A x \in User \ {u} : acct'[x] = acct[x]
  BY <1>1, <1>4, <1>6, NoneAssumption
<1>8. tok' \in [Token -> Reset \cup {None}] /\ tok'[t] = k
      /\ \A x \in Token \ {t} : tok'[x] = tok[x]
  BY <1>1, <1>5, <1>6
<1>9. sess' \in [Session -> Row \cup {None}]
      /\ \A x \in Session : sess'[x] # None => sess'[x] = sess[x] /\ sess[x].user # u
  BY <1>1, <1>3 DEF ConsumePasswordReset
<1>10. hd' = Overtaken(u)
  BY <1>3 DEF ConsumePasswordReset
<1>11. TypeOK'
  <2>1. \A x \in Session : sess'[x] # None => acct'[sess'[x].user] # None
    BY <1>1, <1>7, <1>9 DEF Inv, TypeOK, Row
  <2>2. \A x \in Token : tok'[x] # None => acct'[tok'[x].user] # None
    BY <1>1, <1>5, <1>7, <1>8 DEF Inv, TypeOK, Reset
  <2>3. hd' \in [Handler -> HandlerLocals]
        /\ \A v \in Handler : hd'[v].pc = hd[v].pc /\ hd'[v].user = hd[v].user
    BY <1>1, <1>10, OvertakenFacts
  <2>4. \A v \in Handler : hd'[v].pc \notin {"idle", "create"} => acct'[hd'[v].user] # None
    BY <1>1, <1>7, <2>3 DEF HandlerLocals, Inv, TypeOK
  <2> QED  BY <1>1, <1>2, <1>7, <1>8, <1>9, <2>1, <2>2, <2>3, <2>4 DEF Inv, TypeOK
<1>12. SignInsChecked'
  <2> SUFFICES ASSUME NEW v \in Handler, hd'[v].pc = "session", ~hd'[v].late
               PROVE  hd'[v].pwd = acct'[hd'[v].user].pwd /\ acct'[hd'[v].user].status = "active"
    BY DEF SignInsChecked
  <2>1. hd[v].pc = "session" /\ ~hd[v].late /\ hd[v].user # u /\ hd'[v].user = hd[v].user
        /\ hd'[v].pwd = hd[v].pwd /\ hd[v].user \in User
    BY <1>1, <1>10, OvertakenFacts DEF HandlerLocals
  <2> QED  BY <1>7, <2>1 DEF Inv, SignInsChecked
<1>13. NoStaleSessions'
  <2> SUFFICES ASSUME NEW x \in Session, sess'[x] # None, Stale(x)', ~sess'[x].late,
                      sess'[x].user \notin cut'
               PROVE  \E v \in Handler : hd'[v].pc = "purge" /\ hd'[v].user = sess'[x].user
                                         /\ hd'[v].keep # x
    BY DEF NoStaleSessions
  <2>1. sess'[x] = sess[x] /\ sess[x].user # u /\ sess[x].user \in User
    BY <1>1, <1>9 DEF Row
  <2>2. Stale(x)
    BY <1>7, <2>1 DEF Stale
  <2>3. PICK v \in Handler : hd[v].pc = "purge" /\ hd[v].user = sess[x].user /\ hd[v].keep # x
    BY <1>2, <2>1, <2>2 DEF Inv, NoStaleSessions
  <2> QED  BY <1>1, <1>10, <2>1, <2>3, OvertakenFacts
<1>14. OnlyNewestOpen'
  BY <1>2, <1>5, <1>8 DEF Inv, OnlyNewestOpen
<1> QED  BY <1>11, <1>12, <1>13, <1>14 DEF Inv

(* A token expires, or a session ends.                                     *)
LEMMA EndsKeep ==
  ASSUME Inv, \/ \E s \in Session : DeleteSession(s)
              \/ \E t \in Token : ExpireToken(t)
  PROVE  Inv'
<1>1. sess \in [Session -> Row \cup {None}] /\ tok \in [Token -> Reset \cup {None}]
  BY DEF Inv, TypeOK
<1>2. CASE \E s \in Session : DeleteSession(s)
  <2>1. PICK s \in Session : DeleteSession(s)
    BY <1>2
  <2>2. UNCHANGED <<acct, tok, newest, pwds, hd, requests, cut, crossed>>
        /\ sess' \in [Session -> Row \cup {None}]
        /\ \A x \in Session : sess'[x] # None => sess'[x] = sess[x]
    BY <1>1, <2>1 DEF DeleteSession
  <2>3. TypeOK'
    BY <2>2 DEF Inv, TypeOK
  <2>4. SignInsChecked' /\ OnlyNewestOpen'
    BY <2>2 DEF Inv, SignInsChecked, OnlyNewestOpen
  <2>5. NoStaleSessions'
    BY <2>2 DEF Inv, NoStaleSessions, Stale
  <2> QED  BY <2>3, <2>4, <2>5 DEF Inv
<1>3. CASE \E t \in Token : ExpireToken(t)
  <2>1. PICK t \in Token : ExpireToken(t)
    BY <1>3
  <2> DEFINE k == [tok[t] EXCEPT !.state = "expired"]
  <2>2. k \in Reset /\ k.user = tok[t].user /\ k.state = "expired" /\ tok[t] # None
    BY <1>1, <2>1 DEF ExpireToken, Reset
  <2>3. tok' = [tok EXCEPT ![t] = k] /\ UNCHANGED <<acct, sess, newest, pwds, hd, requests, cut, crossed>>
    BY <1>1, <2>1 DEF ExpireToken
  <2> HIDE DEF k
  <2>4. tok' \in [Token -> Reset \cup {None}] /\ tok'[t] = k
        /\ \A x \in Token \ {t} : tok'[x] = tok[x]
    BY <1>1, <2>2, <2>3
  <2>5. TypeOK'
    BY <2>2, <2>3, <2>4 DEF Inv, TypeOK
  <2>6. SignInsChecked' /\ OnlyNewestOpen'
    BY <2>2, <2>3, <2>4 DEF Inv, SignInsChecked, OnlyNewestOpen
  <2>7. NoStaleSessions'
    BY <2>3 DEF Inv, NoStaleSessions, Stale
  <2> QED  BY <2>5, <2>6, <2>7 DEF Inv
<1> QED  BY <1>2, <1>3

-----------------------------------------------------------------------------
(* Inv is inductive.                                                       *)
LEMMA NextKeepsInv == Inv /\ [Next]_vars => Inv'
<1> SUFFICES ASSUME Inv, [Next]_vars PROVE Inv'
  OBVIOUS
<1>1. CASE UNCHANGED vars
  BY <1>1 DEF vars, Inv, TypeOK, SignInsChecked, NoStaleSessions, OnlyNewestOpen, Stale
<1>2. CASE \E w \in Handler : Step(w)
  <2>1. PICK w \in Handler : Step(w)
    BY <1>2
  <2> QED
    BY <2>1, CreateSessionKeeps, QuietSteps, SetPasswordKeeps, DeleteSessionsForUserKeeps,
       CreateUserKeeps, AdminUpdateUserKeeps, ReplacePasswordResetKeeps, Zenon DEF Step
<1>3. CASE \E w \in Handler : Abandon(w)
  BY <1>3, QuietSteps
<1>4. CASE \/ \E s \in Session : DeleteSession(s)
           \/ \E t \in Token : ConsumePasswordReset(t) \/ ExpireToken(t)
  BY <1>4, EndsKeep, ConsumePasswordResetKeeps
<1>5. CASE \E w \in Handler :
             \/ \E u \in User : Authenticate(w, u) \/ issueRecovery(w, u) \/ resetWithTOTP(w, u)
             \/ \E s \in Session :
                  \/ revokeSessions(w, s)
                  \/ \E keep \in {s, None} : changePassword(w, s, keep)
                  \/ \E u \in User :
                       \/ adminResetPassword(w, s, u)
                       \/ \E role \in Role : adminCreateUser(w, s, u, role)
                       \/ \E role \in Role, status \in Status : adminPatchUser(w, s, u, role, status)
  BY <1>5, StartsKeep
<1> QED  BY <1>1, <1>2, <1>3, <1>4, <1>5, Zenon DEF Next

(* Inv holds of every reachable state.                                     *)
LEMMA InvAlways == Spec => []Inv
BY InitInv, NextKeepsInv, PTL DEF Spec

(* Every variable keeps its type, and whatever belongs to a user belongs   *)
(* to one that has an account: adminCreateUser makes the row first, and    *)
(* no operation deletes it.                                                *)
THEOREM TypeCorrect == Spec => []TypeOK
<1>1. Inv => TypeOK
  BY DEF Inv
<1> QED  BY <1>1, InvAlways, PTL

(* A password change, reset or recovery and the disabling of an account    *)
(* end every other session, whatever overlaps: what is left of them was    *)
(* overtaken at sign-in, or outlived a failed deletion.                    *)
THEOREM SessionsEnd == Spec => []NoStaleSessions
<1>1. Inv => NoStaleSessions
  BY DEF Inv
<1> QED  BY <1>1, InvAlways, PTL

(* However requests for recovery overlap, only the link sent last is open. *)
THEOREM NewestLink == Spec => []OnlyNewestOpen
<1>1. Inv => OnlyNewestOpen
  BY DEF Inv
<1> QED  BY <1>1, InvAlways, PTL

-----------------------------------------------------------------------------
(* The last administrator.                                                 *)

(* There is an administrator, and a patch that is about to be written      *)
(* leaves one.                                                             *)
Safe ==
  /\ ActiveAdmins # {}
  /\ \A w \in Handler : hd[w].pc = "update" =>
       \/ hd[w].role = "admin" /\ hd[w].status = "active"
       \/ ActiveAdmins \ {hd[w].user} # {}

(* More than one administrator means one other than u.                     *)
LEMMA AnotherAdmin ==
  ASSUME NEW u, ~(Cardinality(ActiveAdmins) <= 1)
  PROVE  ActiveAdmins \ {u} # {}
<1> SUFFICES ASSUME ActiveAdmins \subseteq {u} PROVE FALSE
  OBVIOUS
<1>1. IsFiniteSet({u}) /\ Cardinality({u}) = 1
  BY FS_Singleton
<1>2. Cardinality(ActiveAdmins) <= Cardinality({u})
  BY <1>1, FS_Subset
<1> QED  BY <1>1, <1>2

(* A step that writes no account and lets w go to another place is safe    *)
(* unless w goes to the update, and then if that update leaves somebody.   *)
LEMMA SameAccounts ==
  ASSUME crossed \/ Safe, UNCHANGED <<acct, crossed>>, NEW w \in Handler,
         \A v \in Handler \ {w} : hd'[v] = hd[v],
         Safe => \/ hd'[w].pc # "update"
                 \/ hd'[w].role = "admin" /\ hd'[w].status = "active"
                 \/ ActiveAdmins \ {hd'[w].user} # {}
  PROVE  (crossed \/ Safe)'
<1>1. ActiveAdmins' = ActiveAdmins
  BY DEF ActiveAdmins, Active
<1> QED  BY <1>1 DEF Safe

(* A step that takes nobody's rights and starts no update is safe.         *)
LEMMA MoreAccounts ==
  ASSUME crossed \/ Safe, UNCHANGED crossed, ActiveAdmins \subseteq ActiveAdmins',
         \A v \in Handler : hd'[v] = hd[v] \/ hd'[v].pc # "update"
  PROVE  (crossed \/ Safe)'
BY DEF Safe

(* Setting a password leaves the administrators alone.                     *)
LEMMA PasswordAdmins ==
  ASSUME Inv, NEW u \in User, acct[u] # None, acct' = [acct EXCEPT ![u].pwd = pwds + 1]
  PROVE  ActiveAdmins \subseteq ActiveAdmins'
<1>1. acct \in [User -> Account \cup {None}] /\ pwds \in Nat
  BY DEF Inv, TypeOK
<1> DEFINE a == [acct[u] EXCEPT !.pwd = pwds + 1]
<1>2. a.role = acct[u].role /\ a.status = acct[u].status /\ a \in Account
  BY <1>1 DEF Account
<1>3. acct' = [acct EXCEPT ![u] = a]
  BY <1>1
<1> HIDE DEF a
<1>4. acct'[u] = a /\ a # None /\ \A x \in User \ {u} : acct'[x] = acct[x]
  BY <1>1, <1>2, <1>3, NoneAssumption
<1> QED  BY <1>1, <1>2, <1>4 DEF ActiveAdmins, Active

(* The requests that start.                                                *)
LEMMA StartsSafe ==
  ASSUME Inv, crossed \/ Safe, NEW w \in Handler,
         \/ \E u \in User : Authenticate(w, u) \/ issueRecovery(w, u) \/ resetWithTOTP(w, u)
         \/ \E s \in Session :
              \/ revokeSessions(w, s)
              \/ \E keep \in {s, None} : changePassword(w, s, keep)
              \/ \E u \in User :
                   \/ adminResetPassword(w, s, u)
                   \/ \E role \in Role : adminCreateUser(w, s, u, role)
                   \/ \E role \in Role, status \in Status : adminPatchUser(w, s, u, role, status)
  PROVE  (crossed \/ Safe)'
<1>1. hd \in [Handler -> HandlerLocals]
  BY DEF Inv, TypeOK
<1>2. ASSUME NEW L, Start(w, L), UNCHANGED <<acct, crossed>>,
             Safe => \/ L.pc # "update"
                     \/ L.role = "admin" /\ L.status = "active"
                     \/ ActiveAdmins \ {L.user} # {}
      PROVE  (crossed \/ Safe)'
  <2>1. hd'[w] = L /\ \A v \in Handler \ {w} : hd'[v] = hd[v]
    BY <1>1, <1>2 DEF Start
  <2> QED  BY <1>2, <2>1, SameAccounts
<1>3. ASSUME NEW L, Start(w, L), UNCHANGED <<acct, crossed>>, L.pc # "update"
      PROVE  (crossed \/ Safe)'
  BY <1>2, <1>3
<1>4. CASE \E u \in User : Authenticate(w, u) \/ issueRecovery(w, u) \/ resetWithTOTP(w, u)
  <2>1. PICK u \in User : Authenticate(w, u) \/ issueRecovery(w, u) \/ resetWithTOTP(w, u)
    BY <1>4
  <2>2. CASE Authenticate(w, u)
    BY <1>3, <2>2 DEF Authenticate, Idle
  <2>3. CASE issueRecovery(w, u)
    BY <1>3, <2>3 DEF issueRecovery, Idle
  <2>4. CASE resetWithTOTP(w, u)
    BY <1>3, <2>4 DEF resetWithTOTP, Idle
  <2> QED  BY <2>1, <2>2, <2>3, <2>4
<1>5. CASE \E s \in Session : revokeSessions(w, s)
  BY <1>3, <1>5 DEF revokeSessions, Idle
<1>6. CASE \E s \in Session, keep \in Session \cup {None} : changePassword(w, s, keep)
  BY <1>3, <1>6 DEF changePassword, Idle
<1>7. CASE \E s \in Session, u \in User : adminResetPassword(w, s, u)
  BY <1>3, <1>7 DEF adminResetPassword, Idle
<1>8. CASE \E s \in Session, u \in User, role \in Role : adminCreateUser(w, s, u, role)
  BY <1>3, <1>8 DEF adminCreateUser, Idle
<1>9. CASE \E s \in Session, u \in User, role \in Role, status \in Status :
             adminPatchUser(w, s, u, role, status)
  <2>1. PICK s \in Session, u \in User, role \in Role, status \in Status :
             adminPatchUser(w, s, u, role, status)
    BY <1>9
  <2>2. PICK p \in {"count", "update"} :
          p = IF u \in ActiveAdmins /\ (role # "admin" \/ status # "active")
              THEN "count" ELSE "update"
    OBVIOUS
  <2> DEFINE L == [Idle EXCEPT !.pc = p, !.kind = "patch", !.user = u,
                               !.role = role, !.status = status]
  <2>3. L.pc = p /\ L.user = u /\ L.role = role /\ L.status = status
    BY DEF Idle
  <2>4. Start(w, L) /\ UNCHANGED <<acct, crossed>>
    BY <2>1, <2>2 DEF adminPatchUser
  <2> HIDE DEF L
  <2>5. Safe => (L.pc # "update" \/ (L.role = "admin" /\ L.status = "active")
                  \/ ActiveAdmins \ {L.user} # {})
    BY <2>2, <2>3 DEF Safe
  <2> QED  BY <1>2, <2>4, <2>5
<1> QED  BY <1>4, <1>5, <1>6, <1>7, <1>8, <1>9

(* The steps of a request that write no account.                           *)
LEMMA QuietSafe ==
  ASSUME Inv, crossed \/ Safe, NEW w \in Handler,
         \/ \E s \in Session : CreateSession(w, s)
         \/ AuthenticateCurrent(w) \/ DeleteSessionsForUser(w) \/ Abandon(w)
         \/ \E t \in Token : ReplacePasswordReset(w, t)
         \/ ActiveAdminCount(w)
  PROVE  (crossed \/ Safe)'
<1>1. hd \in [Handler -> HandlerLocals]
  BY DEF Inv, TypeOK
<1>2. CASE AuthenticateCurrent(w)
  <2>1. UNCHANGED <<acct, crossed>> /\ hd'[w].pc = "setpw" /\ \A v \in Handler \ {w} : hd'[v] = hd[v]
    BY <1>1, <1>2 DEF AuthenticateCurrent, HandlerLocals
  <2> QED  BY <2>1, SameAccounts
<1>3. CASE Finish(w) /\ UNCHANGED <<acct, crossed>>
  <2>1. hd'[w].pc = "idle" /\ \A v \in Handler \ {w} : hd'[v] = hd[v]
    BY <1>1, <1>3 DEF Finish, Idle
  <2> QED  BY <1>3, <2>1, SameAccounts
<1>4. CASE ActiveAdminCount(w) /\ ~Finish(w)
  <2>1. UNCHANGED <<acct, crossed>> /\ \A v \in Handler \ {w} : hd'[v] = hd[v]
    BY <1>1, <1>4 DEF ActiveAdminCount
  <2>2. ~(Cardinality(ActiveAdmins) <= 1)
    BY <1>4 DEF ActiveAdminCount
  <2>3. ActiveAdmins \ {hd'[w].user} # {}
    BY <2>2, AnotherAdmin
  <2> QED  BY <2>1, <2>3, SameAccounts
<1> QED
  BY <1>2, <1>3, <1>4 DEF CreateSession, DeleteSessionsForUser, Abandon, ReplacePasswordReset,
                          ActiveAdminCount

(* A patch is written: if no other is about to be, somebody is left.       *)
LEMMA AdminUpdateUserSafe ==
  ASSUME Inv, crossed \/ Safe, NEW w \in Handler, AdminUpdateUser(w)
  PROVE  (crossed \/ Safe)'
<1>1. acct \in [User -> Account \cup {None}] /\ hd \in [Handler -> HandlerLocals]
  BY DEF Inv, TypeOK
<1> SUFFICES ASSUME ~crossed' PROVE Safe'
  OBVIOUS
<1>2. Safe /\ \A v \in Handler \ {w} : hd[v].pc # "update"
  BY DEF AdminUpdateUser
<1>3. PICK u \in User : u = hd[w].user /\ acct[u] # None
  BY <1>1 DEF AdminUpdateUser, HandlerLocals, Inv, TypeOK
<1> DEFINE a == [acct[u] EXCEPT !.role = hd[w].role, !.status = hd[w].status]
<1>4. a.role = hd[w].role /\ a.status = hd[w].status /\ a \in Account
  <2>1. PICK r \in Account : r = acct[u]
    BY <1>1, <1>3
  <2>2. PICK role \in Role, status \in Status : role = hd[w].role /\ status = hd[w].status
    BY <1>1 DEF HandlerLocals
  <2>3. [r EXCEPT !.role = role, !.status = status] \in Account
        /\ [r EXCEPT !.role = role, !.status = status].role = role
        /\ [r EXCEPT !.role = role, !.status = status].status = status
    BY DEF Account
  <2> QED  BY <2>1, <2>2, <2>3
<1>5. acct' = [acct EXCEPT ![u] = a]
  BY <1>1, <1>3 DEF AdminUpdateUser
<1> HIDE DEF a
<1>6. acct'[u] = a /\ a # None /\ \A x \in User \ {u} : acct'[x] = acct[x]
  BY <1>1, <1>4, <1>5, NoneAssumption
<1>7. ActiveAdmins' # {}
  <2>1. CASE hd[w].role = "admin" /\ hd[w].status = "active"
    <3>1. u \in ActiveAdmins'
      BY <1>4, <1>6, <2>1 DEF ActiveAdmins, Active
    <3> QED  BY <3>1
  <2>2. CASE ActiveAdmins \ {u} # {}
    <3>1. PICK x \in ActiveAdmins : x # u
      BY <2>2
    <3>2. x \in ActiveAdmins'
      BY <1>6, <3>1 DEF ActiveAdmins, Active
    <3> QED  BY <3>2
  <2> QED  BY <1>2, <1>3, <2>1, <2>2 DEF Safe, AdminUpdateUser
<1>8. \A v \in Handler : hd'[v].pc # "update"
  <2>1. Overtaken(u) \in [Handler -> HandlerLocals] /\ \A v \in Handler : Overtaken(u)[v].pc = hd[v].pc
    BY <1>1, OvertakenFacts
  <2>2. CASE hd' = [Overtaken(u) EXCEPT ![w].pc = "purge"]
    BY <1>2, <2>1, <2>2 DEF HandlerLocals
  <2>3. CASE Finish(w)
    BY <1>1, <1>2, <2>3 DEF Finish, Idle
  <2> QED  BY <1>3, <2>2, <2>3 DEF AdminUpdateUser
<1> QED  BY <1>7, <1>8 DEF Safe

(* The steps that set a password or add an account.                        *)
LEMMA WritesSafe ==
  ASSUME Inv, crossed \/ Safe,
         \/ \E w \in Handler : SetPassword(w) \/ CreateUser(w)
         \/ \E t \in Token : ConsumePasswordReset(t)
  PROVE  (crossed \/ Safe)'
<1>1. acct \in [User -> Account \cup {None}] /\ hd \in [Handler -> HandlerLocals]
      /\ tok \in [Token -> Reset \cup {None}]
  BY DEF Inv, TypeOK
<1>2. ASSUME NEW w \in Handler, SetPassword(w) PROVE (crossed \/ Safe)'
  <2>1. PICK u \in User : u = hd[w].user /\ acct[u] # None
    BY <1>1, <1>2 DEF SetPassword, HandlerLocals, Inv, TypeOK
  <2>2. ActiveAdmins \subseteq ActiveAdmins'
    BY <1>2, <2>1, PasswordAdmins DEF SetPassword
  <2>3. hd' = [Overtaken(u) EXCEPT ![w].pc = "purge"] /\ UNCHANGED crossed
    BY <1>2, <2>1 DEF SetPassword
  <2>4. Overtaken(u) \in [Handler -> HandlerLocals] /\ \A v \in Handler : Overtaken(u)[v].pc = hd[v].pc
    BY <1>1, OvertakenFacts
  <2>5. \A v \in Handler : hd[v].pc # "session" => Overtaken(u)[v] = hd[v]
    BY DEF Overtaken
  <2>6. \A v \in Handler : hd'[v] = hd[v] \/ hd'[v].pc # "update"
    BY <2>3, <2>4, <2>5 DEF HandlerLocals
  <2> QED  BY <2>2, <2>3, <2>6, MoreAccounts
<1>3. ASSUME NEW w \in Handler, CreateUser(w) PROVE (crossed \/ Safe)'
  <2>1. PICK u \in User : u = hd[w].user
    BY <1>1, <1>3 DEF CreateUser, HandlerLocals
  <2>2. ActiveAdmins \subseteq ActiveAdmins'
    BY <1>1, <1>3, <2>1 DEF CreateUser, ActiveAdmins, Active
  <2>3. UNCHANGED crossed /\ \A v \in Handler : hd'[v] = hd[v] \/ hd'[v].pc # "update"
    BY <1>1, <1>3 DEF CreateUser, Finish, Idle
  <2> QED  BY <2>2, <2>3, MoreAccounts
<1>4. ASSUME NEW t \in Token, ConsumePasswordReset(t) PROVE (crossed \/ Safe)'
  <2>1. PICK u \in User : u = tok[t].user /\ acct[u] # None
    BY <1>1, <1>4 DEF ConsumePasswordReset, Reset, Inv, TypeOK
  <2>2. ActiveAdmins \subseteq ActiveAdmins'
    BY <1>4, <2>1, PasswordAdmins DEF ConsumePasswordReset
  <2>3. hd' = Overtaken(u) /\ UNCHANGED crossed
    BY <1>4, <2>1 DEF ConsumePasswordReset
  <2>4. \A v \in Handler : hd[v].pc # "session" => hd'[v] = hd[v]
    BY <2>3 DEF Overtaken
  <2>5. \A v \in Handler : hd'[v].pc = hd[v].pc
    BY <1>1, <2>3, OvertakenFacts
  <2> QED  BY <2>2, <2>3, <2>4, <2>5, MoreAccounts
<1> QED  BY <1>2, <1>3, <1>4

(* Every step leaves an administrator, unless patches cross.               *)
LEMMA NextSafe == Inv /\ (crossed \/ Safe) /\ [Next]_vars => (crossed \/ Safe)'
<1> SUFFICES ASSUME Inv, crossed \/ Safe, [Next]_vars PROVE (crossed \/ Safe)'
  OBVIOUS
<1>1. CASE UNCHANGED <<acct, hd, crossed>>
  BY <1>1 DEF Safe, ActiveAdmins, Active
<1>2. CASE \E w \in Handler : Step(w) \/ Abandon(w)
  <2>1. PICK w \in Handler : Step(w) \/ Abandon(w)
    BY <1>2
  <2> QED  BY <2>1, QuietSafe, AdminUpdateUserSafe, WritesSafe, Zenon DEF Step
<1>3. CASE \/ \E s \in Session : DeleteSession(s)
           \/ \E t \in Token : ExpireToken(t)
  BY <1>1, <1>3 DEF DeleteSession, ExpireToken
<1>4. CASE \E t \in Token : ConsumePasswordReset(t)
  BY <1>4, WritesSafe
<1>5. CASE \E w \in Handler :
             \/ \E u \in User : Authenticate(w, u) \/ issueRecovery(w, u) \/ resetWithTOTP(w, u)
             \/ \E s \in Session :
                  \/ revokeSessions(w, s)
                  \/ \E keep \in {s, None} : changePassword(w, s, keep)
                  \/ \E u \in User :
                       \/ adminResetPassword(w, s, u)
                       \/ \E role \in Role : adminCreateUser(w, s, u, role)
                       \/ \E role \in Role, status \in Status : adminPatchUser(w, s, u, role, status)
  BY <1>5, StartsSafe
<1>6. CASE UNCHANGED vars
  BY <1>1, <1>6 DEF vars
<1> QED  BY <1>2, <1>3, <1>4, <1>5, <1>6, Zenon DEF Next

(* "cannot remove the last active administrator": however requests         *)
(* overlap and however many users there are, one remains unless two        *)
(* patches counted before either was written; the count of adminPatchUser  *)
(* is sound but for that.                                                  *)
THEOREM AdminGuarantee == Spec => []AdminRemains
<1>1. Init => crossed \/ Safe
  <2> SUFFICES ASSUME Init PROVE Safe
    OBVIOUS
  <2>1. [role |-> "admin", status |-> "active", pwd |-> 0] \in Account
    BY DEF Account, Role, Status
  <2>2. Root \in ActiveAdmins
    BY <2>1, RootAssumption, NoneAssumption DEF Init, ActiveAdmins, Active
  <2>3. \A w \in Handler : hd[w].pc # "update"
    BY DEF Init, Idle
  <2> QED  BY <2>2, <2>3 DEF Safe
<1>2. crossed \/ Safe => AdminRemains
  BY DEF Safe, AdminRemains
<1> QED  BY <1>1, <1>2, NextSafe, InvAlways, PTL DEF Spec
=============================================================================
