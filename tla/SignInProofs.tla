---------------------------- MODULE SignInProofs ----------------------------
(***************************************************************************)
(* Proofs about SignIn for any limit, window and lockout and any number of *)
(* app passwords and overlapping requests: the checks that every request   *)
(* passes, the count of app passwords, and the count of guesses.           *)
(***************************************************************************)
EXTENDS SignIn, FiniteSetTheorems, TLAPS

(* A bucket that can occur.                                                *)
BucketOK(b) ==
  /\ b \in Bucket
  /\ IsFiniteSet(b.fails)
  /\ Cardinality(b.fails) >= Max => b.until # 0

(* The locals of a request that has seen the worlds S.                     *)
LocalOK(h, S) ==
  /\ h \in HandlerLocals
  /\ h.pc = "totp" => /\ h.key \in {"login", "dav", "reset-totp"}
                      /\ h.key # "reset-totp" => h.cred = "password"
  /\ h.pc = "app" => h.key = "dav"
  /\ h.pc = "password" => h.key \in {"login", "dav"}
  /\ h.pc = "link" => h.key = "reset"
  /\ h.pc = "granted" => Proven(h, S)

StoreOK ==
  /\ now \in Nat /\ requests \in Nat /\ secrets \in Nat
  /\ bucket \in [Key -> Bucket]
  /\ \A k \in Key : BucketOK(bucket[k])
  /\ spent \in [Key -> SUBSET Failure]
  /\ totp \in Factor /\ FactorConsistent
  /\ apps \subseteq App /\ revoked \subseteq App

RequestsOK ==
  /\ hd \in [Handler -> HandlerLocals]
  /\ saw \in [Handler -> SUBSET [totp : Factor, apps : SUBSET App]]
  /\ \A w \in Handler : LocalOK(hd[w], saw[w])

Inv == StoreOK /\ RequestsOK

Sees ==
  saw' = [w \in Handler |-> IF hd'[w].pc = "idle" THEN {} ELSE saw[w] \cup {World'}]

-----------------------------------------------------------------------------
(* Buckets.                                                                *)

(* The empty bucket is one.                                                *)
LEMMA EmptyOK == BucketOK(Empty)
BY FS_EmptySet, LimitAssumption DEF BucketOK, Empty, Bucket, Failure

(* prune leaves some of the failures.                                      *)
LEMMA PruneOK ==
  ASSUME NEW b, BucketOK(b), NEW t \in Nat
  PROVE  /\ prune(b.fails, t) \subseteq b.fails
         /\ prune(b.fails, t) \subseteq Failure
         /\ IsFiniteSet(prune(b.fails, t))
         /\ Cardinality(prune(b.fails, t)) \in Nat /\ Cardinality(b.fails) \in Nat
         /\ Cardinality(prune(b.fails, t)) <= Cardinality(b.fails)
<1>1. prune(b.fails, t) \subseteq b.fails /\ b.fails \subseteq Failure /\ IsFiniteSet(b.fails)
  BY DEF prune, BucketOK, Bucket
<1> QED  BY <1>1, FS_Subset, FS_CardinalityType

(* A bucket with some of the failures left is one.                         *)
LEMMA PrunedOK ==
  ASSUME NEW b, BucketOK(b), NEW t \in Nat
  PROVE  BucketOK([b EXCEPT !.fails = prune(b.fails, t)])
<1>1. b \in Bucket
  BY DEF BucketOK
<1> DEFINE c == [b EXCEPT !.fails = prune(b.fails, t)]
<1>2. c.fails = prune(b.fails, t) /\ c.until = b.until /\ c \in Bucket
  BY <1>1, PruneOK DEF Bucket
<1> HIDE DEF c
<1>3. Cardinality(c.fails) >= Max => b.until # 0
  BY <1>2, PruneOK, LimitAssumption DEF BucketOK
<1>4. BucketOK(c)
  BY <1>2, <1>3, PruneOK DEF BucketOK
<1> QED  BY <1>4 DEF c

(* Allow keeps a bucket.                                                   *)
LEMMA AllowOK ==
  ASSUME NEW b, BucketOK(b), NEW t \in Nat
  PROVE  BucketOK(Allow(b, t))
BY PrunedOK, EmptyOK DEF Allow

(* gcLocked keeps a bucket.                                                *)
LEMMA CollectedOK ==
  ASSUME NEW b, BucketOK(b), NEW t \in Nat
  PROVE  BucketOK(Collected(b, t))
BY PrunedOK, EmptyOK DEF Collected

(* Fail locks a bucket when it is full.                                    *)
LEMMA FailOK ==
  ASSUME NEW b, BucketOK(b), NEW f \in Failure
  PROVE  BucketOK(Fail(b, f))
<1> DEFINE F == prune(b.fails, f.at) \cup {f}
<1>1. f.at \in Nat
  BY DEF Failure
<1>2. F \subseteq Failure /\ IsFiniteSet(F) /\ Cardinality(F) \in Nat
  BY <1>1, PruneOK, FS_AddElement, FS_CardinalityType
<1>3. /\ Fail(b, f).fails = F
      /\ Fail(b, f).until = IF Cardinality(F) >= Max THEN f.at + Lockout ELSE b.until
      /\ Fail(b, f) = [fails |-> Fail(b, f).fails, until |-> Fail(b, f).until]
  BY DEF Fail
<1> HIDE DEF F
<1>4. b.until \in Nat
  BY DEF BucketOK, Bucket
<1>5. Fail(b, f).until \in Nat /\ (Cardinality(F) >= Max => Fail(b, f).until # 0)
  BY <1>1, <1>2, <1>3, <1>4, LimitAssumption
<1>6. Fail(b, f) \in Bucket
  BY <1>2, <1>3, <1>5 DEF Bucket
<1> QED  BY <1>2, <1>3, <1>5, <1>6 DEF BucketOK

-----------------------------------------------------------------------------
(* Requests.                                                               *)

(* A request that is over has good locals.                                 *)
LEMMA IdleOK == Idle \in HandlerLocals /\ Idle.pc = "idle" /\ \A S : LocalOK(Idle, S)
<1>1. Idle \in HandlerLocals /\ Idle.pc = "idle"
  BY DEF Idle, HandlerLocals, Credential, Code
<1> QED  BY <1>1 DEF LocalOK

(* What has been seen stays seen.                                          *)
LEMMA ProvenGrows ==
  ASSUME NEW h, NEW S, NEW T, S \subseteq T, Proven(h, S)
  PROVE  Proven(h, T)
<1>1. CASE h.key = "login"
  BY <1>1 DEF Proven
<1>2. CASE h.key = "dav"
  BY <1>2 DEF Proven
<1>3. CASE h.key = "reset-totp"
  BY <1>3 DEF Proven
<1>4. CASE h.key \notin {"login", "dav", "reset-totp"}
  BY <1>4 DEF Proven
<1> QED  BY <1>1, <1>2, <1>3, <1>4

(* Nor do locals turn bad.                                                 *)
LEMMA LocalGrows ==
  ASSUME NEW h, NEW S, NEW T, S \subseteq T, LocalOK(h, S)
  PROVE  LocalOK(h, T)
BY ProvenGrows DEF LocalOK

(* A step that leaves every request as it was, ended or with good locals   *)
(* keeps the requests good.                                                *)
LEMMA AllMove ==
  ASSUME RequestsOK, Sees, totp' \in Factor, apps' \subseteq App,
         hd' \in [Handler -> HandlerLocals],
         \A v \in Handler : hd'[v] = hd[v] \/ hd'[v] = Idle
                            \/ LocalOK(hd'[v], saw[v] \cup {World'})
  PROVE  RequestsOK'
<1>1. World' \in [totp : Factor, apps : SUBSET App]
  BY DEF World
<1>2. PICK y : y = World'
  OBVIOUS
<1>3. saw' = [w \in Handler |-> IF hd'[w].pc = "idle" THEN {} ELSE saw[w] \cup {y}]
  BY <1>2 DEF Sees
<1>4. saw' \in [Handler -> SUBSET [totp : Factor, apps : SUBSET App]]
  BY <1>1, <1>2, <1>3 DEF RequestsOK
<1>5. ASSUME NEW v \in Handler PROVE LocalOK(hd'[v], saw'[v])
  <2>1. CASE hd'[v].pc = "idle"
    BY <2>1 DEF LocalOK
  <2>2. CASE hd'[v].pc # "idle"
    <3>1. saw'[v] = saw[v] \cup {y}
      BY <1>3, <2>2
    <3>2. LocalOK(hd[v], saw[v]) /\ saw[v] \subseteq saw'[v]
      BY <3>1 DEF RequestsOK
    <3>3. hd'[v] # Idle
      BY <2>2, IdleOK
    <3>4. LocalOK(hd[v], saw'[v])
      BY <3>2, LocalGrows
    <3> QED  BY <1>2, <3>1, <3>3, <3>4
  <2> QED  BY <2>1, <2>2
<1> QED  BY <1>4, <1>5 DEF RequestsOK

(* The same for a step of one request.                                     *)
LEMMA OneMoves ==
  ASSUME RequestsOK, Sees, totp' \in Factor, apps' \subseteq App,
         NEW w \in Handler, NEW L, hd' = [hd EXCEPT ![w] = L],
         L = Idle \/ LocalOK(L, saw[w] \cup {World'})
  PROVE  RequestsOK'
<1>1. hd \in [Handler -> HandlerLocals]
  BY DEF RequestsOK
<1>2. L \in HandlerLocals
  BY IdleOK DEF LocalOK
<1>3. hd' \in [Handler -> HandlerLocals] /\ hd'[w] = L
      /\ \A v \in Handler \ {w} : hd'[v] = hd[v]
  BY <1>1, <1>2
<1>4. \A v \in Handler : hd'[v] = hd[v] \/ hd'[v] = Idle
                         \/ LocalOK(hd'[v], saw[v] \cup {World'})
  BY <1>3
<1> QED  BY <1>3, <1>4, AllMove

(* A request goes on to a place that needs nothing of it but its key.      *)
LEMMA GotoKeeps ==
  ASSUME Inv, Sees, UNCHANGED <<totp, apps>>, NEW w \in Handler,
         hd[w].key \in Key, NEW pc \in {"totp", "app", "fail", "granted"},
         Goto(w, pc),
         pc = "totp" => hd[w].key \in {"login", "dav"} /\ hd[w].cred = "password",
         pc = "app" => hd[w].key = "dav",
         pc = "granted" => Proven(hd[w], {World})
  PROVE  RequestsOK'
<1>1. PICK h \in HandlerLocals : h = hd[w]
  BY DEF Inv, RequestsOK
<1> DEFINE L == [h EXCEPT !.pc = pc]
<1>2. L \in HandlerLocals /\ L.pc = pc /\ L.key = h.key /\ L.cred = h.cred
      /\ L.code = h.code /\ L.err = h.err
  BY <1>1 DEF HandlerLocals
<1>3. hd' = [hd EXCEPT ![w] = L]
  BY <1>1 DEF Goto, Inv, RequestsOK
<1> HIDE DEF L
<1>4. World' = World
  BY DEF World
<1>5. pc = "granted" => Proven(L, {World})
  BY <1>1, <1>2 DEF Proven
<1>6. PICK y : y = World
  OBVIOUS
<1>7. pc = "granted" => Proven(L, saw[w] \cup {y})
  BY <1>5, <1>6, ProvenGrows
<1>8. LocalOK(L, saw[w] \cup {World'})
  BY <1>1, <1>2, <1>4, <1>6, <1>7 DEF LocalOK
<1>9. totp' \in Factor /\ apps' \subseteq App /\ RequestsOK
  BY DEF Inv, StoreOK
<1> QED  BY <1>3, <1>8, <1>9, OneMoves

(* A request ends.                                                         *)
LEMMA FinishKeeps ==
  ASSUME RequestsOK, Sees, totp' \in Factor, apps' \subseteq App,
         NEW w \in Handler, Finish(w)
  PROVE  RequestsOK'
BY OneMoves DEF Finish

(* A request begins at a place where nothing has been proved yet.          *)
LEMMA StartKeeps ==
  ASSUME RequestsOK, Sees, totp' \in Factor, apps' \subseteq App,
         NEW w \in Handler, NEW L, Start(w, L), \A S : LocalOK(L, S)
  PROVE  RequestsOK'
BY OneMoves DEF Start

-----------------------------------------------------------------------------
(* The actions.                                                            *)

(* Nothing has happened yet.                                               *)
LEMMA InitInv == Init => Inv
<1> SUFFICES ASSUME Init PROVE Inv
  OBVIOUS
<1>1. Empty \in Bucket /\ Off \in Factor
  BY DEF Empty, Bucket, Off, Factor
<1>2. StoreOK
  BY <1>1, EmptyOK DEF Init, StoreOK, FactorConsistent, Off
<1>3. RequestsOK
  BY IdleOK DEF Init, RequestsOK
<1> QED  BY <1>2, <1>3 DEF Inv

(* The store is as it was, but for the clock of requests.                  *)
LEMMA StoreSame ==
  ASSUME StoreOK, UNCHANGED <<now, account, limiter>>, requests' \in Nat
  PROVE  StoreOK' /\ totp' \in Factor /\ apps' \subseteq App
BY DEF StoreOK, account, limiter, FactorConsistent

(* Attempt.                                                                *)
LEMMA AttemptKeeps ==
  ASSUME Inv, Sees, NEW w \in Handler, NEW k \in Key, NEW s \in Sent(k),
         Attempt(w, k, s[1], s[2])
  PROVE  Inv'
<1>1. requests' \in Nat
  BY DEF Inv, StoreOK, Attempt, Start
<1>2. PICK c : c = bucket[k] /\ BucketOK(c)
  BY DEF Inv, StoreOK
<1>3. PICK d : d = Allow(c, now) /\ BucketOK(d) /\ d \in Bucket
  BY <1>2, AllowOK DEF Inv, StoreOK, BucketOK
<1>4. bucket' = [bucket EXCEPT ![k] = d]
  BY <1>2, <1>3 DEF Attempt
<1>5. StoreOK' /\ totp' \in Factor /\ apps' \subseteq App
  BY <1>1, <1>3, <1>4 DEF Inv, StoreOK, Attempt, account, FactorConsistent
<1>6. CASE Locked(bucket[k], now)
  BY <1>5, <1>6, AllMove DEF Attempt, Inv, RequestsOK
<1>7. CASE ~Locked(bucket[k], now)
  <2> DEFINE L == [Idle EXCEPT !.pc = First(k), !.key = k, !.no = requests + 1,
                               !.cred = s[1], !.code = s[2]]
  <2>1. s[1] \in Credential /\ s[2] \in Code
    BY DEF Sent, Credential, Code, Inv, StoreOK
  <2>2. requests + 1 \in Nat
    BY DEF Inv, StoreOK
  <2>3. First(k) \in {"password", "totp", "link", "fail"}
        /\ (First(k) = "password" => k \in {"login", "dav"})
        /\ (First(k) = "totp" => k = "reset-totp")
        /\ (First(k) = "link" => k = "reset")
    BY DEF First
  <2>4. L \in HandlerLocals /\ L.pc = First(k) /\ L.key = k
    BY <2>1, <2>2, <2>3 DEF HandlerLocals, Idle
  <2>5. Start(w, L)
    BY <1>7 DEF Attempt
  <2> HIDE DEF L
  <2>6. \A S : LocalOK(L, S)
    BY <2>3, <2>4 DEF LocalOK
  <2> QED  BY <1>5, <2>5, <2>6, StartKeeps DEF Inv
<1> QED  BY <1>6, <1>7

(* A request with a key has one.                                           *)
LEMMA HasKey ==
  ASSUME Inv, NEW w \in Handler,
         hd[w].pc \in {"password", "totp", "app", "link", "fail", "granted"}
  PROVE  hd[w].key \in Key /\ LocalOK(hd[w], saw[w]) /\ hd[w].no \in Nat
BY DEF Inv, RequestsOK, HandlerLocals

(* The checks that only move a request on.                                 *)
LEMMA ChecksKeep ==
  ASSUME Inv, Sees, NEW w \in Handler,
         \/ Authenticate(w) \/ AuthenticateFails(w) \/ totpFields(w) \/ totpFieldsFails(w)
         \/ authenticateAppPassword(w) \/ ConsumePasswordReset(w) \/ Rejected(w)
  PROVE  Inv'
<1>1. UNCHANGED <<now, account, limiter, requests>>
  BY DEF Authenticate, AuthenticateFails, totpFields, totpFieldsFails,
         authenticateAppPassword, ConsumePasswordReset, Rejected
<1>2. StoreOK' /\ totp' \in Factor /\ apps' \subseteq App /\ UNCHANGED <<totp, apps>>
  BY <1>1, StoreSame DEF Inv, StoreOK, account
<1>3. RequestsOK /\ StoreOK
  BY DEF Inv
<1>4. CASE Authenticate(w)
  <2>1. hd[w].key \in Key /\ hd[w].key \in {"login", "dav"}
    BY <1>4, HasKey DEF Authenticate, LocalOK
  <2>2. PICK pc \in {"totp", "app", "fail"} :
          /\ Goto(w, pc)
          /\ pc = "totp" => hd[w].cred = "password"
          /\ pc = "app" => hd[w].key = "dav"
    BY <1>4 DEF Authenticate
  <2>3. RequestsOK'
    BY <1>2, <2>1, <2>2, GotoKeeps
  <2> QED  BY <1>2, <2>3 DEF Inv
<1>5. CASE AuthenticateFails(w)
  <2>1. hd[w].key \in Key
    BY <1>5, HasKey DEF AuthenticateFails
  <2>2. PICK pc \in {"app", "fail"} : Goto(w, pc) /\ (pc = "app" => hd[w].key = "dav")
    BY <1>5 DEF AuthenticateFails
  <2>3. RequestsOK'
    BY <1>2, <2>1, <2>2, GotoKeeps
  <2> QED  BY <1>2, <2>3 DEF Inv
<1>6. CASE totpFields(w)
  <2>1. hd[w].key \in Key /\ (hd[w].key # "reset-totp" => hd[w].cred = "password")
    BY <1>6, HasKey DEF totpFields, LocalOK
  <2>2. CASE Finish(w)
    BY <1>2, <1>3, <2>2, FinishKeeps DEF Inv
  <2>3. CASE ~Finish(w)
    <3>1. PICK pc \in {"granted", "fail"} :
            /\ Goto(w, pc)
            /\ pc = "granted" =>
                 \/ hd[w].key = "login" /\ (~totp.enabled \/ hd[w].code = totp.secret)
                 \/ hd[w].key = "dav" /\ ~totp.enabled
                 \/ hd[w].key = "reset-totp" /\ totp.enabled /\ hd[w].code = totp.secret
      BY <1>6, <2>3 DEF totpFields, Valid
    <3>2. World.totp = totp
      BY DEF World
    <3>3. pc = "granted" => Proven(hd[w], {World})
      BY <2>1, <3>1, <3>2 DEF Proven
    <3>4. RequestsOK'
      BY <1>2, <2>1, <3>1, <3>3, GotoKeeps
    <3> QED  BY <1>2, <3>4 DEF Inv
  <2> QED  BY <2>2, <2>3
<1>7. CASE totpFieldsFails(w)
  <2>1. hd[w].key \in Key /\ (hd[w].key # "reset-totp" => hd[w].cred = "password")
    BY <1>7, HasKey DEF totpFieldsFails, LocalOK
  <2>2. CASE hd[w].key = "dav"
    <3>1. PICK h \in HandlerLocals : h = hd[w]
      BY <1>3 DEF RequestsOK
    <3> DEFINE L == [h EXCEPT !.pc = "granted", !.err = TRUE]
    <3>2. L \in HandlerLocals /\ L.pc = "granted" /\ L.key = h.key /\ L.cred = h.cred /\ L.err
      BY <2>1, <3>1 DEF HandlerLocals
    <3>3. hd' = [hd EXCEPT ![w] = L]
      BY <1>3, <1>7, <2>2, <3>1 DEF totpFieldsFails, RequestsOK
    <3> HIDE DEF L
    <3>4. \A S : Proven(L, S)
      BY <2>1, <2>2, <3>1, <3>2 DEF Proven
    <3>5. \A S : LocalOK(L, S)
      BY <3>2, <3>4 DEF LocalOK
    <3> QED  BY <1>2, <1>3, <3>3, <3>5, OneMoves DEF Inv
  <2>3. CASE hd[w].key # "dav"
    <3>1. Goto(w, "fail")
      BY <1>7, <2>3 DEF totpFieldsFails
    <3>2. RequestsOK'
      BY <1>2, <2>1, <3>1, GotoKeeps
    <3> QED  BY <1>2, <3>2 DEF Inv
  <2> QED  BY <2>2, <2>3
<1>8. CASE authenticateAppPassword(w)
  <2>1. hd[w].key \in Key /\ hd[w].key = "dav"
    BY <1>8, HasKey DEF authenticateAppPassword, LocalOK
  <2>2. PICK pc \in {"granted", "fail"} : Goto(w, pc) /\ (pc = "granted" => hd[w].cred \in apps)
    BY <1>8 DEF authenticateAppPassword
  <2>3. pc = "granted" => Proven(hd[w], {World})
    BY <2>1, <2>2 DEF Proven, World
  <2>4. RequestsOK'
    BY <1>2, <2>1, <2>2, <2>3, GotoKeeps
  <2> QED  BY <1>2, <2>4 DEF Inv
<1>9. CASE ConsumePasswordReset(w)
  <2>1. hd[w].key \in Key /\ hd[w].key = "reset"
    BY <1>9, HasKey DEF ConsumePasswordReset, LocalOK
  <2>2. PICK pc \in {"granted", "fail"} : Goto(w, pc)
    BY <1>9 DEF ConsumePasswordReset
  <2>3. Proven(hd[w], {World})
    BY <2>1 DEF Proven
  <2>4. RequestsOK'
    BY <1>2, <2>1, <2>2, <2>3, GotoKeeps
  <2> QED  BY <1>2, <2>4 DEF Inv
<1>10. CASE Rejected(w)
  BY <1>2, <1>3, <1>10, FinishKeeps DEF Rejected, Inv
<1> QED  BY <1>4, <1>5, <1>6, <1>7, <1>8, <1>9, <1>10

(* A request is counted.                                                   *)
LEMMA FailedKeeps ==
  ASSUME Inv, Sees, NEW w \in Handler, Failed(w)
  PROVE  Inv'
<1>1. PICK k \in Key : k = hd[w].key /\ hd[w].no \in Nat
  BY HasKey DEF Failed
<1>2. PICK f \in Failure : f = [at |-> now, by |-> hd[w].no]
  BY <1>1 DEF Failure, Inv, StoreOK
<1>3. PICK d : d = Fail(bucket[k], f) /\ BucketOK(d) /\ d \in Bucket
  BY <1>1, <1>2, FailOK DEF Inv, StoreOK, BucketOK
<1>4. bucket' = [bucket EXCEPT ![k] = d]
  BY <1>1, <1>2, <1>3 DEF Failed
<1>5. bucket' \in [Key -> Bucket] /\ \A x \in Key : BucketOK(bucket'[x])
  BY <1>3, <1>4 DEF Inv, StoreOK
<1>6. spent' = spent \/ spent' = [spent EXCEPT ![k] = spent[k] \cup {f}]
  BY <1>1, <1>2 DEF Failed
<1>7. spent' \in [Key -> SUBSET Failure]
  BY <1>6 DEF Inv, StoreOK
<1>8. StoreOK' /\ totp' \in Factor /\ apps' \subseteq App
  BY <1>5, <1>7 DEF Failed, Inv, StoreOK, account, FactorConsistent
<1> QED  BY <1>8, FinishKeeps DEF Failed, Inv

(* Access is given.                                                        *)
LEMMA SuccessKeeps ==
  ASSUME Inv, Sees, NEW w \in Handler, Success(w)
  PROVE  Inv'
<1>1. PICK k \in Key : k = hd[w].key
  BY HasKey DEF Success
<1>2. bucket' = [bucket EXCEPT ![k] = Empty] /\ spent' = [spent EXCEPT ![k] = {}]
  BY <1>1 DEF Success
<1>3. Empty \in Bucket
  BY EmptyOK DEF BucketOK
<1>4. bucket' \in [Key -> Bucket] /\ \A x \in Key : BucketOK(bucket'[x])
  BY <1>2, <1>3, EmptyOK DEF Inv, StoreOK
<1>5. StoreOK' /\ totp' \in Factor /\ apps' \subseteq App
  BY <1>2, <1>4 DEF Success, Inv, StoreOK, account, FactorConsistent
<1> QED  BY <1>5, FinishKeeps DEF Success, Inv

(* Settings requests begin.                                                *)
LEMMA SettingsKeep ==
  ASSUME Inv, Sees, NEW w \in Handler,
         \/ totpSetup(w) \/ totpCancel(w) \/ adminDisableTOTP(w) \/ createAppPassword(w)
         \/ \E code \in 0 .. secrets :
              totpEnable(w, code) \/ \E cred \in Credential : totpDisable(w, cred, code)
  PROVE  Inv'
<1>1. PICK L \in HandlerLocals :
        Start(w, L) /\ L.pc \in {"pending", "enable", "disable", "insert"}
  <2>1. secrets + 1 \in Nat /\ totp.pending \in Nat
    BY DEF Inv, StoreOK, Factor
  <2>2. ASSUME NEW n \in Nat, NEW pc \in {"pending", "enable"}, pc = "enable" => n # 0
        PROVE  [Idle EXCEPT !.pc = pc, !.secret = n] \in HandlerLocals
               /\ [Idle EXCEPT !.pc = pc, !.secret = n].pc = pc
    BY <2>2 DEF HandlerLocals, Idle, Credential, Code
  <2>3. ASSUME NEW pc \in {"disable", "insert"}
        PROVE  [Idle EXCEPT !.pc = pc] \in HandlerLocals /\ [Idle EXCEPT !.pc = pc].pc = pc
    BY DEF HandlerLocals, Idle, Credential, Code
  <2>4. CASE totpSetup(w)
    BY <2>1, <2>2, <2>4 DEF totpSetup
  <2>5. CASE totpCancel(w)
    BY <2>2, <2>5 DEF totpCancel
  <2>6. CASE adminDisableTOTP(w)
    BY <2>3, <2>6 DEF adminDisableTOTP
  <2>7. CASE createAppPassword(w)
    BY <2>3, <2>7 DEF createAppPassword
  <2>8. CASE \E code \in 0 .. secrets : totpEnable(w, code)
    BY <2>1, <2>2, <2>8 DEF totpEnable
  <2>9. CASE \E code \in 0 .. secrets : \E cred \in Credential : totpDisable(w, cred, code)
    BY <2>3, <2>9 DEF totpDisable
  <2> QED  BY <2>4, <2>5, <2>6, <2>7, <2>8, <2>9
<1>2. /\ requests' \in Nat /\ secrets' \in Nat
      /\ UNCHANGED <<now, totp, apps, revoked, bucket, spent>>
  BY DEF totpSetup, totpCancel, adminDisableTOTP, createAppPassword, totpEnable,
         totpDisable, Start, Inv, StoreOK, account, limiter
<1>3. StoreOK' /\ totp' \in Factor /\ apps' \subseteq App
  BY <1>2 DEF Inv, StoreOK, FactorConsistent
<1>4. \A S : LocalOK(L, S)
  BY <1>1 DEF LocalOK
<1> QED  BY <1>1, <1>3, <1>4, StartKeeps DEF Inv

(* Settings are stored.                                                    *)
LEMMA StoredKeeps ==
  ASSUME Inv, Sees, NEW w \in Handler,
         \/ SetTOTPPending(w) \/ EnableTOTP(w) \/ DisableTOTP(w)
         \/ \E p \in App : InsertAppPassword(w, p)
  PROVE  Inv'
<1>1. PICK h \in HandlerLocals : h = hd[w]
  BY DEF Inv, RequestsOK
<1>2. h.secret \in Nat /\ (h.pc = "enable" => h.secret # 0)
  BY DEF HandlerLocals
<1>3. PICK t \in Factor : t = totp
  BY DEF Inv, StoreOK
<1>4. totp' \in Factor /\ FactorConsistent'
  <2>1. CASE SetTOTPPending(w)
    <3>1. totp' = IF t.enabled THEN t ELSE [t EXCEPT !.pending = h.secret]
      BY <1>1, <1>3, <2>1 DEF SetTOTPPending
    <3>2. IF t.enabled THEN t.secret # 0 /\ t.pending = 0 ELSE t.secret = 0
      BY <1>3 DEF Inv, StoreOK, FactorConsistent
    <3> QED  BY <1>2, <3>1, <3>2 DEF Factor, FactorConsistent
  <2>2. CASE EnableTOTP(w)
    <3>1. totp' = [secret |-> h.secret, pending |-> 0, enabled |-> TRUE] /\ h.secret # 0
      BY <1>1, <1>2, <2>2 DEF EnableTOTP
    <3> QED  BY <1>2, <3>1 DEF Factor, FactorConsistent
  <2>3. CASE DisableTOTP(w)
    BY <2>3 DEF DisableTOTP, Off, Factor, FactorConsistent
  <2>4. CASE \E p \in App : InsertAppPassword(w, p)
    BY <2>4 DEF InsertAppPassword, Inv, StoreOK, FactorConsistent
  <2> QED  BY <2>1, <2>2, <2>3, <2>4
<1>5. /\ apps' \subseteq App /\ Finish(w)
      /\ UNCHANGED <<now, secrets, revoked, bucket, spent, requests>>
  BY DEF SetTOTPPending, EnableTOTP, DisableTOTP, InsertAppPassword, limiter, Inv, StoreOK
<1>6. StoreOK'
  BY <1>4, <1>5 DEF Inv, StoreOK
<1> QED  BY <1>4, <1>5, <1>6, FinishKeeps DEF Inv

(* Revocation, time, collection and restarts.                              *)
LEMMA EnvironmentKeeps ==
  ASSUME Inv, Sees,
         (\E p \in App : DeleteAppPassword(p)) \/ Tick \/ gcLocked \/ Restart
  PROVE  Inv'
<1>1. \A v \in Handler : hd[v] \in HandlerLocals
  BY DEF Inv, RequestsOK
<1>2. CASE \E p \in App : DeleteAppPassword(p)
  <2>1. StoreOK' /\ totp' \in Factor /\ apps' \subseteq App /\ hd' = hd
    BY <1>2 DEF DeleteAppPassword, limiter, Inv, StoreOK, FactorConsistent
  <2> QED  BY <2>1, AllMove DEF Inv, RequestsOK
<1>3. CASE Tick
  <2>1. now' \in Nat /\ spent' \in [Key -> SUBSET Failure]
    BY <1>3 DEF Tick, prune, Inv, StoreOK
  <2>2. StoreOK' /\ totp' \in Factor /\ apps' \subseteq App /\ hd' = hd
    BY <1>3, <2>1 DEF Tick, account, Inv, StoreOK, FactorConsistent
  <2> QED  BY <2>2, AllMove DEF Inv, RequestsOK
<1>4. CASE gcLocked
  <2>1. \A k \in Key : BucketOK(Collected(bucket[k], now)) /\ Collected(bucket[k], now) \in Bucket
    BY CollectedOK DEF Inv, StoreOK, BucketOK
  <2>2. bucket' \in [Key -> Bucket] /\ \A k \in Key : BucketOK(bucket'[k])
    BY <1>4, <2>1 DEF gcLocked
  <2>3. StoreOK' /\ totp' \in Factor /\ apps' \subseteq App /\ hd' = hd
    BY <1>4, <2>2 DEF gcLocked, account, Inv, StoreOK, FactorConsistent
  <2> QED  BY <2>3, AllMove DEF Inv, RequestsOK
<1>5. CASE Restart
  <2>1. Empty \in Bucket
    BY EmptyOK DEF BucketOK
  <2>2. bucket' \in [Key -> Bucket] /\ \A k \in Key : BucketOK(bucket'[k])
    BY <1>5, <2>1, EmptyOK DEF Restart
  <2>3. StoreOK' /\ totp' \in Factor /\ apps' \subseteq App
    BY <1>5, <2>2 DEF Restart, account, Inv, StoreOK, FactorConsistent
  <2>4. hd' \in [Handler -> HandlerLocals] /\ \A v \in Handler : hd'[v] = Idle
    BY <1>5, IdleOK DEF Restart
  <2> QED  BY <2>3, <2>4, AllMove DEF Inv
<1> QED  BY <1>2, <1>3, <1>4, <1>5

(* Every step keeps the invariant.                                         *)
LEMMA NextInv == Inv /\ [Next]_vars => Inv'
<1> SUFFICES ASSUME Inv, [Next]_vars PROVE Inv'
  OBVIOUS
<1>1. CASE UNCHANGED vars
  BY <1>1 DEF vars, Inv, StoreOK, RequestsOK, FactorConsistent
<1>2. CASE Next
  <2>1. Sees
    BY <1>2 DEF Next, Sees
  <2>2. ASSUME NEW w \in Handler, Request(w) PROVE Inv'
    BY <2>1, <2>2, AttemptKeeps, SettingsKeep DEF Request
  <2>3. ASSUME NEW w \in Handler, Step(w) PROVE Inv'
    BY <2>1, <2>3, ChecksKeep, FailedKeeps, SuccessKeeps, StoredKeeps DEF Step
  <2>4. CASE (\E p \in App : DeleteAppPassword(p)) \/ Tick \/ gcLocked \/ Restart
    BY <2>1, <2>4, EnvironmentKeeps
  <2> QED  BY <1>2, <2>2, <2>3, <2>4 DEF Next, Action
<1> QED  BY <1>1, <1>2

(* The invariant always holds.                                             *)
LEMMA Always == Spec => []Inv
BY InitInv, NextInv, PTL DEF Spec

-----------------------------------------------------------------------------
(* Every variable keeps its type: a counted request has a key, and what is *)
(* enabled is a secret (ratelimit.Fail, EnableTOTP).                       *)
THEOREM TypeCorrect == Spec => []TypeOK
<1>1. Inv => TypeOK
  BY DEF Inv, StoreOK, RequestsOK, TypeOK
<1> QED  BY <1>1, Always, PTL

(* Access is only given for what proved the identity at some time of the   *)
(* request (authenticateLogin, AuthenticateDAV, resetWithTOTP).            *)
THEOREM AccessGuarantee == Spec => []AccessProven
<1>1. Inv => AccessProven
  BY DEF Inv, RequestsOK, LocalOK, AccessProven
<1> QED  BY <1>1, Always, PTL

(* The columns of the authenticator agree (SetTOTPPending, EnableTOTP,     *)
(* DisableTOTP).                                                           *)
THEOREM FactorGuarantee == Spec => []FactorConsistent
<1>1. Inv => FactorConsistent
  BY DEF Inv, StoreOK
<1> QED  BY <1>1, Always, PTL

(* So many failures lock the key, whatever is pruned, collected or wiped   *)
(* out in between (Fail, Allow, gcLocked).                                 *)
THEOREM LockGuarantee == Spec => []LockedAtMax
<1>1. Inv => LockedAtMax
  BY DEF Inv, StoreOK, BucketOK, LockedAtMax
<1> QED  BY <1>1, Always, PTL

-----------------------------------------------------------------------------
(* The limit on app passwords.                                             *)

Inserting == {w \in Handler : hd[w].pc = "insert"}

(* Every request past its count is taken to have inserted already.         *)
AppsInv ==
  /\ IsFiniteSet(apps)
  /\ Cardinality(apps) + Cardinality(Inserting) < MaxApps + Cardinality(Handler)

(* Subsets of the requests are finite and no larger.                       *)
LEMMA Counts ==
  ASSUME NEW S, S \subseteq Handler
  PROVE  /\ IsFiniteSet(S) /\ Cardinality(S) \in Nat
         /\ Cardinality(Handler) \in Nat /\ Cardinality(S) <= Cardinality(Handler)
BY AppAssumption, FS_Subset, FS_CardinalityType

(* A step that adds neither an app password nor a request past its count.  *)
LEMMA FewerKeep ==
  ASSUME AppsInv, apps' \subseteq apps, Inserting' \subseteq Inserting
  PROVE  AppsInv'
<1>1. PICK A, B, I, J : A = apps /\ B = apps' /\ I = Inserting /\ J = Inserting'
  OBVIOUS
<1>2. IsFiniteSet(B) /\ Cardinality(B) \in Nat /\ Cardinality(A) \in Nat
      /\ Cardinality(B) <= Cardinality(A)
  BY <1>1, FS_Subset, FS_CardinalityType DEF AppsInv
<1>3. I \subseteq Handler /\ J \subseteq I
  BY <1>1 DEF Inserting
<1>4. IsFiniteSet(I) /\ Cardinality(I) \in Nat /\ Cardinality(Handler) \in Nat
  BY <1>3, Counts
<1>5. Cardinality(J) \in Nat /\ Cardinality(J) <= Cardinality(I)
  BY <1>3, <1>4, FS_Subset, FS_CardinalityType
<1>6. Cardinality(A) + Cardinality(I) < MaxApps + Cardinality(Handler)
  BY <1>1 DEF AppsInv
<1>7. Cardinality(B) + Cardinality(J) < MaxApps + Cardinality(Handler)
  BY <1>2, <1>4, <1>5, <1>6, AppAssumption
<1> QED  BY <1>1, <1>2, <1>7 DEF AppsInv

(* The request w is set to locals that are not past a count.               *)
LEMMA NotInserting ==
  ASSUME RequestsOK, NEW w \in Handler, NEW L, hd' = [hd EXCEPT ![w] = L], L.pc # "insert"
  PROVE  Inserting' \subseteq Inserting
BY DEF Inserting, RequestsOK

(* A request moves on, ends or begins elsewhere.                           *)
LEMMA MovesElsewhere ==
  ASSUME RequestsOK, NEW w \in Handler,
         \/ Finish(w)
         \/ \E pc : pc # "insert" /\ Goto(w, pc)
         \/ \E L : L.pc # "insert" /\ Start(w, L)
  PROVE  Inserting' \subseteq Inserting
<1>1. CASE Finish(w)
  BY <1>1, IdleOK, NotInserting DEF Finish
<1>2. CASE \E pc : pc # "insert" /\ Goto(w, pc)
  <2>1. PICK pc : pc # "insert" /\ Goto(w, pc)
    BY <1>2
  <2>2. \A v \in Handler : hd'[v].pc = hd[v].pc \/ hd'[v].pc = pc
    BY <2>1 DEF Goto, RequestsOK, HandlerLocals
  <2> QED  BY <2>1, <2>2 DEF Inserting
<1>3. CASE \E L : L.pc # "insert" /\ Start(w, L)
  BY <1>3, NotInserting DEF Start
<1> QED  BY <1>1, <1>2, <1>3

(* The count is kept by every step.                                        *)
LEMMA NextApps == Inv /\ AppsInv /\ [Next]_vars => AppsInv'
<1> SUFFICES ASSUME Inv, AppsInv, [Next]_vars PROVE AppsInv'
  OBVIOUS
<1>1. RequestsOK
  BY DEF Inv
<1>2. CASE UNCHANGED vars
  BY <1>2 DEF vars, AppsInv, Inserting
<1>3. ASSUME NEW w \in Handler, createAppPassword(w) PROVE AppsInv'
  <2>1. PICK A, J : A = apps /\ J = Inserting' /\ J \subseteq Handler
    BY DEF Inserting
  <2>2. apps' = A /\ IsFiniteSet(A) /\ Cardinality(A) < MaxApps /\ Cardinality(A) \in Nat
    BY <1>3, <2>1, FS_CardinalityType DEF createAppPassword, account, AppsInv
  <2>3. Cardinality(J) \in Nat /\ Cardinality(Handler) \in Nat
        /\ Cardinality(J) <= Cardinality(Handler)
    BY <2>1, Counts
  <2>4. Cardinality(A) + Cardinality(J) < MaxApps + Cardinality(Handler)
    BY <2>2, <2>3, AppAssumption
  <2> QED  BY <2>1, <2>2, <2>4 DEF AppsInv
<1>4. ASSUME NEW w \in Handler, NEW p \in App, InsertAppPassword(w, p) PROVE AppsInv'
  <2>1. PICK A, I : A = apps /\ I = Inserting /\ I \subseteq Handler
    BY DEF Inserting
  <2>2. Inserting' = I \ {w} /\ w \in I
    BY <1>1, <1>4, <2>1, IdleOK DEF InsertAppPassword, Finish, Inserting, RequestsOK
  <2>3. apps' = A \cup {p}
    BY <1>4, <2>1 DEF InsertAppPassword
  <2>4. IsFiniteSet(I) /\ Cardinality(I) \in Nat /\ Cardinality(Handler) \in Nat
    BY <2>1, Counts
  <2>5. Cardinality(I \ {w}) = Cardinality(I) - 1
    BY <2>2, <2>4, FS_RemoveElement
  <2>6. IsFiniteSet(A) /\ Cardinality(A) \in Nat
        /\ Cardinality(A) + Cardinality(I) < MaxApps + Cardinality(Handler)
    BY <2>1, FS_CardinalityType DEF AppsInv
  <2>7. IsFiniteSet(A \cup {p}) /\ Cardinality(A \cup {p}) \in Nat
        /\ Cardinality(A \cup {p}) <= Cardinality(A) + 1
    BY <2>6, FS_AddElement
  <2>8. Cardinality(A \cup {p}) + Cardinality(I \ {w}) < MaxApps + Cardinality(Handler)
    BY <2>4, <2>5, <2>6, <2>7, AppAssumption
  <2> QED  BY <2>2, <2>3, <2>7, <2>8 DEF AppsInv
<1>5. ASSUME NEW w \in Handler, Request(w), ~createAppPassword(w) PROVE AppsInv'
  <2>1. apps' = apps
    BY <1>5 DEF Request, Attempt, totpSetup, totpCancel, adminDisableTOTP, totpEnable,
                totpDisable, account
  <2>2. CASE \E k \in Key : \E s \in Sent(k) : Attempt(w, k, s[1], s[2])
    <3>0. PICK k \in Key : \E s \in Sent(k) : Attempt(w, k, s[1], s[2])
      BY <2>2
    <3>1. PICK s \in Sent(k) : Attempt(w, k, s[1], s[2])
      BY <3>0
    <3>2. CASE Locked(bucket[k], now)
      BY <2>1, <3>1, <3>2, FewerKeep DEF Attempt, Inserting
    <3>3. CASE ~Locked(bucket[k], now)
      <4> DEFINE L == [Idle EXCEPT !.pc = First(k), !.key = k, !.no = requests + 1,
                                   !.cred = s[1], !.code = s[2]]
      <4>1. L.pc # "insert"
        BY DEF First, Idle
      <4>2. Start(w, L)
        BY <3>1, <3>3 DEF Attempt
      <4> HIDE DEF L
      <4> QED  BY <1>1, <2>1, <4>1, <4>2, MovesElsewhere, FewerKeep
    <3> QED  BY <3>2, <3>3
  <2>3. CASE ~\E k \in Key : \E s \in Sent(k) : Attempt(w, k, s[1], s[2])
    <3>1. \E L : L.pc # "insert" /\ Start(w, L)
      <4>1. ASSUME NEW pc \in {"pending", "enable"}, NEW n
            PROVE  [Idle EXCEPT !.pc = pc, !.secret = n].pc # "insert"
        BY DEF Idle
      <4>2. [Idle EXCEPT !.pc = "disable"].pc # "insert"
        BY DEF Idle
      <4>3. CASE totpSetup(w)
        BY <4>1, <4>3 DEF totpSetup
      <4>4. CASE totpCancel(w)
        BY <4>1, <4>4 DEF totpCancel
      <4>5. CASE adminDisableTOTP(w)
        BY <4>2, <4>5 DEF adminDisableTOTP
      <4>6. CASE \E code \in 0 .. secrets : totpEnable(w, code)
        BY <4>1, <4>6 DEF totpEnable
      <4>7. CASE \E code \in 0 .. secrets : \E cred \in Credential : totpDisable(w, cred, code)
        BY <4>2, <4>7 DEF totpDisable
      <4> QED  BY <1>5, <2>3, <4>3, <4>4, <4>5, <4>6, <4>7 DEF Request
    <3> QED  BY <1>1, <2>1, <3>1, MovesElsewhere, FewerKeep
  <2> QED  BY <2>2, <2>3
<1>6. ASSUME NEW w \in Handler, Step(w), ~\E p \in App : InsertAppPassword(w, p) PROVE AppsInv'
  <2>1. apps' = apps
    BY <1>6 DEF Step, Authenticate, AuthenticateFails, totpFields, totpFieldsFails,
                authenticateAppPassword, ConsumePasswordReset, Rejected, Failed, Success,
                SetTOTPPending, EnableTOTP, DisableTOTP, account
  <2>2. CASE totpFieldsFails(w) /\ hd[w].key = "dav"
    <3>1. \A v \in Handler : hd'[v].pc = hd[v].pc \/ hd'[v].pc = "granted"
      BY <1>1, <2>2 DEF totpFieldsFails, RequestsOK, HandlerLocals
    <3> QED  BY <2>1, <3>1, FewerKeep DEF Inserting
  <2>3. CASE ~(totpFieldsFails(w) /\ hd[w].key = "dav")
    <3>1. Finish(w) \/ \E pc \in {"totp", "app", "fail", "granted"} : Goto(w, pc)
      BY <1>6, <2>3 DEF Step, Authenticate, AuthenticateFails, totpFields, totpFieldsFails,
                authenticateAppPassword, ConsumePasswordReset, Rejected, Failed, Success,
                SetTOTPPending, EnableTOTP, DisableTOTP
    <3> QED  BY <1>1, <2>1, <3>1, MovesElsewhere, FewerKeep
  <2> QED  BY <2>2, <2>3
<1>7. CASE (\E p \in App : DeleteAppPassword(p)) \/ Tick \/ gcLocked
  <2>1. apps' \subseteq apps /\ hd' = hd
    BY <1>7 DEF DeleteAppPassword, Tick, gcLocked, account
  <2> QED  BY <2>1, FewerKeep DEF Inserting
<1>8. CASE Restart
  <2>1. apps' = apps /\ \A v \in Handler : hd'[v].pc # "insert"
    BY <1>8, IdleOK DEF Restart, account
  <2> QED  BY <2>1, FewerKeep DEF Inserting
<1> QED
  BY <1>2, <1>3, <1>4, <1>5, <1>6, <1>7, <1>8 DEF Next, Action

(* The limit on app passwords is passed by fewer than the requests that    *)
(* can be under way (CreateAppPassword).                                   *)
THEOREM AppsGuarantee == Spec => []AppsBounded
<1>1. Init => AppsInv
  <2> SUFFICES ASSUME Init PROVE AppsInv
    OBVIOUS
  <2>1. Inserting = {} /\ apps = {}
    BY IdleOK DEF Init, Inserting
  <2>2. Cardinality(Handler) \in Nat
    BY Counts
  <2> QED  BY <2>1, <2>2, FS_EmptySet, AppAssumption DEF AppsInv
<1>2. AppsInv => AppsBounded
  <2> SUFFICES ASSUME AppsInv PROVE AppsBounded
    OBVIOUS
  <2>1. PICK I : I = Inserting /\ I \subseteq Handler
    BY DEF Inserting
  <2>2. Cardinality(I) \in Nat /\ Cardinality(Handler) \in Nat
    BY <2>1, Counts
  <2>3. Cardinality(apps) \in Nat
    BY FS_CardinalityType DEF AppsInv
  <2> QED  BY <2>1, <2>2, <2>3, AppAssumption DEF AppsInv, AppsBounded
<1> QED  BY <1>1, <1>2, Always, NextApps, PTL DEF Spec

-----------------------------------------------------------------------------
(* How many guesses a Window takes.                                        *)

Others == Cardinality(Handler) - 1

(* The failures of S that came after the failure that set the lock of b.   *)
After(b, S) == {f \in S : f.at + Lockout > b.until}

(* What bucket b, the failures S of the last Window and the number u of    *)
(* requests under way have to do with each other at time t.  An open       *)
(* bucket has lost only failures of requests that were under way when the  *)
(* last lock began, a closed one lets no request in: whatever comes on top *)
(* of the failure that locked it was under way already.                    *)
Counted(b, S, t, u) ==
  /\ S \subseteq Failure /\ IsFiniteSet(S)
  /\ \A f \in S : f.at <= t /\ f.at + Window > t
  /\ b.until = 0 => Cardinality(S \ b.fails) <= Others
  /\ b.until # 0 => /\ Cardinality(After(b, S)) + u <= Others
                    /\ Cardinality(S) + u <= Max + 2 * Others

UnderWay(k) == {w \in Handler : hd[w].pc # "idle" /\ hd[w].key = k}

CountInv == \A k \in Key : Counted(bucket[k], spent[k], now, Cardinality(UnderWay(k)))

Bounded == Lockout >= Window /\ Handler # {}

LEMMA OthersNat ==
  ASSUME Bounded
  PROVE  Others \in Nat
BY FS_EmptySet, FS_CardinalityType, AppAssumption DEF Bounded, Others

(* A part of a finite set counts for no more.                              *)
LEMMA PartCounts ==
  ASSUME NEW S, IsFiniteSet(S), NEW T, T \subseteq S
  PROVE  /\ IsFiniteSet(T) /\ Cardinality(T) \in Nat /\ Cardinality(S) \in Nat
         /\ Cardinality(T) <= Cardinality(S)
BY FS_Subset, FS_CardinalityType

LEMMA OneMore ==
  ASSUME NEW S, IsFiniteSet(S), NEW x
  PROVE  /\ IsFiniteSet(S \cup {x}) /\ Cardinality(S) \in Nat /\ Cardinality(S \cup {x}) \in Nat
         /\ Cardinality(S \cup {x}) <= Cardinality(S) + 1
BY FS_AddElement, FS_CardinalityType

LEMMA CountedFewer ==
  ASSUME Bounded, NEW b, NEW S, NEW t, NEW u \in Nat, Counted(b, S, t, u),
         NEW T, T \subseteq S, NEW v \in Nat, v <= u
  PROVE  Counted(b, T, t, v)
<1>1. T \subseteq Failure /\ \A f \in T : f.at <= t /\ f.at + Window > t
  BY DEF Counted
<1>2. IsFiniteSet(S) /\ Others \in Nat
  BY OthersNat DEF Counted
<1>3. IsFiniteSet(T) /\ Cardinality(T) \in Nat /\ Cardinality(S) \in Nat
      /\ Cardinality(T) <= Cardinality(S)
  BY <1>2, PartCounts
<1>4. CASE b.until = 0
  <2>1. T \ b.fails \subseteq S \ b.fails /\ IsFiniteSet(S \ b.fails)
    BY <1>2, PartCounts
  <2>2. Cardinality(S \ b.fails) <= Others
    BY <1>4 DEF Counted
  <2>3. /\ Cardinality(T \ b.fails) \in Nat /\ Cardinality(S \ b.fails) \in Nat
        /\ Cardinality(T \ b.fails) <= Cardinality(S \ b.fails)
    BY <2>1, PartCounts
  <2>4. Cardinality(T \ b.fails) <= Others
    BY <1>2, <2>2, <2>3
  <2> QED  BY <1>1, <1>3, <1>4, <2>4 DEF Counted
<1>5. CASE b.until # 0
  <2>1. After(b, T) \subseteq After(b, S) /\ IsFiniteSet(After(b, S))
    BY <1>2, PartCounts DEF After
  <2>2. /\ Cardinality(After(b, S)) + u <= Others
        /\ Cardinality(S) + u <= Max + 2 * Others
    BY <1>5 DEF Counted
  <2>3. /\ Cardinality(After(b, T)) \in Nat /\ Cardinality(After(b, S)) \in Nat
        /\ Cardinality(After(b, T)) <= Cardinality(After(b, S))
    BY <2>1, PartCounts
  <2>4. /\ Cardinality(After(b, T)) + v <= Others
        /\ Cardinality(T) + v <= Max + 2 * Others
    BY <1>2, <1>3, <2>2, <2>3, LimitAssumption
  <2> QED  BY <1>1, <1>3, <1>5, <2>4 DEF Counted
<1> QED  BY <1>4, <1>5

(* An open bucket that loses failures older than the Window.               *)
LEMMA CountedPruned ==
  ASSUME Bounded, NEW b, NEW S, NEW t, NEW u \in Nat, Counted(b, S, t, u), b.until = 0,
         NEW c, c.until = 0, prune(b.fails, t) \subseteq c.fails, NEW v \in Nat
  PROVE  Counted(c, S, t, v)
<1>1. S \ c.fails \subseteq S \ b.fails
  BY DEF Counted, prune
<1>2. IsFiniteSet(S) /\ IsFiniteSet(S \ b.fails) /\ Others \in Nat
  BY OthersNat, PartCounts DEF Counted
<1>3. /\ Cardinality(S \ c.fails) \in Nat /\ Cardinality(S \ b.fails) \in Nat
      /\ Cardinality(S \ c.fails) <= Cardinality(S \ b.fails)
  BY <1>1, <1>2, PartCounts
<1>4. Cardinality(S \ b.fails) <= Others
  BY DEF Counted
<1>5. Cardinality(S \ c.fails) <= Others
  BY <1>2, <1>3, <1>4
<1> QED  BY <1>5 DEF Counted

(* A lock is over: all that is left of the Window came after it was set.   *)
LEMMA CountedWiped ==
  ASSUME Bounded, NEW b, BucketOK(b), NEW S, NEW t \in Nat, NEW u \in Nat, Counted(b, S, t, u),
         b.until # 0, ~Locked(b, t), NEW v \in Nat
  PROVE  Counted(Empty, S, t, v)
<1>1. b.until \in Nat /\ b.until <= t
  BY DEF BucketOK, Bucket, Locked
<1>2. After(b, S) = S
  <2> SUFFICES ASSUME NEW f \in S  PROVE f.at + Lockout > b.until
    BY DEF After
  <2>1. f.at \in Nat /\ f.at + Window > t
    BY DEF Counted, Failure
  <2> QED  BY <1>1, <2>1, LimitAssumption DEF Bounded
<1>3. Cardinality(S) + u <= Others /\ Cardinality(S) \in Nat /\ Others \in Nat
  BY <1>2, OthersNat, FS_CardinalityType DEF Counted
<1>4. Cardinality(S) <= Others
  BY <1>3
<1>5. Empty.until = 0 /\ S \ Empty.fails = S
  BY DEF Empty
<1> QED  BY <1>4, <1>5 DEF Counted

LEMMA AllowCounted ==
  ASSUME Bounded, NEW b, BucketOK(b), NEW S, NEW t \in Nat, NEW u \in Nat, Counted(b, S, t, u),
         ~Locked(b, t), NEW v \in Nat
  PROVE  Counted(Allow(b, t), S, t, v)
<1>1. CASE b.until # 0
  BY <1>1, CountedWiped DEF Allow
<1>2. CASE b.until = 0
  <2>1. Allow(b, t) = [b EXCEPT !.fails = prune(b.fails, t)]
    BY <1>2 DEF Allow
  <2>2. Allow(b, t).until = 0 /\ Allow(b, t).fails = prune(b.fails, t)
    BY <1>2, <2>1 DEF BucketOK, Bucket
  <2> QED  BY <1>2, <2>2, CountedPruned
<1> QED  BY <1>1, <1>2

LEMMA CollectedCounted ==
  ASSUME Bounded, NEW b, BucketOK(b), NEW S, NEW t \in Nat, NEW u \in Nat, Counted(b, S, t, u)
  PROVE  Counted(Collected(b, t), S, t, u)
<1> DEFINE c == [b EXCEPT !.fails = prune(b.fails, t)]
<1>1. c.until = b.until /\ c.fails = prune(b.fails, t)
  BY DEF BucketOK, Bucket
<1>2. CASE Locked(b, t)
  BY <1>2 DEF Collected
<1>3. CASE ~Locked(b, t) /\ prune(b.fails, t) = {}
  <2>1. Collected(b, t) = Empty
    BY <1>3 DEF Collected
  <2>2. CASE b.until # 0
    BY <1>3, <2>1, <2>2, CountedWiped
  <2>3. CASE b.until = 0
    BY <1>3, <2>1, <2>3, CountedPruned DEF Empty
  <2> QED  BY <2>2, <2>3
<1>4. CASE ~Locked(b, t) /\ prune(b.fails, t) # {}
  <2>1. Collected(b, t) = c
    BY <1>4 DEF Collected
  <2> HIDE DEF c
  <2>2. CASE b.until = 0
    BY <1>1, <2>1, <2>2, CountedPruned
  <2>3. CASE b.until # 0
    BY <1>1, <2>1, <2>3 DEF Counted, After
  <2> QED  BY <2>2, <2>3
<1> QED  BY <1>2, <1>3, <1>4

(* A failure, of a request that was under way.                             *)
LEMMA FailCounted ==
  ASSUME Bounded, NEW b, BucketOK(b), NEW S, NEW t \in Nat, NEW u \in Nat, Counted(b, S, t, u),
         u # 0, u <= Others + 1, NEW f \in Failure, f.at = t
  PROVE  Counted(Fail(b, f), S \cup {f}, t, u - 1)
<1> DEFINE P == prune(b.fails, t)
           F == P \cup {f}
           T == S \cup {f}
           d == Fail(b, f)
<1> SUFFICES Counted(d, T, t, u - 1)
  OBVIOUS
<1>1. /\ d.fails = F
      /\ d.until = IF Cardinality(F) >= Max THEN t + Lockout ELSE b.until
  BY DEF Fail
<1>2. /\ IsFiniteSet(P) /\ Cardinality(P) \in Nat /\ Cardinality(P) <= Cardinality(b.fails)
      /\ Cardinality(b.fails) \in Nat
  BY PruneOK
<1>3. IsFiniteSet(F) /\ Cardinality(F) \in Nat /\ Cardinality(F) <= Cardinality(P) + 1
  <2> HIDE DEF P
  <2> QED  BY <1>2, OneMore
<1>4. Others \in Nat /\ IsFiniteSet(S) /\ Cardinality(S) \in Nat /\ b.until \in Nat
  BY OthersNat, FS_CardinalityType DEF Counted, BucketOK, Bucket
<1>5. IsFiniteSet(T) /\ Cardinality(T) \in Nat /\ Cardinality(T) <= Cardinality(S) + 1
  BY <1>4, FS_AddElement
<1>6. /\ T \subseteq Failure
      /\ \A g \in T : g.at \in Nat /\ g.at <= t /\ g.at + Window > t
  BY LimitAssumption DEF Counted, Failure
<1>7. S \cap b.fails \subseteq P
  BY DEF Counted, prune
<1>8. CASE b.until = 0
  <2>1. Cardinality(S \ b.fails) <= Others
    BY <1>8 DEF Counted
  <2>2. T \ F \subseteq S \ b.fails
    BY <1>7
  <2>3. IsFiniteSet(S \ b.fails)
    BY <1>4, PartCounts
  <2>4. /\ Cardinality(T \ F) \in Nat /\ Cardinality(S \ b.fails) \in Nat
        /\ Cardinality(T \ F) <= Cardinality(S \ b.fails)
    BY <2>2, <2>3, PartCounts
  <2>5. Cardinality(T \ F) <= Others
    BY <1>4, <2>1, <2>4
  <2>6. CASE Cardinality(F) < Max
    <3>1. d.until = 0
      BY <1>1, <1>3, <1>8, <2>6, LimitAssumption
    <3> HIDE DEF d, T, F
    <3> QED  BY <1>1, <1>5, <1>6, <2>5, <3>1 DEF Counted
  <2>7. CASE Cardinality(F) >= Max
    <3>1. Cardinality(b.fails) < Max
      BY <1>2, <1>8, LimitAssumption DEF BucketOK
    <3>2. Cardinality(F) <= Max
      BY <1>2, <1>3, <3>1, LimitAssumption
    <3>3. T \subseteq F \cup (T \ F) /\ IsFiniteSet(T \ F)
      BY <2>2, <2>3, PartCounts
    <3>4. /\ IsFiniteSet(F \cup (T \ F))
          /\ Cardinality(F \cup (T \ F)) <= Cardinality(F) + Cardinality(T \ F)
      <4>1. Cardinality(F \cup (T \ F)) = Cardinality(F) + Cardinality(T \ F) - Cardinality(F \cap (T \ F))
        BY <1>3, <3>3, FS_Union
      <4>2. F \cap (T \ F) = {}
        OBVIOUS
      <4> QED  BY <1>3, <2>4, <3>3, <4>1, <4>2, FS_Union, FS_EmptySet
    <3>5. Cardinality(T) <= Max + Others
      BY <1>3, <1>4, <1>5, <2>4, <2>5, <3>2, <3>3, <3>4, PartCounts, FS_CardinalityType, LimitAssumption
    <3>6. d.until = t + Lockout /\ d.until # 0
      BY <1>1, <2>7, LimitAssumption
    <3>7. After(d, T) = {}
      BY <1>6, <3>6, LimitAssumption DEF After
    <3>8. Cardinality(After(d, T)) + (u - 1) <= Others
      <4>1. Cardinality(After(d, T)) = 0
        BY <3>7, FS_EmptySet, Zenon
      <4> QED  BY <1>4, <4>1
    <3>9. Cardinality(T) + (u - 1) <= Max + 2 * Others
      BY <1>4, <1>5, <3>5, LimitAssumption
    <3> HIDE DEF d, T, F
    <3> QED  BY <1>5, <1>6, <3>6, <3>8, <3>9 DEF Counted
  <2> QED  BY <1>3, <2>6, <2>7, LimitAssumption
<1>9. CASE b.until # 0
  <2>1. /\ Cardinality(After(b, S)) + u <= Others
        /\ Cardinality(S) + u <= Max + 2 * Others
    BY <1>9 DEF Counted
  <2>2. IsFiniteSet(After(b, S)) /\ Cardinality(After(b, S)) \in Nat
    BY <1>4, PartCounts DEF After
  <2>3. Cardinality(T) + (u - 1) <= Max + 2 * Others
    BY <1>4, <1>5, <2>1, LimitAssumption
  <2>4. d.until # 0
    BY <1>1, <1>9, LimitAssumption
  <2>5. Cardinality(After(d, T)) + (u - 1) <= Others
    <3>1. CASE d.until = b.until
      <4>1. After(d, T) \subseteq After(b, S) \cup {f}
        BY <3>1 DEF After
      <4>2. /\ IsFiniteSet(After(b, S) \cup {f})
            /\ Cardinality(After(b, S) \cup {f}) \in Nat
            /\ Cardinality(After(b, S) \cup {f}) <= Cardinality(After(b, S)) + 1
        BY <2>2, FS_AddElement
      <4>3. Cardinality(After(d, T)) \in Nat
            /\ Cardinality(After(d, T)) <= Cardinality(After(b, S) \cup {f})
        BY <4>1, <4>2, PartCounts
      <4> QED  BY <1>4, <2>1, <2>2, <4>2, <4>3
    <3>2. CASE d.until = t + Lockout
      <4>1. After(d, T) = {}
        BY <1>6, <3>2, LimitAssumption DEF After
      <4>2. Cardinality(After(d, T)) = 0
        BY <4>1, FS_EmptySet, Zenon
      <4> QED  BY <1>4, <4>2
    <3> QED  BY <1>1, <3>1, <3>2
  <2> HIDE DEF d, T, F
  <2> QED  BY <1>5, <1>6, <2>3, <2>4, <2>5 DEF Counted
<1> QED  BY <1>8, <1>9

LEMMA EmptyCounted ==
  ASSUME Bounded, NEW t, NEW u
  PROVE  Counted(Empty, {}, t, u)
BY OthersNat, FS_EmptySet DEF Counted, Empty

LEMMA TickCounted ==
  ASSUME Bounded, NEW b, NEW S, NEW t \in Nat, NEW u \in Nat, Counted(b, S, t, u)
  PROVE  Counted(b, prune(S, t + 1), t + 1, u)
<1>1. prune(S, t + 1) \subseteq S
  BY DEF prune
<1>2. Counted(b, prune(S, t + 1), t, u)
  BY <1>1, CountedFewer
<1>3. \A f \in prune(S, t + 1) : f.at <= t + 1 /\ f.at + Window > t + 1
  BY DEF prune, Counted, Failure
<1> QED  BY <1>2, <1>3 DEF Counted

-----------------------------------------------------------------------------
(* The requests under way.                                                 *)

LEMMA UnderWayCounts ==
  ASSUME NEW k
  PROVE  /\ UnderWay(k) \subseteq Handler /\ UnderWay(k)' \subseteq Handler
         /\ IsFiniteSet(UnderWay(k)) /\ IsFiniteSet(UnderWay(k)')
         /\ Cardinality(UnderWay(k)) \in Nat /\ Cardinality(UnderWay(k)') \in Nat
         /\ Cardinality(UnderWay(k)) <= Cardinality(Handler)
         /\ UnderWay(k)' \subseteq UnderWay(k) =>
              Cardinality(UnderWay(k)') <= Cardinality(UnderWay(k))
<1>1. UnderWay(k) \subseteq Handler /\ UnderWay(k)' \subseteq Handler
  BY DEF UnderWay
<1>2. \A S : S \subseteq Handler =>
        IsFiniteSet(S) /\ Cardinality(S) \in Nat /\ Cardinality(S) <= Cardinality(Handler)
  BY Counts
<1>3. UnderWay(k)' \subseteq UnderWay(k) => Cardinality(UnderWay(k)') <= Cardinality(UnderWay(k))
  BY <1>1, <1>2, FS_Subset
<1> QED  BY <1>1, <1>2, <1>3

(* Requests that go on, end, or begin without a key.                       *)
LEMMA NoneJoins ==
  ASSUME RequestsOK, NEW w \in Handler, NEW k \in Key,
         \/ Finish(w)
         \/ hd[w].pc # "idle" /\ \E pc : Goto(w, pc)
         \/ hd[w].pc # "idle" /\ hd' = [hd EXCEPT ![w].pc = "granted", ![w].err = TRUE]
         \/ \E L : L.key = "none" /\ Start(w, L)
  PROVE  UnderWay(k)' \subseteq UnderWay(k)
<1>0. "none" \notin Key /\ hd \in [Handler -> HandlerLocals]
  BY KeyAssumption DEF RequestsOK, Hits
<1>1. CASE Finish(w)
  BY <1>0, <1>1, IdleOK DEF Finish, UnderWay
<1>2. CASE hd[w].pc # "idle" /\ \E pc : Goto(w, pc)
  <2>1. PICK pc : Goto(w, pc)
    BY <1>2
  <2>2. \A v \in Handler : hd'[v].key = hd[v].key
    BY <1>0, <2>1 DEF Goto, HandlerLocals
  <2>3. \A v \in Handler \ {w} : hd'[v] = hd[v]
    BY <1>0, <2>1 DEF Goto
  <2> QED  BY <1>2, <2>2, <2>3 DEF UnderWay
<1>3. CASE hd[w].pc # "idle" /\ hd' = [hd EXCEPT ![w].pc = "granted", ![w].err = TRUE]
  <2>1. \A v \in Handler : hd'[v].key = hd[v].key
    BY <1>0, <1>3 DEF HandlerLocals
  <2>2. \A v \in Handler \ {w} : hd'[v] = hd[v]
    BY <1>0, <1>3
  <2> QED  BY <1>3, <2>1, <2>2 DEF UnderWay
<1>4. CASE \E L : L.key = "none" /\ Start(w, L)
  BY <1>0, <1>4 DEF Start, UnderWay
<1> QED  BY <1>1, <1>2, <1>3, <1>4

(* A key whose bucket stays as it is and whom no request joins.            *)
LEMMA StaysCounted ==
  ASSUME Bounded, CountInv, NEW k \in Key, bucket'[k] = bucket[k], spent'[k] \subseteq spent[k], now' = now,
         UnderWay(k)' \subseteq UnderWay(k)
  PROVE  Counted(bucket[k], spent[k], now, Cardinality(UnderWay(k)))'
<1>1. Counted(bucket[k], spent[k], now, Cardinality(UnderWay(k)))
  BY DEF CountInv
<1>2. Counted(bucket[k], spent'[k], now, Cardinality(UnderWay(k)'))
  BY <1>1, UnderWayCounts, CountedFewer
<1> QED  BY <1>2

-----------------------------------------------------------------------------
(* The count, step by step.                                                *)

LEMMA AttemptCounts ==
  ASSUME Bounded, Inv, CountInv, NEW w \in Handler, NEW k \in Key, NEW s \in Sent(k),
         Attempt(w, k, s[1], s[2])
  PROVE  CountInv'
<1>1. bucket' = [bucket EXCEPT ![k] = Allow(bucket[k], now)] /\ UNCHANGED <<now, spent>>
  BY DEF Attempt, Inv, StoreOK
<1>2. bucket \in [Key -> Bucket] /\ now \in Nat /\ BucketOK(bucket[k])
  BY DEF Inv, StoreOK
<1>3. CASE Locked(bucket[k], now)
  <2>1. bucket' = bucket /\ hd' = hd
    BY <1>1, <1>2, <1>3 DEF Attempt, Allow
  <2> QED  BY <1>1, <2>1 DEF CountInv, UnderWay
<1>4. CASE ~Locked(bucket[k], now)
  <2>1. PICK L : L.key = k /\ Start(w, L)
    BY <1>4 DEF Attempt, Idle
  <2> SUFFICES ASSUME NEW j \in Key
               PROVE  Counted(bucket[j], spent[j], now, Cardinality(UnderWay(j)))'
    BY DEF CountInv
  <2>2. CASE j = k
    <3>1. Counted(bucket[k], spent[k], now, Cardinality(UnderWay(k)))
      BY DEF CountInv
    <3>2. Counted(Allow(bucket[k], now), spent[k], now, Cardinality(UnderWay(k)'))
      BY <1>2, <1>4, <3>1, UnderWayCounts, AllowCounted
    <3> QED  BY <1>1, <1>2, <2>2, <3>2
  <2>3. CASE j # k
    <3>1. UnderWay(j)' \subseteq UnderWay(j)
      BY <2>1, <2>3 DEF Start, UnderWay, Inv, RequestsOK
    <3> QED  BY <1>1, <1>2, <2>3, <3>1, StaysCounted
  <2> QED  BY <2>2, <2>3
<1> QED  BY <1>3, <1>4

LEMMA FailedCounts ==
  ASSUME Bounded, Inv, CountInv, NEW w \in Handler, Failed(w)
  PROVE  CountInv'
<1>1. PICK k \in Key : k = hd[w].key /\ hd[w].no \in Nat
  BY HasKey DEF Failed
<1>2. PICK f \in Failure : f = [at |-> now, by |-> hd[w].no] /\ f.at = now
  <2>1. [at |-> now, by |-> hd[w].no] \in Failure
    BY <1>1 DEF Failure, Inv, StoreOK
  <2>2. [at |-> now, by |-> hd[w].no].at = now
    OBVIOUS
  <2> QED  BY <2>1, <2>2, Zenon
<1>3. /\ bucket' = [bucket EXCEPT ![k] = Fail(bucket[k], f)] /\ now' = now /\ Finish(w)
      /\ spent' = spent \/ spent' = [spent EXCEPT ![k] = spent[k] \cup {f}]
  BY <1>1, <1>2 DEF Failed, Inv, StoreOK
<1>4. /\ bucket \in [Key -> Bucket] /\ spent \in [Key -> SUBSET Failure]
      /\ now \in Nat /\ BucketOK(bucket[k])
  BY DEF Inv, StoreOK
<1>5. w \in UnderWay(k) /\ UnderWay(k)' = UnderWay(k) \ {w}
  BY <1>1, <1>3, IdleOK DEF UnderWay, Failed, Finish, Inv, RequestsOK
<1>6. PICK U \in SUBSET Handler : U = UnderWay(k)
  BY DEF UnderWay
<1>7. /\ Cardinality(U) \in Nat /\ Cardinality(U) <= Others + 1 /\ Cardinality(U) # 0
      /\ Cardinality(UnderWay(k)') = Cardinality(U) - 1
  <2>1. IsFiniteSet(U) /\ Cardinality(U) \in Nat /\ Cardinality(Handler) \in Nat
        /\ Cardinality(U) <= Cardinality(Handler)
    BY Counts
  <2>2. Cardinality(U \ {w}) = Cardinality(U) - 1 /\ Cardinality(U \ {w}) \in Nat
    BY <1>5, <1>6, <2>1, FS_RemoveElement, FS_CardinalityType
  <2>3. Cardinality(U) # 0
    BY <2>1, <2>2
  <2> QED  BY <1>5, <1>6, <2>1, <2>2, <2>3 DEF Others
<1> SUFFICES ASSUME NEW j \in Key
             PROVE  Counted(bucket[j], spent[j], now, Cardinality(UnderWay(j)))'
  BY DEF CountInv
<1>8. CASE j = k
  <2>1. Counted(bucket[k], spent[k], now, Cardinality(U))
    BY <1>6 DEF CountInv
  <2>2. Counted(Fail(bucket[k], f), spent[k] \cup {f}, now, Cardinality(U) - 1)
    BY <1>2, <1>4, <1>7, <2>1, FailCounted
  <2>3. spent'[k] \subseteq spent[k] \cup {f} /\ bucket'[k] = Fail(bucket[k], f)
    BY <1>3, <1>4
  <2>4. Cardinality(U) - 1 \in Nat
    BY <1>7
  <2>5. Counted(Fail(bucket[k], f), spent'[k], now, Cardinality(U) - 1)
    BY <2>2, <2>3, <2>4, CountedFewer
  <2> QED  BY <1>3, <1>7, <1>8, <2>3, <2>5
<1>9. CASE j # k
  <2>1. bucket'[j] = bucket[j] /\ spent'[j] = spent[j]
    BY <1>3, <1>4, <1>9
  <2>2. UnderWay(j)' \subseteq UnderWay(j)
    BY <1>3, NoneJoins DEF Inv
  <2> QED  BY <1>3, <2>1, <2>2, StaysCounted
<1> QED  BY <1>8, <1>9

(* The other steps let nobody in and count nobody.                         *)
LEMMA OtherStepsCount ==
  ASSUME Bounded, Inv, CountInv, NEW w \in Handler, Step(w), ~Failed(w)
  PROVE  CountInv'
<1>1. now' = now /\ hd[w].pc # "idle"
  BY DEF Step, Authenticate, AuthenticateFails, totpFields, totpFieldsFails,
     authenticateAppPassword, ConsumePasswordReset, Rejected, Success,
     SetTOTPPending, EnableTOTP, DisableTOTP, InsertAppPassword
<1>2. \A k \in Key : UnderWay(k)' \subseteq UnderWay(k)
  <2>1. \/ Finish(w)
        \/ \E pc : Goto(w, pc)
        \/ hd' = [hd EXCEPT ![w].pc = "granted", ![w].err = TRUE]
    BY DEF Step, Authenticate, AuthenticateFails, totpFields, totpFieldsFails,
       authenticateAppPassword, ConsumePasswordReset, Rejected, Success,
       SetTOTPPending, EnableTOTP, DisableTOTP, InsertAppPassword
  <2> QED  BY <1>1, <2>1, NoneJoins DEF Inv
<1>3. CASE Success(w)
  <2>1. PICK k \in Key : k = hd[w].key
    BY <1>3, HasKey DEF Success
  <2>2. /\ bucket' = [bucket EXCEPT ![k] = Empty] /\ spent' = [spent EXCEPT ![k] = {}]
        /\ bucket \in [Key -> Bucket] /\ spent \in [Key -> SUBSET Failure]
    BY <1>3, <2>1 DEF Success, Inv, StoreOK
  <2>3. ASSUME NEW j \in Key
        PROVE  Counted(bucket[j], spent[j], now, Cardinality(UnderWay(j)))'
    <3>1. CASE j = k
      <4>1. Counted(Empty, {}, now', Cardinality(UnderWay(j)'))
        BY EmptyCounted
      <4> QED  BY <2>2, <3>1, <4>1
    <3>2. CASE j # k
      BY <1>1, <1>2, <2>2, <3>2, StaysCounted
    <3> QED  BY <3>1, <3>2
  <2> QED  BY <2>3 DEF CountInv
<1>4. CASE ~Success(w)
  <2>1. UNCHANGED limiter
    BY <1>4 DEF Step, Authenticate, AuthenticateFails, totpFields, totpFieldsFails,
       authenticateAppPassword, ConsumePasswordReset, Rejected,
       SetTOTPPending, EnableTOTP, DisableTOTP, InsertAppPassword
  <2> QED  BY <1>1, <1>2, <2>1, StaysCounted DEF limiter, CountInv
<1> QED  BY <1>3, <1>4

LEMMA SettingsCount ==
  ASSUME Bounded, Inv, CountInv, NEW w \in Handler,
         \/ totpSetup(w) \/ totpCancel(w) \/ adminDisableTOTP(w) \/ createAppPassword(w)
         \/ \E code \in 0 .. secrets :
              totpEnable(w, code) \/ \E cred \in Credential : totpDisable(w, cred, code)
  PROVE  CountInv'
<1>1. UNCHANGED <<now, bucket, spent>>
  BY DEF totpSetup, totpCancel, adminDisableTOTP, createAppPassword, totpEnable, totpDisable, limiter
<1>2. \E L : L.key = "none" /\ Start(w, L)
  BY DEF totpSetup, totpCancel, adminDisableTOTP, createAppPassword, totpEnable, totpDisable, Idle
<1> QED  BY <1>1, <1>2, NoneJoins, StaysCounted DEF Inv, CountInv

LEMMA EnvironmentCounts ==
  ASSUME Bounded, Inv, CountInv,
         (\E p \in App : DeleteAppPassword(p)) \/ Tick \/ gcLocked \/ Restart
  PROVE  CountInv'
<1>1. /\ now \in Nat /\ bucket \in [Key -> Bucket] /\ \A k \in Key : BucketOK(bucket[k])
      /\ \A k \in Key : Counted(bucket[k], spent[k], now, Cardinality(UnderWay(k)))
  BY DEF Inv, StoreOK, CountInv
<1>2. CASE \E p \in App : DeleteAppPassword(p)
  BY <1>2 DEF DeleteAppPassword, limiter, CountInv, UnderWay
<1>3. CASE Tick
  <2>1. now' = now + 1 /\ UNCHANGED <<bucket, hd>> /\ \A k \in Key : spent'[k] = prune(spent[k], now + 1)
    BY <1>3 DEF Tick
  <2>2. ASSUME NEW k \in Key
        PROVE  Counted(bucket[k], spent[k], now, Cardinality(UnderWay(k)))'
    <3>1. Counted(bucket[k], prune(spent[k], now + 1), now + 1, Cardinality(UnderWay(k)))
      BY <1>1, UnderWayCounts, TickCounted
    <3>2. UnderWay(k)' = UnderWay(k)
      BY <2>1 DEF UnderWay
    <3> QED  BY <2>1, <3>1, <3>2
  <2> QED  BY <2>2 DEF CountInv
<1>4. CASE gcLocked
  <2>1. UNCHANGED <<now, spent, hd>> /\ \A k \in Key : bucket'[k] = Collected(bucket[k], now)
    BY <1>4 DEF gcLocked
  <2>2. ASSUME NEW k \in Key
        PROVE  Counted(bucket[k], spent[k], now, Cardinality(UnderWay(k)))'
    <3>1. Counted(Collected(bucket[k], now), spent[k], now, Cardinality(UnderWay(k)))
      BY <1>1, UnderWayCounts, CollectedCounted
    <3>2. UnderWay(k)' = UnderWay(k)
      BY <2>1 DEF UnderWay
    <3> QED  BY <2>1, <3>1, <3>2
  <2> QED  BY <2>2 DEF CountInv
<1>5. CASE Restart
  <2>1. \A k \in Key : bucket'[k] = Empty /\ spent'[k] = {}
    BY <1>5 DEF Restart
  <2> QED  BY <2>1, EmptyCounted DEF CountInv
<1> QED  BY <1>2, <1>3, <1>4, <1>5

LEMMA NextCounts ==
  ASSUME Bounded, Inv, CountInv, [Next]_vars
  PROVE  CountInv'
<1>1. CASE UNCHANGED vars
  BY <1>1 DEF vars, CountInv, UnderWay
<1>2. ASSUME NEW w \in Handler, Request(w) PROVE CountInv'
  BY <1>2, AttemptCounts, SettingsCount DEF Request
<1>3. ASSUME NEW w \in Handler, Step(w) PROVE CountInv'
  BY <1>3, FailedCounts, OtherStepsCount
<1>4. CASE (\E p \in App : DeleteAppPassword(p)) \/ Tick \/ gcLocked \/ Restart
  BY <1>4, EnvironmentCounts
<1> QED  BY <1>1, <1>2, <1>3, <1>4 DEF Next, Action

(* "8 / 15m then lockout": where a lock lasts at least a Window, no Window *)
(* takes more than Max failures of a key and two for each other request    *)
(* that can be under way (ratelimit Allow, Fail, gcLocked).                *)
THEOREM GuessGuarantee ==
  ASSUME Handler # {}
  PROVE  Spec => []GuessesBounded
<1>1. CASE ~(Lockout >= Window)
  <2>1. GuessesBounded
    BY <1>1 DEF GuessesBounded
  <2> QED  BY <2>1, PTL
<1>2. CASE Lockout >= Window
  <2>0. Bounded
    BY <1>2 DEF Bounded
  <2>1. Init => CountInv
    BY <2>0, EmptyCounted DEF Init, CountInv
  <2>2. Inv /\ CountInv /\ [Next]_vars => CountInv'
    BY <2>0, NextCounts
  <2>3. Inv /\ CountInv => GuessesBounded
    <3> SUFFICES ASSUME Inv, CountInv, NEW k \in Key
                 PROVE  Cardinality(spent[k]) <= Max + 2 * Others
      BY DEF GuessesBounded, Others
    <3>1. PICK b, S, u : /\ b = bucket[k] /\ S = spent[k] /\ u = Cardinality(UnderWay(k))
                         /\ Counted(b, S, now, u) /\ BucketOK(b) /\ u \in Nat
      <4>1. /\ Counted(bucket[k], spent[k], now, Cardinality(UnderWay(k)))
            /\ BucketOK(bucket[k]) /\ Cardinality(UnderWay(k)) \in Nat
        BY UnderWayCounts DEF CountInv, Inv, StoreOK
      <4> QED  BY <4>1, Zenon
    <3>2. IsFiniteSet(S) /\ Cardinality(S) \in Nat /\ Others \in Nat
      BY <2>0, <3>1, OthersNat, FS_CardinalityType DEF Counted
    <3>3. CASE b.until # 0
      BY <3>1, <3>2, <3>3, LimitAssumption DEF Counted
    <3>4. CASE b.until = 0
      <4>1. /\ IsFiniteSet(b.fails) /\ Cardinality(b.fails) \in Nat
            /\ Cardinality(b.fails) < Max
        BY <3>1, <3>4, FS_CardinalityType, LimitAssumption DEF BucketOK
      <4>2. /\ IsFiniteSet(S \ b.fails) /\ Cardinality(S \ b.fails) \in Nat
            /\ Cardinality(S \ b.fails) <= Others
        BY <3>1, <3>2, <3>4, PartCounts DEF Counted
      <4>3. S \subseteq b.fails \cup (S \ b.fails) /\ b.fails \cap (S \ b.fails) = {}
        OBVIOUS
      <4>4. /\ IsFiniteSet(b.fails \cup (S \ b.fails))
            /\ Cardinality(b.fails \cup (S \ b.fails)) = Cardinality(b.fails) + Cardinality(S \ b.fails)
        <5>1. /\ IsFiniteSet(b.fails \cup (S \ b.fails))
              /\ Cardinality(b.fails \cup (S \ b.fails)) =
                   Cardinality(b.fails) + Cardinality(S \ b.fails) - Cardinality(b.fails \cap (S \ b.fails))
          BY <4>1, <4>2, FS_Union
        <5>2. Cardinality(b.fails \cap (S \ b.fails)) = 0
          BY <4>3, FS_EmptySet
        <5> QED  BY <4>1, <4>2, <5>1, <5>2
      <4>5. Cardinality(S) <= Cardinality(b.fails) + Cardinality(S \ b.fails)
        BY <4>3, <4>4, PartCounts
      <4> QED  BY <3>1, <3>2, <4>1, <4>2, <4>5, LimitAssumption
    <3> QED  BY <3>3, <3>4
  <2> QED  BY <2>1, <2>2, <2>3, Always, PTL DEF Spec
<1> QED  BY <1>1, <1>2
=============================================================================
