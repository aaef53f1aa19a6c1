----------------------------- MODULE MailProofs -----------------------------
(***************************************************************************)
(* Proofs about Connected and Mail, for any mailboxes, providers, flows,   *)
(* invitees and overlapping requests, and any number of tokens.  First the *)
(* tokens and flows, then the lists of invitees, name by name, and who the *)
(* requests on their way have invited and mailed.                          *)
(***************************************************************************)
EXTENDS Mail, WellFoundedInduction, TLAPS

(* Where a request holds an account's tokens, and where its id.            *)
Sending == {"send", "refresh", "save", "deliver", "fail"}
HasTok(h) == h.pc \in Sending
HasId(h) == h.pc \in Sending \cup {"account"}

(* It has tokens that it alone knows, for the mailbox's row.               *)
Pending(h) == h.pc = "upsert" \/ (h.pc = "save" /\ h.key[1] \in Rotates)

(* The locals are records like Idle, whatever the lists in them hold.      *)
Shape == DOMAIN hd = Handler /\ \A w \in Handler : DOMAIN hd[w] = DOMAIN Idle

Typed ==
  /\ accounts \in [Mailbox -> Row \cup {None}] /\ nextId \in Nat \ {0}
  /\ flows \in [Flow -> FlowRow \cup {None}]
  /\ codes \in [Flow -> Nat]
  /\ \A w \in Handler : hd[w].id \in Nat /\ hd[w].tok \in Tok /\ hd[w].next \in Tok
  /\ issued \in 0..MaxGrants /\ stale \in 0..issued
  /\ live \subseteq 1..issued /\ cut \subseteq Mailbox

(* Ids: each of one mailbox, and in the hands of requests for it alone.    *)
IdsOK ==
  /\ \A k \in Mailbox : accounts[k] # None => accounts[k].id < nextId
  /\ \A j, k \in Mailbox :
       accounts[j] # None /\ accounts[k] # None /\ accounts[j].id = accounts[k].id => j = k
  /\ \A w \in Handler :
       /\ hd[w].id < nextId
       /\ HasId(hd[w]) => hd[w].id # 0
       /\ ~HasId(hd[w]) /\ hd[w].pc # "answered" => hd[w].id = 0
       /\ HasId(hd[w]) => \A k \in Mailbox : accounts[k] # None /\ accounts[k].id = hd[w].id => hd[w].key = k
       /\ HasId(hd[w]) => \A v \in Handler : HasId(hd[v]) /\ hd[v].id = hd[w].id => hd[v].key = hd[w].key

(* Refresh tokens: each of one id, and those not yet stored of one request.*)
TokensOK ==
  /\ \A k \in Mailbox : accounts[k] # None => accounts[k].tok.refresh <= issued
  /\ \A j, k \in Mailbox :
       accounts[j] # None /\ accounts[k] # None /\ accounts[j].tok.refresh = accounts[k].tok.refresh
         => j = k \/ accounts[k].tok.refresh = 0
  /\ \A w \in Handler :
       /\ hd[w].tok.refresh <= issued /\ hd[w].next.refresh <= issued
       /\ HasTok(hd[w]) =>
            /\ \A k \in Mailbox : accounts[k] # None /\ accounts[k].tok.refresh = hd[w].tok.refresh
                 => accounts[k].id = hd[w].id \/ hd[w].tok.refresh = 0
            /\ \A v \in Handler : HasTok(hd[v]) /\ hd[v].tok.refresh = hd[w].tok.refresh
                 => hd[v].id = hd[w].id \/ hd[w].tok.refresh = 0
       /\ hd[w].pc \in {"upsert", "save"} => hd[w].next.refresh \in live
       /\ hd[w].pc = "save" /\ hd[w].key[1] \notin Rotates => hd[w].next.refresh = hd[w].tok.refresh
       /\ Pending(hd[w]) =>
            /\ \A k \in Mailbox : accounts[k] # None => accounts[k].tok.refresh # hd[w].next.refresh
            /\ \A v \in Handler :
                 /\ HasTok(hd[v]) => hd[v].tok.refresh # hd[w].next.refresh
                 /\ Pending(hd[v]) /\ v # w => hd[v].next.refresh # hd[w].next.refresh

(* Flows: one request has the code of a flow, when its state is gone.      *)
FlowsOK ==
  /\ \A f \in Flow : codes[f] \in {0, 1} /\ (~Has(f, "gone") => codes[f] = 0)
  /\ \A w \in Handler : hd[w].pc = "exchange" =>
       /\ hd[w].flow \in Flow /\ Has(hd[w].flow, "gone") /\ codes[hd[w].flow] = 0
       /\ \A v \in Handler : hd[v].pc = "exchange" /\ hd[v].flow = hd[w].flow => v = w

Inv == Shape /\ Typed /\ IdsOK /\ TokensOK /\ TokensLive /\ FlowsOK

-----------------------------------------------------------------------------
(* Which account is picked.                                                *)

(* A set of numbers that is not empty has a least.                         *)
LEMMA Least ==
  ASSUME NEW S \in SUBSET Nat, S # {}
  PROVE  \E n \in S : \A m \in S : n <= m
<1> DEFINE R == OpToRel(<, Nat)
<1>1. IsWellFoundedOn(R, Nat)
  BY NatLessThanWellFounded
<1> HIDE DEF R
<1>2. PICK n \in S : \A m \in S : <<m, n>> \notin R
  BY <1>1, WFMin
<1>3. \A m, k \in Nat : m < k => <<m, k>> \in R
  BY DEF R, OpToRel
<1>4. \A m \in S : m \in Nat /\ n \in Nat /\ ~(m < n)
  BY <1>2, <1>3
<1>5. \A m \in S : n <= m
  BY <1>4
<1> QED  BY <1>5

(* A set of mailboxes with rows has one with the lowest id.                *)
LEMMA LowestIn ==
  ASSUME Typed, NEW K \in SUBSET Mailbox, K # {}, \A k \in K : accounts[k] # None
  PROVE  Lowest(K) \in K
<1> DEFINE S == {accounts[k].id : k \in K}
<1>1. \A k \in K : accounts[k].id \in Nat
  BY DEF Typed, Row
<1>2. S \in SUBSET Nat /\ S # {}
  BY <1>1
<1>3. PICK n \in S : \A m \in S : n <= m
  BY <1>2, Least
<1>4. PICK k \in K : accounts[k].id = n
  BY <1>3
<1>5. \A j \in K : accounts[k].id <= accounts[j].id
  BY <1>3, <1>4
<1> QED  BY <1>4, <1>5 DEF Lowest

(* And one with the highest.                                               *)
LEMMA HighestIn ==
  ASSUME Typed, IdsOK, NEW K \in SUBSET Mailbox, K # {}, \A k \in K : accounts[k] # None
  PROVE  Highest(K) \in K
<1> DEFINE S == {nextId - accounts[k].id : k \in K}
<1>1. \A k \in K : accounts[k].id \in Nat /\ accounts[k].id < nextId
  BY DEF Typed, Row, IdsOK
<1>2. S \in SUBSET Nat /\ S # {} /\ nextId \in Nat
  BY <1>1 DEF Typed
<1>3. PICK n \in S : \A m \in S : n <= m
  BY <1>2, Least
<1>4. PICK k \in K : nextId - accounts[k].id = n
  BY <1>3
<1>5. \A j \in K : nextId - accounts[k].id <= nextId - accounts[j].id
  BY <1>3, <1>4
<1>6. \A j \in K : accounts[j].id <= accounts[k].id
  BY <1>1, <1>2, <1>4, <1>5
<1> QED  BY <1>4, <1>6 DEF Highest

(* The account that is picked is connected, when there is any.             *)
LEMMA PickedIsConnected ==
  ASSUME Typed, IdsOK, Connected({"google", "microsoft", "smtp"}) # {}
  PROVE  pickAccountID \in Mailbox /\ accounts[pickAccountID] # None
<1> DEFINE match == {k \in Connected({"google", "microsoft", "smtp"}) : k[2] = OwnEmail}
<1>1. \A p : Connected(p) \in SUBSET Mailbox /\ \A k \in Connected(p) : accounts[k] # None
  BY DEF Connected
<1>2. match \in SUBSET Mailbox /\ \A k \in match : accounts[k] # None
  BY <1>1
<1>3. Connected({"google"}) # {} \/ Connected({"microsoft"}) # {} \/ Connected({"smtp"}) # {}
  BY DEF Connected
<1>4. CASE match # {}
  BY <1>2, <1>4, HighestIn DEF pickAccountID
<1>5. CASE match = {} /\ Connected({"google"}) # {}
  BY <1>1, <1>5, LowestIn DEF pickAccountID
<1>6. CASE match = {} /\ Connected({"google"}) = {} /\ Connected({"microsoft"}) # {}
  BY <1>1, <1>6, LowestIn DEF pickAccountID
<1>7. CASE match = {} /\ Connected({"google"}) = {} /\ Connected({"microsoft"}) = {}
  BY <1>1, <1>3, <1>7, LowestIn DEF pickAccountID
<1> QED  BY <1>4, <1>5, <1>6, <1>7

-----------------------------------------------------------------------------
(* What a step does to the locals that matter here.  Most steps only move  *)
(* a request on, and leave rows and tokens as they are.                    *)

Same(v) ==
  /\ hd'[v].pc = hd[v].pc /\ hd'[v].flow = hd[v].flow /\ hd'[v].key = hd[v].key
  /\ hd'[v].id = hd[v].id /\ hd'[v].tok = hd[v].tok /\ hd'[v].next = hd[v].next

Only(w) == Shape' /\ \A v \in Handler : v # w => Same(v)

(* The rows keep their ids and tokens.                                     *)
RowsSame ==
  /\ accounts' \in [Mailbox -> Row \cup {None}]
  /\ \A k \in Mailbox :
       /\ accounts'[k] = None <=> accounts[k] = None
       /\ accounts[k] # None => accounts'[k].id = accounts[k].id /\ accounts'[k].tok = accounts[k].tok

Quiet(w) ==
  /\ Only(w) /\ RowsSame /\ cut' = Lost(w)
  /\ UNCHANGED <<nextId, flows, codes, provider>>
  /\ hd'[w].next \in {NoToken, hd[w].next}

(* The request is over, or without an account's id.                        *)
Ends(w) ==
  /\ Quiet(w)
  /\ hd'[w].pc \in {"idle", "answered", "local", "merge", "list", "server"}
  /\ hd'[w].pc = "answered" \/ hd'[w].id = 0
  /\ hd'[w].id \in {0, hd[w].id} /\ hd'[w].tok \in {NoToken, hd[w].tok}

(* It goes on with the tokens it has.                                      *)
Goes(w) ==
  /\ Quiet(w) /\ HasTok(hd[w])
  /\ hd'[w].pc \in {"send", "refresh", "deliver", "fail"}
  /\ hd'[w].key = hd[w].key /\ hd'[w].id = hd[w].id /\ hd'[w].tok = hd[w].tok

(* It picks the account of k.                                              *)
Picks(w, k) ==
  /\ Quiet(w) /\ accounts[k] # None
  /\ hd'[w].pc = "account" /\ hd'[w].key = k
  /\ hd'[w].id = accounts[k].id /\ hd'[w].tok = hd[w].tok

(* It has read the tokens of k.                                            *)
Reads(w, k) ==
  /\ Quiet(w) /\ accounts[k] # None
  /\ hd'[w].pc = "send" /\ hd'[w].key = k
  /\ hd'[w].id = accounts[k].id /\ hd'[w].tok = accounts[k].tok

LEMMA IdleIs ==
  /\ DOMAIN Idle = {"pc", "kind", "flow", "key", "id", "tok", "next", "late", "todo", "names", "failed", "local",
                    "missing", "lines", "mailed", "err"}
  /\ Idle.pc = "idle" /\ Idle.id = 0 /\ Idle.tok = NoToken /\ Idle.next = NoToken
BY DEF Idle

(* A request's locals are replaced as a whole.                             *)
LEMMA Replaced ==
  ASSUME Shape, NEW w \in Handler, NEW L, DOMAIN L = DOMAIN Idle, hd' = [hd EXCEPT ![w] = L]
  PROVE  Only(w) /\ hd'[w] = L
BY DEF Shape, Only, Same

(* Statements that leave connected_accounts alone.                         *)
LEMMA RowsStay ==
  ASSUME Typed, accounts' = accounts
  PROVE  RowsSame
BY DEF Typed, RowsSame

(* The error that is noted on an account.                                  *)
LEMMA RowsStayOnError ==
  ASSUME Typed, NEW w \in Handler, SetConnectedAccountError(w)
  PROVE  RowsSame
<1>1. ASSUME NEW k \in Mailbox
      PROVE  /\ accounts'[k] \in Row \cup {None}
             /\ accounts'[k] = None <=> accounts[k] = None
             /\ accounts[k] # None => accounts'[k].id = accounts[k].id /\ accounts'[k].tok = accounts[k].tok
  <2>1. CASE k \in RowWithId(hd[w].id)
    <3>1. accounts[k] \in Row /\ accounts'[k] = [accounts[k] EXCEPT !.status = "error"]
      BY <2>1 DEF RowWithId, SetConnectedAccountError, Typed
    <3>2. /\ accounts'[k] \in Row
          /\ accounts'[k].id = accounts[k].id /\ accounts'[k].tok = accounts[k].tok
      BY <3>1 DEF Row
    <3>3. None \notin Row
      BY NoneAssumption
    <3> QED  BY <3>1, <3>2, <3>3
  <2>2. CASE k \notin RowWithId(hd[w].id)
    BY <2>2 DEF SetConnectedAccountError, Typed
  <2> QED  BY <2>1, <2>2
<1>2. DOMAIN accounts' = Mailbox /\ accounts' = [k \in Mailbox |-> accounts'[k]]
  BY DEF SetConnectedAccountError
<1> QED  BY <1>1, <1>2 DEF RowsSame

(* A request begins without an account.                                    *)
LEMMA BeginsEnds ==
  ASSUME Shape, Typed, NEW w \in Handler, NEW L, Start(w, L),
         UNCHANGED <<stored, flows, codes, provider, cut>>,
         DOMAIN L = DOMAIN Idle, L.next = NoToken, L.id = 0, L.tok = NoToken,
         L.pc \in {"idle", "answered", "local", "merge"}
  PROVE  Ends(w)
<1>1. hd' = [hd EXCEPT ![w] = L] /\ hd[w].pc # "save"
  BY DEF Start
<1>2. Only(w) /\ hd'[w] = L
  BY <1>1, Replaced
<1> QED  BY <1>1, <1>2, RowsStay DEF Ends, Quiet, Lost, stored

LEMMA SendInvitesEnds ==
  ASSUME Shape, Typed, NEW w \in Handler, NEW names, NEW failed, sendInvites(w, names, failed)
  PROVE  Ends(w)
<1> DEFINE who == LookUp(names, failed)
           next == IF who.local # {} THEN "local" ELSE IF who.external # <<>> THEN "merge" ELSE "answered"
           L == [Idle EXCEPT !.pc = next, !.kind = "invite", !.names = names, !.failed = failed,
                             !.lines = event, !.local = who.local, !.todo = who.external, !.missing = who.missing,
                             !.err = next = "answered"]
<1>1. Start(w, L) /\ UNCHANGED <<stored, flows, codes, provider, cut>>
  BY DEF sendInvites
<1>2. next \in {"local", "merge", "answered"}
  OBVIOUS
<1> HIDE DEF who, next
<1>3. DOMAIN L = DOMAIN Idle /\ L.next = NoToken /\ L.id = 0 /\ L.tok = NoToken /\ L.pc = next
  BY IdleIs
<1> HIDE DEF L
<1> QED  BY <1>1, <1>2, <1>3, BeginsEnds

LEMMA TestAccountReads ==
  ASSUME Shape, Typed, NEW w \in Handler, NEW k \in Mailbox, testAccount(w, k)
  PROVE  Reads(w, k)
<1> DEFINE L == [Idle EXCEPT !.pc = "send", !.kind = "test", !.key = k, !.id = accounts[k].id,
                             !.tok = accounts[k].tok, !.todo = <<k[2]>>]
<1>1. Start(w, L) /\ accounts[k] # None /\ UNCHANGED <<stored, flows, codes, provider, cut>>
  BY DEF testAccount
<1>2. /\ DOMAIN L = DOMAIN Idle /\ L.pc = "send" /\ L.key = k /\ L.id = accounts[k].id
      /\ L.tok = accounts[k].tok /\ L.next = NoToken
  BY IdleIs
<1> HIDE DEF L
<1>3. hd' = [hd EXCEPT ![w] = L] /\ hd[w].pc # "save"
  BY <1>1 DEF Start
<1>4. Only(w) /\ hd'[w] = L
  BY <1>2, <1>3, Replaced
<1> QED  BY <1>1, <1>2, <1>3, <1>4, RowsStay DEF Reads, Quiet, Lost, stored

(* After a message.                                                        *)
LEMMA AfterMessageIs ==
  ASSUME Shape, NEW w \in Handler, NEW how, AfterMessage(w, how)
  PROVE  /\ Only(w)
         /\ \/ hd'[w].pc = "answered"
            \/ hd[w].id = 0 /\ hd'[w].pc = "server"
            \/ hd[w].id # 0 /\ hd'[w].pc = "send"
         /\ hd'[w].key = hd[w].key /\ hd'[w].id = hd[w].id
         /\ hd'[w].tok = hd[w].tok /\ hd'[w].next = hd[w].next
<1> DEFINE pc == IF Len(hd[w].todo) = 1 THEN "answered" ELSE IF hd[w].id = 0 THEN "server" ELSE "send"
           L == [hd[w] EXCEPT !.todo = Tail(@), !.pc = pc,
                              !.mailed = IF how = "sent" THEN @ \cup {Head(hd[w].todo)} ELSE @,
                              !.err = @ \/ how = "failed"]
<1>1. hd' = [hd EXCEPT ![w] = L]
  BY DEF AfterMessage, Shape
<1>2. DOMAIN hd[w] = DOMAIN Idle
  BY DEF Shape
<1>3. /\ DOMAIN L = DOMAIN Idle /\ L.pc = pc
      /\ L.key = hd[w].key /\ L.id = hd[w].id /\ L.tok = hd[w].tok /\ L.next = hd[w].next
  BY <1>2, IdleIs
<1>4. pc = "answered" \/ (hd[w].id = 0 /\ pc = "server") \/ (hd[w].id # 0 /\ pc = "send")
  OBVIOUS
<1> HIDE DEF L, pc
<1>5. Only(w) /\ hd'[w] = L
  BY <1>1, <1>3, Replaced
<1> QED  BY <1>3, <1>4, <1>5

(* The event is written, and the request moves on.                         *)
LEMMA WriteEventIs ==
  ASSUME Shape, NEW w \in Handler, NEW S, NEW pc, WriteEvent(w, S, pc)
  PROVE  /\ Only(w) /\ hd'[w].pc = pc /\ hd'[w].key = hd[w].key /\ hd'[w].id = hd[w].id
         /\ hd'[w].tok = hd[w].tok /\ hd'[w].next = hd[w].next
<1>1. /\ DOMAIN Late(w) = Handler /\ Late(w)[w] = hd[w]
      /\ \A v \in Handler : \/ Late(w)[v] = hd[v] \/ Late(w)[v] = [hd[v] EXCEPT !.late = TRUE]
  BY DEF Late
<1>2. \A v \in Handler : DOMAIN hd[v] = DOMAIN Idle
  BY DEF Shape
<1>3. \A v \in Handler : /\ DOMAIN Late(w)[v] = DOMAIN Idle
                         /\ Late(w)[v].pc = hd[v].pc /\ Late(w)[v].flow = hd[v].flow
                         /\ Late(w)[v].key = hd[v].key /\ Late(w)[v].id = hd[v].id
                         /\ Late(w)[v].tok = hd[v].tok /\ Late(w)[v].next = hd[v].next
  BY <1>1, <1>2, IdleIs
<1> DEFINE L == [hd[w] EXCEPT !.pc = pc, !.todo = IF pc = "list" THEN Recipients(@) ELSE @,
                              !.lines = @ \cup S]
<1>4. hd' = [Late(w) EXCEPT ![w] = L]
  BY <1>1 DEF WriteEvent
<1>5. /\ DOMAIN L = DOMAIN Idle /\ L.pc = pc /\ L.key = hd[w].key /\ L.id = hd[w].id
      /\ L.tok = hd[w].tok /\ L.next = hd[w].next
  BY <1>2, IdleIs
<1> HIDE DEF L
<1>6. /\ DOMAIN hd' = Handler /\ hd'[w] = L
      /\ \A v \in Handler : v # w => hd'[v] = Late(w)[v]
  BY <1>1, <1>4
<1>7. Shape' /\ \A v \in Handler : v # w => Same(v)
  BY <1>3, <1>5, <1>6 DEF Shape, Same
<1> QED  BY <1>5, <1>6, <1>7 DEF Only

(* Steps of invitations, and of messages.                                  *)
LEMMA InviteStepEnds ==
  ASSUME Shape, Typed, IdsOK, NEW w \in Handler,
         ApplyLocalInvite(w) \/ MergeExternalEmails(w) \/ InviteFails(w) \/ NoSender(w)
  PROVE  Ends(w)
<1> USE DEF stored, Ends, Quiet, Lost
<1>1. CASE ApplyLocalInvite(w)
  <2> DEFINE boxes == {u.box : u \in hd[w].local}
             pc == IF hd[w].todo = <<>> THEN "answered" ELSE "merge"
  <2>1. hd[w].pc = "local" /\ WriteEvent(w, boxes, pc) /\ UNCHANGED <<stored, flows, codes, provider, cut>>
    BY <1>1 DEF ApplyLocalInvite
  <2>2. pc \in {"answered", "merge"}
    OBVIOUS
  <2> HIDE DEF boxes, pc
  <2>3. hd[w].id = 0
    BY <2>1 DEF IdsOK, HasId, Sending
  <2> QED  BY <2>1, <2>2, <2>3, WriteEventIs, RowsStay
<1>2. CASE MergeExternalEmails(w)
  <2>1. hd[w].pc = "merge" /\ WriteEvent(w, Range(hd[w].todo), "list")
        /\ UNCHANGED <<stored, flows, codes, provider, cut>>
    BY <1>2 DEF MergeExternalEmails
  <2>2. hd[w].id = 0
    BY <2>1 DEF IdsOK, HasId, Sending
  <2> QED  BY <2>1, <2>2, WriteEventIs, RowsStay
<1>3. CASE InviteFails(w) \/ NoSender(w)
  <2> DEFINE L == [hd[w] EXCEPT !.pc = "answered", !.err = TRUE]
  <2>1. /\ hd' = [hd EXCEPT ![w] = L] /\ hd[w].pc # "save"
        /\ UNCHANGED <<stored, flows, codes, provider, cut>>
    BY <1>3 DEF InviteFails, NoSender, Shape
  <2>2. DOMAIN hd[w] = DOMAIN Idle
    BY DEF Shape
  <2>3. DOMAIN L = DOMAIN Idle /\ L.pc = "answered" /\ L.id = hd[w].id /\ L.tok = hd[w].tok /\ L.next = hd[w].next
    BY <2>2, IdleIs
  <2> HIDE DEF L
  <2>4. Only(w) /\ hd'[w] = L
    BY <2>1, <2>3, Replaced
  <2> QED  BY <2>1, <2>3, <2>4, RowsStay
<1> QED  BY <1>1, <1>2, <1>3

LEMMA MessageStep ==
  ASSUME Shape, Typed, IdsOK, NEW w \in Handler, Deliver(w) \/ NoteFailure(w) \/ SendMIME(w)
  PROVE  Ends(w) \/ Goes(w)
<1>1. /\ hd[w].pc \in {"deliver", "fail", "server"}
      /\ AfterMessage(w, "sent") \/ AfterMessage(w, "failed")
      /\ accounts' = accounts \/ SetConnectedAccountError(w)
      /\ UNCHANGED <<nextId, flows, codes, provider, cut>>
  BY DEF Deliver, NoteFailure, SendMIME, stored
<1>2. /\ Only(w)
      /\ \/ hd'[w].pc = "answered"
         \/ hd[w].id = 0 /\ hd'[w].pc = "server"
         \/ hd[w].id # 0 /\ hd'[w].pc = "send"
      /\ hd'[w].key = hd[w].key /\ hd'[w].id = hd[w].id
      /\ hd'[w].tok = hd[w].tok /\ hd'[w].next = hd[w].next
  BY <1>1, AfterMessageIs
<1>3. RowsSame
  BY <1>1, RowsStay, RowsStayOnError
<1>4. Quiet(w)
  BY <1>1, <1>2, <1>3 DEF Quiet, Lost
<1>5. CASE hd'[w].pc \in {"answered", "server"}
  BY <1>2, <1>4, <1>5 DEF Ends
<1>6. CASE hd[w].id # 0 /\ hd'[w].pc = "send"
  <2>1. HasTok(hd[w])
    BY <1>1, <1>6 DEF IdsOK, HasId, HasTok, Sending
  <2> QED  BY <1>2, <1>4, <1>6, <2>1 DEF Goes
<1> QED  BY <1>2, <1>5, <1>6

(* Choosing the account and reading it.                                    *)
LEMMA ListStep ==
  ASSUME Shape, Typed, IdsOK, NEW w \in Handler, ListConnectedAccounts(w)
  PROVE  Ends(w) \/ \E k \in Mailbox : Picks(w, k)
<1>1. /\ hd[w].pc = "list" /\ DOMAIN hd[w] = DOMAIN Idle /\ DOMAIN hd = Handler
      /\ UNCHANGED <<stored, flows, codes, provider, cut>>
  BY DEF ListConnectedAccounts, Shape
<1>2. hd[w].id = 0 /\ cut' = Lost(w) /\ RowsSame
  BY <1>1, RowsStay DEF IdsOK, HasId, Sending, Lost, stored
<1>3. CASE hd[w].todo = <<>> \/ Connected({"google", "microsoft", "smtp"}) = {}
  <2> DEFINE pc == IF hd[w].todo = <<>> THEN "answered" ELSE "server"
             L == [hd[w] EXCEPT !.pc = pc]
  <2>1. hd' = [hd EXCEPT ![w] = L]
    BY <1>1, <1>3 DEF ListConnectedAccounts
  <2>2. DOMAIN L = DOMAIN Idle /\ L.pc = pc /\ L.id = hd[w].id /\ L.tok = hd[w].tok /\ L.next = hd[w].next
    BY <1>1, IdleIs
  <2>3. pc \in {"answered", "server"}
    OBVIOUS
  <2> HIDE DEF L, pc
  <2>4. Only(w) /\ hd'[w] = L
    BY <2>1, <2>2, Replaced
  <2>5. Ends(w)
    BY <1>1, <1>2, <2>2, <2>3, <2>4 DEF Ends, Quiet, stored
  <2> QED  BY <2>5
<1>4. CASE hd[w].todo # <<>> /\ Connected({"google", "microsoft", "smtp"}) # {}
  <2> DEFINE k == pickAccountID
             L == [hd[w] EXCEPT !.pc = "account", !.key = k, !.id = accounts[k].id]
  <2>1. hd' = [hd EXCEPT ![w] = L]
    BY <1>1, <1>4 DEF ListConnectedAccounts
  <2>2. k \in Mailbox /\ accounts[k] # None
    BY <1>4, PickedIsConnected
  <2> HIDE DEF k
  <2>3. /\ DOMAIN L = DOMAIN Idle /\ L.pc = "account" /\ L.key = k /\ L.id = accounts[k].id
        /\ L.tok = hd[w].tok /\ L.next = hd[w].next
    BY <1>1, IdleIs
  <2> HIDE DEF L
  <2>4. Only(w) /\ hd'[w] = L
    BY <2>1, <2>3, Replaced
  <2>5. Picks(w, k)
    BY <1>1, <1>2, <2>2, <2>3, <2>4 DEF Picks, Quiet, stored
  <2> QED  BY <2>2, <2>5
<1> QED  BY <1>3, <1>4

LEMMA AccountByIdStep ==
  ASSUME Shape, Typed, IdsOK, NEW w \in Handler, ConnectedAccountByID(w)
  PROVE  Ends(w) \/ \E k \in Mailbox : Reads(w, k)
<1>1. /\ hd[w].pc = "account" /\ DOMAIN hd[w] = DOMAIN Idle /\ DOMAIN hd = Handler
      /\ UNCHANGED <<stored, flows, codes, provider, cut>>
  BY DEF ConnectedAccountByID, Shape
<1>2. cut' = Lost(w) /\ RowsSame
  BY <1>1, RowsStay DEF Lost, stored
<1>3. CASE hd' = [hd EXCEPT ![w].pc = "server", ![w].id = 0]
  <2> DEFINE L == [hd[w] EXCEPT !.pc = "server", !.id = 0]
  <2>1. hd' = [hd EXCEPT ![w] = L]
    BY <1>1, <1>3
  <2>2. DOMAIN L = DOMAIN Idle /\ L.pc = "server" /\ L.id = 0 /\ L.tok = hd[w].tok /\ L.next = hd[w].next
    BY <1>1, IdleIs
  <2> HIDE DEF L
  <2>3. Only(w) /\ hd'[w] = L
    BY <2>1, <2>2, Replaced
  <2>4. Ends(w)
    BY <1>1, <1>2, <2>2, <2>3 DEF Ends, Quiet, stored
  <2> QED  BY <2>4
<1>4. CASE /\ RowWithId(hd[w].id) # {}
           /\ hd' = [hd EXCEPT ![w].pc = "send", ![w].tok = accounts[hd[w].key].tok]
  <2> DEFINE k == hd[w].key
             L == [hd[w] EXCEPT !.pc = "send", !.tok = accounts[k].tok]
  <2>1. hd' = [hd EXCEPT ![w] = L]
    BY <1>1, <1>4
  <2>2. PICK j \in Mailbox : accounts[j] # None /\ accounts[j].id = hd[w].id
    BY <1>4 DEF RowWithId
  <2>3. k \in Mailbox /\ accounts[k] # None /\ accounts[k].id = hd[w].id
    BY <1>1, <2>2 DEF IdsOK, HasId
  <2>4. /\ DOMAIN L = DOMAIN Idle /\ L.pc = "send" /\ L.key = k /\ L.id = hd[w].id
        /\ L.tok = accounts[k].tok /\ L.next = hd[w].next
    BY <1>1, IdleIs
  <2> HIDE DEF L, k
  <2>5. Only(w) /\ hd'[w] = L
    BY <2>1, <2>4, Replaced
  <2>6. Reads(w, k)
    BY <1>1, <1>2, <2>3, <2>4, <2>5 DEF Reads, Quiet, stored
  <2> QED  BY <2>3, <2>6
<1> QED  BY <1>3, <1>4 DEF ConnectedAccountByID

(* The steps of a sending request that leave the rows alone.               *)
LEMMA SendingStep ==
  ASSUME Shape, Typed, NEW w \in Handler, ensureAccess(w) \/ SendFails(w)
  PROVE  Goes(w)
<1> USE DEF stored, Goes, Quiet, Lost, HasTok, Sending
<1>1. DOMAIN hd[w] = DOMAIN Idle /\ DOMAIN hd = Handler
  BY DEF Shape
<1>2. CASE ensureAccess(w)
  <2> DEFINE pc == IF OAuth(hd[w].key) /\ Expired(hd[w].tok) THEN "refresh" ELSE "deliver"
             L == [hd[w] EXCEPT !.pc = pc]
  <2>1. hd' = [hd EXCEPT ![w] = L] /\ hd[w].pc = "send" /\ UNCHANGED <<stored, flows, codes, provider, cut>>
    BY <1>1, <1>2 DEF ensureAccess, Goto
  <2>2. pc \in {"refresh", "deliver"}
    OBVIOUS
  <2> HIDE DEF pc
  <2>3. /\ DOMAIN L = DOMAIN Idle /\ L.pc = pc /\ L.key = hd[w].key /\ L.id = hd[w].id
        /\ L.tok = hd[w].tok /\ L.next = hd[w].next
    BY <1>1, IdleIs
  <2> HIDE DEF L
  <2>4. Only(w) /\ hd'[w] = L
    BY <2>1, <2>3, Replaced
  <2> QED  BY <2>1, <2>2, <2>3, <2>4, RowsStay
<1>3. CASE SendFails(w)
  <2> DEFINE L == [hd[w] EXCEPT !.pc = "fail", !.next = NoToken]
  <2>1. /\ hd' = [hd EXCEPT ![w] = L] /\ hd[w].pc \in {"refresh", "save", "deliver"} /\ cut' = Lost(w)
        /\ UNCHANGED <<stored, flows, codes, provider>>
    BY <1>1, <1>3 DEF SendFails
  <2>3. /\ DOMAIN L = DOMAIN Idle /\ L.pc = "fail" /\ L.key = hd[w].key /\ L.id = hd[w].id
        /\ L.tok = hd[w].tok /\ L.next = NoToken
    BY <1>1, IdleIs
  <2> HIDE DEF L
  <2>4. Only(w) /\ hd'[w] = L
    BY <2>1, <2>3, Replaced
  <2> QED  BY <2>1, <2>3, <2>4, RowsStay
<1> QED  BY <1>2, <1>3

LEMMA AbandonEnds ==
  ASSUME Shape, Typed, NEW w \in Handler, Abandon(w)
  PROVE  Ends(w)
<1>1. hd' = [hd EXCEPT ![w] = Idle] /\ cut' = Lost(w) /\ UNCHANGED <<stored, flows, codes, provider>>
  BY DEF Abandon, Finish
<1>2. Only(w) /\ hd'[w] = Idle
  BY <1>1, Replaced
<1> QED  BY <1>1, <1>2, IdleIs, RowsStay DEF Ends, Quiet, stored

-----------------------------------------------------------------------------
(* The quiet steps keep the invariant.                                     *)

Quiets(w) == Ends(w) \/ Goes(w) \/ \E k \in Mailbox : Picks(w, k) \/ Reads(w, k)

LEMMA QuietTyped ==
  ASSUME Inv, NEW w \in Handler, Quiets(w)
  PROVE  Shape' /\ Typed'
<1>1. Quiet(w) /\ Shape' /\ RowsSame /\ UNCHANGED <<nextId, flows, codes, issued, live, stale>>
  BY DEF Quiets, Ends, Goes, Picks, Reads, Quiet, Only, provider
<1>2. Typed /\ NoToken \in Tok
  BY BoundAssumption DEF Inv, Tok, NoToken, Typed
<1>3. cut' \subseteq Mailbox
  BY <1>1, <1>2 DEF Quiet, Lost, RowWithId, Typed
<1>4. \A k \in Mailbox : accounts[k] # None => accounts[k].id \in Nat /\ accounts[k].tok \in Tok
  BY <1>2 DEF Typed, Row
<1>5. \A v \in Handler : v # w => hd'[v].id \in Nat /\ hd'[v].tok \in Tok /\ hd'[v].next \in Tok
  BY <1>1, <1>2 DEF Typed, Quiet, Only, Same
<1>6. hd'[w].next \in Tok
  BY <1>1, <1>2 DEF Typed, Quiet
<1>7. hd'[w].id \in Nat /\ hd'[w].tok \in Tok
  BY <1>2, <1>4 DEF Typed, Quiets, Ends, Goes, Picks, Reads
<1> QED  BY <1>1, <1>2, <1>3, <1>5, <1>6, <1>7 DEF Typed, RowsSame

LEMMA QuietIds ==
  ASSUME Inv, NEW w \in Handler, Quiets(w)
  PROVE  IdsOK'
<1> USE DEF HasId, Sending
<1>1. RowsSame /\ nextId' = nextId /\ \A v \in Handler : v # w => Same(v)
  BY DEF Quiets, Ends, Goes, Picks, Reads, Quiet, Only
<1>2. IdsOK /\ nextId \in Nat \ {0} /\ \A k \in Mailbox : accounts[k] # None => accounts[k].id \in Nat \ {0}
  BY DEF Inv, Typed, Row
<1>3. /\ \A k \in Mailbox : accounts'[k] # None => accounts'[k].id < nextId'
      /\ \A j, k \in Mailbox :
           accounts'[j] # None /\ accounts'[k] # None /\ accounts'[j].id = accounts'[k].id => j = k
  BY <1>1, <1>2 DEF RowsSame, IdsOK
<1>4. CASE Ends(w)
  BY <1>1, <1>2, <1>3, <1>4 DEF Ends, RowsSame, Same, IdsOK
<1>5. CASE Goes(w)
  BY <1>1, <1>2, <1>3, <1>5 DEF Goes, HasTok, RowsSame, Same, IdsOK
<1>6. ASSUME NEW k \in Mailbox, Picks(w, k) \/ Reads(w, k)
      PROVE  IdsOK'
  <2>1. /\ accounts[k] # None /\ hd'[w].pc \in {"account", "send"} /\ hd'[w].key = k /\ hd'[w].id = accounts[k].id
    BY <1>6 DEF Picks, Reads
  <2>2. \A v \in Handler : v # w /\ HasId(hd'[v]) /\ hd'[v].id = accounts[k].id => hd'[v].key = k
    BY <1>1, <1>2, <2>1 DEF Same, IdsOK
  <2>3. \A v \in Handler :
          /\ hd'[v].id < nextId'
          /\ HasId(hd'[v]) => hd'[v].id # 0
          /\ ~HasId(hd'[v]) /\ hd'[v].pc # "answered" => hd'[v].id = 0
          /\ HasId(hd'[v]) => \A j \in Mailbox : accounts'[j] # None /\ accounts'[j].id = hd'[v].id => hd'[v].key = j
    BY <1>1, <1>2, <2>1 DEF RowsSame, Same, IdsOK
  <2>4. \A v, u \in Handler : HasId(hd'[v]) /\ HasId(hd'[u]) /\ hd'[u].id = hd'[v].id => hd'[u].key = hd'[v].key
    BY <1>1, <1>2, <2>1, <2>2 DEF Same, IdsOK
  <2> QED  BY <1>3, <2>3, <2>4 DEF IdsOK
<1> QED  BY <1>4, <1>5, <1>6 DEF Quiets

LEMMA QuietTokens ==
  ASSUME Inv, NEW w \in Handler, Quiets(w)
  PROVE  TokensOK'
<1> USE DEF HasTok, Sending, Pending
<1>1. /\ RowsSame /\ issued' = issued /\ live' = live /\ hd'[w].next \in {NoToken, hd[w].next}
      /\ \A v \in Handler : v # w => Same(v)
  BY DEF Quiets, Ends, Goes, Picks, Reads, Quiet, Only, provider
<1>2. /\ TokensOK /\ issued \in Nat /\ live \subseteq 1..issued /\ NoToken.refresh = 0
      /\ \A k \in Mailbox : accounts[k] # None => accounts[k].tok.refresh \in Nat
  BY BoundAssumption DEF Inv, Typed, Row, Tok, NoToken
<1>3. hd'[w].pc \notin {"upsert", "save"} /\ hd'[w].next.refresh <= issued
  BY <1>1, <1>2 DEF Quiets, Ends, Goes, Picks, Reads, TokensOK
<1>4. /\ \A k \in Mailbox : accounts'[k] # None => accounts'[k].tok.refresh <= issued'
      /\ \A j, k \in Mailbox :
           accounts'[j] # None /\ accounts'[k] # None /\ accounts'[j].tok.refresh = accounts'[k].tok.refresh
             => j = k \/ accounts'[k].tok.refresh = 0
  BY <1>1, <1>2 DEF RowsSame, TokensOK
<1>5. \A v \in Handler : hd'[v].pc \in {"upsert", "save"} =>
        /\ v # w /\ hd'[v].next.refresh \in live'
        /\ hd'[v].pc = "save" /\ hd'[v].key[1] \notin Rotates => hd'[v].next.refresh = hd'[v].tok.refresh
        /\ Pending(hd'[v]) => /\ \A k \in Mailbox : accounts'[k] # None => accounts'[k].tok.refresh # hd'[v].next.refresh
                              /\ \A u \in Handler : u # w => 
                                   /\ HasTok(hd'[u]) => hd'[u].tok.refresh # hd'[v].next.refresh
                                   /\ Pending(hd'[u]) /\ u # v => hd'[u].next.refresh # hd'[v].next.refresh
  BY <1>1, <1>2, <1>3 DEF RowsSame, Same, TokensOK
<1>6. /\ hd'[w].tok.refresh <= issued
      /\ HasTok(hd'[w]) =>
           \/ \E k \in Mailbox : accounts[k] # None /\ hd'[w].tok = accounts[k].tok /\ hd'[w].id = accounts[k].id
           \/ HasTok(hd[w]) /\ hd'[w].tok = hd[w].tok /\ hd'[w].id = hd[w].id
  BY <1>2 DEF Quiets, Ends, Goes, Picks, Reads, TokensOK
<1>7. HasTok(hd'[w]) =>
        /\ \A k \in Mailbox : accounts[k] # None /\ accounts[k].tok.refresh = hd'[w].tok.refresh
             => accounts[k].id = hd'[w].id \/ hd'[w].tok.refresh = 0
        /\ \A v \in Handler : HasTok(hd[v]) /\ hd[v].tok.refresh = hd'[w].tok.refresh
             => hd[v].id = hd'[w].id \/ hd'[w].tok.refresh = 0
        /\ \A v \in Handler : Pending(hd[v]) => hd'[w].tok.refresh # hd[v].next.refresh
  BY <1>2, <1>6 DEF TokensOK
<1>8. \A v \in Handler :
        /\ hd'[v].tok.refresh <= issued' /\ hd'[v].next.refresh <= issued'
        /\ HasTok(hd'[v]) =>
             /\ \A k \in Mailbox : accounts'[k] # None /\ accounts'[k].tok.refresh = hd'[v].tok.refresh
                  => accounts'[k].id = hd'[v].id \/ hd'[v].tok.refresh = 0
             /\ \A u \in Handler : HasTok(hd'[u]) /\ hd'[u].tok.refresh = hd'[v].tok.refresh
                  => hd'[u].id = hd'[v].id \/ hd'[v].tok.refresh = 0
  BY <1>1, <1>2, <1>3, <1>6, <1>7 DEF RowsSame, Same, TokensOK
<1>9. \A v \in Handler : Pending(hd'[v]) =>
        \A u \in Handler :
          /\ HasTok(hd'[u]) => hd'[u].tok.refresh # hd'[v].next.refresh
          /\ Pending(hd'[u]) /\ u # v => hd'[u].next.refresh # hd'[v].next.refresh
  BY <1>1, <1>3, <1>5, <1>7 DEF Same
<1> QED  BY <1>4, <1>5, <1>8, <1>9 DEF TokensOK

(* What a request that was about to store its tokens leaves is in cut.     *)
LEMMA QuietLive ==
  ASSUME Inv, NEW w \in Handler, Quiets(w)
  PROVE  TokensLive'
<1>1. /\ RowsSame /\ live' = live /\ cut' = Lost(w) /\ \A v \in Handler : v # w => Same(v)
  BY DEF Quiets, Ends, Goes, Picks, Reads, Quiet, Only, provider
<1>2. SUFFICES ASSUME NEW k \in Mailbox, OAuth(k), accounts'[k] # None, accounts'[k].tok.refresh \notin live'
               PROVE  k \in cut' \/ \E v \in Handler : hd'[v].pc = "save" /\ hd'[v].id = accounts'[k].id
  BY DEF TokensLive
<1>3. /\ accounts[k] # None /\ accounts'[k].id = accounts[k].id
      /\ accounts[k].tok.refresh \notin live
  BY <1>1, <1>2 DEF RowsSame
<1>4. CASE k \in cut
  BY <1>1, <1>4 DEF Lost
<1>5. ASSUME NEW v \in Handler, hd[v].pc = "save", hd[v].id = accounts[k].id
      PROVE  k \in cut' \/ \E u \in Handler : hd'[u].pc = "save" /\ hd'[u].id = accounts'[k].id
  <2>1. CASE v = w
    BY <1>1, <1>3, <1>5, <2>1 DEF Lost, RowWithId
  <2>2. CASE v # w
    BY <1>1, <1>3, <1>5, <2>2 DEF Same
  <2> QED  BY <2>1, <2>2
<1> QED  BY <1>2, <1>3, <1>4, <1>5 DEF Inv, TokensLive

LEMMA QuietFlows ==
  ASSUME Inv, NEW w \in Handler, Quiets(w)
  PROVE  FlowsOK'
<1>1. /\ UNCHANGED <<flows, codes>> /\ hd'[w].pc # "exchange" /\ \A v \in Handler : v # w => Same(v)
  BY DEF Quiets, Ends, Goes, Picks, Reads, Quiet, Only
<1> QED  BY <1>1 DEF Inv, FlowsOK, Has, Same

LEMMA QuietKeepsInv ==
  ASSUME Inv, NEW w \in Handler, Quiets(w)
  PROVE  Inv'
BY QuietTyped, QuietIds, QuietTokens, QuietLive, QuietFlows DEF Inv

-----------------------------------------------------------------------------
(* The steps that change rows, flows or tokens keep it.                    *)

(* Rows are put in and taken out: the id of a new row is new.              *)
LEMMA UpsertKeepsIds ==
  ASSUME Inv, NEW k \in Mailbox, NEW tok \in Tok, UpsertConnectedAccount(k, tok)
  PROVE  /\ accounts' \in [Mailbox -> Row \cup {None}] /\ nextId' \in Nat \ {0} /\ nextId <= nextId'
         /\ cut' = cut \ {k}
         /\ accounts'[k] # None /\ accounts'[k].tok = tok
         /\ accounts'[k].id = IF accounts[k] = None THEN nextId ELSE accounts[k].id
         /\ accounts'[k].id < nextId'
         /\ \A j \in Mailbox : j # k => accounts'[j] = accounts[j]
<1>1. accounts[k] # None => accounts[k] \in Row /\ accounts[k].id \in Nat \ {0} /\ accounts[k].id < nextId
  BY DEF Inv, Typed, IdsOK, Row
<1>2. nextId \in Nat \ {0} /\ accounts \in [Mailbox -> Row \cup {None}]
  BY DEF Inv, Typed
<1> DEFINE r == [id |-> IF accounts[k] = None THEN nextId ELSE accounts[k].id, status |-> "connected", tok |-> tok]
<1>3. r \in Row /\ r # None
  BY <1>1, <1>2, NoneAssumption DEF Row
<1>4. accounts' = [accounts EXCEPT ![k] = r] /\ cut' = cut \ {k}
      /\ nextId' = IF accounts[k] = None THEN nextId + 1 ELSE nextId
  BY DEF UpsertConnectedAccount
<1>5. r.tok = tok /\ r.id = IF accounts[k] = None THEN nextId ELSE accounts[k].id
  OBVIOUS
<1> HIDE DEF r
<1>6. /\ accounts' \in [Mailbox -> Row \cup {None}] /\ accounts'[k] = r
      /\ \A j \in Mailbox : j # k => accounts'[j] = accounts[j]
  BY <1>2, <1>3, <1>4
<1>7. nextId' \in Nat \ {0} /\ nextId <= nextId' /\ r.id < nextId'
  BY <1>1, <1>2, <1>4, <1>5
<1> QED  BY <1>3, <1>4, <1>5, <1>6, <1>7

LEMMA SaveSmtpKeepsInv ==
  ASSUME Inv, NEW k \in Mailbox, saveSMTPAccount(k)
  PROVE  Inv'
<1> USE DEF HasId, HasTok, Sending, Pending
<1>1. NoToken \in Tok /\ NoToken.refresh = 0
  BY BoundAssumption DEF NoToken, Tok
<1>2. /\ ~OAuth(k) /\ UNCHANGED <<flows, codes, issued, live, stale, hd>> /\ UpsertConnectedAccount(k, NoToken)
  BY DEF saveSMTPAccount, provider
<1>3. /\ accounts' \in [Mailbox -> Row \cup {None}] /\ nextId' \in Nat \ {0} /\ nextId <= nextId'
      /\ cut' = cut \ {k}
      /\ accounts'[k] # None /\ accounts'[k].tok = NoToken
      /\ accounts'[k].id = IF accounts[k] = None THEN nextId ELSE accounts[k].id
      /\ accounts'[k].id < nextId'
      /\ \A j \in Mailbox : j # k => accounts'[j] = accounts[j]
  BY <1>1, <1>2, UpsertKeepsIds
<1>4. /\ \A j \in Mailbox : accounts[j] # None => accounts[j].id \in Nat /\ accounts[j].tok.refresh \in Nat
      /\ nextId \in Nat /\ nextId' \in Nat /\ issued \in Nat /\ live \subseteq 1..issued
  BY <1>3, BoundAssumption DEF Inv, Typed, Row, Tok
<1>5. Shape' /\ Typed'
  BY <1>2, <1>3 DEF Inv, Shape, Typed
<1>6. IdsOK'
  <2>1. \A v \in Handler : hd[v].id \in Nat /\ hd[v].id < nextId
    BY DEF Inv, Typed, IdsOK
  <2> QED  BY <1>2, <1>3, <1>4, <2>1 DEF Inv, IdsOK
<1>7. TokensOK'
  BY <1>1, <1>2, <1>3, <1>4 DEF Inv, TokensOK
<1>8. TokensLive'
  BY <1>2, <1>3 DEF Inv, TokensLive
<1>9. FlowsOK'
  BY <1>2 DEF Inv, FlowsOK, Has
<1> QED  BY <1>5, <1>6, <1>7, <1>8, <1>9 DEF Inv

LEMMA DeleteKeepsInv ==
  ASSUME Inv, NEW k \in Mailbox, deleteAccount(k)
  PROVE  Inv'
<1> USE DEF HasId, HasTok, Sending, Pending
<1>1. /\ accounts' = [accounts EXCEPT ![k] = None] /\ UNCHANGED <<nextId, flows, codes, issued, live, stale, hd, cut>>
  BY DEF deleteAccount, provider
<1>2. /\ accounts' \in [Mailbox -> Row \cup {None}]
      /\ \A j \in Mailbox : accounts'[j] # None => accounts[j] # None /\ accounts'[j] = accounts[j]
  BY <1>1 DEF Inv, Typed
<1>3. Shape' /\ Typed'
  BY <1>1, <1>2 DEF Inv, Shape, Typed
<1>4. IdsOK'
  BY <1>1, <1>2 DEF Inv, IdsOK
<1>5. TokensOK'
  BY <1>1, <1>2 DEF Inv, TokensOK
<1>6. TokensLive'
  BY <1>1, <1>2 DEF Inv, TokensLive
<1>7. FlowsOK'
  BY <1>1 DEF Inv, FlowsOK, Has
<1> QED  BY <1>3, <1>4, <1>5, <1>6, <1>7 DEF Inv

(* Flows begin and expire.                                                 *)
LEMMA FlowStepKeepsInv ==
  ASSUME Inv, NEW f \in Flow, NEW p \in Provider, FlowExpires(f) \/ startOAuth(f, p)
  PROVE  Inv'
<1> USE DEF HasId, HasTok, Sending, Pending
<1>1. UNCHANGED <<accounts, nextId, codes, issued, live, hd, cut>>
  BY DEF FlowExpires, startOAuth, stored, provider
<1>2. stale' \in 0..issued'
  BY DEF Inv, Typed, FlowExpires, startOAuth, provider
<1>3. /\ flows' \in [Flow -> FlowRow \cup {None}]
      /\ \A g \in Flow : ~Has(g, "gone")' => codes[g] = 0
      /\ \A g \in Flow : Has(g, "gone") => Has(g, "gone")'
  <2>1. (\A g \in Flow : flows[g] \in FlowRow \cup {None}) /\ flows \in [Flow -> FlowRow \cup {None}]
    BY DEF Inv, Typed
  <2>2. None \notin FlowRow
    BY NoneAssumption
  <2>3. CASE FlowExpires(f)
    <3>1. /\ flows[f] \in FlowRow /\ flows[f].row = "valid"
          /\ flows' = [flows EXCEPT ![f] = [flows[f] EXCEPT !.row = "expired"]]
      BY <2>1, <2>3 DEF FlowExpires, Has
    <3>2. [flows[f] EXCEPT !.row = "expired"] \in FlowRow
      BY <3>1 DEF FlowRow
    <3>3. flows' \in [Flow -> FlowRow \cup {None}] /\ \A g \in Flow : g # f => flows'[g] = flows[g]
      BY <2>1, <3>1, <3>2
    <3>4. codes[f] = 0 /\ ~Has(f, "gone")
      BY <3>1 DEF Has, Inv, FlowsOK
    <3> QED  BY <3>3, <3>4 DEF Has, Inv, FlowsOK
  <2>4. CASE startOAuth(f, p)
    <3>1. flows[f] = None
      BY <2>4 DEF startOAuth
    <3>2. /\ [provider |-> p, row |-> "valid"] \in FlowRow
          /\ \A g \in Flow : Has(g, "expired") =>
               /\ [flows[g] EXCEPT !.row = "gone"] \in FlowRow
               /\ [flows[g] EXCEPT !.row = "gone"].row = "gone"
      BY <2>1 DEF FlowRow, Has
    <3>3. /\ flows' \in [Flow -> FlowRow \cup {None}]
          /\ \A g \in Flow : flows'[g] = IF g = f THEN [provider |-> p, row |-> "valid"]
                              ELSE IF Has(g, "expired") THEN [flows[g] EXCEPT !.row = "gone"] ELSE flows[g]
      BY <2>1, <2>4, <3>2 DEF startOAuth
    <3>4. codes[f] = 0
      BY <3>1 DEF Has, Inv, FlowsOK
    <3>5. \A g \in Flow : Has(g, "gone") => Has(g, "gone")'
      BY <2>2, <3>1, <3>3 DEF Has
    <3>6. ASSUME NEW g \in Flow, ~Has(g, "gone")'
          PROVE  codes[g] = 0
      BY <3>4, <3>5, <3>6 DEF Inv, FlowsOK
    <3> QED  BY <3>3, <3>5, <3>6
  <2> QED  BY <2>3, <2>4
<1>4. Shape' /\ Typed'
  BY <1>1, <1>2, <1>3 DEF Inv, Shape, Typed
<1>5. IdsOK' /\ TokensOK' /\ TokensLive'
  BY <1>1 DEF Inv, IdsOK, TokensOK, TokensLive
<1>6. FlowsOK'
  BY <1>1, <1>3 DEF Inv, FlowsOK
<1> QED  BY <1>4, <1>5, <1>6 DEF Inv

(* The state of a flow is taken: whoever holds it is the only one.         *)
LEMMA TakeKeepsInv ==
  ASSUME Inv, NEW w \in Handler, NEW f \in Flow, NEW p, TakeOAuthState(w, f, p)
  PROVE  Inv'
<1> USE DEF HasId, HasTok, Sending, Pending
<1> DEFINE L == IF p = flows[f].provider
                THEN [Idle EXCEPT !.pc = "exchange", !.kind = "callback", !.flow = f, !.key = <<p, None>>]
                ELSE Idle
<1>1. /\ Has(f, "valid") /\ flows' = [flows EXCEPT ![f].row = "gone"]
      /\ hd[w].pc \in {"idle", "answered"} /\ hd' = [hd EXCEPT ![w] = L]
      /\ UNCHANGED <<accounts, nextId, codes, issued, live, stale, cut>>
  BY DEF TakeOAuthState, Start, stored, provider
<1>2. /\ DOMAIN L = DOMAIN Idle /\ L.id = 0 /\ L.tok = NoToken /\ L.next = NoToken
      /\ L.pc = "idle" \/ (L.pc = "exchange" /\ L.flow = f)
  <2> DEFINE M == [Idle EXCEPT !.pc = "exchange", !.kind = "callback", !.flow = f, !.key = <<p, None>>]
  <2>1. /\ DOMAIN M = DOMAIN Idle /\ M.id = 0 /\ M.tok = NoToken /\ M.next = NoToken
        /\ M.pc = "exchange" /\ M.flow = f
    BY IdleIs
  <2>2. L = M \/ L = Idle
    OBVIOUS
  <2> HIDE DEF L, M
  <2> QED  BY <2>1, <2>2, IdleIs
<1> HIDE DEF L
<1>3. Only(w) /\ hd'[w] = L
  BY <1>1, <1>2, Replaced DEF Inv
<1>4. Shape' /\ (\A v \in Handler : v # w => Same(v)) /\ NoToken \in Tok /\ NoToken.refresh = 0
  BY <1>3, BoundAssumption DEF Only, NoToken, Tok
<1>5. flows' \in [Flow -> FlowRow \cup {None}] /\ \A g \in Flow : Has(g, "gone")' <=> Has(g, "gone") \/ g = f
  <2>1. flows[f] \in FlowRow /\ flows \in [Flow -> FlowRow \cup {None}] /\ None \notin FlowRow
    BY <1>1, NoneAssumption DEF Has, Inv, Typed
  <2>2. [flows[f] EXCEPT !.row = "gone"] \in FlowRow /\ [flows[f] EXCEPT !.row = "gone"].row = "gone"
    BY <2>1 DEF FlowRow
  <2>3. flows' = [flows EXCEPT ![f] = [flows[f] EXCEPT !.row = "gone"]]
    BY <1>1
  <2> QED  BY <2>1, <2>2, <2>3 DEF Has
<1>6. Typed'
  BY <1>1, <1>2, <1>3, <1>4, <1>5 DEF Inv, Typed, Same
<1>7. IdsOK'
  BY <1>1, <1>2, <1>3, <1>4 DEF Inv, Typed, IdsOK, Same
<1>8. TokensOK'
  <2>1. issued \in Nat
    BY BoundAssumption DEF Inv, Typed
  <2> QED  BY <1>1, <1>2, <1>3, <1>4, <2>1 DEF Inv, TokensOK, Same
<1>9. TokensLive'
  BY <1>1, <1>4 DEF Inv, TokensLive, Same
<1>10. FlowsOK'
  <2>1. ~Has(f, "gone") /\ codes[f] = 0
    BY <1>1 DEF Has, Inv, FlowsOK
  <2>2. \A v \in Handler : hd[v].pc = "exchange" => hd[v].flow # f
    BY <2>1 DEF Inv, FlowsOK
  <2>3. \A v \in Handler : v # w => hd'[v].pc = hd[v].pc /\ hd'[v].flow = hd[v].flow
    BY <1>4 DEF Same
  <2> QED  BY <1>1, <1>2, <1>3, <1>5, <2>1, <2>2, <2>3 DEF Inv, FlowsOK
<1> QED  BY <1>4, <1>6, <1>7, <1>8, <1>9, <1>10 DEF Inv

(* A code is exchanged: a grant that this request alone knows.             *)
LEMMA ExchangeKeepsInv ==
  ASSUME Inv, NEW w \in Handler, Exchange(w)
  PROVE  Inv'
<1> USE DEF HasId, HasTok, Sending, Pending
<1> DEFINE t == [access |-> issued', refresh |-> issued']
           f == hd[w].flow
<1>1. PICK k \in Mailbox : hd' = [hd EXCEPT ![w].pc = "upsert", ![w].key = k, ![w].next = t]
  BY DEF Exchange
<1>2. /\ hd[w].pc = "exchange" /\ issued < MaxGrants /\ issued' = issued + 1 /\ live' = live \cup {issued'}
      /\ codes' = [codes EXCEPT ![f] = codes[f] + 1]
      /\ UNCHANGED <<accounts, nextId, flows, stale, cut>>
  BY DEF Exchange, Issue, stored
<1>3. issued \in Nat /\ live \subseteq 1..issued /\ MaxGrants \in Nat /\ codes \in [Flow -> Nat] /\ stale \in 0..issued
  BY BoundAssumption DEF Inv, Typed
<1>4. t \in Tok /\ t.refresh = issued + 1
  BY <1>2, <1>3 DEF Tok
<1> HIDE DEF t
<1> DEFINE L == [hd[w] EXCEPT !.pc = "upsert", !.key = k, !.next = t]
<1>5. hd' = [hd EXCEPT ![w] = L] /\ DOMAIN hd[w] = DOMAIN Idle
  <2>1. DOMAIN hd[w] = DOMAIN Idle /\ DOMAIN hd = Handler
    BY DEF Inv, Shape
  <2> QED  BY <1>1, <2>1
<1>6. /\ DOMAIN L = DOMAIN Idle /\ L.pc = "upsert" /\ L.key = k /\ L.next = t
      /\ L.id = hd[w].id /\ L.tok = hd[w].tok /\ L.flow = f
  BY <1>5, IdleIs
<1> HIDE DEF L
<1>7. Only(w) /\ hd'[w] = L
  BY <1>5, <1>6, Replaced DEF Inv
<1>8. Shape' /\ \A v \in Handler : v # w => Same(v)
  BY <1>7 DEF Only
<1>9. Typed'
  <2>1. \A v \in Handler : hd'[v].id \in Nat /\ hd'[v].tok \in Tok /\ hd'[v].next \in Tok
    BY <1>4, <1>6, <1>7, <1>8 DEF Inv, Typed, Same
  <2>2. issued' \in 0..MaxGrants /\ stale' \in 0..issued'
    <3>1. issued + 1 \in Nat /\ issued + 1 <= MaxGrants
      BY <1>2, <1>3
    <3>2. stale \in Nat /\ stale <= issued + 1
      BY <1>3
    <3> QED  BY <1>2, <1>3, <3>1, <3>2
  <2>3. live' \subseteq 1..issued'
    <3>1. \A x \in live : x \in 1..issued + 1
      BY <1>3
    <3>2. issued + 1 \in 1..issued + 1
      BY <1>3
    <3> QED  BY <1>2, <3>1, <3>2
  <2>4. codes' \in [Flow -> Nat]
    <3>1. f \in Flow
      BY <1>2 DEF Inv, FlowsOK
    <3> QED  BY <1>2, <1>3, <3>1
  <2> QED  BY <1>2, <2>1, <2>2, <2>3, <2>4 DEF Inv, Typed
<1>10. IdsOK'
  BY <1>2, <1>6, <1>7, <1>8 DEF Inv, IdsOK, Same
<1>11. TokensOK'
  <2>1. \A j \in Mailbox : accounts[j] # None => accounts[j].tok.refresh \in Nat
    BY BoundAssumption DEF Inv, Typed, Row, Tok
  <2>2. \A v \in Handler : hd[v].tok.refresh \in Nat /\ hd[v].next.refresh \in Nat
    BY BoundAssumption DEF Inv, Typed, Tok
  <2>3. \A v \in Handler : hd'[v].tok.refresh <= issued /\ hd'[v].tok.refresh \in Nat
    BY <1>2, <1>6, <1>7, <1>8, <2>2 DEF Inv, TokensOK, Same
  <2>4. /\ \A j \in Mailbox : accounts'[j] # None => accounts'[j].tok.refresh <= issued'
        /\ \A j, i \in Mailbox :
             accounts'[j] # None /\ accounts'[i] # None /\ accounts'[j].tok.refresh = accounts'[i].tok.refresh
               => j = i \/ accounts'[i].tok.refresh = 0
    BY <1>2, <1>3, <2>1 DEF Inv, TokensOK
  <2>5. \A v \in Handler :
          /\ hd'[v].tok.refresh <= issued' /\ hd'[v].next.refresh <= issued'
          /\ HasTok(hd'[v]) => v # w
          /\ HasTok(hd'[v]) =>
               /\ \A j \in Mailbox : accounts'[j] # None /\ accounts'[j].tok.refresh = hd'[v].tok.refresh
                    => accounts'[j].id = hd'[v].id \/ hd'[v].tok.refresh = 0
               /\ \A u \in Handler : HasTok(hd'[u]) /\ hd'[u].tok.refresh = hd'[v].tok.refresh
                    => hd'[u].id = hd'[v].id \/ hd'[v].tok.refresh = 0
    BY <1>2, <1>3, <1>4, <1>6, <1>7, <1>8, <2>2 DEF Inv, TokensOK, Same
  <2>6. \A v \in Handler :
          /\ hd'[v].pc \in {"upsert", "save"} => hd'[v].next.refresh \in live'
          /\ hd'[v].pc = "save" /\ hd'[v].key[1] \notin Rotates => hd'[v].next.refresh = hd'[v].tok.refresh
    BY <1>2, <1>4, <1>6, <1>7, <1>8 DEF Inv, TokensOK, Same
  <2>7. \A j \in Mailbox : accounts[j] # None => accounts[j].tok.refresh # t.refresh
    BY <1>3, <1>4, <2>1 DEF Inv, TokensOK
  <2>8. \A v \in Handler : hd[v].next.refresh # t.refresh /\ hd'[v].tok.refresh # t.refresh
    BY <1>3, <1>4, <2>2, <2>3 DEF Inv, TokensOK
  <2>9. \A v \in Handler : Pending(hd'[v]) =>
           /\ \A j \in Mailbox : accounts'[j] # None => accounts'[j].tok.refresh # hd'[v].next.refresh
           /\ \A u \in Handler :
                /\ HasTok(hd'[u]) => hd'[u].tok.refresh # hd'[v].next.refresh
                /\ Pending(hd'[u]) /\ u # v => hd'[u].next.refresh # hd'[v].next.refresh
    <3> SUFFICES ASSUME NEW v \in Handler, Pending(hd'[v])
                 PROVE  /\ \A j \in Mailbox : accounts'[j] # None => accounts'[j].tok.refresh # hd'[v].next.refresh
                        /\ \A u \in Handler :
                             /\ HasTok(hd'[u]) => hd'[u].tok.refresh # hd'[v].next.refresh
                             /\ Pending(hd'[u]) /\ u # v => hd'[u].next.refresh # hd'[v].next.refresh
      OBVIOUS
    <3>1. CASE v = w
      BY <1>2, <1>6, <1>7, <1>8, <2>7, <2>8, <3>1 DEF Same
    <3>2. CASE v # w
      BY <1>2, <1>6, <1>7, <1>8, <2>8, <3>2 DEF Inv, TokensOK, Same
    <3> QED  BY <3>1, <3>2
  <2> QED  BY <2>4, <2>5, <2>6, <2>9 DEF TokensOK
<1>12. TokensLive'
  <2>1. SUFFICES ASSUME NEW j \in Mailbox, OAuth(j), accounts[j] # None, accounts[j].tok.refresh \notin live'
                 PROVE  j \in cut \/ \E v \in Handler : hd'[v].pc = "save" /\ hd'[v].id = accounts[j].id
    BY <1>2 DEF TokensLive
  <2>2. j \in cut \/ \E v \in Handler : hd[v].pc = "save" /\ hd[v].id = accounts[j].id
    BY <1>2, <2>1 DEF Inv, TokensLive
  <2> QED  BY <1>2, <1>8, <2>2 DEF Same
<1>13. FlowsOK'
  <2>1. f \in Flow /\ Has(f, "gone") /\ codes[f] = 0 /\ \A v \in Handler : hd[v].pc = "exchange" /\ hd[v].flow = f => v = w
    BY <1>2 DEF Inv, FlowsOK
  <2>2. codes'[f] = 1 /\ \A g \in Flow : g # f => codes'[g] = codes[g]
    BY <1>2, <1>3, <2>1
  <2>3. \A v \in Handler : hd'[v].pc = "exchange" => v # w /\ hd[v].pc = "exchange" /\ hd'[v].flow = hd[v].flow
    BY <1>6, <1>7, <1>8 DEF Same
  <2> QED  BY <1>2, <2>1, <2>2, <2>3 DEF Inv, FlowsOK, Has
<1> QED  BY <1>8, <1>9, <1>10, <1>11, <1>12, <1>13 DEF Inv

(* The grant becomes the mailbox's.                                        *)
LEMMA ConnectKeepsInv ==
  ASSUME Inv, NEW w \in Handler, Connect(w)
  PROVE  Inv'
<1> USE DEF HasId, HasTok, Sending, Pending
<1> DEFINE k == hd[w].key
           t == hd[w].next
<1>1. /\ hd[w].pc = "upsert" /\ UpsertConnectedAccount(k, t) /\ hd' = [hd EXCEPT ![w] = Idle]
      /\ UNCHANGED <<flows, codes, issued, live, stale>>
  BY DEF Connect, Finish, provider
<1>2. Only(w) /\ hd'[w] = Idle
  BY <1>1, Replaced DEF Inv
<1>3. /\ Shape' /\ (\A v \in Handler : v # w => Same(v))
      /\ hd'[w].pc = "idle" /\ hd'[w].id = 0 /\ hd'[w].tok = NoToken /\ hd'[w].next = NoToken
      /\ NoToken \in Tok /\ NoToken.refresh = 0
  BY <1>2, IdleIs, BoundAssumption DEF Only, NoToken, Tok
<1>4. t \in Tok /\ t.refresh \in live /\ live \subseteq 1..issued /\ issued \in Nat
  BY <1>1, BoundAssumption DEF Inv, Typed, TokensOK
<1>5. CASE k \notin Mailbox
  <2>1. accounts' = accounts /\ cut' = cut /\ nextId' \in Nat \ {0} /\ nextId <= nextId'
    BY <1>1, <1>5 DEF UpsertConnectedAccount, Inv, Typed
  <2>2. Typed'
    BY <1>1, <1>3, <2>1 DEF Inv, Typed, Same
  <2>3. IdsOK'
    <3>1. /\ nextId \in Nat \ {0} /\ (\A v \in Handler : hd[v].id \in Nat)
          /\ \A j \in Mailbox : accounts[j] # None => accounts[j].id \in Nat
      BY DEF Inv, Typed, Row
    <3> QED  BY <1>1, <1>3, <2>1, <3>1 DEF Inv, IdsOK, Same
  <2>4. TokensOK'
    BY <1>1, <1>3, <1>4, <2>1 DEF Inv, TokensOK, Same
  <2>5. TokensLive'
    BY <1>1, <1>3, <2>1 DEF Inv, TokensLive, Same
  <2>6. FlowsOK'
    BY <1>1, <1>3 DEF Inv, FlowsOK, Has, Same
  <2> QED  BY <1>3, <2>2, <2>3, <2>4, <2>5, <2>6 DEF Inv
<1>6. CASE k \in Mailbox
  <2>1. /\ accounts' \in [Mailbox -> Row \cup {None}] /\ nextId' \in Nat \ {0} /\ nextId <= nextId'
        /\ cut' = cut \ {k}
        /\ accounts'[k] # None /\ accounts'[k].tok = t
        /\ accounts'[k].id = IF accounts[k] = None THEN nextId ELSE accounts[k].id
        /\ accounts'[k].id < nextId'
        /\ \A j \in Mailbox : j # k => accounts'[j] = accounts[j]
    BY <1>1, <1>4, <1>6, UpsertKeepsIds
  <2> HIDE DEF k, t
  <2>2. Typed'
    BY <1>1, <1>3, <2>1 DEF Inv, Typed, Same
  <2>3. IdsOK'
    <3>1. /\ nextId \in Nat \ {0} /\ (\A v \in Handler : hd[v].id \in Nat)
          /\ \A j \in Mailbox : accounts[j] # None => accounts[j].id \in Nat
      BY DEF Inv, Typed, Row
    <3> QED  BY <1>1, <1>3, <2>1, <3>1 DEF Inv, IdsOK, Same
  <2>4. TokensOK'
    <3>1. \A j \in Mailbox : accounts[j] # None => accounts[j].tok.refresh # t.refresh
      BY <1>1 DEF Inv, TokensOK, t
    <3>2. \A v \in Handler : v # w =>
            /\ HasTok(hd[v]) => hd[v].tok.refresh # t.refresh
            /\ Pending(hd[v]) => hd[v].next.refresh # t.refresh
      BY <1>1 DEF Inv, TokensOK, t
    <3>3. \A j \in Mailbox : accounts'[j] # None => j = k \/ (accounts[j] # None /\ accounts'[j] = accounts[j])
      BY <2>1
    <3>4. \A v \in Handler : v = w \/ (v # w /\ Same(v))
      BY <1>3
    <3>5. TokensOK /\ issued' = issued /\ live' = live
      BY <1>1 DEF Inv
    <3>6. /\ \A j \in Mailbox : accounts'[j] # None => accounts'[j].tok.refresh <= issued'
          /\ \A j, i \in Mailbox :
               accounts'[j] # None /\ accounts'[i] # None /\ accounts'[j].tok.refresh = accounts'[i].tok.refresh
                 => j = i \/ accounts'[i].tok.refresh = 0
      <4>1. t.refresh <= issued
        <5>1. t.refresh \in 1..issued /\ issued \in Nat
          BY <1>4
        <5> QED  BY <5>1
      <4>2. \A j \in Mailbox : accounts'[j] # None => accounts'[j].tok.refresh <= issued'
        BY <2>1, <3>3, <3>5, <4>1 DEF TokensOK
      <4>3. ASSUME NEW j \in Mailbox, NEW i \in Mailbox, accounts'[j] # None, accounts'[i] # None,
                   accounts'[j].tok.refresh = accounts'[i].tok.refresh
            PROVE  j = i \/ accounts'[i].tok.refresh = 0
        <5>1. CASE j = k \/ i = k
          BY <2>1, <3>1, <3>3, <4>3, <5>1
        <5>2. CASE j # k /\ i # k
          BY <3>3, <3>5, <4>3, <5>2 DEF TokensOK
        <5> QED  BY <5>1, <5>2
      <4> QED  BY <4>2, <4>3
    <3>7. \A v \in Handler :
            /\ hd'[v].tok.refresh <= issued' /\ hd'[v].next.refresh <= issued'
            /\ HasTok(hd'[v]) =>
                 /\ \A j \in Mailbox : accounts'[j] # None /\ accounts'[j].tok.refresh = hd'[v].tok.refresh
                      => accounts'[j].id = hd'[v].id \/ hd'[v].tok.refresh = 0
                 /\ \A u \in Handler : HasTok(hd'[u]) /\ hd'[u].tok.refresh = hd'[v].tok.refresh
                      => hd'[u].id = hd'[v].id \/ hd'[v].tok.refresh = 0
      <4> SUFFICES ASSUME NEW v \in Handler
                   PROVE  /\ hd'[v].tok.refresh <= issued' /\ hd'[v].next.refresh <= issued'
                          /\ HasTok(hd'[v]) =>
                               /\ \A j \in Mailbox : accounts'[j] # None /\ accounts'[j].tok.refresh = hd'[v].tok.refresh
                                    => accounts'[j].id = hd'[v].id \/ hd'[v].tok.refresh = 0
                               /\ \A u \in Handler : HasTok(hd'[u]) /\ hd'[u].tok.refresh = hd'[v].tok.refresh
                                    => hd'[u].id = hd'[v].id \/ hd'[v].tok.refresh = 0
        OBVIOUS
      <4>1. CASE v = w
        BY <1>3, <1>4, <3>5, <4>1
      <4>2. CASE v # w
        BY <1>3, <2>1, <3>2, <3>3, <3>4, <3>5, <4>2 DEF TokensOK, Same
      <4> QED  BY <4>1, <4>2
    <3>8. \A v \in Handler : hd'[v].pc \in {"upsert", "save"} =>
            /\ v # w /\ hd'[v].next.refresh \in live'
            /\ hd'[v].pc = "save" /\ hd'[v].key[1] \notin Rotates => hd'[v].next.refresh = hd'[v].tok.refresh
            /\ Pending(hd'[v]) =>
                 /\ \A j \in Mailbox : accounts'[j] # None => accounts'[j].tok.refresh # hd'[v].next.refresh
                 /\ \A u \in Handler :
                      /\ HasTok(hd'[u]) => hd'[u].tok.refresh # hd'[v].next.refresh
                      /\ Pending(hd'[u]) /\ u # v => hd'[u].next.refresh # hd'[v].next.refresh
      <4> SUFFICES ASSUME NEW v \in Handler, hd'[v].pc \in {"upsert", "save"}
                   PROVE  /\ v # w /\ hd'[v].next.refresh \in live'
                          /\ hd'[v].pc = "save" /\ hd'[v].key[1] \notin Rotates => hd'[v].next.refresh = hd'[v].tok.refresh
                          /\ Pending(hd'[v]) =>
                               /\ \A j \in Mailbox : accounts'[j] # None => accounts'[j].tok.refresh # hd'[v].next.refresh
                               /\ \A u \in Handler :
                                    /\ HasTok(hd'[u]) => hd'[u].tok.refresh # hd'[v].next.refresh
                                    /\ Pending(hd'[u]) /\ u # v => hd'[u].next.refresh # hd'[v].next.refresh
        OBVIOUS
      <4>1. v # w /\ Same(v)
        BY <1>3, <3>4
      <4>2. \A u \in Handler : /\ HasTok(hd'[u]) => u # w /\ HasTok(hd[u]) /\ hd'[u].tok = hd[u].tok
                               /\ Pending(hd'[u]) => u # w /\ Pending(hd[u]) /\ hd'[u].next = hd[u].next
        BY <1>3, <3>4 DEF Same
      <4> QED  BY <2>1, <3>2, <3>3, <3>5, <4>1, <4>2 DEF TokensOK, Same
    <3> QED  BY <3>6, <3>7, <3>8 DEF TokensOK
  <2>5. TokensLive'
    BY <1>1, <1>3, <1>4, <2>1 DEF Inv, TokensLive, Same
  <2>6. FlowsOK'
    BY <1>1, <1>3 DEF Inv, FlowsOK, Has, Same
  <2> QED  BY <1>3, <2>2, <2>3, <2>4, <2>5, <2>6 DEF Inv
<1> QED  BY <1>5, <1>6

(* A refresh: a rotated token is in the hands of this request alone, and   *)
(* the one it replaces is stored, if at all, in the row it will update.    *)
LEMMA RefreshKeepsInv ==
  ASSUME Inv, NEW w \in Handler, Refresh(w)
  PROVE  Inv'
<1> USE DEF HasId, HasTok, Sending, Pending
<1> DEFINE old == hd[w].tok.refresh
           new == IF hd[w].key[1] \in Rotates THEN issued' ELSE old
           t == [access |-> issued', refresh |-> new]
           L == [hd[w] EXCEPT !.pc = "save", !.next = t]
<1>1. /\ hd[w].pc = "refresh" /\ old \in live /\ issued < MaxGrants /\ issued' = issued + 1
      /\ live' = (IF new = old THEN live ELSE live \ {old}) \cup {new}
      /\ hd' = [hd EXCEPT ![w].pc = "save", ![w].next = t]
      /\ UNCHANGED <<accounts, nextId, flows, codes, stale, cut>>
  BY DEF Refresh, Issue, stored
<1>2. issued \in Nat /\ live \subseteq 1..issued /\ MaxGrants \in Nat /\ stale \in 0..issued
  BY BoundAssumption DEF Inv, Typed
<1>3. old \in 1..issued
  BY <1>1, <1>2
<1>4. t \in Tok /\ t.refresh = new /\ new \in 1..issued'
  BY <1>1, <1>2, <1>3 DEF Tok
<1>5. \/ hd[w].key[1] \in Rotates /\ new = issued + 1 /\ live' = (live \ {old}) \cup {new}
      \/ hd[w].key[1] \notin Rotates /\ new = old /\ live' = live
  BY <1>1, <1>2, <1>3
<1> HIDE DEF t
<1>6. hd' = [hd EXCEPT ![w] = L] /\ DOMAIN hd[w] = DOMAIN Idle
  <2>1. DOMAIN hd[w] = DOMAIN Idle /\ DOMAIN hd = Handler
    BY DEF Inv, Shape
  <2> QED  BY <1>1, <2>1
<1>7. /\ DOMAIN L = DOMAIN Idle /\ L.pc = "save" /\ L.key = hd[w].key /\ L.next = t
      /\ L.id = hd[w].id /\ L.tok = hd[w].tok
  BY <1>6, IdleIs
<1> HIDE DEF L
<1>8. Only(w) /\ hd'[w] = L
  BY <1>6, <1>7, Replaced DEF Inv
<1>9. Shape' /\ \A v \in Handler : v # w => Same(v)
  BY <1>8 DEF Only
<1> HIDE DEF new, old
<1>10. Typed'
  <2>1. \A v \in Handler : hd'[v].id \in Nat /\ hd'[v].tok \in Tok /\ hd'[v].next \in Tok
    BY <1>4, <1>7, <1>8, <1>9 DEF Inv, Typed, Same
  <2>2. issued' \in 0..MaxGrants /\ stale' \in 0..issued'
    <3>1. issued + 1 \in Nat /\ issued + 1 <= MaxGrants
      BY <1>1, <1>2
    <3>2. stale \in Nat /\ stale <= issued + 1
      BY <1>2
    <3> QED  BY <1>1, <1>2, <3>1, <3>2
  <2>3. live' \subseteq 1..issued'
    <3>1. \A x \in live : x \in 1..issued + 1
      BY <1>2
    <3> QED  BY <1>1, <1>4, <1>5, <3>1
  <2> QED  BY <1>1, <2>1, <2>2, <2>3 DEF Inv, Typed
<1>11. /\ TokensOK /\ hd[w].tok.refresh = old /\ old # 0
       /\ \A v \in Handler : hd[v].tok.refresh \in Nat /\ hd[v].next.refresh \in Nat
       /\ \A j \in Mailbox : accounts[j] # None => accounts[j].tok.refresh \in Nat
  <2>1. old # 0
    BY <1>3
  <2> QED  BY <2>1, BoundAssumption DEF Inv, Typed, Row, Tok, old
<1>12. \A v \in Handler : v = w \/ (v # w /\ Same(v))
  BY <1>9
<1>13. /\ hd[w].pc = "refresh" /\ hd'[w].pc = "save" /\ hd'[w].next.refresh = new
      /\ hd'[w].key = hd[w].key /\ hd'[w].id = hd[w].id /\ hd'[w].tok = hd[w].tok
  BY <1>1, <1>4, <1>7, <1>8
<1>14. /\ UNCHANGED <<accounts, nextId, flows, codes, cut>>
      /\ issued' \in Nat /\ \A n \in Nat : n <= issued => n <= issued'
  BY <1>1, <1>2
<1>15. new \in live' /\ new <= issued' /\ (hd[w].key[1] \notin Rotates => new = hd[w].tok.refresh)
  <2>1. new \in live' /\ (hd[w].key[1] \notin Rotates => new = hd[w].tok.refresh)
    BY <1>1, <1>5, <1>11
  <2>2. new <= issued'
    BY <1>4, <1>14
  <2> QED  BY <2>1, <2>2
<1>16. IdsOK'
  BY <1>12, <1>13, <1>14 DEF Inv, IdsOK, Same
<1>17. TokensOK'
  <2>1. /\ \A j \in Mailbox : accounts'[j] # None => accounts'[j].tok.refresh <= issued'
        /\ \A j, i \in Mailbox :
             accounts'[j] # None /\ accounts'[i] # None /\ accounts'[j].tok.refresh = accounts'[i].tok.refresh
               => j = i \/ accounts'[i].tok.refresh = 0
    BY <1>1, <1>2, <1>11 DEF TokensOK
  <2>2. \A v \in Handler : /\ hd'[v].tok = hd[v].tok /\ hd'[v].id = hd[v].id /\ hd'[v].key = hd[v].key
                           /\ HasTok(hd'[v]) <=> HasTok(hd[v])
    BY <1>1, <1>7, <1>8, <1>12 DEF Same
  <2>3. \A v \in Handler :
          /\ hd'[v].tok.refresh <= issued' /\ hd'[v].next.refresh <= issued'
          /\ HasTok(hd'[v]) =>
               /\ \A j \in Mailbox : accounts'[j] # None /\ accounts'[j].tok.refresh = hd'[v].tok.refresh
                    => accounts'[j].id = hd'[v].id \/ hd'[v].tok.refresh = 0
               /\ \A u \in Handler : HasTok(hd'[u]) /\ hd'[u].tok.refresh = hd'[v].tok.refresh
                    => hd'[u].id = hd'[v].id \/ hd'[v].tok.refresh = 0
    <3>1. \A v \in Handler : hd'[v].tok.refresh <= issued'
      BY <1>11, <1>14, <2>2 DEF TokensOK
    <3>2. \A v \in Handler : hd'[v].next.refresh <= issued'
      BY <1>11, <1>12, <1>13, <1>14, <1>15 DEF TokensOK, Same
    <3> QED  BY <1>11, <1>14, <2>2, <3>1, <3>2 DEF TokensOK
  <2>4. \A v \in Handler : v # w /\ hd[v].pc \in {"upsert", "save"} => hd[v].next.refresh \in live'
    <3> SUFFICES ASSUME NEW v \in Handler, v # w, hd[v].pc \in {"upsert", "save"}
                 PROVE  hd[v].next.refresh \in live'
      OBVIOUS
    <3>1. hd[v].next.refresh \in live
      BY <1>11 DEF TokensOK
    <3>2. CASE hd[w].key[1] \notin Rotates
      BY <1>5, <3>1, <3>2
    <3>3. CASE Pending(hd[v])
      BY <1>1, <1>5, <1>11, <3>1, <3>3 DEF TokensOK
    <3>4. CASE hd[w].key[1] \in Rotates /\ ~Pending(hd[v])
      <4>1. hd[v].pc = "save" /\ hd[v].key[1] \notin Rotates /\ hd[v].next.refresh = hd[v].tok.refresh
        BY <1>11, <3>4 DEF TokensOK
      <4>2. hd[v].tok.refresh = old => hd[v].id = hd[w].id
        BY <1>11, <1>13, <4>1 DEF TokensOK
      <4>3. hd[v].id = hd[w].id => hd[v].key = hd[w].key
        BY <1>1, <4>1 DEF Inv, IdsOK
      <4>4. hd[v].next.refresh # old
        BY <3>4, <4>1, <4>2, <4>3
      <4> QED  BY <1>5, <3>1, <4>4
    <3> QED  BY <3>2, <3>3, <3>4
  <2>5. \A v \in Handler :
          /\ hd'[v].pc \in {"upsert", "save"} => hd'[v].next.refresh \in live'
          /\ hd'[v].pc = "save" /\ hd'[v].key[1] \notin Rotates => hd'[v].next.refresh = hd'[v].tok.refresh
    <3> SUFFICES ASSUME NEW v \in Handler
                 PROVE  /\ hd'[v].pc \in {"upsert", "save"} => hd'[v].next.refresh \in live'
                        /\ hd'[v].pc = "save" /\ hd'[v].key[1] \notin Rotates => hd'[v].next.refresh = hd'[v].tok.refresh
      OBVIOUS
    <3>1. CASE v = w
      BY <1>13, <1>15, <3>1
    <3>2. CASE v # w
      BY <1>11, <1>12, <2>4, <3>2 DEF TokensOK, Same
    <3> QED  BY <3>1, <3>2
  <2>6. \A v \in Handler : Pending(hd'[v]) =>
          /\ \A j \in Mailbox : accounts'[j] # None => accounts'[j].tok.refresh # hd'[v].next.refresh
          /\ \A u \in Handler :
               /\ HasTok(hd'[u]) => hd'[u].tok.refresh # hd'[v].next.refresh
               /\ Pending(hd'[u]) /\ u # v => hd'[u].next.refresh # hd'[v].next.refresh
    <3> SUFFICES ASSUME NEW v \in Handler, Pending(hd'[v])
                 PROVE  /\ \A j \in Mailbox : accounts'[j] # None => accounts'[j].tok.refresh # hd'[v].next.refresh
                        /\ \A u \in Handler :
                             /\ HasTok(hd'[u]) => hd'[u].tok.refresh # hd'[v].next.refresh
                             /\ Pending(hd'[u]) /\ u # v => hd'[u].next.refresh # hd'[v].next.refresh
      OBVIOUS
    <3>1. hd[w].key[1] \in Rotates =>
            /\ \A j \in Mailbox : accounts[j] # None => accounts[j].tok.refresh # new
            /\ \A u \in Handler : hd[u].tok.refresh # new /\ hd[u].next.refresh # new
      BY <1>2, <1>5, <1>11 DEF TokensOK
    <3>2. CASE v = w
      <4>1. hd[w].key[1] \in Rotates /\ hd'[v].next.refresh = new
        BY <1>13, <3>2
      <4> QED  BY <1>12, <1>13, <1>14, <2>2, <3>1, <3>2, <4>1 DEF Same
    <3>3. CASE v # w
      <4>1. Pending(hd[v]) /\ hd'[v].next = hd[v].next /\ hd[v].next.refresh # old
        BY <1>11, <1>12, <1>13, <3>3 DEF Same, TokensOK
      <4>2. \A j \in Mailbox : accounts'[j] # None => accounts'[j].tok.refresh # hd'[v].next.refresh
        BY <1>11, <1>14, <4>1 DEF TokensOK
      <4>3. \A u \in Handler : HasTok(hd'[u]) => hd'[u].tok.refresh # hd'[v].next.refresh
        BY <1>11, <2>2, <4>1 DEF TokensOK
      <4>4. ASSUME NEW u \in Handler, Pending(hd'[u]), u # v
            PROVE  hd'[u].next.refresh # hd'[v].next.refresh
        <5>1. CASE u = w
          BY <1>13, <3>1, <4>1, <4>4, <5>1
        <5>2. CASE u # w
          BY <1>11, <1>12, <4>1, <4>4, <5>2 DEF Same, TokensOK
        <5> QED  BY <5>1, <5>2
      <4> QED  BY <4>2, <4>3, <4>4
    <3> QED  BY <3>2, <3>3
  <2> QED  BY <2>1, <2>3, <2>5, <2>6 DEF TokensOK
<1>18. TokensLive'
  <2>1. SUFFICES ASSUME NEW j \in Mailbox, OAuth(j), accounts[j] # None, accounts[j].tok.refresh \notin live'
                 PROVE  j \in cut \/ \E v \in Handler : hd'[v].pc = "save" /\ hd'[v].id = accounts[j].id
    BY <1>1 DEF TokensLive
  <2>2. CASE accounts[j].tok.refresh = old
    <3>1. accounts[j].id = hd[w].id
      BY <1>1, <1>11, <2>1, <2>2 DEF TokensOK
    <3> QED  BY <1>7, <1>8, <3>1
  <2>3. CASE accounts[j].tok.refresh # old
    <3>1. accounts[j].tok.refresh \notin live
      BY <1>5, <2>1, <2>3
    <3>2. j \in cut \/ \E v \in Handler : hd[v].pc = "save" /\ hd[v].id = accounts[j].id
      BY <2>1, <3>1 DEF Inv, TokensLive
    <3> QED  BY <1>1, <1>12, <3>2 DEF Same
  <2> QED  BY <2>2, <2>3
<1>19. FlowsOK'
  BY <1>12, <1>13, <1>14 DEF Inv, FlowsOK, Has, Same
<1> QED  BY <1>9, <1>10, <1>16, <1>17, <1>18, <1>19 DEF Inv

(* The request's tokens are stored, in its row alone.                      *)
LEMMA SaveKeepsInv ==
  ASSUME Inv, NEW w \in Handler, SaveConnectedTokens(w)
  PROVE  Inv'
<1> USE DEF HasId, HasTok, Sending, Pending
<1> DEFINE t == hd[w].next
           L == [hd[w] EXCEPT !.pc = "deliver", !.tok = t, !.next = NoToken]
<1>1. /\ hd[w].pc = "save" /\ hd' = [hd EXCEPT ![w].pc = "deliver", ![w].tok = t, ![w].next = NoToken]
      /\ cut' = cut \ RowWithId(hd[w].id)
      /\ accounts' = [k \in Mailbox |-> IF k \in RowWithId(hd[w].id)
                        THEN [accounts[k] EXCEPT !.status = "connected", !.tok = t] ELSE accounts[k]]
      /\ UNCHANGED <<nextId, flows, codes, issued, live, stale>>
  BY DEF SaveConnectedTokens, provider
<1>2. issued \in Nat /\ live \subseteq 1..issued /\ t \in Tok /\ NoToken \in Tok /\ NoToken.refresh = 0
  BY BoundAssumption DEF Inv, Typed, NoToken, Tok
<1>3. hd' = [hd EXCEPT ![w] = L] /\ DOMAIN hd[w] = DOMAIN Idle
  <2>1. DOMAIN hd[w] = DOMAIN Idle /\ DOMAIN hd = Handler
    BY DEF Inv, Shape
  <2> QED  BY <1>1, <2>1
<1>4. /\ DOMAIN L = DOMAIN Idle /\ L.pc = "deliver" /\ L.key = hd[w].key /\ L.tok = t
      /\ L.id = hd[w].id /\ L.next = NoToken
  BY <1>3, IdleIs
<1> HIDE DEF L
<1>5. Only(w) /\ hd'[w] = L
  BY <1>3, <1>4, Replaced DEF Inv
<1>6. Shape' /\ \A v \in Handler : v = w \/ (v # w /\ Same(v))
  BY <1>5 DEF Only
<1>7. /\ hd'[w].pc = "deliver" /\ hd'[w].key = hd[w].key /\ hd'[w].id = hd[w].id
      /\ hd'[w].tok = t /\ hd'[w].next = NoToken
  BY <1>4, <1>5
<1>8. \A k \in Mailbox :
        IF accounts[k] # None /\ accounts[k].id = hd[w].id
        THEN /\ accounts'[k] \in Row /\ accounts'[k].id = hd[w].id /\ accounts'[k].tok = t
             /\ k \notin cut'
        ELSE accounts'[k] = accounts[k]
  <2> SUFFICES ASSUME NEW k \in Mailbox
               PROVE  IF accounts[k] # None /\ accounts[k].id = hd[w].id
                      THEN /\ accounts'[k] \in Row /\ accounts'[k].id = hd[w].id /\ accounts'[k].tok = t
                           /\ k \notin cut'
                      ELSE accounts'[k] = accounts[k]
    OBVIOUS
  <2>1. CASE accounts[k] # None /\ accounts[k].id = hd[w].id
    <3>1. accounts[k] \in Row /\ k \in RowWithId(hd[w].id)
      BY <2>1 DEF Inv, Typed, RowWithId
    <3>2. accounts'[k] = [accounts[k] EXCEPT !.status = "connected", !.tok = t]
      BY <1>1, <3>1
    <3>3. accounts'[k] \in Row /\ accounts'[k].id = accounts[k].id /\ accounts'[k].tok = t
      BY <1>2, <3>1, <3>2 DEF Row
    <3> QED  BY <1>1, <2>1, <3>1, <3>3
  <2>2. CASE ~(accounts[k] # None /\ accounts[k].id = hd[w].id)
    BY <1>1, <2>2 DEF RowWithId
  <2> QED  BY <2>1, <2>2
<1>9. /\ None \notin Row
      /\ accounts' = [k \in Mailbox |-> accounts'[k]]
      /\ \A k \in Mailbox : accounts'[k] \in Row \cup {None}
  BY <1>1, <1>8, NoneAssumption DEF Inv, Typed
<1>10. \A k \in Mailbox : /\ accounts'[k] # None <=> accounts[k] # None
                          /\ accounts[k] # None => accounts'[k].id = accounts[k].id
                          /\ accounts[k] # None /\ accounts[k].id # hd[w].id => accounts'[k] = accounts[k]
                          /\ accounts[k] # None /\ accounts[k].id = hd[w].id => accounts'[k].tok = t /\ k \notin cut'
  BY <1>8, <1>9
<1>11. UNCHANGED <<nextId, flows, codes, issued, live, stale>> /\ cut' \subseteq cut /\ hd[w].pc = "save"
  BY <1>1
<1> HIDE DEF t
<1>12. Typed'
  <2>1. \A v \in Handler : hd'[v].id \in Nat /\ hd'[v].tok \in Tok /\ hd'[v].next \in Tok
    BY <1>2, <1>6, <1>7 DEF Inv, Typed, Same
  <2>2. accounts' \in [Mailbox -> Row \cup {None}]
    BY <1>9
  <2> QED  BY <1>11, <2>1, <2>2 DEF Inv, Typed
<1>13. IdsOK'
  <2>1. \A v \in Handler : /\ HasId(hd'[v]) <=> HasId(hd[v])
                           /\ hd'[v].id = hd[v].id /\ hd'[v].key = hd[v].key
                           /\ hd'[v].pc = "answered" <=> hd[v].pc = "answered"
    BY <1>6, <1>7, <1>11 DEF Same
  <2> QED  BY <1>10, <1>11, <2>1 DEF Inv, IdsOK
<1>14. TokensOK'
  <2>1. TokensOK /\ \A v \in Handler : hd[v].tok.refresh \in Nat /\ hd[v].next.refresh \in Nat
    BY BoundAssumption DEF Inv, Typed, Tok
  <2>2. t.refresh \in live /\ t.refresh <= issued /\ t = hd[w].next
    BY <1>11, <2>1 DEF TokensOK, t
  <2>3. \A v \in Handler : HasTok(hd'[v]) <=> HasTok(hd[v])
    BY <1>6, <1>7, <1>11 DEF Same
  <2>4. \A v \in Handler : hd'[v].pc \in {"upsert", "save"} => v # w /\ Same(v)
    BY <1>6, <1>7
  <2>5. /\ \A j \in Mailbox : accounts[j] # None /\ accounts[j].tok.refresh = t.refresh => accounts[j].id = hd[w].id
        /\ \A v \in Handler : v # w /\ HasTok(hd[v]) /\ hd[v].tok.refresh = t.refresh => hd[v].id = hd[w].id
        /\ \A v \in Handler : v # w /\ Pending(hd[v]) => hd[v].next.refresh # t.refresh
    <3>1. t.refresh # 0
      BY <1>2, <2>2
    <3>2. CASE hd[w].key[1] \in Rotates
      BY <1>11, <2>1, <2>2, <3>2 DEF TokensOK
    <3>3. CASE hd[w].key[1] \notin Rotates
      <4>1. t.refresh = hd[w].tok.refresh /\ HasTok(hd[w])
        BY <1>11, <2>1, <2>2, <3>3 DEF TokensOK
      <4> QED  BY <2>1, <3>1, <4>1 DEF TokensOK
    <3> QED  BY <3>2, <3>3
  <2>6. \A j \in Mailbox : accounts'[j] # None => accounts'[j].tok.refresh <= issued'
    BY <1>10, <1>11, <2>1, <2>2 DEF TokensOK
  <2>7. ASSUME NEW j \in Mailbox, NEW i \in Mailbox, accounts'[j] # None, accounts'[i] # None,
               accounts'[j].tok.refresh = accounts'[i].tok.refresh
        PROVE  j = i \/ accounts'[i].tok.refresh = 0
    <3>1. accounts[j] # None /\ accounts[i] # None
      BY <1>10, <2>7
    <3>2. CASE accounts[j].id # hd[w].id /\ accounts[i].id # hd[w].id
      BY <1>10, <2>1, <2>7, <3>1, <3>2 DEF TokensOK
    <3>3. CASE accounts[j].id = hd[w].id \/ accounts[i].id = hd[w].id
      <4>1. accounts[j].id = hd[w].id /\ accounts[i].id = hd[w].id
        BY <1>10, <2>5, <2>7, <3>1, <3>3
      <4> QED  BY <3>1, <4>1 DEF Inv, IdsOK
    <3> QED  BY <3>2, <3>3
  <2>8. \A v \in Handler : hd'[v].tok.refresh <= issued' /\ hd'[v].next.refresh <= issued'
    BY <1>2, <1>6, <1>7, <1>11, <2>1, <2>2 DEF TokensOK, Same
  <2>9. ASSUME NEW v \in Handler, HasTok(hd'[v]), NEW j \in Mailbox, accounts'[j] # None,
               accounts'[j].tok.refresh = hd'[v].tok.refresh
        PROVE  accounts'[j].id = hd'[v].id \/ hd'[v].tok.refresh = 0
    <3>1. accounts[j] # None /\ accounts'[j].id = accounts[j].id /\ hd'[v].id = hd[v].id
      BY <1>6, <1>7, <1>10, <2>9 DEF Same
    <3>2. CASE v = w /\ accounts[j].id # hd[w].id
      BY <1>7, <1>10, <2>5, <2>9, <3>1, <3>2
    <3>3. CASE v # w /\ accounts[j].id # hd[w].id
      BY <1>6, <1>10, <2>1, <2>3, <2>9, <3>1, <3>3 DEF TokensOK, Same
    <3>4. CASE v # w /\ accounts[j].id = hd[w].id
      BY <1>6, <1>10, <2>3, <2>5, <2>9, <3>1, <3>4 DEF Same
    <3> QED  BY <3>1, <3>2, <3>3, <3>4
  <2>10. ASSUME NEW v \in Handler, NEW u \in Handler, HasTok(hd'[v]), HasTok(hd'[u]),
                hd'[u].tok.refresh = hd'[v].tok.refresh
         PROVE  hd'[u].id = hd'[v].id \/ hd'[v].tok.refresh = 0
    <3>1. hd'[v].id = hd[v].id /\ hd'[u].id = hd[u].id /\ HasTok(hd[v]) /\ HasTok(hd[u])
      BY <1>6, <1>7, <2>3, <2>10 DEF Same
    <3>2. CASE v = w \/ u = w
      BY <1>6, <1>7, <2>5, <2>10, <3>1, <3>2 DEF Same
    <3>3. CASE v # w /\ u # w
      BY <1>6, <2>1, <2>10, <3>1, <3>3 DEF Same, TokensOK
    <3> QED  BY <3>2, <3>3
  <2>11. ASSUME NEW v \in Handler, hd'[v].pc \in {"upsert", "save"}
         PROVE  /\ hd'[v].next.refresh \in live'
                /\ hd'[v].pc = "save" /\ hd'[v].key[1] \notin Rotates => hd'[v].next.refresh = hd'[v].tok.refresh
    BY <1>11, <2>1, <2>4, <2>11 DEF Same, TokensOK
  <2>12. ASSUME NEW v \in Handler, Pending(hd'[v])
         PROVE  /\ \A j \in Mailbox : accounts'[j] # None => accounts'[j].tok.refresh # hd'[v].next.refresh
                /\ \A u \in Handler :
                     /\ HasTok(hd'[u]) => hd'[u].tok.refresh # hd'[v].next.refresh
                     /\ Pending(hd'[u]) /\ u # v => hd'[u].next.refresh # hd'[v].next.refresh
    <3>1. v # w /\ Pending(hd[v]) /\ hd'[v].next = hd[v].next
      BY <2>4, <2>12 DEF Same
    <3>2. \A j \in Mailbox : accounts'[j] # None => accounts'[j].tok.refresh # hd[v].next.refresh
      BY <1>10, <2>1, <2>5, <3>1 DEF TokensOK
    <3>3. \A u \in Handler : HasTok(hd'[u]) => hd'[u].tok.refresh # hd[v].next.refresh
      BY <1>6, <1>7, <2>1, <2>3, <2>5, <3>1 DEF Same, TokensOK
    <3>4. \A u \in Handler : Pending(hd'[u]) /\ u # v => hd'[u].next.refresh # hd[v].next.refresh
      BY <2>1, <2>4, <3>1 DEF Same, TokensOK
    <3> QED  BY <3>1, <3>2, <3>3, <3>4
  <2> QED  BY <2>6, <2>7, <2>8, <2>9, <2>10, <2>11, <2>12 DEF TokensOK
<1>15. TokensLive'
  <2>1. SUFFICES ASSUME NEW j \in Mailbox, OAuth(j), accounts'[j] # None, accounts'[j].tok.refresh \notin live'
                 PROVE  j \in cut' \/ \E v \in Handler : hd'[v].pc = "save" /\ hd'[v].id = accounts'[j].id
    BY DEF TokensLive
  <2>2. t.refresh \in live
    BY <1>11 DEF Inv, TokensOK, t
  <2>3. accounts[j] # None /\ accounts[j].id # hd[w].id /\ accounts'[j] = accounts[j]
    BY <1>10, <1>11, <2>1, <2>2
  <2>4. j \in cut => j \in cut'
    BY <1>1, <2>3 DEF RowWithId
  <2>5. j \in cut \/ \E v \in Handler : hd[v].pc = "save" /\ hd[v].id = accounts[j].id
    BY <1>11, <2>1, <2>3 DEF Inv, TokensLive
  <2> QED  BY <1>6, <2>3, <2>4, <2>5 DEF Same
<1>16. FlowsOK'
  BY <1>6, <1>7, <1>11 DEF Inv, FlowsOK, Has, Same
<1> QED  BY <1>6, <1>12, <1>13, <1>14, <1>15, <1>16 DEF Inv

-----------------------------------------------------------------------------
(* The theorems.                                                           *)

LEMMA InitInv == Init => Inv
<1> SUFFICES ASSUME Init  PROVE Inv
  OBVIOUS
<1> USE DEF Init, InitConnected
<1>1. NoToken \in Tok /\ NoToken.refresh = 0
  BY BoundAssumption DEF NoToken, Tok
<1>2. \A w \in Handler : hd[w] = Idle
  OBVIOUS
<1>3. Shape
  BY DEF Shape
<1>4. Typed
  BY <1>1, <1>2, IdleIs, BoundAssumption DEF Typed
<1>5. IdsOK
  BY <1>2, IdleIs DEF IdsOK, HasId, Sending
<1>6. TokensOK
  BY <1>1, <1>2, IdleIs DEF TokensOK, HasTok, Sending, Pending
<1>7. TokensLive
  BY DEF TokensLive
<1>8. FlowsOK
  BY <1>2, IdleIs DEF FlowsOK, Has
<1> QED  BY <1>3, <1>4, <1>5, <1>6, <1>7, <1>8 DEF Inv

LEMMA ConnectStepKeepsInv ==
  ASSUME Inv, ConnectStep
  PROVE  Inv'
<1>1. ASSUME NEW k \in Mailbox, saveSMTPAccount(k) \/ deleteAccount(k)
      PROVE  Inv'
  BY <1>1, SaveSmtpKeepsInv, DeleteKeepsInv
<1>2. ASSUME TokensExpire
      PROVE  Inv'
  <2>1. UNCHANGED <<stored, flows, codes, issued, live, hd, requests, cut>> /\ stale' = issued
    BY <1>2 DEF TokensExpire
  <2>2. UNCHANGED <<accounts, nextId, flows, codes, issued, live, hd, cut>> /\ stale' \in 0..issued'
    BY <2>1, BoundAssumption DEF Inv, Typed, stored
  <2> QED  BY <2>2 DEF Inv, Shape, Typed, IdsOK, TokensOK, TokensLive, FlowsOK, Has
<1>3. ASSUME NEW f \in Flow, FlowExpires(f)
      PROVE  Inv'
  BY <1>3, FlowStepKeepsInv DEF Provider
<1>4. ASSUME NEW f \in Flow, NEW k \in Mailbox, startOAuth(f, k[1])
      PROVE  Inv'
  BY <1>4, FlowStepKeepsInv, MailboxAssumption
<1>5. ASSUME NEW f \in Flow, NEW w \in Handler, NEW k \in Mailbox, TakeOAuthState(w, f, k[1])
      PROVE  Inv'
  BY <1>5, TakeKeepsInv
<1>6. ASSUME NEW w \in Handler, Exchange(w) \/ Connect(w) \/ Refresh(w) \/ SaveConnectedTokens(w)
      PROVE  Inv'
  BY <1>6, ExchangeKeepsInv, ConnectKeepsInv, RefreshKeepsInv, SaveKeepsInv
<1>7. ASSUME NEW w \in Handler, ensureAccess(w) \/ SendFails(w) \/ Abandon(w)
      PROVE  Inv'
  BY <1>7, SendingStep, AbandonEnds, QuietKeepsInv DEF Inv, Quiets
<1> QED  BY <1>1, <1>2, <1>3, <1>4, <1>5, <1>6, <1>7 DEF ConnectStep

LEMMA StepKeepsInv == Inv /\ [Next]_vars => Inv'
<1> SUFFICES ASSUME Inv, [Next]_vars  PROVE Inv'
  OBVIOUS
<1>1. CASE ConnectStep
  BY <1>1, ConnectStepKeepsInv
<1>2. ASSUME NEW w \in Handler, NEW names, NEW failed, sendInvites(w, names, failed)
      PROVE  Inv'
  BY <1>2, SendInvitesEnds, QuietKeepsInv DEF Inv, Quiets
<1>3. ASSUME NEW w \in Handler, NEW k \in Mailbox, testAccount(w, k)
      PROVE  Inv'
  BY <1>3, TestAccountReads, QuietKeepsInv DEF Inv, Quiets
<1>4. ASSUME NEW w \in Handler,
             ApplyLocalInvite(w) \/ MergeExternalEmails(w) \/ InviteFails(w) \/ NoSender(w)
      PROVE  Inv'
  BY <1>4, InviteStepEnds, QuietKeepsInv DEF Inv, Quiets
<1>5. ASSUME NEW w \in Handler, ListConnectedAccounts(w) \/ ConnectedAccountByID(w)
      PROVE  Inv'
  BY <1>5, ListStep, AccountByIdStep, QuietKeepsInv DEF Inv, Quiets
<1>6. ASSUME NEW w \in Handler, Deliver(w) \/ NoteFailure(w) \/ SendMIME(w)
      PROVE  Inv'
  BY <1>6, MessageStep, QuietKeepsInv DEF Inv, Quiets
<1>7. CASE UNCHANGED vars
  <2>1. UNCHANGED <<accounts, nextId, flows, codes, issued, live, stale, hd, cut>>
    BY <1>7 DEF vars, connVars, stored, provider
  <2> QED  BY <2>1 DEF Inv, Shape, Typed, IdsOK, TokensOK, TokensLive, FlowsOK, Has
<1> QED  BY <1>1, <1>2, <1>3, <1>4, <1>5, <1>6, <1>7 DEF Next

LEMMA InvHolds == Spec => []Inv
<1> QED  BY InitInv, StepKeepsInv, PTL DEF Spec

(* Rows, flows and tokens have their types, and an id is only ever used    *)
(* for one mailbox, however requests overlap (storage/accounts.go).        *)
THEOREM TypeCorrect == Spec => []TypeOK
<1>1. Inv => TypeOK
  <2> SUFFICES ASSUME Inv  PROVE TypeOK
    OBVIOUS
  <2>1. \A k \in Mailbox : accounts[k] # None => RowWithId(accounts[k].id) = {k} /\ accounts[k].id < nextId
    BY DEF Inv, IdsOK, RowWithId
  <2>2. \A w \in Handler : hd[w].id < nextId /\ hd[w].tok \in Tok /\ hd[w].next \in Tok
    BY DEF Inv, Typed, IdsOK
  <2>3. stale <= issued
    BY BoundAssumption DEF Inv, Typed
  <2> QED  BY <2>1, <2>2, <2>3 DEF Inv, Typed, TypeOK
<1> QED  BY <1>1, InvHolds, PTL

(* The refresh token that is stored for an account is one the provider     *)
(* honours, but while a request is about to replace it, and after one has  *)
(* not come to do so (api/mail.go ensureAccess).                           *)
THEOREM TokensGuarantee == Spec => []TokensLive
<1>1. Inv => TokensLive
  BY DEF Inv
<1> QED  BY <1>1, InvHolds, PTL

(* A flow connects once, whatever callbacks are repeated or overlap        *)
(* (storage/accounts.go TakeOAuthState).                                   *)
THEOREM FlowGuarantee == Spec => []FlowOnce
<1>1. Inv => FlowOnce
  BY DEF Inv, FlowsOK, FlowOnce, Has
<1> QED  BY <1>1, InvHolds, PTL

-----------------------------------------------------------------------------
(* Who is looked up: induction over the list of names, by the least number *)
(* of them at which what is claimed fails.                                 *)

(* Induction up to k, for the members of a set.                            *)
LEMMA Reaches ==
  ASSUME NEW k \in Nat, NEW S, 0 \in S, \A n \in Nat : n < k /\ n \in S => n + 1 \in S
  PROVE  \A n \in 0..k : n \in S
<1> DEFINE Bad == {n \in Nat : n <= k /\ n \notin S}
<1>1. CASE Bad = {}
  BY <1>1
<1>2. CASE Bad # {}
  <2>1. PICK n \in Bad : \A m \in Bad : n <= m
    BY <1>2, Least
  <2>2. n # 0 /\ n \in Nat /\ n <= k /\ n \notin S
    BY <2>1
  <2>3. n - 1 \in Nat /\ n - 1 < k /\ n - 1 \notin Bad
    BY <2>1, <2>2
  <2>4. n - 1 \in S
    BY <2>3
  <2>5. (n - 1) + 1 \in S
    BY <2>3, <2>4
  <2> QED  BY <2>2, <2>5
<1> QED  BY <1>1, <1>2

(* What LookUp and Recipients have after n elements of a list.             *)
IsLookUp(g, names, failed, n) ==
  g = [m \in 0..n |-> IF m = 0 THEN Nobody ELSE addIdent(g[m-1], names[m], Found(names, failed, m))]

IsRecipients(g, l, n) ==
  g = [m \in 0..n |-> IF m = 0 THEN <<>>
                      ELSE IF l[m] \in LocalBox THEN g[m-1] ELSE Append(g[m-1], l[m])]

LEMMA LookUpIs ==
  ASSUME NEW names \in Seq(Ident), NEW failed
  PROVE  \E g : IsLookUp(g, names, failed, Len(names)) /\ LookUp(names, failed) = g[Len(names)]
<1> DEFINE S == {n \in Nat : \E g : IsLookUp(g, names, failed, n)}
           who == CHOOSE g : IsLookUp(g, names, failed, Len(names))
<1>1. 0 \in S
  <2> DEFINE h == [m \in 0..0 |-> Nobody]
  <2>1. \A m \in 0..0 : m = 0
    OBVIOUS
  <2>2. h = [m \in 0..0 |-> IF m = 0 THEN Nobody ELSE addIdent(h[m-1], names[m], Found(names, failed, m))]
    BY <2>1
  <2> QED  BY <2>2 DEF IsLookUp
<1>2. ASSUME NEW n \in Nat, n < Len(names), n \in S
      PROVE  n + 1 \in S
  <2>1. PICK g : IsLookUp(g, names, failed, n)
    BY <1>2
  <2> DEFINE h == [m \in 0..n+1 |-> IF m = n + 1 THEN addIdent(g[n], names[n+1], Found(names, failed, n + 1)) ELSE g[m]]
  <2>2. ASSUME NEW m \in 0..n+1
        PROVE  h[m] = IF m = 0 THEN Nobody ELSE addIdent(h[m-1], names[m], Found(names, failed, m))
    <3>1. CASE m = n + 1
      <4>1. m # 0 /\ m - 1 = n /\ n # n + 1 /\ n \in 0..n+1
        BY <3>1
      <4>2. h[n] = g[n] /\ h[m] = addIdent(g[n], names[n+1], Found(names, failed, n + 1))
        BY <3>1, <4>1
      <4> HIDE DEF h
      <4> QED  BY <3>1, <4>1, <4>2
    <3>2. CASE m # n + 1
      <4>1. m \in 0..n /\ (m # 0 => m - 1 \in 0..n+1 /\ m - 1 # n + 1)
        BY <3>2
      <4>2. g[m] = IF m = 0 THEN Nobody ELSE addIdent(g[m-1], names[m], Found(names, failed, m))
        BY <2>1, <4>1 DEF IsLookUp
      <4>3. h[m] = g[m] /\ (m # 0 => h[m-1] = g[m-1])
        BY <3>2, <4>1
      <4> HIDE DEF h
      <4> QED  BY <4>2, <4>3
    <3> QED  BY <3>1, <3>2
  <2>3. h = [m \in 0..n+1 |-> h[m]]
    OBVIOUS
  <2> HIDE DEF h
  <2>4. IsLookUp(h, names, failed, n + 1)
    BY <2>2, <2>3 DEF IsLookUp
  <2> QED  BY <2>4
<1>3. Len(names) \in Nat /\ Len(names) \in 0..Len(names)
  OBVIOUS
<1> HIDE DEF S
<1>4. Len(names) \in S
  BY <1>1, <1>2, <1>3, Reaches
<1>5. IsLookUp(who, names, failed, Len(names))
  BY <1>4 DEF S
<1>6. LookUp(names, failed) = who[Len(names)]
  BY DEF LookUp, IsLookUp
<1> QED  BY <1>5, <1>6

LEMMA RecipientsIs ==
  ASSUME NEW A, NEW l \in Seq(A)
  PROVE  \E g : IsRecipients(g, l, Len(l)) /\ Recipients(l) = g[Len(l)]
<1> DEFINE S == {n \in Nat : \E g : IsRecipients(g, l, n)}
           to == CHOOSE g : IsRecipients(g, l, Len(l))
           next(s, x) == IF x \in LocalBox THEN s ELSE Append(s, x)
<1>0. \A g, n : IsRecipients(g, l, n) <=> g = [m \in 0..n |-> IF m = 0 THEN <<>> ELSE next(g[m-1], l[m])]
  BY DEF IsRecipients
<1>1. 0 \in S
  <2> DEFINE h == [m \in 0..0 |-> <<>>]
  <2>1. \A m \in 0..0 : m = 0
    OBVIOUS
  <2>2. h = [m \in 0..0 |-> IF m = 0 THEN <<>>
                            ELSE IF l[m] \in LocalBox THEN h[m-1] ELSE Append(h[m-1], l[m])]
    BY <2>1
  <2> HIDE DEF h
  <2>3. IsRecipients(h, l, 0)
    BY <2>2 DEF IsRecipients
  <2> QED  BY <2>3
<1> HIDE DEF next
<1>2. ASSUME NEW n \in Nat, n < Len(l), n \in S
      PROVE  n + 1 \in S
  <2>1. PICK g : IsRecipients(g, l, n)
    BY <1>2
  <2> DEFINE h == [m \in 0..n+1 |-> IF m = n + 1 THEN next(g[n], l[n+1]) ELSE g[m]]
  <2>2. ASSUME NEW m \in 0..n+1
        PROVE  h[m] = IF m = 0 THEN <<>> ELSE next(h[m-1], l[m])
    <3>1. CASE m = n + 1
      <4>1. m # 0 /\ m - 1 = n /\ n # n + 1 /\ n \in 0..n+1
        BY <3>1
      <4>2. h[n] = g[n] /\ h[m] = next(g[n], l[n+1])
        BY <3>1, <4>1
      <4> HIDE DEF h
      <4> QED  BY <3>1, <4>1, <4>2
    <3>2. CASE m # n + 1
      <4>1. m \in 0..n /\ (m # 0 => m - 1 \in 0..n+1 /\ m - 1 # n + 1)
        BY <3>2
      <4>2. g[m] = IF m = 0 THEN <<>> ELSE next(g[m-1], l[m])
        BY <1>0, <2>1, <4>1
      <4>3. h[m] = g[m] /\ (m # 0 => h[m-1] = g[m-1])
        BY <3>2, <4>1
      <4> HIDE DEF h
      <4> QED  BY <4>2, <4>3
    <3> QED  BY <3>1, <3>2
  <2>3. h = [m \in 0..n+1 |-> h[m]]
    OBVIOUS
  <2> HIDE DEF h
  <2>4. h = [m \in 0..n+1 |-> IF m = 0 THEN <<>>
                              ELSE IF l[m] \in LocalBox THEN h[m-1] ELSE Append(h[m-1], l[m])]
    BY <2>2, <2>3 DEF next
  <2>5. IsRecipients(h, l, n + 1)
    BY <2>4 DEF IsRecipients
  <2> QED  BY <2>5
<1>3. Len(l) \in Nat /\ Len(l) \in 0..Len(l)
  OBVIOUS
<1> HIDE DEF S
<1>4. Len(l) \in S
  BY <1>1, <1>2, <1>3, Reaches
<1>5. IsRecipients(to, l, Len(l))
  BY <1>4 DEF S
<1>6. Recipients(l) = to[Len(l)]
  BY DEF Recipients, IsRecipients
<1> QED  BY <1>5, <1>6

LEMMA AppendRange ==
  ASSUME NEW A, NEW s \in Seq(A), NEW x \in A
  PROVE  Append(s, x) \in Seq(A) /\ Range(Append(s, x)) = Range(s) \cup {x}
<1>1. Append(s, x) \in Seq(A) /\ Len(Append(s, x)) = Len(s) + 1 /\ Len(s) \in Nat
  OBVIOUS
<1>2. DOMAIN Append(s, x) = 1..Len(s)+1 /\ DOMAIN s = 1..Len(s)
  BY <1>1
<1>3. Append(s, x)[Len(s)+1] = x /\ \A i \in 1..Len(s) : Append(s, x)[i] = s[i]
  OBVIOUS
<1> QED  BY <1>1, <1>2, <1>3 DEF Range

LEMMA RecipientsAre ==
  ASSUME NEW A, NEW l \in Seq(A)
  PROVE  Recipients(l) \in Seq(A) /\ Range(Recipients(l)) = Range(l) \ LocalBox
<1>1. PICK g : IsRecipients(g, l, Len(l)) /\ Recipients(l) = g[Len(l)]
  BY RecipientsIs
<1> DEFINE S == {n \in Nat : g[n] \in Seq(A) /\ Range(g[n]) = {l[i] : i \in 1..n} \ LocalBox}
<1>2. Len(l) \in Nat /\ DOMAIN l = 1..Len(l) /\ \A i \in 1..Len(l) : l[i] \in A
  OBVIOUS
<1>3. g[0] = <<>> /\ \A n \in Nat : n < Len(l) =>
        g[n+1] = IF l[n+1] \in LocalBox THEN g[n] ELSE Append(g[n], l[n+1])
  <2>1. ASSUME NEW m \in 0..Len(l)
        PROVE  g[m] = IF m = 0 THEN <<>> ELSE IF l[m] \in LocalBox THEN g[m-1] ELSE Append(g[m-1], l[m])
    BY <1>1 DEF IsRecipients
  <2>2. g[0] = <<>>
    BY <1>2, <2>1
  <2>3. ASSUME NEW n \in Nat, n < Len(l)
        PROVE  g[n+1] = IF l[n+1] \in LocalBox THEN g[n] ELSE Append(g[n], l[n+1])
    <3>1. n + 1 \in 0..Len(l) /\ n + 1 # 0 /\ (n + 1) - 1 = n
      BY <1>2, <2>3
    <3> QED  BY <2>1, <3>1
  <2> QED  BY <2>2, <2>3
<1>4. 0 \in S
  <2>1. <<>> \in Seq(A) /\ Range(<<>>) = {} /\ 1..0 = {}
    BY DEF Range
  <2> QED  BY <1>3, <2>1
<1>5. ASSUME NEW n \in Nat, n < Len(l), n \in S
      PROVE  n + 1 \in S
  <2>1. l[n+1] \in A /\ {l[i] : i \in 1..n+1} = {l[i] : i \in 1..n} \cup {l[n+1]}
    <3>1. n + 1 \in 1..Len(l) /\ 1..n+1 = 1..n \cup {n + 1}
      BY <1>2, <1>5
    <3> QED  BY <1>2, <3>1
  <2>2. g[n] \in Seq(A) /\ Range(g[n]) = {l[i] : i \in 1..n} \ LocalBox
    BY <1>5
  <2>3. Append(g[n], l[n+1]) \in Seq(A) /\ Range(Append(g[n], l[n+1])) = Range(g[n]) \cup {l[n+1]}
    BY <2>1, <2>2, AppendRange
  <2>4. g[n+1] \in Seq(A) /\ Range(g[n+1]) = {l[i] : i \in 1..n+1} \ LocalBox
    BY <1>3, <1>5, <2>1, <2>2, <2>3
  <2> QED  BY <2>4
<1> HIDE DEF S
<1>6. Len(l) \in S
  <2>1. Len(l) \in 0..Len(l)
    BY <1>2
  <2> QED  BY <1>2, <1>4, <1>5, <2>1, Reaches
<1>7. Range(l) = {l[i] : i \in 1..Len(l)}
  BY <1>2 DEF Range
<1> QED  BY <1>1, <1>6, <1>7 DEF S

Account == [seen : SUBSET Ident, local : SUBSET User, external : Seq(Ident), missing : SUBSET Ident]

LEMMA IdentIs ==
  /\ Self \in User /\ None \notin User
  /\ \A i \in Ident : UserOf[i] \in User \cup {None} /\ AddrOf[i] \in Ident \cup {None}
  /\ \A u \in User : u.name \in Ident /\ SeenAs(u) \subseteq Ident
BY IdentAssumption, UserAssumption DEF SeenAs

LEMMA FoundIs ==
  ASSUME NEW names \in Seq(Ident), NEW failed, NEW n \in 1..Len(names)
  PROVE  Found(names, failed, n) \in User \cup {None}
<1>1. names[n] \in Ident
  OBVIOUS
<1> QED  BY <1>1, IdentIs DEF Found

LEMMA NobodyIs ==
  Nobody \in Account /\ Range(Nobody.external) = {} /\ Nobody.local = {} /\ Nobody.seen = {}
BY DEF Nobody, Account, Range

(* What one more name makes of those looked up so far.                     *)
LEMMA AddIdentIs ==
  ASSUME NEW acc \in Account, NEW raw \in Ident, NEW u \in User \cup {None}
  PROVE  LET new == addIdent(acc, raw, u)
         IN  /\ new \in Account
             /\ \/ new = acc /\ \/ raw \in acc.seen \/ raw = Self.name
                                \/ u # None /\ (u = Self \/ ~u.active \/ u.name \in acc.seen)
                                \/ u = None /\ raw \notin LocalBox /\ AddrOf[raw] # None
                                   /\ (AddrOf[raw] = Self.email \/ AddrOf[raw] \in acc.seen)
                \/ /\ u # None /\ u # Self /\ u.active /\ u.name \notin acc.seen /\ raw \notin acc.seen
                   /\ new.seen = acc.seen \cup SeenAs(u) /\ new.local = acc.local \cup {u}
                   /\ new.external = acc.external /\ new.missing = acc.missing
                \/ /\ u = None /\ (raw \in LocalBox \/ AddrOf[raw] = None)
                   /\ new.seen = acc.seen /\ new.local = acc.local
                   /\ new.external = acc.external /\ new.missing = acc.missing \cup {raw}
                \/ /\ u = None /\ raw \notin LocalBox /\ AddrOf[raw] # None /\ AddrOf[raw] \notin acc.seen
                   /\ new.seen = acc.seen \cup {AddrOf[raw]} /\ new.local = acc.local
                   /\ Range(new.external) = Range(acc.external) \cup {AddrOf[raw]}
                   /\ new.missing = acc.missing
<1> DEFINE new == addIdent(acc, raw, u)
           addr == AddrOf[raw]
<1>1. /\ u \in User \cup {None} /\ None \notin User /\ addr \in Ident \cup {None} /\ Self \in User
      /\ u # None => SeenAs(u) \subseteq Ident
  BY IdentIs
<1>2. acc.seen \subseteq Ident /\ acc.local \subseteq User /\ acc.external \in Seq(Ident) /\ acc.missing \subseteq Ident
  BY DEF Account
<1>3. CASE raw \in acc.seen \/ raw = Self.name
  <2>1. new = acc
    BY <1>3 DEF addIdent
  <2> QED  BY <1>3, <2>1
<1>4. CASE raw \notin acc.seen /\ raw # Self.name /\ u # None
  <2>1. new = IF u = Self \/ ~u.active \/ u.name \in acc.seen THEN acc
              ELSE [acc EXCEPT !.seen = @ \cup SeenAs(u), !.local = @ \cup {u}]
    BY <1>4 DEF addIdent
  <2>2. CASE u = Self \/ ~u.active \/ u.name \in acc.seen
    BY <1>4, <2>1, <2>2
  <2>3. CASE ~(u = Self \/ ~u.active \/ u.name \in acc.seen)
    <3>1. new = [acc EXCEPT !.seen = @ \cup SeenAs(u), !.local = @ \cup {u}]
      BY <2>1, <2>3
    <3>2. /\ new.seen = acc.seen \cup SeenAs(u) /\ new.local = acc.local \cup {u}
          /\ new.external = acc.external /\ new.missing = acc.missing
      BY <3>1 DEF Account
    <3>3. new \in Account
      BY <1>1, <1>2, <1>4, <3>1 DEF Account
    <3> QED  BY <1>4, <2>3, <3>2, <3>3
  <2> QED  BY <2>2, <2>3
<1>5. CASE raw \notin acc.seen /\ raw # Self.name /\ u = None
  <2>1. new = IF raw \in LocalBox \/ addr = None THEN [acc EXCEPT !.missing = @ \cup {raw}]
              ELSE IF addr = Self.email \/ addr \in acc.seen THEN acc
              ELSE [acc EXCEPT !.seen = @ \cup {addr}, !.external = Append(@, addr)]
    BY <1>5 DEF addIdent
  <2>2. CASE raw \in LocalBox \/ addr = None
    <3>1. new = [acc EXCEPT !.missing = @ \cup {raw}]
      BY <2>1, <2>2
    <3>2. /\ new.seen = acc.seen /\ new.local = acc.local
          /\ new.external = acc.external /\ new.missing = acc.missing \cup {raw}
      BY <3>1 DEF Account
    <3>3. new \in Account
      BY <1>2, <3>1 DEF Account
    <3> QED  BY <1>5, <2>2, <3>2, <3>3
  <2>3. CASE ~(raw \in LocalBox \/ addr = None) /\ (addr = Self.email \/ addr \in acc.seen)
    <3>1. new = acc
      BY <2>1, <2>3
    <3> QED  BY <1>5, <2>3, <3>1
  <2>4. CASE ~(raw \in LocalBox \/ addr = None) /\ ~(addr = Self.email \/ addr \in acc.seen)
    <3> DEFINE ext == Append(acc.external, addr)
    <3>1. new = [acc EXCEPT !.seen = @ \cup {addr}, !.external = ext]
      BY <2>1, <2>4
    <3>2. ext \in Seq(Ident) /\ Range(ext) = Range(acc.external) \cup {addr}
      BY <1>1, <1>2, <2>4, AppendRange
    <3> HIDE DEF ext, new
    <3>3. /\ new.seen = acc.seen \cup {addr} /\ new.local = acc.local
          /\ new.external = ext /\ new.missing = acc.missing
      BY <3>1 DEF Account
    <3>4. new \in Account
      BY <1>1, <1>2, <2>4, <3>1, <3>2 DEF Account
    <3> QED  BY <1>5, <2>4, <3>2, <3>3, <3>4 DEF new
  <2> QED  BY <2>2, <2>3, <2>4
<1> QED  BY <1>3, <1>4, <1>5

(* What LookUp has made of the first n names.                              *)
LEMMA LookUpSteps ==
  ASSUME NEW names \in Seq(Ident), NEW failed
  PROVE  \E g : /\ g[0] = Nobody /\ LookUp(names, failed) = g[Len(names)]
                /\ \A n \in Nat : n < Len(names) => g[n+1] = addIdent(g[n], names[n+1], Found(names, failed, n + 1))
<1>1. PICK g : IsLookUp(g, names, failed, Len(names)) /\ LookUp(names, failed) = g[Len(names)]
  BY LookUpIs
<1>2. ASSUME NEW m \in 0..Len(names)
      PROVE  g[m] = IF m = 0 THEN Nobody ELSE addIdent(g[m-1], names[m], Found(names, failed, m))
  BY <1>1 DEF IsLookUp
<1>3. Len(names) \in Nat
  OBVIOUS
<1>4. g[0] = Nobody
  BY <1>2, <1>3
<1>5. ASSUME NEW n \in Nat, n < Len(names)
      PROVE  g[n+1] = addIdent(g[n], names[n+1], Found(names, failed, n + 1))
  <2>1. n + 1 \in 0..Len(names) /\ n + 1 # 0 /\ (n + 1) - 1 = n
    BY <1>3, <1>5
  <2> QED  BY <1>2, <2>1
<1> QED  BY <1>1, <1>4, <1>5

LEMMA LookUpTyped ==
  ASSUME NEW names \in Seq(Ident), NEW failed
  PROVE  LookUp(names, failed) \in Account
<1>1. PICK g : /\ g[0] = Nobody /\ LookUp(names, failed) = g[Len(names)]
               /\ \A n \in Nat : n < Len(names) => g[n+1] = addIdent(g[n], names[n+1], Found(names, failed, n + 1))
  BY LookUpSteps
<1> DEFINE S == {n \in Nat : g[n] \in Account}
<1>2. Len(names) \in Nat /\ \A n \in Nat : n < Len(names) => names[n+1] \in Ident
  OBVIOUS
<1>3. 0 \in S
  BY <1>1, NobodyIs
<1>4. ASSUME NEW n \in Nat, n < Len(names), n \in S
      PROVE  n + 1 \in S
  <2> DEFINE u == Found(names, failed, n + 1)
  <2>1. g[n+1] = addIdent(g[n], names[n+1], u) /\ g[n] \in Account /\ names[n+1] \in Ident
    BY <1>1, <1>2, <1>4
  <2>2. u \in User \cup {None}
    <3>1. n + 1 \in 1..Len(names)
      BY <1>2, <1>4
    <3> QED  BY <3>1, FoundIs
  <2> HIDE DEF u
  <2> QED  BY <2>1, <2>2, AddIdentIs
<1> HIDE DEF S
<1>5. Len(names) \in S
  <2>1. Len(names) \in 0..Len(names)
    BY <1>2
  <2> QED  BY <1>2, <1>3, <1>4, <2>1, Reaches
<1> QED  BY <1>1, <1>5 DEF S

-----------------------------------------------------------------------------
(* Nobody is lost on the way.                                              *)

(* A look-up of d fails.                                                   *)
Missed(names, failed, d) == \E m \in failed : Denotes(names[m]) = d

(* Or d is typed with a display name first, if at all, in names up to n.   *)
FirstDisplayed(names, failed, n, d) ==
  Missed(names, failed, d) \/ \A m \in 1..n : Denotes(names[m]) = d /\ (\A k \in 1..m-1 : Denotes(names[k]) # d) => Displayed(names[m])

Typed1(names, n, d) == \E m \in 1..n : Denotes(names[m]) = d

Invitable(d) == d \in User /\ d.active /\ d # Self

(* Nobody up to n is lost in acc.                                          *)
Heard(acc, i) ==
  \/ Denotes(i) \in User /\ ~Invitable(Denotes(i))
  \/ Denotes(i) \in acc.local \/ i \in acc.missing
  \/ i \in Range(acc.external) \/ AddrOf[i] \in Range(acc.external)

HeardAll(acc, names, failed, n) ==
  /\ acc \in Account
  /\ acc.seen = (UNION {SeenAs(u) : u \in acc.local}) \cup Range(acc.external)
  /\ \A u \in acc.local : Invitable(u)
  /\ \A e \in Range(acc.external) :
       /\ e # None
       /\ \E m \in 1..n : names[m] \notin LocalBox /\ AddrOf[names[m]] = e
  /\ \A m \in 1..n : Heard(acc, names[m])
  /\ \A d : Invitable(d) /\ d \notin acc.local => FirstDisplayed(names, failed, n, d)
  /\ \A d : Invitable(d) /\ d.email \in Range(acc.external) =>
       FirstDisplayed(names, failed, n, d) /\ Typed1(names, n, d)

(* One more name.                                                          *)
LEMMA OneMore ==
  ASSUME NEW names \in Seq(Ident), NEW failed, NEW n \in Nat, n < Len(names), NEW d,
         FirstDisplayed(names, failed, n, d)
  PROVE  /\ Typed1(names, n, d) => FirstDisplayed(names, failed, n + 1, d)
         /\ (Denotes(names[n+1]) = d /\ ~Typed1(names, n, d) => Displayed(names[n+1]) \/ Missed(names, failed, d))
              => FirstDisplayed(names, failed, n + 1, d)
         /\ Typed1(names, n + 1, d) <=> Typed1(names, n, d) \/ Denotes(names[n+1]) = d
<1>1. 1..n+1 = 1..n \cup {n + 1} /\ (n + 1) - 1 = n
  OBVIOUS
<1>2. Typed1(names, n + 1, d) <=> Typed1(names, n, d) \/ Denotes(names[n+1]) = d
  BY <1>1 DEF Typed1
<1>3. ASSUME Denotes(names[n+1]) = d /\ ~Typed1(names, n, d) => Displayed(names[n+1]) \/ Missed(names, failed, d)
      PROVE  FirstDisplayed(names, failed, n + 1, d)
  <2>1. SUFFICES ASSUME ~Missed(names, failed, d), NEW m \in 1..n+1, Denotes(names[m]) = d, \A k \in 1..m-1 : Denotes(names[k]) # d
                 PROVE  Displayed(names[m])
    BY DEF FirstDisplayed
  <2>2. CASE m \in 1..n
    BY <2>1, <2>2 DEF FirstDisplayed
  <2>3. CASE m = n + 1
    BY <1>1, <1>3, <2>1, <2>3 DEF Typed1
  <2> QED  BY <1>1, <2>2, <2>3
<1> QED  BY <1>2, <1>3

(* How a name is read.                                                     *)
LEMMA DenotesIs ==
  ASSUME FoundByAddress, NEW i \in Ident
  PROVE  /\ Denotes(i) \in User \cup {None}
         /\ UserOf[i] # None => Denotes(i) = UserOf[i]
         /\ AddrOf[i] # None => Denotes(i) = UserOf[AddrOf[i]]
         /\ Denotes(i) \in User /\ ~Displayed(i) => UserOf[i] = Denotes(i)
BY IdentIs, UserAssumption DEF Denotes, Displayed

LEMMA SeenIs ==
  ASSUME FoundByAddress, NEW u \in User
  PROVE  /\ u.name \in SeenAs(u) /\ u.email \in SeenAs(u)
         /\ \A i \in SeenAs(u) : i \in Ident /\ UserOf[i] = u
BY UserAssumption DEF SeenAs, FoundByAddress

(* A user whose name has been seen is invited.                             *)
LEMMA SeenByName1 ==
  ASSUME FoundByAddress, NEW acc, NEW names \in Seq(Ident), NEW failed, NEW n \in Nat, n <= Len(names),
         HeardAll(acc, names, failed, n), NEW u \in User, u.name \in acc.seen
  PROVE  u \in acc.local
<1>1. u.name \notin Range(acc.external)
  <2> SUFFICES ASSUME u.name \in Range(acc.external)  PROVE FALSE
    OBVIOUS
  <2>1. PICK m \in 1..n : AddrOf[names[m]] = u.name
    BY DEF HeardAll
  <2>2. names[m] \in Ident
    OBVIOUS
  <2> QED  BY <2>1, <2>2, UserAssumption
<1>2. PICK v \in acc.local : u.name \in SeenAs(v)
  BY <1>1 DEF HeardAll
<1>3. v \in User
  BY <1>2 DEF HeardAll, Invitable
<1> QED  BY <1>2, <1>3, SeenIs

(* Whatever has been seen has been heard.                                  *)
LEMMA SeenHeard ==
  ASSUME FoundByAddress, NEW acc, NEW names \in Seq(Ident), NEW failed, NEW n \in Nat, n <= Len(names),
         HeardAll(acc, names, failed, n), NEW i \in Ident
  PROVE  /\ i \in acc.seen => Heard(acc, i)
         /\ AddrOf[i] # None /\ AddrOf[i] \in acc.seen => Heard(acc, i)
<1>1. ASSUME NEW v \in acc.local, i \in SeenAs(v) \/ (AddrOf[i] # None /\ AddrOf[i] \in SeenAs(v))
      PROVE  Heard(acc, i)
  <2>1. v \in User
    BY DEF HeardAll, Invitable
  <2>2. Denotes(i) = v
    BY <1>1, <2>1, SeenIs, DenotesIs, IdentIs
  <2> QED  BY <2>2 DEF Heard
<1>2. acc.seen = (UNION {SeenAs(u) : u \in acc.local}) \cup Range(acc.external)
  BY DEF HeardAll
<1>3. CASE i \in Range(acc.external) \/ AddrOf[i] \in Range(acc.external)
  BY <1>3 DEF Heard
<1> QED  BY <1>1, <1>2, <1>3

LEMMA AddHears ==
  ASSUME FoundByAddress, NEW acc, NEW names \in Seq(Ident), NEW failed, NEW n \in Nat, n < Len(names),
         HeardAll(acc, names, failed, n)
  PROVE  HeardAll(addIdent(acc, names[n+1], Found(names, failed, n + 1)), names, failed, n + 1)
<1> DEFINE raw == names[n+1]
           u == Found(names, failed, n + 1)
           addr == AddrOf[raw]
           new == addIdent(acc, raw, u)
           Passed == new = acc /\ \/ raw \in acc.seen \/ raw = Self.name
                                  \/ u # None /\ (u = Self \/ ~u.active \/ u.name \in acc.seen)
                                  \/ u = None /\ raw \notin LocalBox /\ addr # None
                                     /\ (addr = Self.email \/ addr \in acc.seen)
           Invited == /\ u # None /\ u # Self /\ u.active /\ u.name \notin acc.seen /\ raw \notin acc.seen
                      /\ new.seen = acc.seen \cup SeenAs(u) /\ new.local = acc.local \cup {u}
                      /\ new.external = acc.external /\ new.missing = acc.missing
           Missing == /\ u = None /\ (raw \in LocalBox \/ addr = None)
                      /\ new.seen = acc.seen /\ new.local = acc.local
                      /\ new.external = acc.external /\ new.missing = acc.missing \cup {raw}
           Mailed == /\ u = None /\ raw \notin LocalBox /\ addr # None /\ addr \notin acc.seen
                     /\ new.seen = acc.seen \cup {addr} /\ new.local = acc.local
                     /\ Range(new.external) = Range(acc.external) \cup {addr}
                     /\ new.missing = acc.missing
<1>1. /\ raw \in Ident /\ u \in User \cup {None} /\ addr \in Ident \cup {None} /\ None \notin User
      /\ Self \in User /\ 1..n+1 = 1..n \cup {n + 1} /\ n <= Len(names)
      /\ acc \in Account /\ acc.local \subseteq User
      /\ u # None => UserOf[raw] = u
      /\ u = None => UserOf[raw] = None \/ Missed(names, failed, Denotes(raw))
  BY IdentIs DEF HeardAll, Account, Found, Missed
<1> SUFFICES HeardAll(new, names, failed, n + 1)
  OBVIOUS
<1> HIDE DEF u
<1>2. \A d : Typed1(names, n + 1, d) <=> Typed1(names, n, d) \/ Denotes(raw) = d
  BY <1>1 DEF Typed1
<1>3. \A m \in 1..n : Heard(acc, names[m])
  BY DEF HeardAll
<1>4. ASSUME NEW d, Invitable(d), Denotes(raw) = d, ~Typed1(names, n, d), ~Displayed(raw), d \notin acc.local,
             ~Missed(names, failed, d)
      PROVE  /\ u = d /\ d.name \notin acc.seen /\ raw \notin acc.seen /\ raw # Self.name
  <2>1. d \in User /\ u = d /\ UserOf[raw] = d
    BY <1>1, <1>4, DenotesIs DEF Invitable
  <2>2. d.name \notin acc.seen
    BY <1>1, <1>4, <2>1, SeenByName1
  <2>3. raw \notin acc.seen
    <3>1. ASSUME NEW v \in acc.local  PROVE raw \notin SeenAs(v)
      <4>1. v \in User /\ v # d
        BY <1>1, <1>4
      <4> QED  BY <2>1, <4>1, SeenIs
    <3>2. raw \notin Range(acc.external)
      <4> SUFFICES ASSUME raw \in Range(acc.external)  PROVE FALSE
        OBVIOUS
      <4>1. PICK m \in 1..n : AddrOf[names[m]] = raw /\ raw # None
        BY DEF HeardAll
      <4>2. names[m] \in Ident
        OBVIOUS
      <4>3. Denotes(names[m]) = d
        BY <2>1, <4>1, <4>2, DenotesIs
      <4> QED  BY <1>4, <4>3 DEF Typed1
    <3> QED  BY <3>1, <3>2 DEF HeardAll
  <2>4. raw # Self.name
    BY <1>4, <2>1, UserAssumption, IdentIs DEF Invitable
  <2> QED  BY <2>1, <2>2, <2>3, <2>4
<1>5. \A d : Invitable(d) /\ d \notin acc.local => FirstDisplayed(names, failed, n, d)
  BY DEF HeardAll
<1>6. \A d : Invitable(d) /\ d.email \in Range(acc.external) => FirstDisplayed(names, failed, n, d) /\ Typed1(names, n, d)
  BY DEF HeardAll
<1>7. new \in Account
  BY <1>1, AddIdentIs
<1>8. /\ acc.seen = (UNION {SeenAs(v) : v \in acc.local}) \cup Range(acc.external)
      /\ \A v \in acc.local : Invitable(v)
      /\ \A e \in Range(acc.external) :
           /\ e # None
           /\ \E m \in 1..n : names[m] \notin LocalBox /\ AddrOf[names[m]] = e
  BY DEF HeardAll
(* What was true of the first n names stays true, when nobody is forgotten. *)
<1>9. ASSUME acc.local \subseteq new.local, acc.missing \subseteq new.missing,
             Range(acc.external) \subseteq Range(new.external)
      PROVE  Heard(new, raw) => \A m \in 1..n+1 : Heard(new, names[m])
  <2>1. \A m \in 1..n : Heard(new, names[m])
    <3> HIDE DEF new
    <3> QED  BY <1>3, <1>9 DEF Heard
  <2> HIDE DEF new
  <2> QED  BY <1>1, <2>1
<1>10. ASSUME Range(new.external) = Range(acc.external), acc.local \subseteq new.local,
              \A d : Invitable(d) /\ d \notin new.local /\ Denotes(raw) = d /\ ~Typed1(names, n, d) => Displayed(raw) \/ Missed(names, failed, d)
       PROVE  /\ \A d : Invitable(d) /\ d \notin new.local => FirstDisplayed(names, failed, n + 1, d)
              /\ \A d : Invitable(d) /\ d.email \in Range(new.external) =>
                   FirstDisplayed(names, failed, n + 1, d) /\ Typed1(names, n + 1, d)
  <2>1. ASSUME NEW d, Invitable(d), d \notin new.local
        PROVE  FirstDisplayed(names, failed, n + 1, d)
    BY <1>5, <1>10, <2>1, OneMore
  <2>2. ASSUME NEW d, Invitable(d), d.email \in Range(new.external)
        PROVE  FirstDisplayed(names, failed, n + 1, d) /\ Typed1(names, n + 1, d)
    BY <1>6, <1>10, <2>2, OneMore
  <2> QED  BY <2>1, <2>2
<1>11. CASE Passed
  <2>1. Heard(acc, raw)
    <3>1. CASE raw \in acc.seen
      BY <1>1, <3>1, SeenHeard
    <3>2. CASE raw = Self.name
      BY <1>1, <3>2, DenotesIs, UserAssumption DEF Heard, Invitable
    <3>3. CASE u # None /\ (u = Self \/ ~u.active)
      BY <1>1, <3>3, DenotesIs DEF Heard, Invitable
    <3>4. CASE u # None /\ u.name \in acc.seen
      <4>1. u \in acc.local
        BY <1>1, <3>4, SeenByName1
      <4> QED  BY <1>1, <3>4, <4>1, DenotesIs DEF Heard
    <3>5. CASE u = None /\ addr # None /\ addr = Self.email
      BY <1>1, <3>5, DenotesIs DEF FoundByAddress, Heard, Invitable
    <3>6. CASE u = None /\ addr # None /\ addr \in acc.seen
      BY <1>1, <3>6, SeenHeard
    <3> QED  BY <1>11, <3>1, <3>2, <3>3, <3>4, <3>5, <3>6
  <2>2. ASSUME NEW d, Invitable(d), d \notin new.local, Denotes(raw) = d, ~Typed1(names, n, d)
        PROVE  Displayed(raw) \/ Missed(names, failed, d)
    <3> SUFFICES ASSUME ~Displayed(raw), ~Missed(names, failed, d)  PROVE FALSE
      OBVIOUS
    <3>1. u = d /\ d.name \notin acc.seen /\ raw \notin acc.seen /\ raw # Self.name
      BY <1>4, <1>11, <2>2
    <3> QED  BY <1>1, <1>11, <2>2, <3>1 DEF Invitable
  <2>3. /\ \A d : Invitable(d) /\ d \notin new.local => FirstDisplayed(names, failed, n + 1, d)
        /\ \A d : Invitable(d) /\ d.email \in Range(new.external) =>
             FirstDisplayed(names, failed, n + 1, d) /\ Typed1(names, n + 1, d)
    BY <1>10, <1>11, <2>2
  <2>4. \A m \in 1..n+1 : Heard(new, names[m])
    <3>1. Heard(new, raw)
      BY <1>11, <2>1
    <3> HIDE DEF new
    <3> QED  BY <1>9, <1>11, <3>1
  <2>5. /\ new.seen = (UNION {SeenAs(v) : v \in new.local}) \cup Range(new.external)
        /\ \A v \in new.local : Invitable(v)
        /\ \A e \in Range(new.external) :
             /\ e # None
             /\ \E m \in 1..n+1 : names[m] \notin LocalBox /\ AddrOf[names[m]] = e
    BY <1>1, <1>8, <1>11
  <2> HIDE DEF new
  <2> QED  BY <1>7, <2>3, <2>4, <2>5 DEF HeardAll
<1>12. CASE Invited
  <2>1. Heard(new, raw) /\ Denotes(raw) = u
    BY <1>1, <1>12, DenotesIs DEF Heard
  <2>2. /\ \A d : Invitable(d) /\ d \notin new.local => FirstDisplayed(names, failed, n + 1, d)
        /\ \A d : Invitable(d) /\ d.email \in Range(new.external) =>
             FirstDisplayed(names, failed, n + 1, d) /\ Typed1(names, n + 1, d)
    BY <1>10, <1>12, <2>1
  <2>3. \A m \in 1..n+1 : Heard(new, names[m])
    <3> HIDE DEF new
    <3> QED  BY <1>9, <1>12, <2>1
  <2>4. /\ new.seen = (UNION {SeenAs(v) : v \in new.local}) \cup Range(new.external)
        /\ \A v \in new.local : Invitable(v)
        /\ \A e \in Range(new.external) :
             /\ e # None
             /\ \E m \in 1..n+1 : names[m] \notin LocalBox /\ AddrOf[names[m]] = e
    BY <1>1, <1>8, <1>12 DEF Invitable
  <2> HIDE DEF new
  <2> QED  BY <1>7, <2>2, <2>3, <2>4 DEF HeardAll
<1>13. CASE Missing
  <2>1. Heard(new, raw)
    BY <1>13 DEF Heard
  <2>2. ASSUME NEW d, Invitable(d), Denotes(raw) = d
        PROVE  Displayed(raw) \/ Missed(names, failed, d)
    BY <1>1, <1>13, <2>2, DenotesIs DEF Invitable
  <2>3. /\ \A d : Invitable(d) /\ d \notin new.local => FirstDisplayed(names, failed, n + 1, d)
        /\ \A d : Invitable(d) /\ d.email \in Range(new.external) =>
             FirstDisplayed(names, failed, n + 1, d) /\ Typed1(names, n + 1, d)
    BY <1>10, <1>13, <2>2
  <2>4. \A m \in 1..n+1 : Heard(new, names[m])
    <3> HIDE DEF new
    <3> QED  BY <1>9, <1>13, <2>1
  <2>5. /\ new.seen = (UNION {SeenAs(v) : v \in new.local}) \cup Range(new.external)
        /\ \A v \in new.local : Invitable(v)
        /\ \A e \in Range(new.external) :
             /\ e # None
             /\ \E m \in 1..n+1 : names[m] \notin LocalBox /\ AddrOf[names[m]] = e
    BY <1>1, <1>8, <1>13
  <2> HIDE DEF new
  <2> QED  BY <1>7, <2>3, <2>4, <2>5 DEF HeardAll
<1>14. CASE Mailed
  <2>1. Heard(new, raw)
    BY <1>14 DEF Heard
  <2>2. ASSUME NEW d, Invitable(d), Denotes(raw) = d
        PROVE  Displayed(raw) \/ Missed(names, failed, d)
    BY <1>1, <1>14, <2>2, DenotesIs DEF Invitable
  <2>3. ASSUME NEW d, Invitable(d), d \notin new.local
        PROVE  FirstDisplayed(names, failed, n + 1, d)
    BY <1>5, <1>14, <2>2, <2>3, OneMore
  <2>4. ASSUME NEW d, Invitable(d), d.email \in Range(new.external)
        PROVE  FirstDisplayed(names, failed, n + 1, d) /\ Typed1(names, n + 1, d)
    <3>1. CASE d.email \in Range(acc.external)
      BY <1>6, <2>2, <2>4, <3>1, OneMore
    <3>2. CASE d.email = addr
      <4>1. d \in User /\ Denotes(raw) = d
        BY <1>1, <1>14, <2>4, <3>2, DenotesIs DEF FoundByAddress, Invitable
      <4>2. d \notin acc.local
        BY <1>8, <1>14, <3>2, <4>1, SeenIs
      <4> QED  BY <1>2, <1>14, <2>3, <2>4, <4>1, <4>2
    <3> QED  BY <1>14, <2>4, <3>1, <3>2
  <2>5. \A m \in 1..n+1 : Heard(new, names[m])
    <3> HIDE DEF new
    <3> QED  BY <1>9, <1>14, <2>1
  <2>6. /\ new.seen = (UNION {SeenAs(v) : v \in new.local}) \cup Range(new.external)
        /\ \A v \in new.local : Invitable(v)
        /\ \A e \in Range(new.external) :
             /\ e # None
             /\ \E m \in 1..n+1 : names[m] \notin LocalBox /\ AddrOf[names[m]] = e
    BY <1>1, <1>8, <1>14
  <2> HIDE DEF new
  <2> QED  BY <1>7, <2>3, <2>4, <2>5, <2>6 DEF HeardAll
<1> QED
  <2>1. Passed \/ Invited \/ Missing \/ Mailed
    <3>1. acc \in Account /\ raw \in Ident /\ u \in User \cup {None}
      BY <1>1
    <3> HIDE DEF raw
    <3> QED  BY <3>1, AddIdentIs
  <2> QED  BY <1>11, <1>12, <1>13, <1>14, <2>1

LEMMA LookUpHears ==
  ASSUME FoundByAddress, NEW names \in Seq(Ident), NEW failed
  PROVE  HeardAll(LookUp(names, failed), names, failed, Len(names))
<1>1. PICK g : /\ g[0] = Nobody /\ LookUp(names, failed) = g[Len(names)]
               /\ \A n \in Nat : n < Len(names) => g[n+1] = addIdent(g[n], names[n+1], Found(names, failed, n + 1))
  BY LookUpSteps
<1> DEFINE S == {n \in Nat : HeardAll(g[n], names, failed, n)}
<1>2. Len(names) \in Nat /\ Len(names) \in 0..Len(names)
  OBVIOUS
<1>3. 0 \in S
  <2>1. HeardAll(Nobody, names, failed, 0)
    BY NobodyIs DEF HeardAll, FirstDisplayed, Typed1
  <2> QED  BY <1>1, <2>1
<1>4. ASSUME NEW n \in Nat, n < Len(names), n \in S
      PROVE  n + 1 \in S
  <2>1. HeardAll(addIdent(g[n], names[n+1], Found(names, failed, n + 1)), names, failed, n + 1)
    BY <1>4, AddHears
  <2> QED  BY <1>1, <1>4, <2>1
<1> HIDE DEF S
<1>5. Len(names) \in S
  <2>1. \A n \in 0..Len(names) : n \in S
    BY <1>2, <1>3, <1>4, Reaches
  <2> QED  BY <1>2, <2>1
<1> QED  BY <1>1, <1>5 DEF S

-----------------------------------------------------------------------------
(* Invitations under way.                                                  *)

(* The locals of an invitation: whoever is mailed is one of the addresses  *)
(* that were looked up, and each of these is mailed, still to be mailed,   *)
(* or a mailbox of this server, unless there has been an error.            *)
Mailing == Sending \cup {"list", "account", "server"}
Ext(names, failed) == Range(LookUp(names, failed).external)

ListOK(h) ==
  /\ h.kind # "invite" => h.pc \in Sending \cup {"idle", "exchange", "upsert", "answered"}
  /\ h.kind = "invite" =>
       /\ h.names \in Invitees /\ h.todo \in Seq(Ident) /\ h.err \in BOOLEAN /\ h.late \in BOOLEAN
       /\ h.local = LookUp(h.names, h.failed).local /\ h.missing = LookUp(h.names, h.failed).missing
       /\ h.pc \in Mailing \ {"list"} => h.todo # <<>>
       /\ h.pc \in {"local", "merge"} => h.todo = LookUp(h.names, h.failed).external /\ h.mailed = {}
       /\ h.mailed \subseteq Ext(h.names, h.failed) /\ Range(h.todo) \subseteq Ext(h.names, h.failed)
       /\ ~h.err /\ h.pc \notin {"local", "merge"} =>
            Ext(h.names, h.failed) \ LocalBox \subseteq h.mailed \cup (IF h.pc = "answered" THEN {} ELSE Range(h.todo))

(* Whoever is to be mailed is listed in the event; the event in hand is    *)
(* the stored one, if nobody else has written it.                          *)
Current(h) ==
  /\ h.kind = "invite" /\ h.pc \in Mailing => Range(h.todo) \subseteq event
  /\ h.pc \in {"local", "merge"} /\ ~h.late => event = h.lines

ListInv ==
  /\ raced \in BOOLEAN
  /\ \A w \in Handler : ListOK(hd[w])
  /\ ~raced => reached \subseteq event /\ \A w \in Handler : Current(hd[w])

(* What of a request's locals concerns who is invited.                     *)
Kept(h, g) ==
  /\ g.kind = h.kind /\ g.names = h.names /\ g.failed = h.failed /\ g.local = h.local /\ g.missing = h.missing
  /\ g.lines = h.lines /\ g.late = h.late /\ g.todo = h.todo /\ g.mailed = h.mailed /\ g.err = h.err

(* The locals of one request change, and the event does not.               *)
LEMMA OneKeepsList ==
  ASSUME Shape, ListInv, NEW w \in Handler, NEW L, hd' = [hd EXCEPT ![w] = L],
         UNCHANGED <<event, raced>>, ListOK(L), ~raced => Current(L) /\ reached' \subseteq event
  PROVE  ListInv'
<1>1. hd'[w] = L /\ \A v \in Handler : v # w => hd'[v] = hd[v]
  BY DEF Shape
<1>2. ASSUME NEW v \in Handler  PROVE ListOK(hd[v])'
  <2>1. ListOK(hd'[v])
    BY <1>1 DEF ListInv
  <2> QED  BY <2>1 DEF ListOK
<1>3. ASSUME ~raced', NEW v \in Handler  PROVE Current(hd[v])'
  <2>1. Current(hd'[v])
    BY <1>1, <1>3 DEF ListInv
  <2> QED  BY <2>1 DEF Current
<1> QED  BY <1>2, <1>3 DEF ListInv

LEMMA StillKeepsList ==
  ASSUME ListInv, UNCHANGED <<hd, event, raced, reached>>
  PROVE  ListInv'
BY DEF ListInv, ListOK, Current

(* It begins what is not an invitation, or ends.                           *)
LEMMA FreshKeepsList ==
  ASSUME Shape, ListInv, NEW w \in Handler, NEW L, hd' = [hd EXCEPT ![w] = L],
         UNCHANGED <<event, raced, reached>>,
         L.kind # "invite", L.pc \in Sending \cup {"idle", "exchange", "upsert", "answered"}
  PROVE  ListInv'
<1>1. L.pc \notin {"local", "merge"}
  BY DEF Sending
<1>2. ListOK(L) /\ Current(L)
  BY <1>1 DEF ListOK, Current
<1> QED  BY <1>2, OneKeepsList DEF ListInv

(* It goes on with the same message.                                       *)
LEMMA MoveKeepsList ==
  ASSUME Shape, ListInv, NEW w \in Handler, NEW L, hd' = [hd EXCEPT ![w] = L],
         UNCHANGED <<event, raced, reached>>, Kept(hd[w], L),
         \/ hd[w].pc \in Sending /\ L.pc \in Sending
         \/ hd[w].pc = "exchange" /\ L.pc = "upsert"
         \/ hd[w].pc \in {"list", "account"} /\ L.pc \in Sending \cup {"account", "server"} /\ hd[w].todo # <<>>
  PROVE  ListInv'
<1>1. ListOK(hd[w]) /\ (~raced => Current(hd[w]))
  BY DEF ListInv
<1>2. ListOK(L)
  BY <1>1 DEF ListOK, Kept, Sending, Mailing
<1>3. ~raced => Current(L)
  BY <1>1 DEF Current, Kept, Sending, Mailing
<1> QED  BY <1>2, <1>3, OneKeepsList DEF ListInv

(* It ends: with an error, or with nobody left to be mailed.               *)
LEMMA EndKeepsList ==
  ASSUME Shape, ListInv, NEW w \in Handler, NEW L, hd' = [hd EXCEPT ![w] = L],
         UNCHANGED <<event, raced, reached>>, L.pc = "answered",
         L.kind = hd[w].kind, L.names = hd[w].names, L.failed = hd[w].failed, L.local = hd[w].local, L.missing = hd[w].missing,
         L.late = hd[w].late, L.todo = hd[w].todo, L.mailed = hd[w].mailed,
         \/ L.err = TRUE
         \/ L.err = hd[w].err /\ hd[w].todo = <<>> /\ hd[w].pc = "list"
  PROVE  ListInv'
<1>1. ListOK(hd[w])
  BY DEF ListInv
<1>2. Range(<<>>) = {}
  BY DEF Range
<1>3. ListOK(L)
  <2>1. CASE L.err = TRUE
    BY <1>1, <2>1 DEF ListOK, Mailing, Sending
  <2>2. CASE L.err = hd[w].err /\ hd[w].todo = <<>> /\ hd[w].pc = "list"
    BY <1>1, <1>2, <2>2 DEF ListOK, Mailing, Sending
  <2> QED  BY <2>1, <2>2
<1>4. Current(L)
  BY DEF Current, Mailing, Sending
<1> QED  BY <1>3, <1>4, OneKeepsList DEF ListInv

(* The first of a list is taken off.                                       *)
LEMMA TailIs ==
  ASSUME NEW A, NEW s \in Seq(A), s # <<>>
  PROVE  /\ Head(s) \in A /\ Tail(s) \in Seq(A) /\ Range(s) = {Head(s)} \cup Range(Tail(s))
         /\ Len(s) = 1 <=> Tail(s) = <<>>
<1>1. Len(s) \in Nat \ {0} /\ DOMAIN s = 1..Len(s) /\ Head(s) = s[1] /\ Head(s) \in A
  OBVIOUS
<1>2. /\ Tail(s) \in Seq(A) /\ Len(Tail(s)) = Len(s) - 1 /\ DOMAIN Tail(s) = 1..Len(s)-1
      /\ \A i \in 1..Len(s)-1 : Tail(s)[i] = s[i+1]
  BY <1>1
<1>3. Range(s) \subseteq {Head(s)} \cup Range(Tail(s))
  <2> SUFFICES ASSUME NEW i \in 1..Len(s)  PROVE s[i] \in {Head(s)} \cup Range(Tail(s))
    BY <1>1 DEF Range
  <2>1. CASE i = 1
    BY <1>1, <2>1
  <2>2. CASE i # 1
    <3>1. i - 1 \in 1..Len(s)-1 /\ (i - 1) + 1 = i
      BY <1>1, <2>2
    <3>2. Tail(s)[i-1] = s[i]
      BY <1>2, <3>1
    <3> QED  BY <1>2, <3>1, <3>2 DEF Range
  <2> QED  BY <2>1, <2>2
<1>4. {Head(s)} \cup Range(Tail(s)) \subseteq Range(s)
  <2>1. Head(s) \in Range(s)
    BY <1>1 DEF Range
  <2>2. ASSUME NEW i \in 1..Len(s)-1  PROVE Tail(s)[i] \in Range(s)
    <3>1. Tail(s)[i] = s[i+1] /\ i + 1 \in DOMAIN s
      BY <1>1, <1>2
    <3> QED  BY <3>1 DEF Range
  <2> QED  BY <1>2, <2>1, <2>2 DEF Range
<1>5. Len(s) = 1 <=> Tail(s) = <<>>
  BY <1>1, <1>2
<1> QED  BY <1>1, <1>2, <1>3, <1>4, <1>5

LEMMA EmptyRange == Range(<<>>) = {} /\ \A A : \A s \in Seq(A) : Range(s) = {} => s = <<>>
<1>1. ASSUME NEW A, NEW s \in Seq(A), s # <<>>  PROVE Range(s) # {}
  <2>1. 1 \in DOMAIN s
    BY <1>1
  <2> QED  BY <2>1 DEF Range
<1>2. Range(<<>>) = {}
  BY DEF Range
<1> QED  BY <1>1, <1>2

LEMMA SendInvitesKeepsList ==
  ASSUME Shape, ListInv, NEW w \in Handler, NEW names \in Invitees, NEW failed, sendInvites(w, names, failed)
  PROVE  ListInv'
<1> DEFINE who == LookUp(names, failed)
           next == IF who.local # {} THEN "local" ELSE IF who.external # <<>> THEN "merge" ELSE "answered"
           L == [Idle EXCEPT !.pc = next, !.kind = "invite", !.names = names, !.failed = failed,
                             !.lines = event, !.local = who.local, !.todo = who.external, !.missing = who.missing,
                             !.err = next = "answered"]
<1>1. hd' = [hd EXCEPT ![w] = L] /\ UNCHANGED <<event, raced, reached>>
  BY DEF sendInvites, Start, mailVars
<1>2. who \in Account /\ who.external \in Seq(Ident)
  BY LookUpTyped, IdentAssumption DEF Account
<1>3. next \in {"local", "merge", "answered"}
  OBVIOUS
<1> HIDE DEF next, who
<1>4. /\ L.pc = next /\ L.kind = "invite" /\ L.names = names /\ L.failed = failed /\ L.lines = event /\ L.local = who.local
      /\ L.todo = who.external /\ L.missing = who.missing /\ L.err = (next = "answered")
      /\ L.late = FALSE /\ L.mailed = {}
  BY DEF Idle
<1> HIDE DEF L
<1>5. ListOK(L)
  BY <1>2, <1>3, <1>4 DEF ListOK, Ext, who, Mailing, Sending
<1>6. Current(L)
  BY <1>3, <1>4 DEF Current, Mailing, Sending
<1> QED  BY <1>1, <1>5, <1>6, OneKeepsList DEF ListInv

LEMMA TestKeepsList ==
  ASSUME Shape, ListInv, NEW w \in Handler, NEW k \in Mailbox, testAccount(w, k)
  PROVE  ListInv'
<1> DEFINE L == [Idle EXCEPT !.pc = "send", !.kind = "test", !.key = k, !.id = accounts[k].id,
                             !.tok = accounts[k].tok, !.todo = <<k[2]>>]
<1>1. hd' = [hd EXCEPT ![w] = L] /\ UNCHANGED <<event, raced, reached>>
  BY DEF testAccount, Start, mailVars
<1>2. L.kind = "test" /\ L.pc = "send"
  BY DEF Idle
<1> HIDE DEF L
<1> QED  BY <1>1, <1>2, FreshKeepsList DEF Sending

(* The event is written.                                                   *)
LEMMA WriteKeepsList ==
  ASSUME Shape, ListInv, NEW w \in Handler, NEW S, NEW pc, WriteEvent(w, S, pc),
         hd[w].pc \in {"local", "merge"},
         \/ pc = "answered" /\ hd[w].todo = <<>>
         \/ pc = "merge"
         \/ pc = "list" /\ S = Range(hd[w].todo),
         reached' \subseteq reached \cup S
  PROVE  ListInv'
<1> DEFINE L == [hd[w] EXCEPT !.pc = pc, !.todo = IF pc = "list" THEN Recipients(@) ELSE @,
                              !.lines = @ \cup S]
<1>1. /\ DOMAIN Late(w) = Handler /\ Late(w)[w] = hd[w]
      /\ \A v \in Handler : Late(w)[v] = IF v # w /\ hd[v].pc \in {"local", "merge"}
                                         THEN [hd[v] EXCEPT !.late = TRUE] ELSE hd[v]
  BY DEF Late
<1>2. \A v \in Handler : DOMAIN hd[v] = DOMAIN Idle
  BY DEF Shape
<1>3. hd' = [Late(w) EXCEPT ![w] = L]
  BY <1>1 DEF WriteEvent
<1>4. /\ L.pc = pc /\ L.kind = hd[w].kind /\ L.names = hd[w].names /\ L.failed = hd[w].failed /\ L.local = hd[w].local
      /\ L.missing = hd[w].missing /\ L.late = hd[w].late /\ L.mailed = hd[w].mailed /\ L.err = hd[w].err
      /\ L.lines = hd[w].lines \cup S
      /\ L.todo = IF pc = "list" THEN Recipients(hd[w].todo) ELSE hd[w].todo
  BY <1>2, IdleIs
<1> HIDE DEF L
<1>5. hd'[w] = L /\ \A v \in Handler : v # w => hd'[v] = Late(w)[v]
  BY <1>1, <1>3
<1>6. /\ event' = hd[w].lines \cup S
      /\ raced' = (raced \/ hd[w].late)
  BY DEF WriteEvent
<1>7. /\ ListOK(hd[w]) /\ hd[w].kind = "invite" /\ hd[w].late \in BOOLEAN /\ raced \in BOOLEAN
      /\ hd[w].todo \in Seq(Ident)
  <2>1. ListOK(hd[w]) /\ raced \in BOOLEAN
    BY DEF ListInv
  <2>2. hd[w].kind = "invite"
    BY <2>1 DEF ListOK, Sending
  <2> QED  BY <2>1, <2>2 DEF ListOK
<1>8. pc = "list" => L.todo \in Seq(Ident) /\ Range(L.todo) = Range(hd[w].todo) \ LocalBox
  BY <1>4, <1>7, RecipientsAre
<1>9. ListOK(L)
  <2>1. CASE pc = "answered" /\ hd[w].todo = <<>>
    BY <1>4, <1>7, <2>1, EmptyRange DEF ListOK, Ext, Mailing, Sending
  <2>2. CASE pc = "merge"
    BY <1>4, <1>7, <2>2 DEF ListOK, Mailing, Sending
  <2>3. CASE pc = "list"
    BY <1>4, <1>7, <1>8, <2>3 DEF ListOK, Ext
  <2> QED  BY <2>1, <2>2, <2>3
<1>10. ASSUME NEW v \in Handler, v # w
       PROVE  /\ ListOK(hd'[v])
              /\ hd'[v].kind = hd[v].kind /\ hd'[v].pc = hd[v].pc /\ hd'[v].todo = hd[v].todo
              /\ hd[v].pc \in {"local", "merge"} => hd'[v].late = TRUE
  <2>1. ListOK(hd[v])
    BY DEF ListInv
  <2>2. CASE hd[v].pc \in {"local", "merge"}
    <3>1. hd'[v] = [hd[v] EXCEPT !.late = TRUE]
      BY <1>1, <1>5, <1>10, <2>2
    <3> DEFINE M == [hd[v] EXCEPT !.late = TRUE]
    <3>2. M.late = TRUE /\ M.pc = hd[v].pc /\ M.kind = hd[v].kind /\ M.names = hd[v].names /\ M.failed = hd[v].failed
          /\ M.local = hd[v].local /\ M.missing = hd[v].missing /\ M.todo = hd[v].todo
          /\ M.mailed = hd[v].mailed /\ M.err = hd[v].err
      BY <1>2, IdleIs
    <3> HIDE DEF M
    <3>3. ListOK(M)
      BY <2>1, <3>2 DEF ListOK
    <3> QED  BY <3>1, <3>2, <3>3 DEF M
  <2>3. CASE hd[v].pc \notin {"local", "merge"}
    BY <1>1, <1>5, <1>10, <2>1, <2>3
  <2> QED  BY <2>2, <2>3
<1>11. ASSUME ~raced'
       PROVE  event \subseteq event' /\ reached' \subseteq event'
  <2>1. ~raced /\ Current(hd[w]) /\ reached \subseteq event /\ ~hd[w].late
    BY <1>6, <1>7, <1>11 DEF ListInv
  <2>2. event = hd[w].lines
    BY <2>1 DEF Current
  <2> QED  BY <1>6, <2>1, <2>2
<1>12. ASSUME ~raced', NEW v \in Handler  PROVE Current(hd[v])'
  <2>1. CASE v = w
    <3>1. ~raced /\ Current(hd[w]) /\ ~hd[w].late
      BY <1>6, <1>7, <1>12 DEF ListInv
    <3>2. L.pc \in Mailing => Range(L.todo) \subseteq event'
      BY <1>4, <1>6, <1>8 DEF Mailing, Sending
    <3>3. event' = L.lines
      BY <1>4, <1>6
    <3> QED  BY <1>5, <2>1, <3>2, <3>3 DEF Current
  <2>2. CASE v # w
    <3>1. Current(hd[v])
      BY <1>6, <1>7, <1>12 DEF ListInv
    <3>2. hd'[v].kind = "invite" /\ hd'[v].pc \in Mailing => Range(hd'[v].todo) \subseteq event'
      BY <1>10, <1>11, <1>12, <2>2, <3>1 DEF Current
    <3>3. ~(hd'[v].pc \in {"local", "merge"} /\ ~hd'[v].late)
      BY <1>10, <2>2
    <3> QED  BY <3>2, <3>3 DEF Current
  <2> QED  BY <2>1, <2>2
<1>13. ASSUME NEW v \in Handler  PROVE ListOK(hd[v])'
  <2>1. ListOK(hd'[v])
    BY <1>5, <1>9, <1>10
  <2> QED  BY <2>1 DEF ListOK
<1> QED  BY <1>6, <1>7, <1>11, <1>12, <1>13 DEF ListInv

(* A message was sent, or was not.                                         *)
LEMMA MessageKeepsList ==
  ASSUME Shape, IdsOK, ListInv, NEW w \in Handler, NEW how \in {"sent", "failed"}, AfterMessage(w, how),
         hd[w].pc \in {"deliver", "fail", "server"},
         UNCHANGED <<event, raced>>,
         reached' \subseteq reached \cup (IF hd[w].kind = "invite" THEN {Head(hd[w].todo)} ELSE {})
  PROVE  ListInv'
<1> DEFINE pc == IF Len(hd[w].todo) = 1 THEN "answered" ELSE IF hd[w].id = 0 THEN "server" ELSE "send"
           L == [hd[w] EXCEPT !.todo = Tail(@), !.pc = pc,
                              !.mailed = IF how = "sent" THEN @ \cup {Head(hd[w].todo)} ELSE @,
                              !.err = @ \/ how = "failed"]
<1>1. hd' = [hd EXCEPT ![w] = L]
  BY DEF AfterMessage, Shape
<1>2. DOMAIN hd[w] = DOMAIN Idle
  BY DEF Shape
<1>3. /\ L.pc = pc /\ L.kind = hd[w].kind /\ L.names = hd[w].names /\ L.failed = hd[w].failed /\ L.local = hd[w].local
      /\ L.missing = hd[w].missing /\ L.late = hd[w].late /\ L.lines = hd[w].lines
      /\ L.todo = Tail(hd[w].todo) /\ L.err = (hd[w].err \/ how = "failed")
      /\ L.mailed = IF how = "sent" THEN hd[w].mailed \cup {Head(hd[w].todo)} ELSE hd[w].mailed
  BY <1>2, IdleIs
<1>4. /\ pc \in {"answered", "server", "send"}
      /\ hd[w].pc # "server" => pc # "server"
      /\ pc = "answered" <=> Len(hd[w].todo) = 1
  <2>1. hd[w].pc # "server" => hd[w].id # 0
    BY DEF IdsOK, HasId, Sending
  <2> QED  BY <2>1
<1> HIDE DEF L, pc
<1>5. ListOK(hd[w]) /\ (~raced => Current(hd[w]) /\ reached \subseteq event)
  BY DEF ListInv
<1>6. CASE hd[w].kind # "invite"
  <2>1. hd[w].pc # "server"
    BY <1>5, <1>6 DEF ListOK, Sending
  <2>2. L.kind # "invite" /\ L.pc \in Sending \cup {"idle", "exchange", "upsert", "answered"}
    BY <1>3, <1>4, <1>6, <2>1 DEF Sending
  <2>3. ListOK(L) /\ Current(L)
    BY <2>2 DEF ListOK, Current, Sending
  <2> QED  BY <1>1, <1>5, <1>6, <2>3, OneKeepsList
<1>7. CASE hd[w].kind = "invite"
  <2>1. hd[w].todo \in Seq(Ident) /\ hd[w].todo # <<>> /\ hd[w].pc \in Mailing /\ hd[w].err \in BOOLEAN
    BY <1>5, <1>7 DEF ListOK, Mailing, Sending
  <2>2. /\ Head(hd[w].todo) \in Ident /\ L.todo \in Seq(Ident)
        /\ Range(hd[w].todo) = {Head(hd[w].todo)} \cup Range(L.todo)
        /\ pc = "answered" <=> L.todo = <<>>
    BY <1>3, <1>4, <2>1, TailIs
  <2>3. pc = "answered" => Range(L.todo) = {}
    BY <2>2, EmptyRange
  <2>4. ListOK(L)
    <3>1. L.names \in Invitees /\ L.todo \in Seq(Ident) /\ L.err \in BOOLEAN /\ L.late \in BOOLEAN
      BY <1>3, <1>5, <1>7, <2>1, <2>2 DEF ListOK
    <3>2. L.local = LookUp(L.names, L.failed).local /\ L.missing = LookUp(L.names, L.failed).missing
      BY <1>3, <1>5, <1>7 DEF ListOK
    <3>3. L.pc \in Mailing \ {"list"} => L.todo # <<>>
      BY <1>3, <2>2 DEF Mailing, Sending
    <3>4. L.mailed \subseteq Ext(L.names, L.failed) /\ Range(L.todo) \subseteq Ext(L.names, L.failed)
      BY <1>3, <1>5, <1>7, <2>2 DEF ListOK
    <3>5. ASSUME ~L.err
          PROVE  Ext(L.names, L.failed) \ LocalBox \subseteq L.mailed \cup (IF L.pc = "answered" THEN {} ELSE Range(L.todo))
      <4>1. ~hd[w].err /\ how = "sent" /\ L.mailed = hd[w].mailed \cup {Head(hd[w].todo)}
        BY <1>3, <2>1, <3>5
      <4>2. Ext(L.names, L.failed) \ LocalBox \subseteq hd[w].mailed \cup Range(hd[w].todo)
        BY <1>3, <1>5, <1>7, <2>1, <4>1 DEF ListOK, Mailing, Sending
      <4> QED  BY <1>3, <2>2, <2>3, <4>1, <4>2
    <3>6. L.pc \notin {"local", "merge"}
      BY <1>3, <1>4
    <3> QED  BY <1>3, <1>7, <3>1, <3>2, <3>3, <3>4, <3>5, <3>6 DEF ListOK
  <2>5. ASSUME ~raced
        PROVE  Current(L) /\ reached' \subseteq event
    <3>1. Range(hd[w].todo) \subseteq event /\ reached \subseteq event
      BY <1>5, <1>7, <2>1, <2>5 DEF Current
    <3> QED  BY <1>3, <1>4, <1>7, <2>2, <3>1 DEF Current
  <2> QED  BY <1>1, <2>4, <2>5, OneKeepsList
<1> QED  BY <1>6, <1>7

(* With an account or without.                                             *)
LEMMA ListAccountsKeepsList ==
  ASSUME Shape, ListInv, NEW w \in Handler, ListConnectedAccounts(w)
  PROVE  ListInv'
<1> DEFINE L1 == [hd[w] EXCEPT !.pc = "answered"]
           L2 == [hd[w] EXCEPT !.pc = "server"]
           L3 == [hd[w] EXCEPT !.pc = "account", !.key = pickAccountID, !.id = accounts[pickAccountID].id]
<1>1. /\ hd' = [hd EXCEPT ![w] = IF hd[w].todo = <<>> THEN L1
                                 ELSE IF Connected({"google", "microsoft", "smtp"}) = {} THEN L2 ELSE L3]
      /\ UNCHANGED <<event, raced, reached>> /\ hd[w].pc = "list" /\ DOMAIN hd[w] = DOMAIN Idle
  BY DEF ListConnectedAccounts, mailVars, Shape
<1>2. CASE hd[w].todo = <<>>
  <2>1. hd' = [hd EXCEPT ![w] = L1]
    BY <1>1, <1>2
  <2>2. /\ L1.pc = "answered" /\ L1.kind = hd[w].kind /\ L1.names = hd[w].names /\ L1.failed = hd[w].failed /\ L1.local = hd[w].local
        /\ L1.missing = hd[w].missing /\ L1.late = hd[w].late /\ L1.todo = hd[w].todo
        /\ L1.mailed = hd[w].mailed /\ L1.err = hd[w].err
    BY <1>1, IdleIs
  <2> HIDE DEF L1
  <2> QED  BY <1>1, <1>2, <2>1, <2>2, EndKeepsList
<1>3. CASE hd[w].todo # <<>> /\ Connected({"google", "microsoft", "smtp"}) = {}
  <2>1. hd' = [hd EXCEPT ![w] = L2]
    BY <1>1, <1>3
  <2>2. Kept(hd[w], L2) /\ L2.pc = "server"
    BY <1>1, IdleIs DEF Kept
  <2> HIDE DEF L2
  <2> QED  BY <1>1, <1>3, <2>1, <2>2, MoveKeepsList
<1>4. CASE hd[w].todo # <<>> /\ Connected({"google", "microsoft", "smtp"}) # {}
  <2>1. hd' = [hd EXCEPT ![w] = L3]
    BY <1>1, <1>4
  <2>2. Kept(hd[w], L3) /\ L3.pc = "account"
    BY <1>1, IdleIs DEF Kept
  <2> HIDE DEF L3
  <2> QED  BY <1>1, <1>4, <2>1, <2>2, MoveKeepsList
<1> QED  BY <1>2, <1>3, <1>4

LEMMA AccountByIdKeepsList ==
  ASSUME Shape, ListInv, NEW w \in Handler, ConnectedAccountByID(w)
  PROVE  ListInv'
<1> DEFINE L1 == [hd[w] EXCEPT !.pc = "server", !.id = 0]
           L2 == [hd[w] EXCEPT !.pc = "send", !.tok = accounts[hd[w].key].tok]
<1>1. /\ hd' = [hd EXCEPT ![w] = L1] \/ hd' = [hd EXCEPT ![w] = L2]
      /\ UNCHANGED <<event, raced, reached>>
      /\ hd[w].pc = "account" /\ DOMAIN hd[w] = DOMAIN Idle
  BY DEF ConnectedAccountByID, mailVars, Shape
<1>2. Kept(hd[w], L1) /\ L1.pc = "server" /\ Kept(hd[w], L2) /\ L2.pc = "send"
  BY <1>1, IdleIs DEF Kept
<1>3. hd[w].kind = "invite"
  BY <1>1 DEF ListInv, ListOK, Sending
<1>4. hd[w].todo # <<>>
  BY <1>1, <1>3 DEF ListInv, ListOK, Mailing
<1> HIDE DEF L1, L2
<1> QED  BY <1>1, <1>2, <1>4, MoveKeepsList DEF Sending

(* One of the steps of an invitation fails.                                *)
LEMMA FailsKeepsList ==
  ASSUME Shape, ListInv, NEW w \in Handler, InviteFails(w) \/ NoSender(w)
  PROVE  ListInv'
<1> DEFINE L == [hd[w] EXCEPT !.pc = "answered", !.err = TRUE]
<1>1. /\ hd' = [hd EXCEPT ![w] = L] /\ UNCHANGED <<event, raced, reached>>
      /\ DOMAIN hd[w] = DOMAIN Idle
  BY DEF InviteFails, NoSender, mailVars, Shape
<1>2. /\ L.pc = "answered" /\ L.kind = hd[w].kind /\ L.names = hd[w].names /\ L.failed = hd[w].failed /\ L.local = hd[w].local
      /\ L.missing = hd[w].missing /\ L.late = hd[w].late /\ L.todo = hd[w].todo
      /\ L.mailed = hd[w].mailed /\ L.err = TRUE
  BY <1>1, IdleIs
<1> HIDE DEF L
<1> QED  BY <1>1, <1>2, EndKeepsList

(* Steps of Connected.                                                     *)
LEMMA ConnectKeepsList ==
  ASSUME Shape, ListInv, ConnectStep, UNCHANGED mailVars
  PROVE  ListInv'
<1>1. UNCHANGED <<event, raced, reached>>
  BY DEF mailVars
<1>2. ASSUME UNCHANGED hd  PROVE ListInv'
  BY <1>1, <1>2, StillKeepsList
<1>3. ASSUME NEW w \in Handler, NEW L, hd' = [hd EXCEPT ![w] = L], L = Idle \/ (L.kind = "callback" /\ L.pc = "exchange")
      PROVE  ListInv'
  <2>1. L.kind # "invite" /\ L.pc \in {"idle", "exchange"}
    BY <1>3 DEF Idle
  <2> QED  BY <1>1, <1>3, <2>1, FreshKeepsList
<1>4. ASSUME NEW w \in Handler, NEW f, NEW p, TakeOAuthState(w, f, p)  PROVE ListInv'
  <2> DEFINE L == [Idle EXCEPT !.pc = "exchange", !.kind = "callback", !.flow = f, !.key = <<p, None>>]
  <2>1. hd' = [hd EXCEPT ![w] = IF p = flows[f].provider THEN L ELSE Idle]
    BY <1>4 DEF TakeOAuthState, Start
  <2>2. L.kind = "callback" /\ L.pc = "exchange"
    BY DEF Idle
  <2> HIDE DEF L
  <2> QED  BY <1>3, <2>1, <2>2
<1>5. ASSUME NEW w \in Handler, Connect(w) \/ Abandon(w)  PROVE ListInv'
  <2>1. hd' = [hd EXCEPT ![w] = Idle]
    BY <1>5 DEF Connect, Abandon, Finish
  <2> QED  BY <1>3, <2>1
<1>6. ASSUME NEW w \in Handler, Exchange(w)  PROVE ListInv'
  <2>1. PICK k \in Mailbox :
          hd' = [hd EXCEPT ![w].pc = "upsert", ![w].key = k,
                           ![w].next = [access |-> issued', refresh |-> issued']]
    BY <1>6 DEF Exchange
  <2> DEFINE L == [hd[w] EXCEPT !.pc = "upsert", !.key = k,
                                !.next = [access |-> issued', refresh |-> issued']]
  <2>2. hd' = [hd EXCEPT ![w] = L] /\ hd[w].pc = "exchange" /\ DOMAIN hd[w] = DOMAIN Idle
    BY <1>6, <2>1 DEF Exchange, Shape
  <2>3. Kept(hd[w], L) /\ L.pc = "upsert"
    BY <2>2, IdleIs DEF Kept
  <2> HIDE DEF L
  <2> QED  BY <1>1, <2>2, <2>3, MoveKeepsList
<1>7. ASSUME NEW w \in Handler, ensureAccess(w) \/ Refresh(w) \/ SaveConnectedTokens(w) \/ SendFails(w)
      PROVE  ListInv'
  <2>1. DOMAIN hd[w] = DOMAIN Idle /\ DOMAIN hd = Handler /\ hd[w].pc \in Sending
    BY <1>7 DEF Shape, ensureAccess, Refresh, SaveConnectedTokens, SendFails, Sending
  <2>2. ASSUME NEW pc \in Sending, NEW tok, NEW next,
               hd' = [hd EXCEPT ![w].pc = pc, ![w].tok = tok, ![w].next = next]
        PROVE  ListInv'
    <3> DEFINE L == [hd[w] EXCEPT !.pc = pc, !.tok = tok, !.next = next]
    <3>1. hd' = [hd EXCEPT ![w] = L]
      BY <2>1, <2>2
    <3>2. Kept(hd[w], L) /\ L.pc = pc
      BY <2>1, IdleIs DEF Kept
    <3> HIDE DEF L
    <3> QED  BY <1>1, <2>1, <3>1, <3>2, MoveKeepsList
  <2>3. CASE ensureAccess(w)
    <3> DEFINE pc == IF OAuth(hd[w].key) /\ Expired(hd[w].tok) THEN "refresh" ELSE "deliver"
    <3>1. hd' = [hd EXCEPT ![w].pc = pc]
      BY <2>3 DEF ensureAccess, Goto
    <3>2. pc \in Sending
      BY DEF Sending
    <3> HIDE DEF pc
    <3>3. hd' = [hd EXCEPT ![w].pc = pc, ![w].tok = hd[w].tok, ![w].next = hd[w].next]
      BY <2>1, <3>1
    <3> QED  BY <2>2, <3>2, <3>3
  <2>4. CASE Refresh(w)
    <3> DEFINE next == [access |-> issued',
                        refresh |-> IF hd[w].key[1] \in Rotates THEN issued' ELSE hd[w].tok.refresh]
    <3>1. hd' = [hd EXCEPT ![w].pc = "save", ![w].next = next]
      BY <2>4 DEF Refresh
    <3> HIDE DEF next
    <3>2. hd' = [hd EXCEPT ![w].pc = "save", ![w].tok = hd[w].tok, ![w].next = next]
      BY <2>1, <3>1
    <3> QED  BY <2>2, <3>2 DEF Sending
  <2>5. CASE SaveConnectedTokens(w)
    <3>1. hd' = [hd EXCEPT ![w].pc = "deliver", ![w].tok = hd[w].next, ![w].next = NoToken]
      BY <2>5 DEF SaveConnectedTokens
    <3> QED  BY <2>2, <3>1 DEF Sending
  <2>6. CASE SendFails(w)
    <3>1. hd' = [hd EXCEPT ![w].pc = "fail", ![w].next = NoToken]
      BY <2>6 DEF SendFails
    <3>2. hd' = [hd EXCEPT ![w].pc = "fail", ![w].tok = hd[w].tok, ![w].next = NoToken]
      BY <2>1, <3>1
    <3> QED  BY <2>2, <3>2 DEF Sending
  <2> QED  BY <1>7, <2>3, <2>4, <2>5, <2>6
<1>8. CASE (\E k \in Mailbox : saveSMTPAccount(k) \/ deleteAccount(k)) \/ TokensExpire
           \/ \E f \in Flow : FlowExpires(f) \/ \E k \in Mailbox : startOAuth(f, k[1])
  BY <1>2, <1>8 DEF saveSMTPAccount, deleteAccount, TokensExpire, FlowExpires, startOAuth
<1> QED  BY <1>4, <1>5, <1>6, <1>7, <1>8 DEF ConnectStep

LEMMA InitList == Init => ListInv
<1> SUFFICES ASSUME Init  PROVE ListInv
  OBVIOUS
<1>1. \A w \in Handler : hd[w] = Idle
  BY DEF Init, InitConnected
<1>2. event = {} /\ reached = {} /\ raced = FALSE
  BY DEF Init
<1>3. ListOK(Idle) /\ Current(Idle)
  BY DEF ListOK, Current, Idle
<1> QED  BY <1>1, <1>2, <1>3 DEF ListInv

LEMMA StepKeepsList == Inv /\ ListInv /\ [Next]_vars => ListInv'
<1> SUFFICES ASSUME Inv, ListInv, [Next]_vars  PROVE ListInv'
  OBVIOUS
<1>1. Shape /\ Typed /\ IdsOK
  BY DEF Inv
<1>2. CASE ConnectStep /\ UNCHANGED mailVars
  BY <1>1, <1>2, ConnectKeepsList
<1>3. ASSUME NEW w \in Handler, NEW names \in Invitees, NEW failed, sendInvites(w, names, failed)
      PROVE  ListInv'
  BY <1>1, <1>3, SendInvitesKeepsList
<1>4. ASSUME NEW w \in Handler, NEW k \in Mailbox, testAccount(w, k)
      PROVE  ListInv'
  BY <1>1, <1>4, TestKeepsList
<1>5. ASSUME NEW w \in Handler, ApplyLocalInvite(w)
      PROVE  ListInv'
  <2> DEFINE boxes == {u.box : u \in hd[w].local}
             pc == IF hd[w].todo = <<>> THEN "answered" ELSE "merge"
  <2>1. WriteEvent(w, boxes, pc) /\ hd[w].pc = "local" /\ reached' = reached \cup boxes
    BY <1>5 DEF ApplyLocalInvite
  <2>2. (pc = "answered" /\ hd[w].todo = <<>>) \/ pc = "merge"
    OBVIOUS
  <2> HIDE DEF boxes, pc
  <2> QED  BY <1>1, <2>1, <2>2, WriteKeepsList
<1>6. ASSUME NEW w \in Handler, MergeExternalEmails(w)
      PROVE  ListInv'
  <2>1. WriteEvent(w, Range(hd[w].todo), "list") /\ hd[w].pc = "merge" /\ reached' = reached
    BY <1>6 DEF MergeExternalEmails
  <2> QED  BY <1>1, <2>1, WriteKeepsList
<1>7. ASSUME NEW w \in Handler, InviteFails(w) \/ NoSender(w)
      PROVE  ListInv'
  BY <1>1, <1>7, FailsKeepsList
<1>8. ASSUME NEW w \in Handler, ListConnectedAccounts(w) \/ ConnectedAccountByID(w)
      PROVE  ListInv'
  BY <1>1, <1>8, ListAccountsKeepsList, AccountByIdKeepsList
<1>9. ASSUME NEW w \in Handler, Deliver(w) \/ NoteFailure(w) \/ SendMIME(w)
      PROVE  ListInv'
  <2>1. PICK how \in {"sent", "failed"} :
          AfterMessage(w, how) /\ hd[w].pc \in {"deliver", "fail", "server"} /\ UNCHANGED <<event, raced>>
    BY <1>9 DEF Deliver, NoteFailure, SendMIME, mailVars
  <2>2. hd[w].pc = "server" => hd[w].kind = "invite"
    BY DEF ListInv, ListOK, Sending
  <2>3. reached' \subseteq reached \cup (IF hd[w].kind = "invite" THEN {Head(hd[w].todo)} ELSE {})
    BY <1>9, <2>2 DEF Deliver, NoteFailure, SendMIME, mailVars
  <2> QED  BY <1>1, <2>1, <2>3, MessageKeepsList
<1>10. CASE UNCHANGED vars
  BY <1>10, StillKeepsList DEF vars, connVars, mailVars
<1> QED  BY <1>2, <1>3, <1>4, <1>5, <1>6, <1>7, <1>8, <1>9, <1>10 DEF Next

LEMMA ListHolds == Spec => []ListInv
<1> QED  BY InitInv, StepKeepsInv, InitList, StepKeepsList, PTL DEF Spec

(* Whoever has got the invitation is an attendee of the stored event,      *)
(* unless an invitation has written over another one's (schedule/local.go  *)
(* ApplyLocalInvite, MergeExternalEmails).                                 *)
THEOREM ListGuarantee == Spec => []InvitedAreListed
<1>1. ListInv => InvitedAreListed
  BY DEF ListInv, InvitedAreListed
<1> QED  BY <1>1, ListHolds, PTL

(* What the answer to an invitation says of each who was typed.            *)
LEMMA AnsweredAccounts ==
  ASSUME FoundByAddress, ListInv, NEW w \in Handler,
         hd[w].pc = "answered", hd[w].kind = "invite", ~hd[w].err, NEW i \in Range(hd[w].names)
  PROVE  LET d == Denotes(i) IN
         /\ \/ d = Self \/ (d \in User /\ ~d.active)
            \/ d \in hd[w].local \/ i \in hd[w].missing
            \/ {i, AddrOf[i]} \cap hd[w].mailed # {}
            \/ \E j \in Range(hd[w].names) :
                 Displayed(j) /\ AddrOf[j] \in {i, AddrOf[i]} \cap LocalBox
         /\ d \in User /\ d \in hd[w].local /\ d.email \in hd[w].mailed =>
              \/ Displayed(FirstTyped(hd[w].names, d))
              \/ \E m \in hd[w].failed : Denotes(hd[w].names[m]) = d
<1> DEFINE names == hd[w].names
           d == Denotes(i)
           failed == hd[w].failed
           acc == LookUp(names, failed)
           n == Len(names)
           ext == Range(acc.external)
<1>1. /\ names \in Seq(Ident) /\ hd[w].local = acc.local /\ hd[w].missing = acc.missing
      /\ hd[w].mailed \subseteq ext /\ ext \ LocalBox \subseteq hd[w].mailed
  <2>1. ListOK(hd[w])
    BY DEF ListInv
  <2>2. names \in Invitees /\ hd[w].local = acc.local /\ hd[w].missing = acc.missing
        /\ hd[w].mailed \subseteq ext
    BY <2>1 DEF ListOK, Ext
  <2>3. ext \ LocalBox \subseteq hd[w].mailed
    BY <2>1 DEF ListOK, Ext
  <2> QED  BY <2>2, <2>3, IdentAssumption
<1> HIDE DEF names, failed
<1>2. HeardAll(acc, names, failed, n)
  BY <1>1, LookUpHears
<1>3. n \in Nat /\ DOMAIN names = 1..n /\ \A m \in 1..n : names[m] \in Ident
  BY <1>1
<1>4. PICK m \in 1..n : names[m] = i
  BY <1>3 DEF Range, names
<1>5. Heard(acc, i) /\ i \in Ident
  BY <1>2, <1>3, <1>4 DEF HeardAll
<1> HIDE DEF acc, n, d
<1>6. \/ d = Self \/ (d \in User /\ ~d.active)
      \/ d \in hd[w].local \/ i \in hd[w].missing
      \/ {i, AddrOf[i]} \cap hd[w].mailed # {}
      \/ \E j \in Range(names) : Displayed(j) /\ AddrOf[j] \in {i, AddrOf[i]} \cap LocalBox
  <2>1. CASE d \in User /\ ~Invitable(d)
    BY <2>1 DEF Invitable
  <2>2. CASE d \in acc.local \/ i \in acc.missing
    BY <1>1, <2>2
  <2>3. ASSUME NEW e \in {i, AddrOf[i]} \cap ext
        PROVE  \/ {i, AddrOf[i]} \cap hd[w].mailed # {}
               \/ \E j \in Range(names) : Displayed(j) /\ AddrOf[j] \in {i, AddrOf[i]} \cap LocalBox
    <3>1. CASE e \notin LocalBox
      BY <1>1, <2>3, <3>1
    <3>2. CASE e \in LocalBox
      <4>1. e # None /\ \E k \in 1..n : names[k] \notin LocalBox /\ AddrOf[names[k]] = e
        BY <1>2, <2>3 DEF HeardAll
      <4>2. PICK k \in 1..n : names[k] \notin LocalBox /\ AddrOf[names[k]] = e
        BY <4>1
      <4>3. Displayed(names[k])
        BY <3>2, <4>1, <4>2 DEF Displayed
      <4>4. names[k] \in Range(names)
        BY <1>3 DEF Range
      <4> QED  BY <2>3, <3>2, <4>2, <4>3, <4>4
    <3> QED  BY <3>1, <3>2
  <2> QED  BY <1>5, <2>1, <2>2, <2>3 DEF Heard, d
<1>7. ASSUME d \in User, d \in hd[w].local, d.email \in hd[w].mailed
      PROVE  Displayed(FirstTyped(names, d)) \/ Missed(names, failed, d)
  <2>1. Invitable(d) /\ d.email \in ext
    BY <1>1, <1>2, <1>7 DEF HeardAll
  <2>2. FirstDisplayed(names, failed, n, d) /\ Typed1(names, n, d)
    BY <1>2, <2>1 DEF HeardAll
  <2> DEFINE At == {k \in 1..n : Denotes(names[k]) = d}
             First(k) == Denotes(names[k]) = d /\ \A l \in 1..k-1 : Denotes(names[l]) # d
  <2>3. \E k \in DOMAIN names : First(k)
    <3>1. At # {} /\ At \in SUBSET Nat
      BY <1>3, <2>2 DEF Typed1
    <3>2. PICK k \in At : \A l \in At : k <= l
      BY <3>1, Least
    <3>3. \A l \in 1..k-1 : l \in 1..n /\ ~(k <= l)
      BY <1>3, <3>2
    <3> QED  BY <1>3, <3>2, <3>3
  <2> DEFINE f == CHOOSE k \in DOMAIN names : First(k)
  <2>4. f \in DOMAIN names /\ First(f)
    BY <2>3
  <2>5. FirstTyped(names, d) = names[f]
    BY DEF FirstTyped
  <2> HIDE DEF f
  <2> QED  BY <1>3, <2>2, <2>4, <2>5 DEF FirstDisplayed
<1> QED  BY <1>6, <1>7 DEF names, failed, d, Missed

(* When no user's own address is another's mailbox here: an invitation     *)
(* that reports no error accounts for each who was typed, and invites      *)
(* nobody twice, but for the three gaps of Accounted (api/mail.go          *)
(* sendInvites).                                                           *)
THEOREM InviteGuarantee ==
  ASSUME FoundByAddress
  PROVE  Spec => []Accounted
<1>1. ListInv => Accounted
  BY AnsweredAccounts DEF Accounted
<1> QED  BY <1>1, ListHolds, PTL
=============================================================================
