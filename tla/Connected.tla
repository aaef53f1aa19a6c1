----------------------------- MODULE Connected -----------------------------
(***************************************************************************)
(* The connected e-mail accounts of one user: how an account is connected  *)
(* by OAuth or SMTP, and how its tokens are refreshed and kept while       *)
(* messages are sent with them.                                            *)
(*                                                                         *)
(* A request is a sequence of statements on connected_accounts and         *)
(* oauth_states and of calls to the provider; others run in between, and   *)
(* a request may end early.  Tokens are numbers in the order in which the  *)
(* provider issues them.  What is sent, and for what, is module Mail's.    *)
(***************************************************************************)
EXTENDS Naturals, Sequences, SequencesExt

CONSTANTS
  Mailbox,     \* <<provider, e-mail address>> of the user's mailboxes
  Rotates,     \* providers that answer a refresh with a new refresh token
               \* and honour the old one no longer
  OwnEmail,    \* the e-mail address of the user's account here
  Flow,        \* values of the OAuth state parameter
  Handler,     \* requests in progress
  None,
  MaxGrants,   \* bound on the tokens ever issued
  MaxRequests  \* bound on the number of requests

Provider == {"google", "microsoft", "smtp"}
Tok == [access : 0..MaxGrants, refresh : 0..MaxGrants]
Row == [id : Nat \ {0}, status : {"connected", "error"}, tok : Tok]
FlowRow == [provider : Provider, row : {"valid", "expired", "gone"}]

ASSUME MailboxAssumption == \A k \in Mailbox : k[1] \in Provider
ASSUME BoundAssumption == MaxGrants \in Nat /\ MaxRequests \in Nat
ASSUME NoneAssumption == None \notin Row \cup FlowRow

VARIABLES
  accounts,  \* connected_accounts: mailbox -> row or None
  nextId,    \* AUTOINCREMENT: no id is used again
  flows,     \* oauth_states: state -> [provider, row], None before it is drawn
  codes,     \* history: how often the code of a flow was presented
  issued,    \* how many tokens the provider has issued
  live,      \* the refresh tokens it honours
  stale,     \* access tokens up to this one are expired
  hd,        \* locals of each request
  requests,  \* how many requests have started
  cut        \* history: mailboxes a refresh of whose tokens was not stored

stored == <<accounts, nextId>>
provider == <<issued, live, stale>>
connVars == <<stored, flows, codes, provider, hd, requests, cut>>

NoToken == [access |-> 0, refresh |-> 0]
Idle == [pc |-> "idle", kind |-> "none", flow |-> None, key |-> <<None, None>>, id |-> 0, tok |-> NoToken,
         next |-> NoToken, late |-> FALSE, todo |-> <<>>, names |-> <<>>, failed |-> {}, local |-> {},
         missing |-> {}, lines |-> {}, mailed |-> {}, err |-> FALSE]

InitConnected ==
  /\ accounts = [k \in Mailbox |-> None] /\ nextId = 1
  /\ flows = [f \in Flow |-> None] /\ codes = [f \in Flow |-> 0]
  /\ issued = 0 /\ live = {} /\ stale = 0
  /\ hd = [w \in Handler |-> Idle] /\ requests = 0
  /\ cut = {}

Counted ==
  /\ requests < MaxRequests
  /\ requests' = requests + 1
Start(w, locals) ==
  /\ hd[w].pc \in {"idle", "answered"}
  /\ Counted
  /\ hd' = [hd EXCEPT ![w] = locals]
Goto(w, pc) == hd' = [hd EXCEPT ![w].pc = pc]
Finish(w) == hd' = [hd EXCEPT ![w] = Idle]

-----------------------------------------------------------------------------
(* Rows of connected_accounts.                                             *)

OAuth(k) == k[1] # "smtp"

(* The mailbox whose row has the id, if there is one.                      *)
RowWithId(id) == {k \in Mailbox : accounts[k] # None /\ accounts[k].id = id}

(* Mutant: without AUTOINCREMENT the highest id in use is followed.        *)
UpsertReusesId(k, tok) ==
  LET ids == {accounts[j].id : j \in {j \in Mailbox : accounts[j] # None}} IN
  /\ accounts' = [accounts EXCEPT ![k] =
       [id |-> IF @ # None THEN @.id ELSE CHOOSE i \in 1..nextId : i \notin ids /\ \A j \in ids : j < i,
        status |-> "connected", tok |-> tok]]
  /\ nextId' = nextId
  /\ cut' = cut \ {k}

UpsertConnectedAccount(k, tok) ==
  /\ accounts' = [accounts EXCEPT ![k] =
       [id |-> IF @ = None THEN nextId ELSE @.id, status |-> "connected", tok |-> tok]]
  /\ nextId' = IF accounts[k] = None THEN nextId + 1 ELSE nextId
  /\ cut' = cut \ {k}

saveSMTPAccount(k) ==
  /\ ~OAuth(k) /\ Counted
  /\ UpsertConnectedAccount(k, NoToken)
  /\ UNCHANGED <<flows, codes, provider, hd>>

deleteAccount(k) ==
  /\ accounts[k] # None /\ Counted
  /\ accounts' = [accounts EXCEPT ![k] = None]
  /\ UNCHANGED <<nextId, flows, codes, provider, hd, cut>>

-----------------------------------------------------------------------------
(* Connecting by OAuth.                                                    *)

Has(f, row) == flows[f] # None /\ flows[f].row = row

(* startOAuth, PutOAuthState: expired states are deleted first.            *)
startOAuth(f, p) ==
  /\ flows[f] = None /\ Counted
  /\ flows' = [g \in Flow |-> IF g = f THEN [provider |-> p, row |-> "valid"]
                              ELSE IF Has(g, "expired") THEN [flows[g] EXCEPT !.row = "gone"] ELSE flows[g]]
  /\ UNCHANGED <<stored, codes, provider, hd, cut>>

(* Ten minutes have passed.                                                *)
FlowExpires(f) ==
  /\ Has(f, "valid")
  /\ flows' = [flows EXCEPT ![f].row = "expired"]
  /\ UNCHANGED <<stored, codes, provider, hd, requests, cut>>

(* Mutant: the state is read and not deleted.                              *)
ReadOAuthState(w, f, p) ==
  /\ Has(f, "valid")
  /\ Start(w, IF p = flows[f].provider
              THEN [Idle EXCEPT !.pc = "exchange", !.kind = "callback", !.flow = f, !.key = <<p, None>>]
              ELSE Idle)
  /\ UNCHANGED <<stored, flows, codes, provider, cut>>

(* oauthCallback as far as TakeOAuthState, one transaction, and the look   *)
(* at the provider in the URL.  A state that is not there or has expired   *)
(* (the delete is rolled back) ends the request and changes nothing.       *)
TakeOAuthState(w, f, p) ==
  /\ Has(f, "valid")
  /\ flows' = [flows EXCEPT ![f].row = "gone"]
  /\ Start(w, IF p = flows[f].provider
              THEN [Idle EXCEPT !.pc = "exchange", !.kind = "callback", !.flow = f, !.key = <<p, None>>]
              ELSE Idle)
  /\ UNCHANGED <<stored, codes, provider, cut>>

(* The provider issues an access token and, at a grant, a refresh token.   *)
Issue == issued < MaxGrants /\ issued' = issued + 1

(* Exchange and Email: a new grant for the mailbox the user has chosen.    *)
Exchange(w) ==
  /\ hd[w].pc = "exchange"
  /\ Issue /\ live' = live \cup {issued'}
  /\ codes' = [codes EXCEPT ![hd[w].flow] = @ + 1]
  /\ \E k \in Mailbox : k[1] = hd[w].key[1] /\
       hd' = [hd EXCEPT ![w].pc = "upsert", ![w].key = k,
                        ![w].next = [access |-> issued', refresh |-> issued']]
  /\ UNCHANGED <<stored, flows, stale, requests, cut>>

(* Seal and UpsertConnectedAccount.                                        *)
Connect(w) ==
  /\ hd[w].pc = "upsert"
  /\ UpsertConnectedAccount(hd[w].key, hd[w].next)
  /\ Finish(w)
  /\ UNCHANGED <<flows, codes, provider, requests>>

-----------------------------------------------------------------------------
(* Sending with an account: the request holds the row as it read it, in    *)
(* key, id and tok, for all of its messages.                               *)

(* An hour has passed: the access tokens issued so far have expired.       *)
TokensExpire ==
  /\ stale # issued
  /\ stale' = issued
  /\ UNCHANGED <<stored, flows, codes, issued, live, hd, requests, cut>>

Expired(tok) == tok.access <= stale

(* sendRFC822, ensureAccess: straight to the provider, or a refresh first. *)
ensureAccess(w) ==
  /\ hd[w].pc = "send"
  /\ Goto(w, IF OAuth(hd[w].key) /\ Expired(hd[w].tok) THEN "refresh" ELSE "deliver")
  /\ UNCHANGED <<stored, flows, codes, provider, requests, cut>>

(* The provider answers a refresh: rotating, with a new refresh token for  *)
(* the old one, or with none, and the old one is kept.                     *)
Refresh(w) ==
  LET old == hd[w].tok.refresh
      new == IF hd[w].key[1] \in Rotates THEN issued' ELSE old IN
  /\ hd[w].pc = "refresh" /\ old \in live
  /\ Issue
  /\ live' = (IF new = old THEN live ELSE live \ {old}) \cup {new}
  /\ hd' = [hd EXCEPT ![w].pc = "save", ![w].next = [access |-> issued', refresh |-> new]]
  /\ UNCHANGED <<stored, flows, codes, stale, requests, cut>>

(* Mutant: the refresh token that was there is kept.                       *)
SaveAccessOnly(w) ==
  /\ hd[w].pc = "save"
  /\ accounts' = [k \in Mailbox |-> IF k \in RowWithId(hd[w].id)
                    THEN [accounts[k] EXCEPT !.status = "connected", !.tok.access = hd[w].next.access]
                    ELSE accounts[k]]
  /\ cut' = cut \ RowWithId(hd[w].id)
  /\ hd' = [hd EXCEPT ![w].pc = "deliver", ![w].tok = hd[w].next, ![w].next = NoToken]
  /\ UNCHANGED <<nextId, flows, codes, provider, requests>>

(* The row, if it is still there, gets the tokens of this request.         *)
SaveConnectedTokens(w) ==
  /\ hd[w].pc = "save"
  /\ accounts' = [k \in Mailbox |-> IF k \in RowWithId(hd[w].id)
                    THEN [accounts[k] EXCEPT !.status = "connected", !.tok = hd[w].next]
                    ELSE accounts[k]]
  /\ cut' = cut \ RowWithId(hd[w].id)
  /\ hd' = [hd EXCEPT ![w].pc = "deliver", ![w].tok = hd[w].next, ![w].next = NoToken]
  /\ UNCHANGED <<nextId, flows, codes, provider, requests>>

(* History: what becomes of cut when w does not come to store its tokens.  *)
Lost(w) ==
  IF hd[w].pc # "save" THEN cut
  ELSE cut \cup {k \in RowWithId(hd[w].id) : accounts[k].tok.refresh \notin live}

(* Any call of sendRFC822 may fail; a refreshed token that is not stored   *)
(* is forgotten, and the request goes on with the one it had read.         *)
SendFails(w) ==
  /\ hd[w].pc \in {"refresh", "save", "deliver"}
  /\ hd' = [hd EXCEPT ![w].pc = "fail", ![w].next = NoToken]
  /\ cut' = Lost(w)
  /\ UNCHANGED <<stored, flows, codes, provider, requests>>

SetConnectedAccountError(w) ==
  accounts' = [k \in Mailbox |-> IF k \in RowWithId(hd[w].id)
                 THEN [accounts[k] EXCEPT !.status = "error"] ELSE accounts[k]]

(* The request ends early.                                                 *)
Abandon(w) ==
  /\ hd[w].pc \notin {"idle", "answered"}
  /\ Finish(w)
  /\ cut' = Lost(w)
  /\ UNCHANGED <<stored, flows, codes, provider, requests>>

ConnectStep ==
  \/ \E k \in Mailbox : saveSMTPAccount(k) \/ deleteAccount(k)
  \/ \E f \in Flow : \/ FlowExpires(f)
                     \/ \E k \in Mailbox : OAuth(k) /\ startOAuth(f, k[1])
                     \/ \E w \in Handler, k \in Mailbox : TakeOAuthState(w, f, k[1])
  \/ TokensExpire
  \/ \E w \in Handler : \/ Exchange(w) \/ Connect(w) \/ ensureAccess(w) \/ Refresh(w)
                        \/ SaveConnectedTokens(w) \/ SendFails(w) \/ Abandon(w)
-----------------------------------------------------------------------------
(* An account that is connected by OAuth can be used until the user takes  *)
(* the grant back: the refresh token that is stored is one the provider    *)
(* honours, however connects, sends, refreshes and deletions overlap; but  *)
(* while a request is about to store a new one, and after one has not come *)
(* to do so, which only a new connect repairs (api/mail.go ensureAccess).  *)
TokensLive ==
  \A k \in Mailbox :
    OAuth(k) /\ accounts[k] # None /\ accounts[k].tok.refresh \notin live =>
      k \in cut \/ \E w \in Handler : hd[w].pc = "save" /\ hd[w].id = accounts[k].id

(* A flow connects once: its state is gone when its code is presented, so  *)
(* that a repeated or forged callback does not present another for it      *)
(* (storage/accounts.go TakeOAuthState).                                   *)
FlowOnce == \A f \in Flow : codes[f] > 0 => codes[f] = 1 /\ ~Has(f, "valid")
=============================================================================
