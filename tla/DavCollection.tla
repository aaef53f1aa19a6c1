--------------------------- MODULE DavCollection ---------------------------
(***************************************************************************)
(* One DAV collection (a calendar or an address book) of dCalCon: its      *)
(* object rows, its change log dav_changes, its ctag, the request handlers *)
(* that write it and the clients that follow it.                           *)
(*                                                                         *)
(* Every SQL statement is atomic (storage.Open gives the pool a single     *)
(* connection), and a handler is a sequence of statements, so one action   *)
(* is one statement together with the local computation around it.  Code   *)
(* that runs under WithTx is a single action.  A request may end between   *)
(* two statements (its context is cancelled, a statement fails, the        *)
(* process dies): that is Abandon.                                         *)
(*                                                                         *)
(* An ETag is a hash of the stored body, so a body and its ETag are one    *)
(* value here.                                                             *)
(***************************************************************************)
EXTENDS Naturals, Sequences, FiniteSets

CONSTANTS
  Kind,        \* "calendar" or "addressbook"
  Href,        \* member names
  Body,        \* object bodies, equally their ETags
  Uid,         \* iCalendar / vCard UIDs
  UidOf,       \* the UID a body carries
  Handler,     \* write requests in progress
  SyncClient,  \* clients that follow the collection by sync-collection
  CtagClient,  \* clients that follow it by getctag
  NoRow,       \* there is no such row
  NoHref,      \* unset href local
  NoEtag,      \* the empty getetag of a 200 response
  NoToken,     \* a sync request without a token
  Unset, Star, \* an absent precondition header, and "*"
  IfMatch, IfNoneMatch, \* the header values requests carry
  MaxRequests  \* bound on the number of write requests

ASSUME KindAssumption == Kind \in {"calendar", "addressbook"}
ASSUME UidAssumption == UidOf \in [Body -> Uid]
ASSUME SentinelAssumption ==
  /\ NoRow \notin Body /\ NoEtag \notin Body /\ NoRow # NoEtag
  /\ NoHref \notin Href
  /\ NoToken \notin Nat
  /\ Unset \notin Body /\ Star \notin Body /\ Unset # Star
ASSUME HeaderAssumption ==
  IfMatch \cup IfNoneMatch \subseteq Body \cup {Unset, Star}
ASSUME BoundAssumption == MaxRequests \in Nat

VARIABLES
  row,       \* calendar_objects / address_objects: href -> body or NoRow
  log,       \* dav_changes of the collection; a record's id is its index
  ctag,      \* calendars.ctag / addressbooks.ctag
  requests,  \* how many write requests have started
  hd,        \* locals of each handler
  unlogged,  \* history: hrefs changed by a request that ended before recordChange
  unbumped,  \* history: hrefs changed by a request that ended before the bump
  rep,       \* locals of each sync-collection report in progress
  token,     \* the sync token each client holds
  mirror,    \* what each sync client believes of each href
  torn,      \* history: hrefs whose last report listed them before a change
             \* that its token already covers
  poll       \* each ctag client: its step, the ctag it holds, what it listed

storeVars == <<row, log, ctag, requests, hd, unlogged, unbumped>>
syncVars  == <<rep, token, mirror, torn>>
vars      == <<row, log, ctag, requests, hd, unlogged, unbumped,
               rep, token, mirror, torn, poll>>

Change == [href : Href, deleted : BOOLEAN]

HandlerPc == {"idle", "uid", "write", "log", "bump", "reread",
              "del", "dellog", "delbump"}

Idle == [pc |-> "idle", href |-> NoHref, body |-> NoRow,
         target |-> NoHref, expect |-> Unset]

NoReport == [pc |-> "idle", since |-> NoToken, latest |-> 0,
             items |-> [h \in Href |-> NoRow], moved |-> {}]

Init ==
  /\ row = [h \in Href |-> NoRow]
  /\ log = <<>>
  /\ ctag = 1
  /\ requests = 0
  /\ hd = [w \in Handler |-> Idle]
  /\ unlogged = {}
  /\ unbumped = {}
  /\ rep = [c \in SyncClient |-> NoReport]
  /\ token = [c \in SyncClient |-> NoToken]
  /\ mirror = [c \in SyncClient |-> [h \in Href |-> NoRow]]
  /\ torn = [c \in SyncClient |-> {}]
  /\ poll = [c \in CtagClient |->
               [pc |-> "idle", ctag |-> 0, view |-> [h \in Href |-> NoRow],
                seen |-> 0]]

-----------------------------------------------------------------------------
(* Write requests.                                                         *)

(* Mutant: If-Match is accepted on any existing row.                       *)
CheckAnyEtag(e, m, n) ==
  /\ n # Unset /\ e # NoRow => n # Star /\ n # e
  /\ m # Unset => e # NoRow

(* davcond.Check: may the request with headers If-Match m and             *)
(* If-None-Match n proceed on the row state e?                             *)
Check(e, m, n) ==
  /\ n # Unset /\ e # NoRow => n # Star /\ n # e
  /\ m # Unset => e # NoRow /\ (m = Star \/ m = e)

(* The row state the headers name exactly, if they name one.               *)
Expected(m, n) == IF m \in Body THEN m ELSE IF n = Star THEN NoRow ELSE Unset

(* Statements shared by the operations of storage/dav.go.                  *)
recordChange(h, del) ==
  /\ log' = Append(log, [href |-> h, deleted |-> del])
  /\ unlogged' = unlogged \ {h}

bump == ctag' = ctag + 1 /\ unbumped' = {}

Goto(w, pc) == hd' = [hd EXCEPT ![w].pc = pc]

(* A request starts, within the bound.                                     *)
Start(w, locals) ==
  /\ hd[w].pc = "idle" /\ requests < MaxRequests
  /\ requests' = requests + 1
  /\ hd' = [hd EXCEPT ![w] = locals]

(* PUT of a calendar object, up to and including the precondition check    *)
(* on the row as it is now.  REST creation, import and the worker write    *)
(* with both headers unset.                                                *)
PutCalendarObject(w, h, b, m, n) ==
  /\ Kind = "calendar"
  /\ Check(row[h], m, n)
  /\ Start(w, [pc |-> "uid", href |-> h, body |-> b, target |-> NoHref,
               expect |-> Expected(m, n)])
  /\ UNCHANGED <<row, log, ctag, unlogged, unbumped, syncVars, poll>>

(* PUT of a contact: the same, without the look-up by UID.                 *)
PutAddressObject(w, h, b, m, n) ==
  /\ Kind = "addressbook"
  /\ Check(row[h], m, n)
  /\ Start(w, [pc |-> "write", href |-> h, body |-> b, target |-> NoHref,
               expect |-> Expected(m, n)])
  /\ UNCHANGED <<row, log, ctag, unlogged, unbumped, syncVars, poll>>

(* The rows the look-up by the UID of b may return, LIMIT 1 without an     *)
(* order; h itself stands for none.                                        *)
SameUid(r, h, b) ==
  LET same == {g \in Href : r[g] # NoRow /\ UidOf[r[g]] = UidOf[b]}
  IN  IF same = {} THEN {h} ELSE same

(* Mutant: the delete of the other row is called without its href.         *)
LookupForgetsTarget(w) ==
  /\ hd[w].pc = "uid"
  /\ \E other \in SameUid(row, hd[w].href, hd[w].body) :
       Goto(w, IF other = hd[w].href THEN "write" ELSE "del")
  /\ UNCHANGED <<row, log, ctag, unlogged, unbumped, requests, syncVars, poll>>

(* UpsertCalendarObject, first statement: a row with the same UID under    *)
(* another href is to be deleted first.                                    *)
CalendarObjectByUID(w) ==
  /\ hd[w].pc = "uid"
  /\ \E other \in SameUid(row, hd[w].href, hd[w].body) :
       hd' = [hd EXCEPT ![w] = IF other = @.href THEN [@ EXCEPT !.pc = "write"]
                               ELSE [@ EXCEPT !.pc = "del", !.target = other]]
  /\ UNCHANGED <<row, log, ctag, unlogged, unbumped, requests, syncVars, poll>>

(* The upsert of the row.                                                  *)
UpsertRow(w) ==
  /\ hd[w].pc = "write"
  /\ row' = [row EXCEPT ![hd[w].href] = hd[w].body]
  /\ Goto(w, "log")
  /\ UNCHANGED <<log, ctag, unlogged, unbumped, requests, syncVars, poll>>

RecordUpsert(w) ==
  /\ hd[w].pc = "log"
  /\ recordChange(hd[w].href, FALSE)
  /\ Goto(w, "bump")
  /\ UNCHANGED <<row, ctag, unbumped, requests, syncVars, poll>>

BumpUpsert(w) ==
  /\ hd[w].pc = "bump"
  /\ bump
  /\ Goto(w, "reread")
  /\ UNCHANGED <<row, log, unlogged, requests, syncVars, poll>>

(* The handler reads the row back for the ETag of its response.            *)
Reread(w) ==
  /\ hd[w].pc = "reread"
  /\ hd' = [hd EXCEPT ![w] = Idle]
  /\ UNCHANGED <<row, log, ctag, unlogged, unbumped, requests, syncVars, poll>>

(* UpsertCalendarObject as a function on the store, for the transactions   *)
(* that call it.                                                           *)
Upserted(s, h, b, other) ==
  [row  |-> [s.row EXCEPT ![other] = NoRow, ![h] = b],
   log  |-> IF other = h
            THEN Append(s.log, [href |-> h, deleted |-> FALSE])
            ELSE Append(Append(s.log, [href |-> other, deleted |-> TRUE]),
                        [href |-> h, deleted |-> FALSE]),
   ctag |-> IF other = h THEN s.ctag + 1 ELSE s.ctag + 2]

(* PutICSWithAttachments of an object with attachments: the upsert, and a  *)
(* second one when the attachment pass has rewritten the body, in one      *)
(* transaction.                                                            *)
PutICSWithAttachments(w) ==
  LET h     == hd[w].href
      b     == hd[w].body
      store == [row |-> row, log |-> log, ctag |-> ctag]
  IN
  /\ hd[w].pc = "uid"
  /\ \E o1 \in SameUid(row, h, b) :
     LET once == Upserted(store, h, b, o1) IN
     \E s \in {once} \cup {Upserted(once, h, b, o2) :
                             o2 \in SameUid(once.row, h, b)} :
       /\ row' = s.row /\ log' = s.log /\ ctag' = s.ctag
       /\ unlogged' = {g \in unlogged : \A i \in DOMAIN s.log :
                                          i > Len(log) => s.log[i].href # g}
  /\ unbumped' = {}
  /\ Goto(w, "reread")
  /\ UNCHANGED <<requests, syncVars, poll>>

(* DELETE of an object, with If-Match m: reads the row for the cancellation *)
(* messages, then deletes, and never looks at m.                           *)
DeleteObject(w, h, m) ==
  /\ Start(w, [Idle EXCEPT !.pc = "del", !.target = h,
                           !.expect = Expected(m, Unset)])
  /\ UNCHANGED <<row, log, ctag, unlogged, unbumped, syncVars, poll>>

(* DeleteCalendarObject / DeleteAddressObject.  Where it returns to: a     *)
(* DELETE request ends, a PUT goes on to its upsert.                       *)
AfterDelete(w) ==
  hd' = [hd EXCEPT ![w] = IF @.href = NoHref THEN Idle
                          ELSE [@ EXCEPT !.pc = "write", !.target = NoHref]]

(* The row is there: it is deleted.                                        *)
DeleteRow(w) ==
  /\ hd[w].pc = "del" /\ row[hd[w].target] # NoRow
  /\ row' = [row EXCEPT ![hd[w].target] = NoRow]
  /\ Goto(w, "dellog")
  /\ UNCHANGED <<log, ctag, unlogged, unbumped, requests, syncVars, poll>>

(* No row was affected: ErrNotFound, with nothing recorded.                *)
DeleteMissing(w) ==
  /\ hd[w].pc = "del" /\ row[hd[w].target] = NoRow
  /\ AfterDelete(w)
  /\ UNCHANGED <<row, log, ctag, unlogged, unbumped, requests, syncVars, poll>>

(* Mutant: the deletion is recorded as a change.                           *)
RecordDeleteAsChange(w) ==
  /\ hd[w].pc = "dellog"
  /\ recordChange(hd[w].target, FALSE)
  /\ Goto(w, "delbump")
  /\ UNCHANGED <<row, ctag, unbumped, requests, syncVars, poll>>

RecordDelete(w) ==
  /\ hd[w].pc = "dellog"
  /\ recordChange(hd[w].target, TRUE)
  /\ Goto(w, "delbump")
  /\ UNCHANGED <<row, ctag, unbumped, requests, syncVars, poll>>

(* Mutant: a deletion leaves the ctag alone.                               *)
DeleteWithoutBump(w) ==
  /\ hd[w].pc = "delbump"
  /\ AfterDelete(w)
  /\ UNCHANGED <<row, log, ctag, unlogged, unbumped, requests, syncVars, poll>>

BumpDelete(w) ==
  /\ hd[w].pc = "delbump"
  /\ bump
  /\ AfterDelete(w)
  /\ UNCHANGED <<row, log, unlogged, requests, syncVars, poll>>

(* The href whose row the handler has changed without having recorded it,  *)
(* or without having bumped the ctag for it.                               *)
OwesRecord(w, h) == \/ hd[w].pc = "log" /\ hd[w].href = h
                    \/ hd[w].pc = "dellog" /\ hd[w].target = h
OwesBump(w, h) == \/ hd[w].pc \in {"log", "bump"} /\ hd[w].href = h
                  \/ hd[w].pc \in {"dellog", "delbump"} /\ hd[w].target = h

(* The request ends early; what it has not done is never done.             *)
Abandon(w) ==
  /\ hd[w].pc # "idle"
  /\ hd' = [hd EXCEPT ![w] = Idle]
  /\ unlogged' = unlogged \cup {h \in Href : OwesRecord(w, h)}
  /\ unbumped' = unbumped \cup {h \in Href : OwesBump(w, h)}
  /\ UNCHANGED <<row, log, ctag, requests, syncVars, poll>>

-----------------------------------------------------------------------------
(* The sync-collection report, davext handleSync.                          *)

(* The members are listed.  A client may always start over without token.  *)
SyncList(c, since) ==
  /\ rep[c].pc = "idle"
  /\ since \in {NoToken, token[c]}
  /\ rep' = [rep EXCEPT ![c] = [pc |-> "latest", since |-> since,
                                latest |-> 0, items |-> row, moved |-> {}]]
  /\ UNCHANGED <<storeVars, token, mirror, torn, poll>>

(* History: what has changed since the listing.                            *)
Moved(c) == {h \in Href : rep[c].items[h] # row[h]}

(* LatestChangeID, for a request without a token: the listing is the       *)
(* answer.                                                                 *)
SyncFull(c) ==
  /\ rep[c].pc = "latest" /\ rep[c].since = NoToken
  /\ mirror' = [mirror EXCEPT ![c] = rep[c].items]
  /\ token' = [token EXCEPT ![c] = Len(log)]
  /\ torn' = [torn EXCEPT ![c] = Moved(c)]
  /\ rep' = [rep EXCEPT ![c] = NoReport]
  /\ UNCHANGED <<storeVars, poll>>

(* LatestChangeID, for a request with a token that is not ahead of it.     *)
SyncLatest(c) ==
  /\ rep[c].pc = "latest" /\ rep[c].since # NoToken
  /\ rep[c].since <= Len(log)
  /\ rep' = [rep EXCEPT ![c].pc = "changes", ![c].latest = Len(log),
                         ![c].moved = Moved(c)]
  /\ UNCHANGED <<storeVars, token, mirror, torn, poll>>

(* Mutant: the record right after the token is skipped.                    *)
RecordsAfterNext(since, h) == {i \in DOMAIN log : i > since + 1 /\ log[i].href = h}

(* ChangesSince: the last record of each href after since.                 *)
RecordsSince(since, h) == {i \in DOMAIN log : i > since /\ log[i].href = h}
LastOf(S) == CHOOSE i \in S : \A j \in S : j <= i
ChangesSince(since) ==
  [h \in {g \in Href : RecordsSince(since, g) # {}} |->
     log[LastOf(RecordsSince(since, h))].deleted]

(* The members that changed, with the ETag of the earlier listing.         *)
SyncChanges(c) ==
  LET changes == ChangesSince(rep[c].since)
      Etag(h) == IF rep[c].items[h] = NoRow THEN NoEtag ELSE rep[c].items[h]
  IN
  /\ rep[c].pc = "changes"
  /\ mirror' = [mirror EXCEPT ![c] =
       [h \in Href |-> IF h \notin DOMAIN changes THEN mirror[c][h]
                       ELSE IF changes[h] THEN NoRow ELSE Etag(h)]]
  /\ token' = [token EXCEPT ![c] = rep[c].latest]
  /\ torn' = [torn EXCEPT ![c] = (@ \ DOMAIN changes)
                                  \cup (rep[c].moved \cap DOMAIN changes)]
  /\ rep' = [rep EXCEPT ![c] = NoReport]
  /\ UNCHANGED <<storeVars, poll>>

(* The answer is lost or the request fails: the client keeps what it had.  *)
SyncFail(c) ==
  /\ rep[c].pc # "idle"
  /\ rep' = [rep EXCEPT ![c] = NoReport]
  /\ UNCHANGED <<storeVars, token, mirror, torn, poll>>

-----------------------------------------------------------------------------
(* A client that follows getctag: it asks for the ctag and, when that has  *)
(* moved, lists the members in a later request.                            *)

PollCtag(c) ==
  /\ poll[c].pc = "idle" /\ poll[c].ctag # ctag
  /\ poll' = [poll EXCEPT ![c].pc = "list", ![c].seen = ctag]
  /\ UNCHANGED <<storeVars, syncVars>>

PollList(c) ==
  /\ poll[c].pc = "list"
  /\ poll' = [poll EXCEPT ![c] = [pc |-> "idle", ctag |-> poll[c].seen,
                                  view |-> row, seen |-> 0]]
  /\ UNCHANGED <<storeVars, syncVars>>

-----------------------------------------------------------------------------
HandlerStep(w) ==
  \/ CalendarObjectByUID(w) \/ UpsertRow(w) \/ RecordUpsert(w)
  \/ BumpUpsert(w) \/ Reread(w) \/ PutICSWithAttachments(w)
  \/ DeleteRow(w) \/ DeleteMissing(w) \/ RecordDelete(w) \/ BumpDelete(w)

SyncStep(c) == SyncFull(c) \/ SyncLatest(c) \/ SyncChanges(c)

Next ==
  \/ \E w \in Handler :
       \/ \E h \in Href :
            \/ \E b \in Body, m \in IfMatch, n \in IfNoneMatch :
                 PutCalendarObject(w, h, b, m, n) \/ PutAddressObject(w, h, b, m, n)
            \/ \E m \in IfMatch : DeleteObject(w, h, m)
       \/ HandlerStep(w)
       \/ Abandon(w)
  \/ \E c \in SyncClient :
       \/ \E since \in {NoToken, token[c]} : SyncList(c, since)
       \/ SyncStep(c)
       \/ SyncFail(c)
  \/ \E c \in CtagClient : PollCtag(c) \/ PollList(c)

Spec == Init /\ [][Next]_vars

(* A request that has started runs to its end or is abandoned; a client    *)
(* keeps asking, and not every one of its requests fails.                  *)
FairSpec ==
  /\ Spec
  /\ \A w \in Handler : WF_vars(HandlerStep(w))
  /\ \A c \in SyncClient :
       /\ WF_vars(SyncList(c, NoToken) \/ SyncList(c, token[c]))
       /\ SF_vars(SyncFull(c)) /\ SF_vars(SyncLatest(c)) /\ SF_vars(SyncChanges(c))

-----------------------------------------------------------------------------
(* Properties.                                                             *)

HandlerLocals ==
  {r \in [pc : HandlerPc, href : Href \cup {NoHref}, body : Body \cup {NoRow},
          target : Href \cup {NoHref}, expect : Body \cup {NoRow, Unset}] :
     /\ r.pc \in {"uid", "write", "log", "bump", "reread"} => r.href \in Href
     /\ r.href \in Href => r.body \in Body
     /\ r.pc \in {"del", "dellog", "delbump"} => r.target \in Href}

ReportLocals ==
  [pc : {"idle", "latest", "changes"}, since : Nat \cup {NoToken}, latest : Nat,
   items : [Href -> Body \cup {NoRow}], moved : SUBSET Href]

StoreTypeOK ==
  /\ row \in [Href -> Body \cup {NoRow}]
  /\ log \in Seq(Change)
  /\ ctag \in Nat
  /\ requests \in Nat
  /\ unlogged \subseteq Href
  /\ unbumped \subseteq Href

SyncTypeOK ==
  /\ rep \in [SyncClient -> ReportLocals]
  /\ token \in [SyncClient -> Nat \cup {NoToken}]
  /\ mirror \in [SyncClient -> [Href -> Body \cup {NoRow, NoEtag}]]
  /\ torn \in [SyncClient -> SUBSET Href]

PollTypeOK ==
  poll \in [CtagClient -> [pc : {"idle", "list"}, ctag : Nat,
                           view : [Href -> Body \cup {NoRow}], seen : Nat]]

(* Every variable keeps its type, and the locals a step of a handler uses  *)
(* are set when it gets there.                                             *)
TypeOK ==
  /\ StoreTypeOK
  /\ hd \in [Handler -> HandlerLocals]
  /\ SyncTypeOK
  /\ PollTypeOK

RecordedAfter(t, h) == \E i \in DOMAIN log : i > t /\ log[i].href = h

(* The last record of h says the opposite of what its row says.            *)
Misrecorded(h) ==
  \E i \in DOMAIN log :
    /\ log[i].href = h
    /\ \A j \in DOMAIN log : j > i => log[j].href # h
    /\ log[i].deleted = (row[h] # NoRow)

(* A client with token t that is wrong about h will be told of h again, or *)
(* a request was cut short or misrecorded.                                 *)
Excused(t, h) ==
  \/ RecordedAfter(t, h)
  \/ \E w \in Handler : OwesRecord(w, h)
  \/ h \in unlogged
  \/ Misrecorded(h)

(* The guarantee of sync-collection as handleSync and storage/dav.go       *)
(* implement it: when what a client believes of a member is not what is    *)
(* stored, then the next report with its token will mention that member,   *)
(* or a writer is about to record it, except in three situations, each a   *)
(* gap in the code: the report that produced the token listed the member   *)
(* before the change and took its token after it (torn), a writer ended    *)
(* between its row and its record (unlogged), or two overlapping writers   *)
(* recorded in the other order than they wrote (Misrecorded).              *)
NothingMissed ==
  \A c \in SyncClient, h \in Href :
    token[c] # NoToken /\ mirror[c][h] # row[h] =>
      h \in torn[c] \/ Excused(token[c], h)

(* The guarantee of getctag: a client that holds the current ctag has      *)
(* listed the current members, unless a writer has still to bump it or     *)
(* ended before it did.                                                    *)
CtagCovers ==
  \A c \in CtagClient, h \in Href :
    poll[c].ctag = ctag /\ poll[c].view[h] # row[h] =>
      h \in unbumped \/ \E w \in Handler : OwesBump(w, h)

Quiet == \A w \in Handler : hd[w].pc = "idle"

(* With no request in progress and none abandoned, the change log says of  *)
(* every member whether it exists: what a sync client is told.             *)
RecordsTruthful ==
  Quiet => \A h \in Href : Misrecorded(h) => h \in unlogged

(* The request a handler has accepted and not applied to the rows.         *)
Accepted(w) ==
  IF hd[w].href \in Href /\ hd[w].pc \in {"uid", "write", "del", "dellog", "delbump"}
  THEN {[href |-> hd[w].href, body |-> hd[w].body, expect |-> hd[w].expect]}
  ELSE IF hd[w].href \notin Href /\ hd[w].pc = "del"
  THEN {[href |-> hd[w].target, body |-> NoRow, expect |-> hd[w].expect]}
  ELSE {}

Promised == INSTANCE ObjectStore WITH
  members <- row, asked <- [w \in Handler |-> Accepted(w)],
  UniqueUid <- Kind = "calendar", Any <- Unset

(* Requests that do not overlap change a collection as ObjectStore says,   *)
(* whatever statement they end at: a PUT takes effect at once, on the very *)
(* state its If-Match or If-None-Match named; a DELETE takes effect at     *)
(* once, on whatever is there, for its If-Match is ignored, which is a gap *)
(* (DeleteCalendarObject and DeleteAddressObject take no headers); a       *)
(* calendar has one member per UID, and nothing else changes.              *)
ImplementsObjectStore == Promised!Spec

(* Once the writers have gone quiet, every client ends up with the members *)
(* as stored, but for the three gaps NothingMissed names.                  *)
CatchesUp ==
  <>[]Quiet =>
    <>[](\A c \in SyncClient, h \in Href :
           \/ mirror[c][h] = row[h]
           \/ h \in torn[c] \/ h \in unlogged \/ Misrecorded(h))
=============================================================================
