---------------------------- MODULE Attachments ----------------------------
(***************************************************************************)
(* The files of the events and tasks of one calendar.  The bytes are rows  *)
(* of calendar_attachments; the iCalendar body of an object refers to them *)
(* by ATTACH properties with a MANAGED-ID.  Bodies and rows are written by *)
(* different requests, most of which read the body first and store it      *)
(* later, and only some of which do both in one transaction.               *)
(*                                                                         *)
(* A body is its UID and, for each component in it (the event and its      *)
(* overridden occurrences), the set of its ATTACH values; times and texts  *)
(* are left out.  Inside a transaction the upsert of an object is one      *)
(* step; outside, its look-up with the deletion of another object that has *)
(* the UID is a step of its own, so that two objects may come to have one  *)
(* UID.  Module DavCollection takes the upsert further apart.              *)
(***************************************************************************)
EXTENDS Naturals, Sequences, FiniteSets, FiniteSetsExt, SequencesExt

CONSTANTS
  Href,         \* object names in the calendar
  Uid,          \* UIDs
  HrefOf,       \* the name the server gives to an object with a UID
  Long,         \* UIDs of events whose text alone is over limits.MaxICSBytes
  File,         \* file contents
  Size,         \* the size of each
  Link,         \* ATTACH values that point elsewhere
  Handler,      \* requests in progress
  None,
  MaxFiles,     \* limits.MaxAttachmentsPerObject
  MaxFile,      \* limits.MaxAttachmentBytes
  MaxTotal,     \* limits.MaxAttachmentsBytesPerObject
  MaxId,        \* bound on files ever stored
  MaxRequests,  \* bound on requests
  MaxAttach     \* bound on ATTACH values in a body that a client sends

ASSUME HrefAssumption == HrefOf \in [Uid -> Href] /\ Long \subseteq Uid
ASSUME SizeAssumption == Size \in [File -> Nat]
ASSUME BoundAssumption ==
  /\ MaxFiles \in Nat /\ MaxFile \in Nat /\ MaxTotal \in Nat
  /\ MaxId \in Nat /\ MaxRequests \in Nat /\ MaxAttach \in Nat

VARIABLES
  db,        \* the tables: obj (object or None by name), older (the pairs of
             \* names of which the first has the lower row id), rows, and
             \* next (AUTOINCREMENT)
  hd,        \* locals of each request
  requests,  \* how many requests have started
  outOfStep  \* history: objects whose body was stored on an outdated view of
             \* the rows, by a transaction that kept half of an item, or with
             \* ATTACHs that nobody looks at

fileVars == <<db, hd, requests, outOfStep>>

Id == Nat \ {0}
Attach == [inline : File] \cup [id : Id] \cup [link : Link]
Inline(f) == [inline |-> f]
Managed(id) == [id |-> id]

Row == [id : Id, href : Href, file : File]
Ics == [uid : Uid, parts : Seq(SUBSET Attach)]
Object == [uid : Uid, ics : Ics]

ASSUME FileAssumption == IsFiniteSet(File)
ASSUME NoneAssumption == None \notin Object

RowsAt(S, h) == {r \in S.rows : r.href = h}
Ids(rows) == {r.id : r \in rows}
AttachOf(ics) == UNION {ics.parts[i] : i \in DOMAIN ics.parts}
RefsOf(ics) == {a.id : a \in {x \in AttachOf(ics) : "id" \in DOMAIN x}}

Idle == [pc |-> "idle", href |-> None, uid |-> None, ics |-> None, rows |-> {}]

InitFiles ==
  /\ db = [obj |-> [h \in Href |-> None], older |-> {}, rows |-> {}, next |-> 0]
  /\ hd = [w \in Handler |-> Idle]
  /\ requests = 0 /\ outOfStep = {}

-----------------------------------------------------------------------------
(* Bodies: package icsutil.                                                *)

(* attachHost: the first component that has an ATTACH, or else the first.  *)
Bearing(ics) == {i \in DOMAIN ics.parts : ics.parts[i] # {}}
attachHost(ics) == IF Bearing(ics) = {} THEN 1 ELSE Min(Bearing(ics))

(* SplitAttachments looks at the host only.                                *)
SplitAttachments(ics) ==
  LET h == attachHost(ics) IN
  [rest     |-> [ics EXCEPT !.parts[h] = {}],
   inlines  |-> {a.inline : a \in {x \in ics.parts[h] : "inline" \in DOMAIN x}},
   managed  |-> {a.id : a \in {x \in ics.parts[h] : "id" \in DOMAIN x}},
   external |-> {x \in ics.parts[h] : "link" \in DOMAIN x}]

(* WriteAttachments finds the host again, in a body that has lost the      *)
(* ATTACHs of the first: what the new host had is deleted, and what a      *)
(* third component has nobody looks at.                                    *)
WriteAttachments(split, rows) ==
  [split.rest EXCEPT !.parts[attachHost(split.rest)] =
     split.external \cup {Managed(i) : i \in Ids(rows)}]

-----------------------------------------------------------------------------
(* Tables: package storage.  S is a state of the tables.                   *)

Live(S) == {h \in Href : S.obj[h] # None}

(* CalendarObjectByUID: LIMIT 1 without an order goes by the index on      *)
(* (calendar_id, uid), in which the oldest row comes first.                *)
CalendarObjectByUID(S, uid) ==
  LET found == {h \in Live(S) : S.obj[h].uid = uid}
  IN  {h \in found : \A g \in found : <<g, h>> \notin S.older}

(* Objects are deleted, and their rows with them (ON DELETE CASCADE).      *)
Deleted(S, gone) ==
  [S EXCEPT !.obj = [h \in Href |-> IF h \in gone THEN None ELSE S.obj[h]],
            !.older = {p \in @ : p[1] \notin gone /\ p[2] \notin gone},
            !.rows = {r \in @ : r.href \notin gone}]

DeleteCalendarObject(S, h) == Deleted(S, {h})

(* The first half of UpsertCalendarObject: the object that is found under  *)
(* the UID is deleted if it has another name.                              *)
Displace(S, h, uid) == Deleted(S, CalendarObjectByUID(S, uid) \ {h})

(* INSERT, ON CONFLICT(calendar_id, href) DO UPDATE, which keeps the row.  *)
InsertObject(S, h, uid, ics) ==
  [S EXCEPT !.obj[h] = [uid |-> uid, ics |-> ics],
            !.older = @ \cup (IF S.obj[h] = None THEN Live(S) \X {h} ELSE {})]

UpsertCalendarObject(S, h, uid, ics) == InsertObject(Displace(S, h, uid), h, uid, ics)

Bytes(files) == MapThenSumSet(LAMBDA f : Size[f], files)
Usage(S, h) == MapThenSumSet(LAMBDA r : Size[r.file], RowsAt(S, h))

(* Mutant: each file is held against the limits, their number is not.      *)
FitsEach(S, h, files) ==
  /\ \A f \in files : Size[f] > 0 /\ Size[f] <= MaxFile /\ Usage(S, h) + Size[f] <= MaxTotal
  /\ Cardinality(RowsAt(S, h)) <= MaxFiles

(* CheckInlineAttachmentLimits, and the same limits in insertAttachment.   *)
Fits(S, h, files) ==
  /\ \A f \in files : Size[f] > 0 /\ Size[f] <= MaxFile
  /\ Cardinality(RowsAt(S, h)) + Cardinality(files) <= MaxFiles
  /\ Usage(S, h) + Bytes(files) <= MaxTotal

(* Mutant: the first id is the last one given.                             *)
InsertFromLast(S, h, files) ==
  LET s == SetToSeq(files) IN
  [S EXCEPT !.rows = @ \cup {[id |-> S.next + i - 1, href |-> h, file |-> s[i]] : i \in DOMAIN s},
            !.next = @ + Len(s)]

(* insertAttachment, for each of the files.                                *)
InsertAttachments(S, h, files) ==
  LET s == SetToSeq(files) IN
  [S EXCEPT !.rows = @ \cup {[id |-> S.next + i, href |-> h, file |-> s[i]] : i \in DOMAIN s},
            !.next = @ + Len(s)]

(* RewriteManagedAttachments: the references are those of the rows.        *)
RewriteManagedAttachments(S, h, ics) ==
  WriteAttachments(SplitAttachments(ics), RowsAt(S, h))

(* ApplyICSAttachments: rows the body no longer names are deleted, files   *)
(* in the body become rows.  What an error leaves is in st, too.           *)
ApplyICSAttachments(S, h, split) ==
  LET S1 == [S EXCEPT !.rows = {r \in @ : r.href # h \/ r.id \in split.managed}]
      S2 == InsertAttachments(S1, h, split.inlines)
  IN  IF Fits(S1, h, split.inlines)
      THEN [ok |-> TRUE, st |-> S2, ics |-> WriteAttachments(split, RowsAt(S2, h))]
      ELSE [ok |-> FALSE, st |-> S1, ics |-> split.rest]

(* Mutant: the rows are applied, the body is stored as the client sent it. *)
PutBodyAsSent(S, h, uid, ics) ==
  LET a == ApplyICSAttachments(UpsertCalendarObject(S, h, uid, ics), h, SplitAttachments(ics))
  IN  [ok |-> a.ok, st |-> a.st]

(* The transaction of PutICSWithAttachments.                               *)
PutICS(S, h, uid, ics) ==
  LET split == SplitAttachments(ics)
      a == ApplyICSAttachments(UpsertCalendarObject(S, h, uid, split.rest), h, split)
  IN  [ok |-> a.ok, st |-> IF a.ok THEN UpsertCalendarObject(a.st, h, uid, a.ics) ELSE a.st]

-----------------------------------------------------------------------------
(* Requests.                                                               *)

(* h, when the body has ATTACHs that the server does not look at.          *)
Overlooked(h, ics) == IF Cardinality(Bearing(ics)) > 2 THEN {h} ELSE {}

InStepAt(S, h) == S.obj[h] # None => RefsOf(S.obj[h].ics) = Ids(RowsAt(S, h))

(* The tables become S; the objects in bad may be out of step from now on. *)
Store(S, bad) ==
  /\ db' = S
  /\ outOfStep' = {h \in outOfStep \cup bad : ~InStepAt(S, h)}

Start(w) ==
  /\ hd[w].pc = "idle" /\ requests < MaxRequests
  /\ requests' = requests + 1

(* A request that is one transaction.                                      *)
Atomic ==
  /\ requests < MaxRequests
  /\ requests' = requests + 1
  /\ UNCHANGED hd

(* What a client sends: it may name files of any object, and an overridden *)
(* occurrence repeats the ATTACH of the event.                             *)
Files == [inline : File] \cup {Managed(i) : i \in Ids(db.rows)}
Values == Files \cup [link : Link]
Bodies(uid) ==
  {[uid |-> uid, parts |-> <<s>>] : s \in {v \in SUBSET Values : Cardinality(v) <= MaxAttach}}
    \cup {[uid |-> uid, parts |-> <<{a}, {a}>>] : a \in Files}
    \cup {[uid |-> uid, parts |-> <<{Managed(i)}, {Managed(i)}, {Managed(i)}>>] : i \in Ids(db.rows)}

(* The upsert to come, outside of a transaction, of a body for h that goes *)
(* with rows.                                                              *)
Saving(h, uid, ics, rows) == [pc |-> "save", href |-> h, uid |-> uid, ics |-> ics, rows |-> rows]

(* PUT without files to an object that has none: the usage is counted, and *)
(* the body stored later.                                                  *)
PutPlain(w, h, uid, ics) ==
  /\ RowsAt(db, h) = {} /\ uid \notin Long
  /\ Start(w)
  /\ hd' = [hd EXCEPT ![w] = Saving(h, uid, ics, {})]
  /\ UNCHANGED <<db, outOfStep>>

(* With files: limits.MaxICSBytes is for what the client sends.            *)
PutICSWithAttachments(h, uid, ics) ==
  LET p == PutICS(db, h, uid, ics) IN
  /\ AttachOf(ics) # {} \/ RowsAt(db, h) # {}
  /\ uid \notin Long
  /\ Atomic
  /\ IF p.ok THEN p.st.next <= MaxId /\ Store(p.st, Overlooked(h, ics)) ELSE Store(db, {})

(* createEvent: a client may choose the UID of an event that exists, and   *)
(* nobody looks whether it has files.                                      *)
createEvent(w, uid) ==
  /\ Start(w)
  /\ hd' = [hd EXCEPT ![w] = Saving(HrefOf[uid], uid, [uid |-> uid, parts |-> <<{}>>], {})]
  /\ UNCHANGED <<db, outOfStep>>

(* updateEvent and updateTask read the object, change its texts and times, *)
(* and store it in a later statement, ATTACHs included.                    *)
updateEvent(w, h) ==
  /\ db.obj[h] # None
  /\ Start(w)
  /\ hd' = [hd EXCEPT ![w] = Saving(h, db.obj[h].uid, db.obj[h].ics, RowsAt(db, h))]
  /\ UNCHANGED <<db, outOfStep>>

(* The upsert of these three: first the other object with the UID goes.    *)
DisplaceOther(w) ==
  /\ hd[w].pc = "save"
  /\ Store(Displace(db, hd[w].href, hd[w].uid), {})
  /\ hd' = [hd EXCEPT ![w].pc = "insert"]
  /\ UNCHANGED requests

(* The rows may have changed since the body was read, or the body was out  *)
(* of step by then.                                                        *)
Save(w) ==
  /\ hd[w].pc = "insert"
  /\ LET h == hd[w].href IN
       Store(InsertObject(db, h, hd[w].uid, hd[w].ics),
             IF RowsAt(db, h) # hd[w].rows \/ RefsOf(hd[w].ics) # Ids(hd[w].rows) THEN {h} ELSE {})
  /\ hd' = [hd EXCEPT ![w] = Idle]
  /\ UNCHANGED requests

deleteEvent(h) ==
  /\ db.obj[h] # None
  /\ Atomic
  /\ Store(DeleteCalendarObject(db, h), {})

(* uploadItemAttachments: rows and references in one transaction, which    *)
(* reads the body again.                                                   *)
uploadItemAttachments(h, files) ==
  LET S == InsertAttachments(db, h, files) IN
  /\ db.obj[h] # None /\ files # {}
  /\ Atomic
  /\ IF ~Fits(db, h, files) THEN Store(db, {})
     ELSE S.next <= MaxId /\ Store(UpsertCalendarObject(S, h, S.obj[h].uid,
                  RewriteManagedAttachments(S, h, S.obj[h].ics)), {})

deleteItemAttachment(r) ==
  LET S == [db EXCEPT !.rows = @ \ {r}] IN
  /\ r \in db.rows
  /\ Atomic
  /\ Store(UpsertCalendarObject(S, r.href, S.obj[r.href].uid,
             RewriteManagedAttachments(S, r.href, S.obj[r.href].ics)), {})

(* importCalendar, with one item: an import of several does this as often. *)
(* The nested transaction of the item joins the outer one, which commits   *)
(* what a failed item has done so far.                                     *)
importCalendar(ics, h) ==
  LET found == CalendarObjectByUID(db, ics.uid)
      p == PutICS(db, h, ics.uid, ics)
  IN  /\ h \in IF found = {} THEN {HrefOf[ics.uid]} ELSE found
      /\ ics.uid \notin Long
      /\ Atomic
      /\ p.st.next <= MaxId
      /\ Store(p.st, IF p.ok THEN Overlooked(h, ics) ELSE {h})

(* A request stops before it stores anything, or with the other object     *)
(* that had the UID gone.                                                  *)
Abandon(w) ==
  /\ hd[w].pc # "idle"
  /\ hd' = [hd EXCEPT ![w] = Idle]
  /\ UNCHANGED <<db, requests, outOfStep>>

FileRequest ==
  \/ \E uid \in Uid, h \in Href : \E ics \in Bodies(uid) :
       PutICSWithAttachments(h, uid, ics) \/ importCalendar(ics, h)
  \/ \E h \in Href :
       \/ deleteEvent(h)
       \/ \E files \in SUBSET File : uploadItemAttachments(h, files)
  \/ \E r \in db.rows : deleteItemAttachment(r)

FileNext ==
  \/ requests < MaxRequests /\ FileRequest
  \/ \E w \in Handler :
       \/ \E h \in Href :
            \/ updateEvent(w, h)
            \/ \E uid \in Uid : PutPlain(w, h, uid, [uid |-> uid, parts |-> <<{}>>])
       \/ \E uid \in Uid : createEvent(w, uid)
       \/ DisplaceOther(w) \/ Save(w) \/ Abandon(w)

-----------------------------------------------------------------------------
(* Properties.                                                             *)

(* The tables and the locals have their types.                             *)
FileTypeOK ==
  /\ db.obj \in [Href -> Object \cup {None}] /\ db.older \subseteq Href \X Href
  /\ db.rows \subseteq Row /\ db.next \in 0..MaxId
  /\ \A w \in Handler : hd[w].pc \in {"idle", "save", "insert"} /\ hd[w].rows \subseteq Row
  /\ requests \in 0..MaxRequests /\ outOfStep \subseteq Href

(* "Bytes live here, not in ICS" (migration 0007): the references in the   *)
(* body of an object are its rows, and every row belongs to an object;     *)
(* unless the body was read before the rows changed and stored afterwards, *)
(* an import gave up on the item half way, or a client had ATTACHs in      *)
(* three components.                                                       *)
InStep ==
  /\ \A h \in Href \ outOfStep : InStepAt(db, h)
  /\ \A r \in db.rows : db.obj[r.href] # None

(* No object has more files, or more bytes, than the limits allow, however *)
(* they came in.                                                           *)
WithinLimits ==
  \A h \in Href : Cardinality(RowsAt(db, h)) <= MaxFiles /\ Usage(db, h) <= MaxTotal
=============================================================================
