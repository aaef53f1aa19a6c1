------------------------------ MODULE Schedule ------------------------------
(***************************************************************************)
(* Local iTIP scheduling of dCalCon: the life of one event (one UID) of an *)
(* organizer, the invitations of its local attendees and their copies.     *)
(*                                                                         *)
(* A request is a sequence of steps.  What runs under WithTx (deliverCopies *)
(* deliverCancel, Accept, Decline, ApplyLocalInvite) is one action; so is   *)
(* the upsert or the delete of the event, whose statements are the subject *)
(* of DavCollection.  Between two steps other requests run, and a request  *)
(* may end early.                                                          *)
(*                                                                         *)
(* An iCalendar body is the revision it carries and the PARTSTAT of each   *)
(* attendee, "absent" where there is no ATTENDEE line.  The METHOD it is   *)
(* sent with is kept where it is stored.  The copies in the organizer's    *)
(* outbox and inbox are only ever written, and left out.                   *)
(***************************************************************************)
EXTENDS Naturals, FiniteSets

CONSTANTS
  Attendee,     \* local users other than the organizer
  Handler,      \* requests in progress
  None,         \* no such row or object
  MaxRequests,  \* bound on the number of requests
  OutboxPosts   \* do clients POST to the schedule outbox?

ASSUME BoundAssumption == MaxRequests \in Nat
ASSUME PostsAssumption == OutboxPosts \in BOOLEAN

VARIABLES
  event,     \* the organizer's object
  req,       \* schedule_items (inbox, REQUEST) of each attendee
  inbox,     \* the object in each attendee's schedule inbox
  copy,      \* the object in each attendee's own calendars
  hd,        \* locals of each request
  requests,  \* how many requests have started
  cut,       \* history: attendees whose cancellation was cut off or failed
  silent     \* history: attendees dropped by a write that tells nobody

vars == <<event, req, inbox, copy, hd, requests, cut, silent>>

Partstat == {"absent", "NEEDS-ACTION", "ACCEPTED", "DECLINED"}
Ics == [rev : Nat, part : [Attendee -> Partstat]]
Row == [status : {"pending", "accepted", "declined", "cancelled"}, ics : Ics]
Delivered == [method : {"REQUEST", "CANCEL"}, ics : Ics]

(* No user, body or row is the marker for its absence.                     *)
ASSUME NoneAssumption == None \notin Attendee \cup Ics \cup Row \cup Delivered

Guests(b) == {a \in Attendee : b.part[a] # "absent"}
GuestsOf(b) == IF b = None THEN {} ELSE Guests(b)

Idle == [pc |-> "idle", kind |-> "none", prev |-> None, body |-> None,
         inv |-> {}, who |-> None]

Init ==
  /\ event = None
  /\ req = [a \in Attendee |-> None]
  /\ inbox = [a \in Attendee |-> None]
  /\ copy = [a \in Attendee |-> None]
  /\ hd = [w \in Handler |-> Idle]
  /\ requests = 0
  /\ cut = {}
  /\ silent = {}

Start(w, locals) ==
  /\ hd[w].pc = "idle" /\ requests < MaxRequests
  /\ requests' = requests + 1
  /\ hd' = [hd EXCEPT ![w] = locals]

Goto(w, pc) == hd' = [hd EXCEPT ![w].pc = pc]
Finish(w) == hd' = [hd EXCEPT ![w] = Idle]

-----------------------------------------------------------------------------
(* What the transactions do.                                               *)

(* InsertSchedule of a REQUEST row: an answer stays.                       *)
Settled(r) == r # None /\ r.status \in {"accepted", "declined"}

(* Mutant: the row is reopened by an update.                               *)
InsertPending(r, b) == [status |-> "pending", ics |-> b]

InsertSchedule(r, b) ==
  [status |-> IF Settled(r) THEN r.status ELSE "pending", ics |-> b]

(* SetAttendeePartstatAny: only an ATTENDEE line that is there.            *)
SetPartstat(b, a, p) ==
  IF b.part[a] = "absent" THEN b ELSE [b EXCEPT !.part[a] = p]

(* Mutant: accepted copies are not refreshed.                              *)
deliverWithoutRefresh(b, S) ==
  /\ inbox' = [a \in Attendee |->
       IF a \in S /\ ~Settled(req[a]) THEN [method |-> "REQUEST", ics |-> b]
       ELSE inbox[a]]
  /\ req' = [a \in Attendee |->
       IF a \in S THEN InsertSchedule(req[a], b) ELSE req[a]]
  /\ copy' = copy

(* deliverCopies of body b to the attendees S: an inbox object and a       *)
(* pending row for those who have not answered, a refreshed copy for those *)
(* who accepted and still have one.                                        *)
deliverCopies(b, S) ==
  /\ inbox' = [a \in Attendee |->
       IF a \in S /\ ~Settled(req[a]) THEN [method |-> "REQUEST", ics |-> b]
       ELSE inbox[a]]
  /\ req' = [a \in Attendee |->
       IF a \in S THEN InsertSchedule(req[a], b) ELSE req[a]]
  /\ copy' = [a \in Attendee |->
       IF a \in S /\ Settled(req[a]) /\ req[a].status = "accepted" /\ copy[a] # None
       THEN SetPartstat(b, a, "ACCEPTED") ELSE copy[a]]

(* Mutant: a pending row survives the cancellation.                        *)
deliverCancelOpen(b, S) ==
  /\ inbox' = [a \in Attendee |->
       IF a \in S THEN [method |-> "CANCEL", ics |-> b] ELSE inbox[a]]
  /\ req' = req
  /\ copy' = [a \in Attendee |-> IF a \in S THEN None ELSE copy[a]]

(* deliverCancel to S: a CANCEL in the inbox, a pending row closed, every  *)
(* copy deleted.                                                           *)
deliverCancel(b, S) ==
  /\ inbox' = [a \in Attendee |->
       IF a \in S THEN [method |-> "CANCEL", ics |-> b] ELSE inbox[a]]
  /\ req' = [a \in Attendee |->
       IF a \in S /\ req[a] # None /\ req[a].status = "pending"
       THEN [req[a] EXCEPT !.status = "cancelled"] ELSE req[a]]
  /\ copy' = [a \in Attendee |-> IF a \in S THEN None ELSE copy[a]]

(* History: whoever gets a cancellation is not waiting for one any more.    *)
Told(S) == cut' = cut \ S /\ silent' = silent \ S

(* MergeReply: every ATTENDEE line of the reply that has a PARTSTAT is     *)
(* applied to the organizer's event, when that exists.                     *)
MergeReply(e, reply) ==
  IF e = None THEN None
  ELSE [e EXCEPT !.part =
          [a \in Attendee |-> IF e.part[a] = "absent" \/ reply.part[a] = "absent"
                              THEN e.part[a] ELSE reply.part[a]]]

-----------------------------------------------------------------------------
(* The organizer's requests.                                               *)

(* A client that is in sync puts revision r for the guests S, with the     *)
(* answers it has seen.                                                    *)
Draft(r, S) ==
  [rev |-> r,
   part |-> [a \in Attendee |->
     IF a \notin S THEN "absent"
     ELSE IF a \in GuestsOf(event) THEN event.part[a] ELSE "NEEDS-ACTION"]]

(* CalDAV PUT.  The previous object is the one under the name of the       *)
(* request: there is none when a client gives the event another name, and  *)
(* the upsert removes the other object of its UID.                         *)
PutObject(w, S) ==
  /\ \E prev \in {event, None} :
       Start(w, [Idle EXCEPT !.pc = "write", !.kind = "put", !.prev = prev,
                             !.body = Draft(requests + 1, S)])
  /\ UNCHANGED <<event, req, inbox, copy, cut, silent>>

(* REST createEvent, with the users to invite.  The new body has no        *)
(* attendees, also when the client names the UID of the stored event.      *)
createEvent(w, inv) ==
  /\ Start(w, [Idle EXCEPT !.pc = "write", !.kind = "edit",
                           !.body = Draft(requests + 1, {}), !.inv = inv])
  /\ UNCHANGED <<event, req, inbox, copy, cut, silent>>

(* REST updateEvent: the edited body keeps the attendees that were read.   *)
updateEvent(w, inv) ==
  /\ event # None
  /\ Start(w, [Idle EXCEPT !.pc = "write", !.kind = "edit", !.prev = event,
                           !.body = Draft(requests + 1, Guests(event)),
                           !.inv = inv])
  /\ UNCHANGED <<event, req, inbox, copy, cut, silent>>

(* Import of a file with the event, in one transaction: the guests are     *)
(* those of the file, and no invitation or cancellation goes out.  The     *)
(* restore of an archive writes the event the same way.                    *)
importEvents(w, S) ==
  /\ hd[w].pc = "idle" /\ requests < MaxRequests
  /\ requests' = requests + 1
  /\ event' = Draft(requests + 1, S)
  /\ silent' = silent \cup (GuestsOf(event) \ S)
  /\ UNCHANGED <<req, inbox, copy, hd, cut>>

(* The calendar is deleted with the event in it: nobody is told.           *)
DeleteCalendar(w) ==
  /\ hd[w].pc = "idle" /\ requests < MaxRequests /\ event # None
  /\ requests' = requests + 1
  /\ event' = None
  /\ silent' = silent \cup Guests(event)
  /\ UNCHANGED <<req, inbox, copy, hd, cut>>

(* REST invite on the stored event.                                        *)
invite(w, inv) ==
  /\ event # None /\ inv # {}
  /\ Start(w, [Idle EXCEPT !.pc = "invite", !.kind = "edit", !.body = event,
                           !.inv = inv])
  /\ UNCHANGED <<event, req, inbox, copy, cut, silent>>

(* Whom a request compares the new guests with: only a PUT does.           *)
Compared(l) == IF l.kind = "put" THEN GuestsOf(l.prev) ELSE {}

(* The event is written.  Whoever is in the event that goes, and neither   *)
(* in the new one nor compared with it, will not be told.                  *)
WriteEvent(w) ==
  /\ hd[w].pc = "write"
  /\ event' = hd[w].body
  /\ silent' = silent \cup (GuestsOf(event) \ (Guests(hd[w].body) \cup Compared(hd[w])))
  /\ Goto(w, "reread")
  /\ UNCHANGED <<req, inbox, copy, requests, cut>>

(* Mutant: the previous object is forgotten.                               *)
NobodyRemoved(w) == {}

(* The attendees that a PUT has removed.                                   *)
Removed(w) == IF hd[w].kind = "put"
              THEN GuestsOf(hd[w].prev) \ GuestsOf(hd[w].body) ELSE {}

(* Mutant: the row read back is used without looking whether it is there.  *)
RereadUnchecked(w) ==
  /\ hd[w].pc = "reread"
  /\ hd' = [hd EXCEPT ![w].body = event,
                      ![w].pc = IF hd[w].kind = "put" THEN "cancel" ELSE "invite"]
  /\ UNCHANGED <<event, req, inbox, copy, requests, cut, silent>>

(* The event is read back: it is what is delivered from.                   *)
RereadEvent(w) ==
  /\ hd[w].pc = "reread" /\ event # None
  /\ \/ hd[w].kind = "put"
        /\ hd' = [hd EXCEPT ![w].body = event, ![w].pc = "cancel"]
     \/ hd[w].kind = "edit" /\ hd[w].inv # {}
        /\ hd' = [hd EXCEPT ![w].body = event, ![w].pc = "invite"]
     \/ hd[w].kind = "edit" /\ hd[w].inv = {} /\ Finish(w)
  /\ UNCHANGED <<event, req, inbox, copy, requests, cut, silent>>

(* It has been deleted meanwhile: nothing is delivered.                    *)
RereadMissing(w) ==
  /\ hd[w].pc = "reread" /\ event = None
  /\ cut' = cut \cup Removed(w)
  /\ Finish(w)
  /\ UNCHANGED <<event, req, inbox, copy, requests, silent>>

(* DeliverFromPut, first the attendees that are no longer there, ...       *)
DeliverRemoved(w) ==
  /\ hd[w].pc = "cancel" /\ Removed(w) # {}
  /\ deliverCancel(hd[w].body, Removed(w)) /\ Told(Removed(w))
  /\ Goto(w, "deliver")
  /\ UNCHANGED <<event, requests>>

NoneRemoved(w) ==
  /\ hd[w].pc = "cancel" /\ Removed(w) = {}
  /\ Goto(w, "deliver")
  /\ UNCHANGED <<event, req, inbox, copy, requests, cut, silent>>

(* ... then the others.                                                    *)
DeliverFromPut(w) ==
  /\ hd[w].pc = "deliver"
  /\ deliverCopies(hd[w].body, Guests(hd[w].body))
  /\ Finish(w)
  /\ UNCHANGED <<event, requests, cut, silent>>

(* ApplyLocalInvite: the event that was read, with the invited users       *)
(* added, is written and delivered to them.                                *)
ApplyLocalInvite(w) ==
  LET b == [hd[w].body EXCEPT !.part =
              [a \in Attendee |-> IF a \in hd[w].inv /\ @[a] = "absent"
                                  THEN "NEEDS-ACTION" ELSE @[a]]]
  IN
  /\ hd[w].pc = "invite"
  /\ event' = b
  /\ deliverCopies(b, hd[w].inv)
  /\ Finish(w)
  /\ UNCHANGED <<requests, cut, silent>>

(* DELETE of the event, by CalDAV or REST.                                 *)
DeleteObject(w) ==
  /\ event # None
  /\ Start(w, [Idle EXCEPT !.pc = IF Guests(event) = {} THEN "delete" ELSE "uninvite",
                           !.kind = "delete", !.prev = event])
  /\ UNCHANGED <<event, req, inbox, copy, cut, silent>>

CancelFromDelete(w) ==
  /\ hd[w].pc = "uninvite"
  /\ deliverCancel(hd[w].prev, Guests(hd[w].prev)) /\ Told(Guests(hd[w].prev))
  /\ Goto(w, "delete")
  /\ UNCHANGED <<event, requests>>

(* Its failure is only logged; the event goes all the same.                *)
CancelFails(w) ==
  /\ hd[w].pc = "uninvite"
  /\ cut' = cut \cup Guests(hd[w].prev)
  /\ Goto(w, "delete")
  /\ UNCHANGED <<event, req, inbox, copy, requests, silent>>

DeleteEvent(w) ==
  /\ hd[w].pc = "delete"
  /\ event' = None
  /\ Finish(w)
  /\ UNCHANGED <<req, inbox, copy, requests, cut, silent>>

(* POST to the outbox: what the client sends, independent of the event.    *)
OutboxRequest(S) ==
  /\ OutboxPosts /\ requests < MaxRequests /\ S # {}
  /\ requests' = requests + 1
  /\ deliverCopies(Draft(requests + 1, S), S)
  /\ UNCHANGED <<event, hd, cut, silent>>

OutboxCancel(S) ==
  /\ OutboxPosts /\ requests < MaxRequests /\ S # {}
  /\ requests' = requests + 1
  /\ deliverCancel(Draft(requests + 1, S), S) /\ Told(S)
  /\ UNCHANGED <<event, hd>>

-----------------------------------------------------------------------------
(* The attendees' requests.                                                *)

(* respondInvitation reads the row, which must be pending.                 *)
respondInvitation(w, a, answer) ==
  /\ req[a] # None /\ req[a].status = "pending"
  /\ Start(w, [Idle EXCEPT !.pc = answer, !.kind = "respond", !.who = a,
                           !.body = req[a].ics])
  /\ UNCHANGED <<event, req, inbox, copy, cut, silent>>

Accept(w) ==
  LET a     == hd[w].who
      clean == SetPartstat(hd[w].body, a, "ACCEPTED")
  IN
  /\ hd[w].pc = "accept"
  /\ copy' = [copy EXCEPT ![a] = clean]
  /\ event' = MergeReply(event, clean)
  /\ inbox' = [inbox EXCEPT ![a] = None]
  /\ req' = [req EXCEPT ![a].status = "accepted"]
  /\ Finish(w)
  /\ UNCHANGED <<requests, cut, silent>>

(* Mutant: the reply is built from a body in which others have answered.   *)
DeclineForAll(w) ==
  LET a     == hd[w].who
      reply == [hd[w].body EXCEPT !.part = [g \in Attendee |-> IF @[g] = "absent" THEN "absent" ELSE "DECLINED"]]
  IN
  /\ hd[w].pc = "decline"
  /\ event' = MergeReply(event, reply)
  /\ inbox' = [inbox EXCEPT ![a] = None]
  /\ req' = [req EXCEPT ![a].status = "declined"]
  /\ Finish(w)
  /\ UNCHANGED <<copy, requests, cut, silent>>

Decline(w) ==
  LET a     == hd[w].who
      clean == SetPartstat(hd[w].body, a, "DECLINED")
  IN
  /\ hd[w].pc = "decline"
  /\ event' = MergeReply(event, clean)
  /\ inbox' = [inbox EXCEPT ![a] = None]
  /\ req' = [req EXCEPT ![a].status = "declined"]
  /\ Finish(w)
  /\ UNCHANGED <<copy, requests, cut, silent>>

(* REPLY posted to the outbox: the organizer's event is read, merged and   *)
(* written back.                                                           *)
OutboxReply(w, a, p) ==
  LET reply  == [rev |-> 0, part |-> [g \in Attendee |-> IF g = a THEN p ELSE "absent"]]
      merged == MergeReply(event, reply)
  IN
  /\ OutboxPosts /\ event # None /\ merged # event
  /\ Start(w, [Idle EXCEPT !.pc = "merge", !.kind = "reply", !.who = a,
                           !.body = merged])
  /\ UNCHANGED <<event, req, inbox, copy, cut, silent>>

WriteMerged(w) ==
  /\ hd[w].pc = "merge"
  /\ event' = hd[w].body
  /\ Finish(w)
  /\ UNCHANGED <<req, inbox, copy, requests, cut, silent>>

(* An attendee deletes its copy, or the object in its inbox: the organizer *)
(* is not told.                                                            *)
DeleteCopy(a) ==
  /\ copy[a] # None
  /\ copy' = [copy EXCEPT ![a] = None]
  /\ UNCHANGED <<event, req, inbox, hd, requests, cut, silent>>

DeleteInbox(a) ==
  /\ inbox[a] # None
  /\ inbox' = [inbox EXCEPT ![a] = None]
  /\ UNCHANGED <<event, req, copy, hd, requests, cut, silent>>

(* A request ends early; what is left of it is not done.                   *)
Abandon(w) ==
  /\ hd[w].pc # "idle"
  /\ cut' = IF hd[w].pc \in {"reread", "cancel"} THEN cut \cup Removed(w) ELSE cut
  /\ Finish(w)
  /\ UNCHANGED <<event, req, inbox, copy, requests, silent>>

-----------------------------------------------------------------------------
Step(w) ==
  \/ WriteEvent(w) \/ RereadEvent(w) \/ RereadMissing(w)
  \/ DeliverRemoved(w) \/ NoneRemoved(w) \/ DeliverFromPut(w)
  \/ ApplyLocalInvite(w)
  \/ CancelFromDelete(w) \/ CancelFails(w) \/ DeleteEvent(w)
  \/ Accept(w) \/ Decline(w) \/ WriteMerged(w)

Next ==
  \/ \E w \in Handler :
       \/ \E S \in SUBSET Attendee :
            \/ PutObject(w, S) \/ createEvent(w, S) \/ updateEvent(w, S)
            \/ importEvents(w, S) \/ invite(w, S)
       \/ DeleteObject(w) \/ DeleteCalendar(w)
       \/ \E a \in Attendee, answer \in {"accept", "decline"} :
            respondInvitation(w, a, answer)
       \/ \E a \in Attendee, p \in {"ACCEPTED", "DECLINED"} : OutboxReply(w, a, p)
       \/ Step(w)
       \/ Abandon(w)
  \/ \E S \in SUBSET Attendee : OutboxRequest(S) \/ OutboxCancel(S)
  \/ \E a \in Attendee : DeleteCopy(a) \/ DeleteInbox(a)

Spec == Init /\ [][Next]_vars

-----------------------------------------------------------------------------
(* Properties.                                                             *)

HandlerLocals ==
  {r \in [pc : {"idle", "write", "reread", "cancel", "deliver", "invite",
                "uninvite", "delete", "accept", "decline", "merge"},
          kind : {"none", "put", "edit", "delete", "respond", "reply"},
          prev : Ics \cup {None}, body : Ics \cup {None},
          inv : SUBSET Attendee, who : Attendee \cup {None}] :
     /\ r.pc \in {"write", "reread", "cancel", "deliver", "invite", "accept",
                  "decline", "merge"} => r.body \in Ics
     /\ r.pc = "uninvite" => r.prev \in Ics
     /\ r.pc \in {"accept", "decline"} => r.who \in Attendee}

StoreTypeOK ==
  /\ event \in Ics \cup {None}
  /\ req \in [Attendee -> Row \cup {None}]
  /\ inbox \in [Attendee -> Delivered \cup {None}]
  /\ copy \in [Attendee -> Ics \cup {None}]
  /\ requests \in Nat
  /\ cut \subseteq Attendee /\ silent \subseteq Attendee

(* Every variable keeps its type, and the locals a step uses are set: a    *)
(* response has a row to settle, a delivery a body.                        *)
TypeOK ==
  /\ StoreTypeOK
  /\ hd \in [Handler -> HandlerLocals]
  /\ \A w \in Handler : hd[w].pc \in {"accept", "decline"} => req[hd[w].who] # None

Pending(a) == req[a] # None /\ req[a].status = "pending"

(* What an attendee's client finds in the schedule inbox and what the      *)
(* dashboard offers to answer are the same invitation: the object is       *)
(* written and removed together with the row (deliverCopies, deliverCancel *)
(* and the answers), however the requests interleave.                      *)
PendingMatchesInbox ==
  \A a \in Attendee : Pending(a) /\ inbox[a] # None =>
    inbox[a] = [method |-> "REQUEST", ics |-> req[a].ics]

(* An invitation that was answered never asks for an answer again,         *)
(* whatever the organizer sends (InsertSchedule, ClosePendingInbox).       *)
NeverReopened ==
  [][\A a \in Attendee : Settled(req[a]) => Settled(req'[a])]_vars

(* What the organizer's event says somebody has answered is what that      *)
(* attendee's own row says, when requests do not overlap, whatever order   *)
(* answers, edits, invitations and cancellations come in: a reply that     *)
(* carries older answers of others may take theirs back (MergeReply), but  *)
(* never makes one up or turns it round.                                   *)
NoFalseAnswers ==
  event # None => \A a \in Attendee :
    /\ event.part[a] = "ACCEPTED" => req[a] # None /\ req[a].status = "accepted"
    /\ event.part[a] = "DECLINED" => req[a] # None /\ req[a].status = "declined"

(* The copy in the calendar of an attendee who accepted is the revision    *)
(* that was delivered last (Accept, refreshAcceptedCopy).                  *)
AcceptedCopyCurrent ==
  \A a \in Attendee :
    Settled(req[a]) /\ copy[a] # None => copy[a].rev = req[a].ics.rev

Quiet == \A w \in Handler : hd[w].pc = "idle"

(* CANCEL on delete and on removal: whoever is not invited (any more) has  *)
(* neither a copy nor an open invitation, when requests do not overlap,    *)
(* but for two gaps: the cancellation was cut off or failed and none       *)
(* followed (cut), or the event was taken from them by a request that      *)
(* tells nobody (silent), which is createEvent with the UID of the event,  *)
(* an import of it, a PUT of it under another name, or the deletion of its *)
(* calendar.                                                               *)
NoOrphans ==
  Quiet => \A a \in Attendee \ (cut \cup silent) :
    a \notin GuestsOf(event) => copy[a] = None /\ ~Pending(a)
=============================================================================
