--------------------------- MODULE ScheduleProofs ---------------------------
(***************************************************************************)
(* Proofs about Schedule for any number of attendees and of overlapping    *)
(* requests: the types, the agreement of the schedule inbox with the       *)
(* pending rows, and that an answered invitation stays answered.  For      *)
(* requests that do not overlap (OneRequest): the copies follow the        *)
(* deliveries, nobody who is not invited keeps anything, and answers are   *)
(* those that were given.                                                  *)
(***************************************************************************)
EXTENDS Schedule, TLAPS

(* What a transaction leaves behind, given to each action that runs one:   *)
(* typed rows and objects, no row lost, inbox and rows in agreement, and   *)
(* answers that stay.                                                      *)
RowsKept ==
  /\ req' \in [Attendee -> Row \cup {None}]
  /\ inbox' \in [Attendee -> Delivered \cup {None}]
  /\ copy' \in [Attendee -> Ics \cup {None}]
  /\ \A a \in Attendee : req[a] # None => req'[a] # None
  /\ \A a \in Attendee : Settled(req[a]) => Settled(req'[a])
  /\ PendingMatchesInbox'

-----------------------------------------------------------------------------
(* The bodies.                                                             *)

(* The client's draft is a body (Draft).                                   *)
LEMMA DraftTyped ==
  ASSUME event \in Ics \cup {None}, NEW r \in Nat, NEW S \in SUBSET Attendee
  PROVE  Draft(r, S) \in Ics
<1>1. ASSUME NEW a \in Attendee, a \in GuestsOf(event) PROVE event.part[a] \in Partstat
  BY <1>1 DEF GuestsOf, Guests, Ics
<1> QED  BY <1>1 DEF Draft, Ics, Partstat

(* SetAttendeePartstatAny returns a body.                                  *)
LEMMA SetPartstatTyped ==
  ASSUME NEW b \in Ics, NEW a \in Attendee, NEW p \in Partstat
  PROVE  SetPartstat(b, a, p) \in Ics
BY DEF SetPartstat, Ics

(* MergeReply keeps the organizer's event a body, or absent.               *)
LEMMA MergeTyped ==
  ASSUME NEW e \in Ics \cup {None}, NEW r \in Ics
  PROVE  MergeReply(e, r) \in Ics \cup {None}
BY DEF MergeReply, Ics

-----------------------------------------------------------------------------
(* The transactions.                                                       *)

(* InsertSchedule returns a row with the new body that is settled exactly  *)
(* if the old one was.                                                     *)
LEMMA InsertScheduleRow ==
  ASSUME NEW r \in Row \cup {None}, NEW b \in Ics
  PROVE  /\ InsertSchedule(r, b) \in Row
         /\ InsertSchedule(r, b).ics = b
         /\ Settled(r) => Settled(InsertSchedule(r, b))
         /\ ~Settled(r) => InsertSchedule(r, b).status = "pending"
<1>1. InsertSchedule(r, b) \in Row
  BY DEF InsertSchedule, Settled, Row
<1>2. InsertSchedule(r, b) # None
  BY <1>1, NoneAssumption
<1> QED  BY <1>1, <1>2 DEF InsertSchedule, Settled

(* deliverCopies keeps rows, inbox and copies as RowsKept says.            *)
LEMMA DeliverCopiesKeeps ==
  ASSUME StoreTypeOK, PendingMatchesInbox, NEW b \in Ics,
         NEW S \in SUBSET Attendee, deliverCopies(b, S)
  PROVE  RowsKept
<1>1. \A a \in Attendee : req'[a] \in Row \cup {None}
  BY InsertScheduleRow DEF deliverCopies, StoreTypeOK
<1>2. req' \in [Attendee -> Row \cup {None}]
  BY <1>1 DEF deliverCopies
<1>3. [method |-> "REQUEST", ics |-> b] \in Delivered
  BY DEF Delivered
<1>4. inbox' \in [Attendee -> Delivered \cup {None}]
  BY <1>3 DEF deliverCopies, StoreTypeOK
<1>5. \A a \in Attendee : SetPartstat(b, a, "ACCEPTED") \in Ics
  BY SetPartstatTyped DEF Partstat
<1>6. copy' \in [Attendee -> Ics \cup {None}]
  BY <1>5 DEF deliverCopies, StoreTypeOK
<1>7. ASSUME NEW a \in Attendee
      PROVE  /\ req[a] # None => req'[a] # None
             /\ Settled(req[a]) => Settled(req'[a])
             /\ Pending(a)' /\ inbox'[a] # None =>
                  inbox'[a] = [method |-> "REQUEST", ics |-> req'[a].ics]
  <2>1. CASE a \in S
    <3>1. req'[a] = InsertSchedule(req[a], b)
      BY <2>1 DEF deliverCopies
    <3>2. req[a] \in Row \cup {None}
      BY DEF StoreTypeOK
    <3>3. req'[a] \in Row /\ req'[a] # None
      BY <3>1, <3>2, InsertScheduleRow, NoneAssumption
    <3>4. CASE Settled(req[a])
      <4>1. Settled(req'[a])
        BY <3>1, <3>2, <3>4, InsertScheduleRow
      <4> QED  BY <3>3, <4>1 DEF Settled, Pending
    <3>5. CASE ~Settled(req[a])
      <4>1. inbox'[a] = [method |-> "REQUEST", ics |-> b]
        BY <2>1, <3>5 DEF deliverCopies
      <4>2. req'[a].ics = b
        BY <3>1, <3>2, InsertScheduleRow
      <4> QED  BY <3>3, <3>5, <4>1, <4>2
    <3> QED  BY <3>4, <3>5
  <2>2. CASE a \notin S
    <3>1. req'[a] = req[a] /\ inbox'[a] = inbox[a]
      BY <2>2 DEF deliverCopies
    <3> QED  BY <3>1 DEF PendingMatchesInbox, Pending
  <2> QED  BY <2>1, <2>2
<1> QED  BY <1>2, <1>4, <1>6, <1>7 DEF RowsKept, PendingMatchesInbox, Pending

(* deliverCancel keeps rows, inbox and copies as RowsKept says.            *)
LEMMA DeliverCancelKeeps ==
  ASSUME StoreTypeOK, PendingMatchesInbox, NEW b \in Ics,
         NEW S \in SUBSET Attendee, deliverCancel(b, S)
  PROVE  RowsKept
<1>1. [method |-> "CANCEL", ics |-> b] \in Delivered
  BY DEF Delivered
<1>2. inbox' \in [Attendee -> Delivered \cup {None}]
  BY <1>1 DEF deliverCancel, StoreTypeOK
<1>3. copy' \in [Attendee -> Ics \cup {None}]
  BY DEF deliverCancel, StoreTypeOK
<1>4. ASSUME NEW a \in Attendee
      PROVE  /\ req'[a] \in Row \cup {None}
             /\ req[a] # None => req'[a] # None
             /\ Settled(req[a]) => Settled(req'[a])
             /\ Pending(a)' /\ inbox'[a] # None =>
                  inbox'[a] = [method |-> "REQUEST", ics |-> req'[a].ics]
  <2>1. CASE a \in S /\ Pending(a)
    <3>1. req'[a] = [req[a] EXCEPT !.status = "cancelled"]
      BY <2>1 DEF deliverCancel, Pending
    <3>2. req[a] \in Row
      BY <2>1 DEF StoreTypeOK, Pending
    <3>3. req'[a] \in Row /\ req'[a].status = "cancelled"
      BY <3>1, <3>2 DEF Row
    <3> QED  BY <2>1, <3>3, NoneAssumption DEF Settled, Pending
  <2>2. CASE ~(a \in S /\ Pending(a))
    <3>1. req'[a] = req[a]
      BY <2>2 DEF deliverCancel, Pending
    <3>2. a \notin S => inbox'[a] = inbox[a]
      BY DEF deliverCancel
    <3> QED  BY <2>2, <3>1, <3>2 DEF PendingMatchesInbox, Pending, StoreTypeOK
  <2> QED  BY <2>1, <2>2
<1>5. req' \in [Attendee -> Row \cup {None}]
  BY <1>4 DEF deliverCancel
<1> QED  BY <1>2, <1>3, <1>4, <1>5 DEF RowsKept, PendingMatchesInbox, Pending

(* A step that leaves rows and objects alone.                              *)
LEMMA UntouchedKeeps ==
  ASSUME StoreTypeOK, PendingMatchesInbox, UNCHANGED <<req, inbox, copy>>
  PROVE  RowsKept
BY DEF RowsKept, StoreTypeOK, PendingMatchesInbox, Pending

(* An answer to an invitation that has a row: the inbox object goes and    *)
(* the row is settled (Accept, Decline).                                   *)
LEMMA AnswerKeeps ==
  ASSUME StoreTypeOK, PendingMatchesInbox, NEW a \in Attendee, req[a] # None,
         NEW s \in {"accepted", "declined"},
         inbox' = [inbox EXCEPT ![a] = None],
         req' = [req EXCEPT ![a].status = s],
         copy' \in [Attendee -> Ics \cup {None}]
  PROVE  RowsKept
<1>1. req[a] \in Row
  BY DEF StoreTypeOK
<1>2. req'[a] = [req[a] EXCEPT !.status = s] /\ inbox'[a] = None
  BY DEF StoreTypeOK
<1>3. req'[a] \in Row /\ req'[a].status = s
  BY <1>1, <1>2 DEF Row
<1>4. \A g \in Attendee \ {a} : req'[g] = req[g] /\ inbox'[g] = inbox[g]
  BY DEF StoreTypeOK
<1>5. req' \in [Attendee -> Row \cup {None}]
  BY <1>3, <1>4 DEF StoreTypeOK
<1>6. inbox' \in [Attendee -> Delivered \cup {None}]
  BY DEF StoreTypeOK
<1>7. Settled(req'[a]) /\ req'[a] # None
  BY <1>3, NoneAssumption DEF Settled
<1>8. ASSUME NEW g \in Attendee, Settled(req[g]) PROVE Settled(req'[g])
  BY <1>4, <1>7, <1>8
<1>9. PendingMatchesInbox'
  BY <1>2, <1>4 DEF PendingMatchesInbox, Pending
<1> QED  BY <1>4, <1>5, <1>6, <1>7, <1>8, <1>9 DEF RowsKept

-----------------------------------------------------------------------------
(* The locals of the requests.                                             *)

(* The part of TypeOK about the requests.                                  *)
LocalsTyped ==
  /\ hd \in [Handler -> HandlerLocals]
  /\ \A w \in Handler : hd[w].pc \in {"accept", "decline"} => req[hd[w].who] # None

(* A request that ends has typed locals.                                   *)
LEMMA IdleTyped == Idle \in HandlerLocals
BY DEF Idle, HandlerLocals

(* A step that gives one request typed locals and loses no row: the        *)
(* answers of the other requests still find theirs.                        *)
LEMMA LocalsKept ==
  ASSUME LocalsTyped, RowsKept, NEW w \in Handler, NEW L \in HandlerLocals,
         hd' = [hd EXCEPT ![w] = L],
         L.pc \in {"accept", "decline"} => req[L.who] # None
  PROVE  LocalsTyped'
<1>1. hd' \in [Handler -> HandlerLocals]
  BY DEF LocalsTyped
<1>2. ASSUME NEW v \in Handler, hd'[v].pc \in {"accept", "decline"}
      PROVE  req'[hd'[v].who] # None
  <2>1. hd'[v] \in HandlerLocals
    BY <1>1
  <2>2. hd'[v].who \in Attendee
    BY <1>2, <2>1 DEF HandlerLocals
  <2>3. req[hd'[v].who] # None
    BY <1>2 DEF LocalsTyped
  <2> QED  BY <2>2, <2>3 DEF RowsKept
<1> QED  BY <1>1, <1>2 DEF LocalsTyped

(* A request that goes on to another step keeps its locals but for pc and  *)
(* perhaps body.                                                           *)
LEMMA GotoTyped ==
  ASSUME LocalsTyped, NEW w \in Handler, NEW b \in Ics,
         NEW p \in {"reread", "cancel", "deliver", "invite", "delete"}
  PROVE  /\ [hd[w] EXCEPT !.pc = p, !.body = b] \in HandlerLocals
         /\ hd[w].body \in Ics \/ p = "delete" =>
              [hd[w] EXCEPT !.pc = p] \in HandlerLocals
BY DEF LocalsTyped, HandlerLocals

-----------------------------------------------------------------------------
(* Every step.                                                             *)

Inv == TypeOK /\ PendingMatchesInbox

(* The organizer's requests start.                                         *)
LEMMA OrganizerStarts ==
  ASSUME Inv, NEW w \in Handler, NEW S \in SUBSET Attendee,
         \/ PutObject(w, S) \/ createEvent(w, S) \/ updateEvent(w, S)
         \/ invite(w, S) \/ DeleteObject(w)
  PROVE  StoreTypeOK' /\ RowsKept /\ LocalsTyped'
<1>1. StoreTypeOK /\ LocalsTyped /\ PendingMatchesInbox
  BY DEF Inv, TypeOK, LocalsTyped
<1>2. UNCHANGED <<event, req, inbox, copy, cut, silent>> /\ requests' = requests + 1
  BY DEF PutObject, createEvent, updateEvent, invite, DeleteObject, Start
<1>3. RowsKept
  BY <1>1, <1>2, UntouchedKeeps
<1>4. StoreTypeOK'
  BY <1>1, <1>2 DEF StoreTypeOK
<1>5. event \in Ics \cup {None} /\ requests + 1 \in Nat
  BY <1>1 DEF StoreTypeOK
<1>6. PICK L : /\ hd' = [hd EXCEPT ![w] = L]
               /\ \/ \E prev \in {event, None} :
                       L = [Idle EXCEPT !.pc = "write", !.kind = "put", !.prev = prev,
                                        !.body = Draft(requests + 1, S)]
                  \/ L = [Idle EXCEPT !.pc = "write", !.kind = "edit",
                                      !.body = Draft(requests + 1, {}), !.inv = S]
                  \/ L = [Idle EXCEPT !.pc = "write", !.kind = "edit", !.prev = event,
                                      !.body = Draft(requests + 1, Guests(event)),
                                      !.inv = S]
                  \/ /\ event # None
                     /\ L = [Idle EXCEPT !.pc = "invite", !.kind = "edit",
                                         !.body = event, !.inv = S]
                  \/ /\ event # None
                     /\ L = [Idle EXCEPT !.pc = IF Guests(event) = {} THEN "delete"
                                                ELSE "uninvite",
                                         !.kind = "delete", !.prev = event]
  BY DEF PutObject, createEvent, updateEvent, invite, DeleteObject, Start
<1>7. Guests(event) \in SUBSET Attendee
  BY DEF Guests
<1>8. /\ Draft(requests + 1, S) \in Ics /\ Draft(requests + 1, {}) \in Ics
      /\ Draft(requests + 1, Guests(event)) \in Ics
  BY <1>5, <1>7, DraftTyped
<1>9. L \in HandlerLocals /\ L.pc \notin {"accept", "decline"}
  BY <1>5, <1>6, <1>8 DEF Idle, HandlerLocals
<1> QED  BY <1>1, <1>3, <1>4, <1>6, <1>9, LocalsKept

(* The requests of one step that write the event or delete it.             *)
LEMMA SilentSteps ==
  ASSUME Inv, NEW w \in Handler, NEW S \in SUBSET Attendee,
         importEvents(w, S) \/ DeleteCalendar(w)
  PROVE  StoreTypeOK' /\ RowsKept /\ LocalsTyped'
<1>1. StoreTypeOK /\ LocalsTyped /\ PendingMatchesInbox
  BY DEF Inv, TypeOK, LocalsTyped
<1>2. UNCHANGED <<req, inbox, copy, hd, cut>> /\ requests' = requests + 1
  BY DEF importEvents, DeleteCalendar
<1>3. RowsKept
  BY <1>1, <1>2, UntouchedKeeps
<1>4. Draft(requests + 1, S) \in Ics /\ GuestsOf(event) \subseteq Attendee
  BY <1>1, DraftTyped DEF StoreTypeOK, GuestsOf, Guests
<1>5. event' \in Ics \cup {None} /\ silent' \subseteq Attendee
  BY <1>1, <1>4 DEF importEvents, DeleteCalendar, StoreTypeOK, GuestsOf, Guests
<1>6. StoreTypeOK'
  BY <1>1, <1>2, <1>5 DEF StoreTypeOK
<1> QED  BY <1>1, <1>2, <1>3, <1>6 DEF LocalsTyped

(* The attendees' requests start.                                          *)
LEMMA AttendeeStarts ==
  ASSUME Inv, NEW w \in Handler, NEW a \in Attendee,
         \/ \E answer \in {"accept", "decline"} : respondInvitation(w, a, answer)
         \/ \E p \in {"ACCEPTED", "DECLINED"} : OutboxReply(w, a, p)
  PROVE  StoreTypeOK' /\ RowsKept /\ LocalsTyped'
<1>1. StoreTypeOK /\ LocalsTyped /\ PendingMatchesInbox
  BY DEF Inv, TypeOK, LocalsTyped
<1>2. UNCHANGED <<event, req, inbox, copy, cut, silent>> /\ requests' = requests + 1
  BY DEF respondInvitation, OutboxReply, Start
<1>3. RowsKept
  BY <1>1, <1>2, UntouchedKeeps
<1>4. StoreTypeOK'
  BY <1>1, <1>2 DEF StoreTypeOK
<1>5. CASE \E answer \in {"accept", "decline"} : respondInvitation(w, a, answer)
  <2>1. PICK answer \in {"accept", "decline"} : respondInvitation(w, a, answer)
    BY <1>5
  <2>2. req[a] \in Row /\ req[a] # None
    BY <1>1, <2>1 DEF respondInvitation, StoreTypeOK
  <2>3. PICK b \in Ics : b = req[a].ics
    BY <2>2 DEF Row
  <2> DEFINE L == [Idle EXCEPT !.pc = answer, !.kind = "respond", !.who = a, !.body = b]
  <2>4. L \in HandlerLocals /\ L.who = a
    BY <2>1, <2>3 DEF Idle, HandlerLocals
  <2>5. hd' = [hd EXCEPT ![w] = L]
    BY <2>1, <2>3 DEF respondInvitation, Start
  <2> HIDE DEF L
  <2> QED  BY <1>1, <1>3, <1>4, <2>2, <2>4, <2>5, LocalsKept
<1>6. CASE \E p \in {"ACCEPTED", "DECLINED"} : OutboxReply(w, a, p)
  <2>1. PICK p \in {"ACCEPTED", "DECLINED"} : OutboxReply(w, a, p)
    BY <1>6
  <2> DEFINE reply == [rev |-> 0, part |-> [g \in Attendee |-> IF g = a THEN p ELSE "absent"]]
  <2>2. reply \in Ics
    BY DEF Ics, Partstat
  <2>3. event \in Ics
    BY <1>1, <2>1 DEF OutboxReply, StoreTypeOK
  <2>4. MergeReply(event, reply) \in Ics
    BY <2>2, <2>3, NoneAssumption DEF MergeReply, Ics
  <2>5. PICK b \in Ics : b = MergeReply(event, reply)
    BY <2>4
  <2> DEFINE L == [Idle EXCEPT !.pc = "merge", !.kind = "reply", !.who = a, !.body = b]
  <2>6. L \in HandlerLocals /\ L.pc = "merge"
    BY DEF Idle, HandlerLocals
  <2>7. hd' = [hd EXCEPT ![w] = L]
    BY <2>1, <2>5 DEF OutboxReply, Start
  <2> HIDE DEF L
  <2> QED  BY <1>1, <1>3, <1>4, <2>6, <2>7, LocalsKept
<1> QED  BY <1>5, <1>6

(* The steps that write the event or only read it.                         *)
LEMMA EventSteps ==
  ASSUME Inv, NEW w \in Handler,
         \/ WriteEvent(w) \/ RereadEvent(w) \/ RereadMissing(w) \/ NoneRemoved(w)
         \/ CancelFails(w) \/ DeleteEvent(w) \/ WriteMerged(w) \/ Abandon(w)
  PROVE  StoreTypeOK' /\ RowsKept /\ LocalsTyped'
<1>1. StoreTypeOK /\ LocalsTyped /\ PendingMatchesInbox
  BY DEF Inv, TypeOK, LocalsTyped
<1>2. UNCHANGED <<req, inbox, copy, requests>>
  BY DEF WriteEvent, RereadEvent, RereadMissing, NoneRemoved, CancelFails,
         DeleteEvent, WriteMerged, Abandon
<1>3. RowsKept
  BY <1>1, <1>2, UntouchedKeeps
<1>4. hd[w] \in HandlerLocals /\ hd \in [Handler -> HandlerLocals]
  BY <1>1 DEF LocalsTyped
<1>5. Removed(w) \subseteq Attendee
  BY DEF Removed, GuestsOf, Guests
<1>6. event' \in Ics \cup {None} /\ cut' \subseteq Attendee /\ silent' \subseteq Attendee
  BY <1>1, <1>4, <1>5 DEF GuestsOf, StoreTypeOK, HandlerLocals, WriteEvent, RereadEvent,
     RereadMissing, NoneRemoved, CancelFails, DeleteEvent, WriteMerged, Abandon, Guests
<1>7. StoreTypeOK'
  BY <1>1, <1>2, <1>6 DEF StoreTypeOK
<1>8. LocalsTyped'
  <2>1. CASE Finish(w)
    BY <1>1, <1>3, <2>1, IdleTyped, LocalsKept DEF Finish, Idle
  <2>2. CASE WriteEvent(w) \/ NoneRemoved(w)
    <3>1. PICK p \in {"reread", "deliver"} : Goto(w, p)
      BY <2>2 DEF WriteEvent, NoneRemoved
    <3>2. PICK b \in Ics : b = hd[w].body
      BY <1>4, <2>2 DEF WriteEvent, NoneRemoved, HandlerLocals
    <3>3. PICK L \in HandlerLocals : L = [hd[w] EXCEPT !.pc = p]
      BY <1>1, <3>2, GotoTyped
    <3>4. L.pc = p
      BY <1>4, <3>3 DEF HandlerLocals
    <3>5. hd' = [hd EXCEPT ![w] = L]
      BY <1>4, <3>1, <3>3 DEF Goto
    <3> QED  BY <1>1, <1>3, <3>4, <3>5, LocalsKept
  <2>3. CASE RereadEvent(w) /\ ~Finish(w)
    <3>1. event \in Ics
      BY <1>1, <2>3 DEF RereadEvent, StoreTypeOK
    <3>2. PICK p \in {"cancel", "invite"} :
            hd' = [hd EXCEPT ![w].body = event, ![w].pc = p]
      BY <2>3 DEF RereadEvent
    <3>3. PICK L \in HandlerLocals : L = [hd[w] EXCEPT !.pc = p, !.body = event]
      BY <1>1, <3>1, GotoTyped
    <3>4. L.pc = p
      BY <1>4, <3>3 DEF HandlerLocals
    <3>5. hd' = [hd EXCEPT ![w] = L]
      BY <1>4, <3>2, <3>3 DEF HandlerLocals
    <3> QED  BY <1>1, <1>3, <3>4, <3>5, LocalsKept
  <2>4. CASE CancelFails(w)
    <3>1. PICK b \in Ics : b = hd[w].prev
      BY <1>4, <2>4 DEF CancelFails, HandlerLocals
    <3>2. PICK L \in HandlerLocals : L = [hd[w] EXCEPT !.pc = "delete"]
      BY <1>1, <3>1, GotoTyped
    <3>3. L.pc = "delete"
      BY <1>4, <3>2 DEF HandlerLocals
    <3>4. hd' = [hd EXCEPT ![w] = L]
      BY <1>4, <2>4, <3>2 DEF CancelFails, Goto
    <3> QED  BY <1>1, <1>3, <3>3, <3>4, LocalsKept
  <2> QED  BY <2>1, <2>2, <2>3, <2>4 DEF RereadMissing, DeleteEvent, WriteMerged, Abandon
<1> QED  BY <1>3, <1>7, <1>8

(* The steps that deliver.                                                 *)
LEMMA DeliverySteps ==
  ASSUME Inv, NEW w \in Handler,
         DeliverRemoved(w) \/ DeliverFromPut(w) \/ ApplyLocalInvite(w) \/ CancelFromDelete(w)
  PROVE  StoreTypeOK' /\ RowsKept /\ LocalsTyped'
<1>1. StoreTypeOK /\ LocalsTyped /\ PendingMatchesInbox
  BY DEF Inv, TypeOK, LocalsTyped
<1>2. hd[w] \in HandlerLocals /\ hd \in [Handler -> HandlerLocals]
  BY <1>1 DEF LocalsTyped
<1>3. requests' = requests /\ cut' \subseteq cut /\ silent' \subseteq silent
  BY DEF DeliverRemoved, DeliverFromPut, ApplyLocalInvite, CancelFromDelete, Told
<1>4. ASSUME RowsKept, event' \in Ics \cup {None} PROVE StoreTypeOK'
  BY <1>1, <1>3, <1>4 DEF StoreTypeOK, RowsKept
<1>5. CASE DeliverRemoved(w) \/ CancelFromDelete(w)
  <2>1. Removed(w) \subseteq Attendee /\ Guests(hd[w].prev) \subseteq Attendee
    BY DEF Removed, GuestsOf, Guests
  <2>2. RowsKept
    BY <1>1, <1>2, <1>5, <2>1, DeliverCancelKeeps
       DEF DeliverRemoved, CancelFromDelete, HandlerLocals
  <2>3. event' \in Ics \cup {None}
    BY <1>1, <1>5 DEF DeliverRemoved, CancelFromDelete, StoreTypeOK
  <2>4. PICK L : L \in HandlerLocals /\ L.pc \in {"deliver", "delete"}
                 /\ hd' = [hd EXCEPT ![w] = L]
    <3>1. CASE DeliverRemoved(w)
      <4>1. hd[w].body \in Ics
        BY <1>2, <3>1 DEF DeliverRemoved, HandlerLocals
      <4>2. [hd[w] EXCEPT !.pc = "deliver"] \in HandlerLocals
        BY <1>1, <4>1, GotoTyped
      <4> QED  BY <1>2, <3>1, <4>2 DEF DeliverRemoved, Goto, HandlerLocals
    <3>2. CASE CancelFromDelete(w)
      <4>1. PICK b \in Ics : b = hd[w].prev
        BY <1>2, <3>2 DEF CancelFromDelete, HandlerLocals
      <4>2. [hd[w] EXCEPT !.pc = "delete"] \in HandlerLocals
        BY <1>1, <4>1, GotoTyped
      <4> QED  BY <1>2, <3>2, <4>2 DEF CancelFromDelete, Goto, HandlerLocals
    <3> QED  BY <1>5, <3>1, <3>2
  <2> QED  BY <1>1, <1>4, <2>2, <2>3, <2>4, LocalsKept
<1>6. CASE DeliverFromPut(w)
  <2>1. hd[w].body \in Ics /\ Guests(hd[w].body) \subseteq Attendee
    BY <1>2, <1>6 DEF DeliverFromPut, HandlerLocals, Guests
  <2>2. RowsKept
    BY <1>1, <1>6, <2>1, DeliverCopiesKeeps DEF DeliverFromPut
  <2>3. event' \in Ics \cup {None}
    BY <1>1, <1>6 DEF DeliverFromPut, StoreTypeOK
  <2>4. LocalsTyped'
    BY <1>1, <1>6, <2>2, IdleTyped, LocalsKept DEF DeliverFromPut, Finish, Idle
  <2> QED  BY <1>4, <2>2, <2>3, <2>4
<1>7. CASE ApplyLocalInvite(w)
  <2>1. hd[w].body \in Ics /\ hd[w].inv \subseteq Attendee
    BY <1>2, <1>7 DEF ApplyLocalInvite, HandlerLocals
  <2> DEFINE b == [hd[w].body EXCEPT !.part =
                     [a \in Attendee |-> IF a \in hd[w].inv /\ @[a] = "absent"
                                         THEN "NEEDS-ACTION" ELSE @[a]]]
  <2>2. b \in Ics
    BY <2>1 DEF Ics, Partstat
  <2>3. event' = b /\ deliverCopies(b, hd[w].inv) /\ Finish(w)
    BY <1>7 DEF ApplyLocalInvite
  <2> HIDE DEF b
  <2>4. RowsKept
    BY <1>1, <2>1, <2>2, <2>3, DeliverCopiesKeeps
  <2>5. LocalsTyped'
    BY <1>1, <2>3, <2>4, IdleTyped, LocalsKept DEF Finish, Idle
  <2> QED  BY <1>4, <2>2, <2>3, <2>4, <2>5
<1> QED  BY <1>5, <1>6, <1>7

(* The answers.                                                            *)
LEMMA AnswerSteps ==
  ASSUME Inv, NEW w \in Handler, Accept(w) \/ Decline(w)
  PROVE  StoreTypeOK' /\ RowsKept /\ LocalsTyped'
<1>1. StoreTypeOK /\ LocalsTyped /\ PendingMatchesInbox
  BY DEF Inv, TypeOK, LocalsTyped
<1>2. hd[w] \in HandlerLocals /\ hd[w].pc \in {"accept", "decline"}
  BY <1>1 DEF LocalsTyped, Accept, Decline
<1>3. PICK a \in Attendee : a = hd[w].who
  BY <1>2 DEF HandlerLocals
<1>4. req[a] # None
  BY <1>1, <1>2, <1>3 DEF LocalsTyped
<1>5. hd[w].body \in Ics
  BY <1>2 DEF HandlerLocals
<1>6. \A p \in Partstat : SetPartstat(hd[w].body, a, p) \in Ics
  BY <1>5, SetPartstatTyped
<1>7. "ACCEPTED" \in Partstat /\ "DECLINED" \in Partstat
  BY DEF Partstat
<1>8. PICK clean \in Ics, s \in {"accepted", "declined"} :
        /\ event' = MergeReply(event, clean)
        /\ inbox' = [inbox EXCEPT ![a] = None]
        /\ req' = [req EXCEPT ![a].status = s]
        /\ copy' = [copy EXCEPT ![a] = clean] \/ copy' = copy
        /\ Finish(w) /\ requests' = requests /\ UNCHANGED <<cut, silent>>
  BY <1>3, <1>6, <1>7 DEF Accept, Decline
<1>9. copy' \in [Attendee -> Ics \cup {None}]
  BY <1>1, <1>8 DEF StoreTypeOK
<1>10. RowsKept
  BY <1>1, <1>4, <1>8, <1>9, AnswerKeeps
<1>11. event' \in Ics \cup {None}
  BY <1>1, <1>8, MergeTyped DEF StoreTypeOK
<1>12. StoreTypeOK'
  BY <1>1, <1>8, <1>10, <1>11 DEF StoreTypeOK, RowsKept
<1>13. LocalsTyped'
  BY <1>1, <1>8, <1>10, IdleTyped, LocalsKept DEF Finish, Idle
<1> QED  BY <1>10, <1>12, <1>13

(* The steps that are not part of a request with locals.                   *)
LEMMA SingleSteps ==
  ASSUME Inv,
         \/ \E S \in SUBSET Attendee : OutboxRequest(S) \/ OutboxCancel(S)
         \/ \E a \in Attendee : DeleteCopy(a) \/ DeleteInbox(a)
  PROVE  StoreTypeOK' /\ RowsKept /\ LocalsTyped'
<1>1. StoreTypeOK /\ LocalsTyped /\ PendingMatchesInbox
  BY DEF Inv, TypeOK, LocalsTyped
<1>2. /\ event' = event /\ cut' \subseteq cut /\ silent' \subseteq silent
      /\ hd' = hd /\ requests' \in Nat
  BY <1>1 DEF OutboxRequest, OutboxCancel, DeleteCopy, DeleteInbox, StoreTypeOK, Told
<1>3. RowsKept
  <2>1. CASE \E S \in SUBSET Attendee : OutboxRequest(S) \/ OutboxCancel(S)
    <3>1. PICK S \in SUBSET Attendee : OutboxRequest(S) \/ OutboxCancel(S)
      BY <2>1
    <3>2. PICK b \in Ics : b = Draft(requests + 1, S)
      BY <1>1, DraftTyped DEF StoreTypeOK
    <3> QED  BY <1>1, <3>1, <3>2, DeliverCopiesKeeps, DeliverCancelKeeps
             DEF OutboxRequest, OutboxCancel
  <2>2. CASE \E a \in Attendee : DeleteCopy(a)
    BY <1>1, <2>2 DEF DeleteCopy, RowsKept, StoreTypeOK, PendingMatchesInbox, Pending
  <2>3. CASE \E a \in Attendee : DeleteInbox(a)
    <3>1. PICK a \in Attendee : inbox' = [inbox EXCEPT ![a] = None]
      BY <2>3 DEF DeleteInbox
    <3>2. UNCHANGED <<req, copy>>
      BY <2>3 DEF DeleteInbox
    <3>3. PendingMatchesInbox'
      BY <1>1, <3>1, <3>2 DEF StoreTypeOK, PendingMatchesInbox, Pending
    <3> QED  BY <1>1, <3>1, <3>2, <3>3 DEF RowsKept, StoreTypeOK
  <2> QED  BY <2>1, <2>2, <2>3
<1>4. StoreTypeOK'
  BY <1>1, <1>2, <1>3 DEF StoreTypeOK, RowsKept
<1>5. LocalsTyped'
  <2>1. ASSUME NEW v \in Handler, hd[v].pc \in {"accept", "decline"}
        PROVE  req'[hd[v].who] # None
    <3>1. hd[v].who \in Attendee /\ req[hd[v].who] # None
      BY <1>1, <2>1 DEF LocalsTyped, HandlerLocals
    <3> QED  BY <1>3, <3>1 DEF RowsKept
  <2> QED  BY <1>1, <1>2, <2>1 DEF LocalsTyped
<1> QED  BY <1>3, <1>4, <1>5

(* The initial state.                                                      *)
LEMMA InitInv == Init => Inv
BY IdleTyped DEF Init, Inv, TypeOK, StoreTypeOK, PendingMatchesInbox, Pending, Idle

(* Every step keeps the invariant and the answers.                         *)
LEMMA NextKeeps ==
  ASSUME Inv, [Next]_vars
  PROVE  Inv' /\ \A a \in Attendee : Settled(req[a]) => Settled(req'[a])
<1>1. CASE Next
  <2>1. StoreTypeOK' /\ RowsKept /\ LocalsTyped'
    BY <1>1, OrganizerStarts, SilentSteps, AttendeeStarts, EventSteps, DeliverySteps,
       AnswerSteps, SingleSteps, Zenon DEF Next, Step
  <2> QED  BY <2>1 DEF RowsKept, LocalsTyped, Inv, TypeOK
<1>2. CASE UNCHANGED vars
  BY <1>2 DEF vars, Inv, TypeOK, StoreTypeOK, PendingMatchesInbox, Pending
<1> QED  BY <1>1, <1>2

(* Whatever requests overlap, every variable keeps its type and every      *)
(* answer finds the row it settles.                                        *)
THEOREM TypeCorrect == Spec => []TypeOK
<1>1. Inv => TypeOK
  BY DEF Inv
<1> QED  BY <1>1, InitInv, NextKeeps, PTL DEF Spec

(* The object in the schedule inbox of an attendee with a pending          *)
(* invitation is always that invitation, for any number of attendees and   *)
(* of overlapping requests (deliverCopies, deliverCancel, Accept, Decline).*)
THEOREM InboxAgrees == Spec => []PendingMatchesInbox
<1>1. Inv => PendingMatchesInbox
  BY DEF Inv
<1> QED  BY <1>1, InitInv, NextKeeps, PTL DEF Spec

(* No delivery, cancellation or answer ever reopens an invitation that was *)
(* accepted or declined (InsertSchedule, ClosePendingInbox).               *)
THEOREM AnswersStay == Spec => NeverReopened
<1>1. Inv /\ [Next]_vars => [\A a \in Attendee : Settled(req[a]) => Settled(req'[a])]_vars
  BY NextKeeps
<1> QED  BY <1>1, InitInv, NextKeeps, PTL DEF Spec, NeverReopened

-----------------------------------------------------------------------------
(* Requests that do not overlap, of clients that use no outbox.            *)

OneRequest == (\A v, w \in Handler : v = w) /\ ~OutboxPosts

(* A body's answers are the answers given.                                 *)
Honest(b) ==
  b # None => \A a \in Attendee :
    /\ b.part[a] = "ACCEPTED" => req[a] # None /\ req[a].status = "accepted"
    /\ b.part[a] = "DECLINED" => req[a] # None /\ req[a].status = "declined"

Clear(a) == copy[a] = None /\ ~Pending(a)

(* The attendees that have lost the event and were not told.               *)
Untold == cut \cup silent

(* Whose cancellation a request l still owes.                              *)
Owed(l) ==
  IF l.kind = "put" /\ l.pc \in {"reread", "cancel"}
  THEN GuestsOf(l.prev) \ GuestsOf(l.body) ELSE {}

(* What the locals of the one request say of the state: what it has read   *)
(* is still so, and a deletion has left nothing to anybody.                *)
LocalsTrue(l) ==
  /\ Honest(l.body)
  /\ l.pc = "write" => l.kind \in {"put", "edit"}
  /\ l.pc \in {"reread", "cancel", "deliver", "invite"} => event = l.body
  /\ l.pc = "reread" => l.kind \in {"put", "edit"}
  /\ l.pc = "uninvite" => l.prev = event
  /\ l.pc = "delete" => \A a \in Attendee \ Untold : Clear(a)
  /\ l.pc \in {"accept", "decline"} => Pending(l.who) /\ l.body = req[l.who].ics
  /\ l.pc # "merge"

(* A copy belongs to an answer, and is of the revision that was answered   *)
(* or delivered since.                                                     *)
CopiesAnswered ==
  \A a \in Attendee : copy[a] # None =>
    req[a] # None /\ req[a].status = "accepted" /\ copy[a].rev = req[a].ics.rev

AnswersHonest == Honest(event) /\ \A a \in Attendee : req[a] # None => Honest(req[a].ics)

Uninvited ==
  \A a \in Attendee \ Untold :
    a \notin GuestsOf(event) => Clear(a) \/ \E w \in Handler : a \in Owed(hd[w])

Serial ==
  TypeOK /\ CopiesAnswered /\ AnswersHonest /\ Uninvited /\ \A w \in Handler : LocalsTrue(hd[w])

(* What a step may do to the rows: an answer stays what it was.            *)
AnswersKept ==
  \A a \in Attendee : Settled(req[a]) => req'[a] # None /\ req'[a].status = req[a].status

HonestAfter(b) ==
  b # None => \A a \in Attendee :
    /\ b.part[a] = "ACCEPTED" => req'[a] # None /\ req'[a].status = "accepted"
    /\ b.part[a] = "DECLINED" => req'[a] # None /\ req'[a].status = "declined"

RowsHonestAfter == \A a \in Attendee : req'[a] # None => HonestAfter(req'[a].ics)

(* Answers that were given stay given.                                     *)
LEMMA HonestStays ==
  ASSUME NEW b, Honest(b), AnswersKept
  PROVE  HonestAfter(b)
BY DEF Honest, HonestAfter, AnswersKept, Settled

(* The request in progress is the only one.                                *)
LEMMA LocalsAre ==
  ASSUME OneRequest, Serial, NEW w \in Handler
  PROVE  /\ hd \in [Handler -> HandlerLocals] /\ hd[w] \in HandlerLocals
         /\ LocalsTrue(hd[w]) /\ StoreTypeOK
         /\ CopiesAnswered /\ AnswersHonest
         /\ \A a \in Attendee \ Untold :
              a \notin GuestsOf(event) => Clear(a) \/ a \in Owed(hd[w])
BY DEF OneRequest, Serial, TypeOK, Uninvited

LEMMA SerialIs ==
  ASSUME OneRequest, TypeOK', NEW w \in Handler, CopiesAnswered', RowsHonestAfter,
         HonestAfter(event'), LocalsTrue(hd[w])',
         \A a \in Attendee \ Untold' :
           a \notin GuestsOf(event') => Clear(a)' \/ a \in Owed(hd'[w])
  PROVE  Serial'
<1>1. \A v \in Handler : LocalsTrue(hd[v])'
  BY DEF OneRequest
<1>2. Uninvited'
  BY DEF Uninvited
<1>3. AnswersHonest'
  BY DEF AnswersHonest, Honest, RowsHonestAfter, HonestAfter
<1> QED  BY <1>1, <1>2, <1>3 DEF Serial

(* A step that leaves the rows and the copies alone.                       *)
LEMMA CalmSerial ==
  ASSUME OneRequest, Serial, TypeOK', NEW w \in Handler, UNCHANGED <<req, copy>>,
         Honest(event'), LocalsTrue(hd[w])',
         \A a \in Attendee \ Untold' :
           a \notin GuestsOf(event') => Clear(a) \/ a \in Owed(hd'[w])
  PROVE  Serial'
<1>1. AnswersKept
  BY DEF AnswersKept, Settled
<1>2. HonestAfter(event') /\ RowsHonestAfter
  BY <1>1, HonestStays, LocalsAre DEF AnswersHonest, RowsHonestAfter
<1>3. CopiesAnswered'
  BY LocalsAre DEF CopiesAnswered
<1>4. \A a \in Attendee : Clear(a)' = Clear(a)
  BY DEF Clear, Pending
<1> QED  BY <1>2, <1>3, <1>4, SerialIs

LEMMA GotoIs ==
  ASSUME hd \in [Handler -> HandlerLocals], NEW w \in Handler, NEW p, Goto(w, p)
  PROVE  /\ hd'[w].pc = p /\ hd'[w].kind = hd[w].kind /\ hd'[w].prev = hd[w].prev
         /\ hd'[w].body = hd[w].body /\ hd'[w].inv = hd[w].inv /\ hd'[w].who = hd[w].who
<1>1. hd[w] \in HandlerLocals /\ hd'[w] = [hd[w] EXCEPT !.pc = p]
  BY DEF Goto
<1> QED  BY <1>1 DEF HandlerLocals

LEMMA FinishIs ==
  ASSUME hd \in [Handler -> HandlerLocals], NEW w \in Handler, Finish(w)
  PROVE  hd'[w].pc = "idle" /\ hd'[w].body = None /\ Owed(hd'[w]) = {} /\ LocalsTrue(hd[w])'
<1>1. hd'[w] = Idle
  BY DEF Finish
<1>2. hd'[w].pc = "idle" /\ hd'[w].body = None
  BY <1>1 DEF Idle
<1> QED  BY <1>2 DEF Owed, LocalsTrue, Honest

(* The client's draft answers for nobody and has the guests it names.      *)
LEMMA DraftIs ==
  ASSUME Honest(event), NEW r, NEW S \in SUBSET Attendee
  PROVE  /\ Honest(Draft(r, S)) /\ Guests(Draft(r, S)) = S
         /\ Draft(r, S) \in Ics => Draft(r, S) # None
<1>1. /\ \A a \in Attendee : Draft(r, S).part[a] =
           IF a \notin S THEN "absent"
           ELSE IF a \in GuestsOf(event) THEN event.part[a] ELSE "NEEDS-ACTION"
  BY DEF Draft
<1>2. \A a \in Attendee : a \in GuestsOf(event) => event # None /\ event.part[a] # "absent"
  BY DEF GuestsOf, Guests
<1> HIDE DEF Draft
<1>3. Guests(Draft(r, S)) = S
  BY <1>1, <1>2 DEF Guests
<1>4. Honest(Draft(r, S))
  BY <1>1, <1>2 DEF Honest
<1> QED  BY <1>3, <1>4, NoneAssumption

-----------------------------------------------------------------------------
(* What the transactions do to answers and copies.                         *)

LEMMA CopiesSerial ==
  ASSUME StoreTypeOK, CopiesAnswered, AnswersHonest,
         NEW b \in Ics, Honest(b), NEW S \in SUBSET Attendee, deliverCopies(b, S)
  PROVE  /\ AnswersKept /\ CopiesAnswered' /\ RowsHonestAfter
         /\ \A a \in Attendee \ S : Clear(a) => Clear(a)'
<1>1. ASSUME NEW a \in Attendee
      PROVE  req[a] \in Row \cup {None} /\ copy[a] \in Ics \cup {None}
  BY DEF StoreTypeOK
<1>2. ASSUME NEW a \in S
      PROVE  /\ req'[a] = InsertSchedule(req[a], b) /\ req'[a] # None /\ req'[a].ics = b
             /\ Settled(req[a]) => req'[a].status = req[a].status
             /\ copy'[a] = IF Settled(req[a]) /\ req[a].status = "accepted" /\ copy[a] # None
                           THEN SetPartstat(b, a, "ACCEPTED") ELSE copy[a]
  <2>1. req'[a] = InsertSchedule(req[a], b)
    BY DEF deliverCopies
  <2>2. req'[a] \in Row /\ req'[a] # None /\ req'[a].ics = b
    BY <1>1, <2>1, InsertScheduleRow, NoneAssumption
  <2>3. Settled(req[a]) => req'[a].status = req[a].status
    BY <2>1 DEF InsertSchedule
  <2> QED  BY <2>1, <2>2, <2>3 DEF deliverCopies
<1>3. \A a \in Attendee \ S : req'[a] = req[a] /\ copy'[a] = copy[a]
  BY DEF deliverCopies
<1>4. AnswersKept
  BY <1>2, <1>3 DEF AnswersKept, Settled
<1>5. RowsHonestAfter
  <2> SUFFICES ASSUME NEW a \in Attendee, req'[a] # None  PROVE HonestAfter(req'[a].ics)
    BY DEF RowsHonestAfter
  <2>1. CASE a \in S
    BY <1>2, <1>4, <2>1, HonestStays
  <2>2. CASE a \notin S
    BY <1>3, <1>4, <2>2, HonestStays DEF AnswersHonest
  <2> QED  BY <2>1, <2>2
<1>6. CopiesAnswered'
  <2> SUFFICES ASSUME NEW a \in Attendee, copy'[a] # None
               PROVE  req'[a] # None /\ req'[a].status = "accepted" /\ copy'[a].rev = req'[a].ics.rev
    BY DEF CopiesAnswered
  <2>1. CASE a \in S
    <3>1. copy[a] # None
      BY <1>2, <2>1
    <3>2. Settled(req[a]) /\ req[a].status = "accepted"
      BY <3>1 DEF CopiesAnswered, Settled
    <3>3. copy'[a] = SetPartstat(b, a, "ACCEPTED")
      BY <1>2, <2>1, <3>1, <3>2
    <3>4. copy'[a].rev = b.rev
      BY <3>3 DEF SetPartstat, Ics
    <3> QED  BY <1>2, <2>1, <3>2, <3>4
  <2>2. CASE a \notin S
    BY <1>3, <2>2 DEF CopiesAnswered
  <2> QED  BY <2>1, <2>2
<1>7. \A a \in Attendee \ S : Clear(a) => Clear(a)'
  BY <1>3 DEF Clear, Pending
<1> QED  BY <1>4, <1>5, <1>6, <1>7

LEMMA CancelSerial ==
  ASSUME StoreTypeOK, CopiesAnswered, AnswersHonest, NEW b,
         NEW S \in SUBSET Attendee, deliverCancel(b, S)
  PROVE  /\ AnswersKept /\ CopiesAnswered' /\ RowsHonestAfter
         /\ \A a \in Attendee : Clear(a) \/ a \in S => Clear(a)'
<1>1. ASSUME NEW a \in Attendee
      PROVE  /\ req'[a] = req[a] \/ (/\ Pending(a) /\ req'[a] # None
                                     /\ req'[a].status = "cancelled" /\ req'[a].ics = req[a].ics)
             /\ a \in S => ~Pending(a)'
             /\ copy'[a] = IF a \in S THEN None ELSE copy[a]
  <2>1. copy'[a] = IF a \in S THEN None ELSE copy[a]
    BY DEF deliverCancel
  <2>2. CASE a \in S /\ Pending(a)
    <3>1. req'[a] = [req[a] EXCEPT !.status = "cancelled"]
      BY <2>2 DEF deliverCancel, Pending
    <3>2. req[a] \in Row
      BY <2>2 DEF StoreTypeOK, Pending
    <3>3. req'[a] \in Row /\ req'[a].status = "cancelled" /\ req'[a].ics = req[a].ics
      BY <3>1, <3>2 DEF Row
    <3> QED  BY <2>1, <2>2, <3>3, NoneAssumption DEF Pending
  <2>3. CASE ~(a \in S /\ Pending(a))
    <3>1. req'[a] = req[a]
      BY <2>3 DEF deliverCancel, Pending
    <3> QED  BY <2>1, <2>3, <3>1 DEF Pending
  <2> QED  BY <2>2, <2>3
<1>2. AnswersKept
  BY <1>1 DEF AnswersKept, Settled, Pending
<1>3. RowsHonestAfter
  <2> SUFFICES ASSUME NEW a \in Attendee, req'[a] # None  PROVE HonestAfter(req'[a].ics)
    BY DEF RowsHonestAfter
  <2>1. req[a] # None /\ req'[a].ics = req[a].ics
    BY <1>1 DEF Pending
  <2> QED  BY <1>2, <2>1, HonestStays DEF AnswersHonest
<1>4. CopiesAnswered'
  BY <1>1 DEF CopiesAnswered, Pending
<1>5. \A a \in Attendee : Clear(a) \/ a \in S => Clear(a)'
  BY <1>1 DEF Clear, Pending
<1> QED  BY <1>2, <1>3, <1>4, <1>5

-----------------------------------------------------------------------------
(* Every step of requests that do not overlap.                             *)

LEMMA OrganizerSerial ==
  ASSUME OneRequest, Serial, TypeOK', NEW w \in Handler, NEW S \in SUBSET Attendee,
         \/ PutObject(w, S) \/ createEvent(w, S) \/ updateEvent(w, S)
         \/ invite(w, S) \/ DeleteObject(w)
  PROVE  Serial'
<1>1. /\ UNCHANGED <<event, req, copy, cut, silent>> /\ hd[w].pc = "idle"
      /\ StoreTypeOK /\ Honest(event) /\ hd \in [Handler -> HandlerLocals]
  BY LocalsAre DEF AnswersHonest, PutObject, createEvent, updateEvent, invite, DeleteObject, Start
<1>2. \A a \in Attendee \ Untold : a \notin GuestsOf(event) => Clear(a)
  BY <1>1, LocalsAre DEF Owed
<1>3. GuestsOf(event) \in SUBSET Attendee /\ requests + 1 \in Nat /\ event \in Ics \cup {None}
  BY <1>1 DEF GuestsOf, Guests, StoreTypeOK
<1>4. ASSUME NEW r \in Nat, NEW T \in SUBSET Attendee
      PROVE  Honest(Draft(r, T)) /\ Guests(Draft(r, T)) = T /\ Draft(r, T) \in Ics
  BY <1>1, <1>3, DraftIs, DraftTyped
<1>5. LocalsTrue(hd[w])' /\ Owed(hd'[w]) = {}
  <2>1. CASE PutObject(w, S)
    <3>1. PICK prev \in {event, None} :
            hd'[w] = [Idle EXCEPT !.pc = "write", !.kind = "put", !.prev = prev,
                                  !.body = Draft(requests + 1, S)]
      BY <1>1, <2>1 DEF PutObject, Start
    <3>2. hd'[w].pc = "write" /\ hd'[w].kind = "put" /\ hd'[w].body = Draft(requests + 1, S)
      BY <3>1 DEF Idle
    <3> QED  BY <1>1, <1>3, <1>4, <3>2 DEF LocalsTrue, Owed, Honest
  <2>2. CASE createEvent(w, S) \/ updateEvent(w, S)
    <3>1. PICK T \in SUBSET Attendee, prev \in {event, None} :
            hd'[w] = [Idle EXCEPT !.pc = "write", !.kind = "edit", !.prev = prev,
                                  !.body = Draft(requests + 1, T), !.inv = S]
      <4>1. CASE createEvent(w, S)
        <5>1. hd'[w] = [Idle EXCEPT !.pc = "write", !.kind = "edit",
                                    !.body = Draft(requests + 1, {}), !.inv = S]
          BY <1>1, <4>1 DEF createEvent, Start
        <5>2. hd'[w] = [Idle EXCEPT !.pc = "write", !.kind = "edit", !.prev = None,
                                    !.body = Draft(requests + 1, {}), !.inv = S]
          BY <5>1 DEF Idle
        <5> QED  BY <5>2
      <4>2. CASE updateEvent(w, S)
        <5>1. Guests(event) \in SUBSET Attendee
          BY DEF Guests
        <5> QED  BY <1>1, <4>2, <5>1 DEF updateEvent, Start
      <4> QED  BY <2>2, <4>1, <4>2
    <3>2. hd'[w].pc = "write" /\ hd'[w].kind = "edit" /\ hd'[w].body = Draft(requests + 1, T)
      BY <3>1 DEF Idle
    <3> QED  BY <1>1, <1>3, <1>4, <3>2 DEF LocalsTrue, Owed, Honest
  <2>3. CASE invite(w, S)
    <3>1. hd'[w] = [Idle EXCEPT !.pc = "invite", !.kind = "edit", !.body = event, !.inv = S]
      BY <1>1, <2>3 DEF invite, Start
    <3>2. hd'[w].pc = "invite" /\ hd'[w].kind = "edit" /\ hd'[w].body = event
      BY <3>1 DEF Idle
    <3> QED  BY <1>1, <3>2 DEF LocalsTrue, Owed, Honest
  <2>4. CASE DeleteObject(w)
    <3>1. event # None
          /\ hd'[w] = [Idle EXCEPT !.pc = IF Guests(event) = {} THEN "delete" ELSE "uninvite",
                                   !.kind = "delete", !.prev = event]
      BY <1>1, <2>4 DEF DeleteObject, Start
    <3>2. /\ hd'[w].pc = IF Guests(event) = {} THEN "delete" ELSE "uninvite"
          /\ hd'[w].kind = "delete" /\ hd'[w].prev = event /\ hd'[w].body = None
      BY <3>1 DEF Idle
    <3>3. Guests(event) = {} => \A a \in Attendee \ Untold' : Clear(a)'
      BY <1>1, <1>2, <3>1 DEF GuestsOf, Clear, Pending, Untold
    <3> QED  BY <1>1, <3>2, <3>3 DEF LocalsTrue, Owed, Honest
  <2> QED  BY <2>1, <2>2, <2>3, <2>4
<1> QED  BY <1>1, <1>2, <1>5, CalmSerial DEF Untold

(* The event is replaced or deleted by a request that tells nobody.        *)
LEMMA SilentSerial ==
  ASSUME OneRequest, Serial, TypeOK', NEW w \in Handler, NEW S \in SUBSET Attendee,
         importEvents(w, S) \/ DeleteCalendar(w)
  PROVE  Serial'
<1>1. /\ UNCHANGED <<req, copy, hd, cut>> /\ hd[w].pc = "idle" /\ LocalsTrue(hd[w])
      /\ Honest(event) /\ StoreTypeOK /\ Owed(hd[w]) = {}
  BY LocalsAre DEF AnswersHonest, importEvents, DeleteCalendar, Owed
<1>2. Guests(Draft(requests + 1, S)) = S /\ Honest(Draft(requests + 1, S))
      /\ Draft(requests + 1, S) # None
  BY <1>1, DraftIs, DraftTyped DEF StoreTypeOK
<1>3. Honest(event') /\ GuestsOf(event) \subseteq GuestsOf(event') \cup silent'
      /\ silent \subseteq silent'
  BY <1>2 DEF importEvents, DeleteCalendar, GuestsOf, Honest
<1>4. \A a \in Attendee \ Untold' : a \notin GuestsOf(event') => Clear(a)
  BY <1>1, <1>3, LocalsAre DEF Untold
<1>5. LocalsTrue(hd[w])'
  BY <1>1 DEF LocalsTrue, Honest
<1> QED  BY <1>1, <1>3, <1>4, <1>5, CalmSerial

LEMMA RespondSerial ==
  ASSUME OneRequest, Serial, TypeOK', NEW w \in Handler, NEW a \in Attendee,
         NEW answer \in {"accept", "decline"}, respondInvitation(w, a, answer)
  PROVE  Serial'
<1>1. /\ UNCHANGED <<event, req, copy, cut, silent>> /\ hd[w].pc = "idle"
      /\ req[a] # None /\ req[a].status = "pending"
      /\ Honest(event) /\ Honest(req[a].ics)
      /\ hd'[w] = [Idle EXCEPT !.pc = answer, !.kind = "respond", !.who = a, !.body = req[a].ics]
  BY LocalsAre DEF AnswersHonest, respondInvitation, Start
<1>2. hd'[w].pc = answer /\ hd'[w].who = a /\ hd'[w].body = req[a].ics
  BY <1>1 DEF Idle
<1>3. LocalsTrue(hd[w])' /\ Owed(hd'[w]) = {}
  BY <1>1, <1>2 DEF LocalsTrue, Owed, Honest, Pending
<1>4. \A g \in Attendee \ Untold : g \notin GuestsOf(event) => Clear(g)
  BY <1>1, LocalsAre DEF Owed
<1> QED  BY <1>1, <1>3, <1>4, CalmSerial DEF Untold

(* The event is written, read back, or gone.                               *)
LEMMA WriteSerial ==
  ASSUME OneRequest, Serial, TypeOK', NEW w \in Handler, WriteEvent(w)
  PROVE  Serial'
<1> DEFINE l == hd[w]
<1>1. /\ UNCHANGED <<req, copy, cut>> /\ l.pc = "write" /\ event' = l.body
      /\ silent' = silent \cup (GuestsOf(event) \ (Guests(l.body) \cup Compared(l)))
      /\ l.body \in Ics /\ l.body # None /\ Honest(l.body) /\ l.kind \in {"put", "edit"}
  BY LocalsAre, NoneAssumption DEF WriteEvent, HandlerLocals, LocalsTrue
<1>2. hd'[w].pc = "reread" /\ hd'[w].kind = l.kind /\ hd'[w].prev = l.prev /\ hd'[w].body = l.body
  BY <1>1, LocalsAre, GotoIs DEF WriteEvent
<1>3. LocalsTrue(hd[w])'
  BY <1>1, <1>2 DEF LocalsTrue, Honest
<1>4. \A a \in Attendee \ Untold' : a \notin GuestsOf(event) => Clear(a)
  BY <1>1, LocalsAre DEF Owed, Untold
<1>5. \A a \in Compared(l) \ GuestsOf(event') : a \in Owed(hd'[w])
  BY <1>1, <1>2 DEF Owed, Compared
<1>6. \A a \in Attendee \ Untold' :
        a \notin GuestsOf(event') => Clear(a) \/ a \in Owed(hd'[w])
  BY <1>1, <1>4, <1>5 DEF GuestsOf, Untold
<1> QED  BY <1>1, <1>3, <1>6, CalmSerial

LEMMA RereadSerial ==
  ASSUME OneRequest, Serial, TypeOK', NEW w \in Handler, RereadEvent(w)
  PROVE  Serial'
<1> DEFINE l == hd[w]
<1>1. /\ UNCHANGED <<event, req, copy, cut, silent>> /\ l.pc = "reread" /\ event = l.body
      /\ Honest(event) /\ l \in HandlerLocals /\ hd \in [Handler -> HandlerLocals]
  BY LocalsAre DEF RereadEvent, LocalsTrue, AnswersHonest
<1>2. LocalsTrue(hd[w])' /\ (l.kind = "put" => Owed(hd'[w]) = Owed(l))
  <2>1. CASE Finish(w) /\ l.kind = "edit"
    BY <1>1, <2>1, FinishIs
  <2>2. CASE ~(Finish(w) /\ l.kind = "edit")
    <3>1. PICK p \in {"cancel", "invite"} :
            /\ hd' = [hd EXCEPT ![w].body = event, ![w].pc = p]
            /\ l.kind = "put" => p = "cancel"
      BY <2>2 DEF RereadEvent
    <3>2. hd'[w] = [l EXCEPT !.body = event, !.pc = p]
      BY <1>1, <3>1
    <3>3. /\ hd'[w].pc = p /\ hd'[w].body = event
          /\ hd'[w].kind = l.kind /\ hd'[w].prev = l.prev
      BY <1>1, <3>2 DEF HandlerLocals
    <3>4. LocalsTrue(hd[w])'
      BY <1>1, <3>3 DEF LocalsTrue, Honest
    <3>5. l.kind = "put" => Owed(hd'[w]) = Owed(l)
      BY <1>1, <3>1, <3>3 DEF Owed
    <3> QED  BY <3>4, <3>5
  <2> QED  BY <2>1, <2>2
<1>3. l.kind # "put" => Owed(l) = {}
  BY DEF Owed
<1>4. \A a \in Attendee \ Untold : a \notin GuestsOf(event) => Clear(a) \/ a \in Owed(hd'[w])
  BY <1>2, <1>3, LocalsAre
<1> QED  BY <1>1, <1>2, <1>4, CalmSerial DEF Untold

(* A request that ends leaves its debt in cut.                             *)
LEMMA EndSerial ==
  ASSUME OneRequest, Serial, TypeOK', NEW w \in Handler, RereadMissing(w) \/ Abandon(w)
  PROVE  Serial'
<1>1. /\ UNCHANGED <<event, req, copy>> /\ Finish(w)
      /\ cut \subseteq cut' /\ silent' = silent
      /\ hd[w].pc \in {"reread", "cancel"} => Removed(w) \subseteq cut'
  BY DEF RereadMissing, Abandon
<1>2. Owed(hd[w]) \subseteq cut'
  BY <1>1 DEF Owed, Removed
<1>3. LocalsTrue(hd[w])'
  BY <1>1, LocalsAre, FinishIs
<1>4. Honest(event')
  BY <1>1, LocalsAre DEF AnswersHonest
<1>5. \A a \in Attendee \ Untold' : a \notin GuestsOf(event') => Clear(a)
  BY <1>1, <1>2, LocalsAre DEF Untold
<1> QED  BY <1>1, <1>3, <1>4, <1>5, CalmSerial

(* Nobody was removed, the cancellation of a deletion fails, the event     *)
(* goes.                                                                   *)
LEMMA PassSerial ==
  ASSUME OneRequest, Serial, TypeOK', NEW w \in Handler,
         NoneRemoved(w) \/ CancelFails(w) \/ DeleteEvent(w)
  PROVE  Serial'
<1> DEFINE l == hd[w]
<1>1. /\ hd \in [Handler -> HandlerLocals] /\ LocalsTrue(l) /\ Honest(event)
      /\ UNCHANGED <<req, copy, silent>> /\ l \in HandlerLocals
      /\ \A a \in Attendee \ Untold : a \notin GuestsOf(event) => Clear(a) \/ a \in Owed(l)
  BY LocalsAre DEF AnswersHonest, NoneRemoved, CancelFails, DeleteEvent
<1>2. CASE NoneRemoved(w)
  <2>1. /\ l.pc = "cancel" /\ Removed(w) = {} /\ UNCHANGED <<event, cut>> /\ event = l.body
    BY <1>1, <1>2 DEF NoneRemoved, LocalsTrue
  <2>2. hd'[w].pc = "deliver" /\ hd'[w].body = l.body
    BY <1>1, <1>2, GotoIs DEF NoneRemoved
  <2>3. LocalsTrue(hd[w])'
    BY <1>1, <2>1, <2>2 DEF LocalsTrue, Honest
  <2>4. Owed(l) = {}
    BY <2>1 DEF Owed, Removed
  <2> QED  BY <1>1, <2>1, <2>3, <2>4, CalmSerial DEF Untold
<1>3. CASE CancelFails(w)
  <2>1. /\ l.pc = "uninvite" /\ l.prev = event /\ l.prev \in Ics /\ l.prev # None
        /\ event' = event /\ cut' = cut \cup Guests(l.prev)
    BY <1>1, <1>3, NoneAssumption DEF CancelFails, LocalsTrue, HandlerLocals
  <2>2. hd'[w].pc = "delete" /\ hd'[w].body = l.body
    BY <1>1, <1>3, GotoIs DEF CancelFails
  <2>3. Owed(l) = {}
    BY <2>1 DEF Owed
  <2>4. \A a \in Attendee \ Untold' : Clear(a) /\ Clear(a)'
    BY <1>1, <2>1, <2>3 DEF GuestsOf, Clear, Pending, Untold
  <2>5. LocalsTrue(hd[w])'
    BY <1>1, <2>2, <2>4 DEF LocalsTrue, Honest
  <2> QED  BY <1>1, <2>1, <2>4, <2>5, CalmSerial
<1>4. CASE DeleteEvent(w)
  <2>1. event' = None /\ cut' = cut /\ \A a \in Attendee \ Untold : Clear(a)
    BY <1>1, <1>4 DEF DeleteEvent, LocalsTrue
  <2>2. LocalsTrue(hd[w])'
    BY <1>1, <1>4, FinishIs DEF DeleteEvent
  <2>3. Honest(event')
    BY <2>1 DEF Honest
  <2> QED  BY <1>1, <2>1, <2>2, <2>3, CalmSerial DEF Untold
<1> QED  BY <1>2, <1>3, <1>4

LEMMA CancelStepsSerial ==
  ASSUME OneRequest, Serial, TypeOK', NEW w \in Handler, DeliverRemoved(w) \/ CancelFromDelete(w)
  PROVE  Serial'
<1> DEFINE l == hd[w]
<1>1. /\ hd \in [Handler -> HandlerLocals] /\ l \in HandlerLocals
      /\ LocalsTrue(l) /\ Honest(event) /\ Honest(l.body)
      /\ StoreTypeOK /\ CopiesAnswered /\ AnswersHonest
      /\ \A a \in Attendee \ Untold : a \notin GuestsOf(event) => Clear(a) \/ a \in Owed(l)
  BY LocalsAre DEF AnswersHonest, LocalsTrue
<1>2. event' = event
  BY DEF DeliverRemoved, CancelFromDelete
<1>3. ASSUME AnswersKept
      PROVE  HonestAfter(event') /\ HonestAfter(l.body)
  BY <1>1, <1>2, <1>3, HonestStays
<1>4. CASE DeliverRemoved(w)
  <2>1. l.pc = "cancel" /\ event = l.body /\ Removed(w) \in SUBSET Attendee
    BY <1>1, <1>4 DEF DeliverRemoved, LocalsTrue, Removed, GuestsOf, Guests
  <2>2. /\ AnswersKept /\ CopiesAnswered' /\ RowsHonestAfter
        /\ \A a \in Attendee : Clear(a) \/ a \in Removed(w) => Clear(a)'
    BY <1>1, <1>4, <2>1, CancelSerial DEF DeliverRemoved
  <2>3. hd'[w].pc = "deliver" /\ hd'[w].body = l.body
    BY <1>1, <1>4, GotoIs DEF DeliverRemoved
  <2>4. LocalsTrue(hd[w])'
    BY <1>2, <1>3, <2>1, <2>2, <2>3 DEF LocalsTrue, Honest, HonestAfter
  <2>5. \A a \in Attendee \ Untold' : a \in Attendee \ Untold \/ a \in Removed(w)
    BY <1>4 DEF DeliverRemoved, Told, Untold
  <2>6. \A a \in Attendee \ Untold' : a \notin GuestsOf(event') => Clear(a)'
    BY <1>1, <1>2, <2>1, <2>2, <2>5 DEF Owed, Removed
  <2> QED  BY <1>3, <2>2, <2>4, <2>6, SerialIs
<1>5. CASE CancelFromDelete(w)
  <2>1. /\ l.pc = "uninvite" /\ event = l.prev /\ l.prev \in Ics /\ l.prev # None
        /\ Guests(l.prev) \in SUBSET Attendee
    BY <1>1, <1>5, NoneAssumption DEF CancelFromDelete, LocalsTrue, HandlerLocals, Guests
  <2>2. /\ AnswersKept /\ CopiesAnswered' /\ RowsHonestAfter
        /\ \A a \in Attendee : Clear(a) \/ a \in Guests(l.prev) => Clear(a)'
    BY <1>1, <1>5, <2>1, CancelSerial DEF CancelFromDelete
  <2>3. hd'[w].pc = "delete" /\ hd'[w].body = l.body
    BY <1>1, <1>5, GotoIs DEF CancelFromDelete
  <2>4. \A a \in Attendee \ Untold' : Clear(a)'
    <3>1. \A a \in Attendee \ Untold' : a \in Attendee \ Untold \/ a \in Guests(l.prev)
      BY <1>5 DEF CancelFromDelete, Told, Untold
    <3> QED  BY <1>1, <1>2, <2>1, <2>2, <3>1 DEF GuestsOf, Owed
  <2>5. LocalsTrue(hd[w])'
    BY <1>3, <2>2, <2>3, <2>4 DEF LocalsTrue, Honest, HonestAfter
  <2> QED  BY <1>3, <2>2, <2>4, <2>5, SerialIs
<1> QED  BY <1>4, <1>5

LEMMA DeliverSerial ==
  ASSUME OneRequest, Serial, TypeOK', NEW w \in Handler, DeliverFromPut(w)
  PROVE  Serial'
<1> DEFINE l == hd[w]
           b == l.body
<1>1. /\ l.pc = "deliver" /\ b \in Ics /\ b # None /\ Honest(b) /\ event = b
      /\ Guests(b) \in SUBSET Attendee /\ GuestsOf(event) = Guests(b)
      /\ event' = event /\ cut' = cut /\ silent' = silent
  BY LocalsAre, NoneAssumption DEF DeliverFromPut, HandlerLocals, LocalsTrue, Guests, GuestsOf
<1>2. /\ AnswersKept /\ CopiesAnswered' /\ RowsHonestAfter
      /\ \A a \in Attendee \ Guests(b) : Clear(a) => Clear(a)'
  BY <1>1, LocalsAre, CopiesSerial DEF DeliverFromPut
<1>3. HonestAfter(event')
  BY <1>1, <1>2, HonestStays
<1>4. LocalsTrue(hd[w])'
  BY LocalsAre, FinishIs DEF DeliverFromPut
<1>5. \A a \in Attendee \ Untold' : a \notin GuestsOf(event') => Clear(a)'
  BY <1>1, <1>2, LocalsAre DEF Owed, Untold
<1> QED  BY <1>2, <1>3, <1>4, <1>5, SerialIs

LEMMA InviteSerial ==
  ASSUME OneRequest, Serial, TypeOK', NEW w \in Handler, ApplyLocalInvite(w)
  PROVE  Serial'
<1> DEFINE l == hd[w]
           b == [l.body EXCEPT !.part =
                   [a \in Attendee |-> IF a \in l.inv /\ @[a] = "absent"
                                       THEN "NEEDS-ACTION" ELSE @[a]]]
<1>1. /\ l.pc = "invite" /\ l.body \in Ics /\ l.body # None /\ Honest(l.body)
      /\ event = l.body /\ l.inv \in SUBSET Attendee
  BY LocalsAre, NoneAssumption DEF ApplyLocalInvite, HandlerLocals, LocalsTrue
<1>2. event' = b /\ deliverCopies(b, l.inv) /\ Finish(w) /\ cut' = cut /\ silent' = silent
  BY DEF ApplyLocalInvite
<1>3. /\ b \in Ics
      /\ \A a \in Attendee : b.part[a] = IF a \in l.inv /\ l.body.part[a] = "absent"
                                         THEN "NEEDS-ACTION" ELSE l.body.part[a]
  BY <1>1 DEF Ics, Partstat
<1>4. b # None /\ Honest(b)
  BY <1>1, <1>3, NoneAssumption DEF Honest
<1>5. \A a \in Attendee : a \in GuestsOf(event) \/ a \in l.inv => a \in GuestsOf(b)
  BY <1>1, <1>3, <1>4 DEF GuestsOf, Guests
<1> HIDE DEF b
<1>6. /\ AnswersKept /\ CopiesAnswered' /\ RowsHonestAfter
      /\ \A a \in Attendee \ l.inv : Clear(a) => Clear(a)'
  BY <1>1, <1>2, <1>3, <1>4, LocalsAre, CopiesSerial
<1>7. HonestAfter(event')
  BY <1>2, <1>4, <1>6, HonestStays
<1>8. LocalsTrue(hd[w])'
  BY <1>2, LocalsAre, FinishIs
<1>9. \A a \in Attendee \ Untold' : a \notin GuestsOf(event') => Clear(a)'
  BY <1>1, <1>2, <1>5, <1>6, LocalsAre DEF Owed, Untold
<1> QED  BY <1>6, <1>7, <1>8, <1>9, SerialIs

(* An answer: no guest comes or goes, and the one line of the event that   *)
(* is new is the one the row now says.                                     *)
LEMMA AnswerSerial ==
  ASSUME OneRequest, Serial, TypeOK', NEW w \in Handler, Accept(w) \/ Decline(w)
  PROVE  Serial'
<1> DEFINE l == hd[w]
<1>1. PICK a \in Attendee, p \in {"ACCEPTED", "DECLINED"}, s \in {"accepted", "declined"} :
        /\ a = l.who /\ (p = "ACCEPTED" <=> s = "accepted")
        /\ event' = MergeReply(event, SetPartstat(l.body, a, p))
        /\ req' = [req EXCEPT ![a].status = s]
        /\ \/ copy' = copy
           \/ s = "accepted" /\ copy' = [copy EXCEPT ![a] = SetPartstat(l.body, a, p)]
        /\ Finish(w) /\ cut' = cut /\ silent' = silent
  BY LocalsAre DEF Accept, Decline, HandlerLocals
<1> DEFINE clean == SetPartstat(l.body, a, p)
<1>2. /\ Pending(a) /\ l.body = req[a].ics /\ req[a] \in Row /\ l.body \in Ics
      /\ Honest(l.body) /\ Honest(event) /\ Owed(l) = {} /\ l.body # None
      /\ req \in [Attendee -> Row \cup {None}] /\ copy \in [Attendee -> Ics \cup {None}]
      /\ event \in Ics \cup {None}
  BY <1>1, LocalsAre, NoneAssumption
     DEF Accept, Decline, LocalsTrue, Pending, AnswersHonest, StoreTypeOK, Row, Owed
<1>3. /\ req'[a] = [req[a] EXCEPT !.status = s]
      /\ \A g \in Attendee \ {a} : req'[g] = req[g]
  BY <1>1, <1>2
<1>4. req'[a] # None /\ req'[a].status = s /\ req'[a].ics = req[a].ics
  BY <1>2, <1>3, NoneAssumption DEF Row
<1>5. AnswersKept
  BY <1>2, <1>3 DEF AnswersKept, Settled, Pending
<1>6. /\ clean.rev = l.body.rev /\ clean \in Ics
      /\ \A g \in Attendee \ {a} : clean.part[g] = l.body.part[g]
      /\ clean.part[a] \in {"absent", p}
  BY <1>2 DEF SetPartstat, Ics, Partstat
<1> HIDE DEF clean
<1>7. HonestAfter(clean)
  <2>1. HonestAfter(l.body)
    BY <1>2, <1>5, HonestStays
  <2> QED  BY <1>1, <1>2, <1>4, <1>6, <2>1 DEF HonestAfter
<1>8. HonestAfter(event) /\ RowsHonestAfter
  <2>1. HonestAfter(event)
    BY <1>2, <1>5, HonestStays
  <2>2. \A g \in Attendee : req'[g] # None => req[g] # None /\ req'[g].ics = req[g].ics
    BY <1>2, <1>3, <1>4 DEF Pending
  <2>3. \A g \in Attendee : req[g] # None => HonestAfter(req[g].ics)
    BY <1>5, HonestStays, LocalsAre DEF AnswersHonest
  <2> QED  BY <2>1, <2>2, <2>3 DEF RowsHonestAfter
<1>9. HonestAfter(event') /\ GuestsOf(event') = GuestsOf(event)
  <2>1. event' = MergeReply(event, clean)
    BY <1>1 DEF clean
  <2>2. CASE event = None
    BY <2>1, <2>2 DEF MergeReply, HonestAfter, GuestsOf
  <2>3. CASE event # None
    <3>1. event \in Ics
      BY <1>2, <2>3
    <3>2. /\ event' \in Ics
          /\ \A g \in Attendee :
               event'.part[g] = IF event.part[g] = "absent" \/ clean.part[g] = "absent"
                                THEN event.part[g] ELSE clean.part[g]
      BY <1>6, <2>1, <2>3, <3>1 DEF MergeReply, Ics
    <3>3. HonestAfter(event')
      BY <1>6, <1>7, <1>8, <2>3, <3>2, NoneAssumption DEF HonestAfter
    <3>4. Guests(event') = Guests(event)
      BY <3>2 DEF Guests
    <3> QED  BY <2>3, <3>2, <3>3, <3>4, NoneAssumption DEF GuestsOf
  <2> QED  BY <2>2, <2>3
<1>10. CopiesAnswered'
  <2> SUFFICES ASSUME NEW g \in Attendee, copy'[g] # None
               PROVE  req'[g] # None /\ req'[g].status = "accepted" /\ copy'[g].rev = req'[g].ics.rev
    BY DEF CopiesAnswered
  <2>1. \A h \in Attendee : copy[h] # None =>
          req[h] # None /\ req[h].status = "accepted" /\ copy[h].rev = req[h].ics.rev
    BY LocalsAre DEF CopiesAnswered
  <2>2. CASE g # a
    BY <1>1, <1>2, <1>3, <2>1, <2>2
  <2>3. CASE g = a
    <3>1. copy[a] = None
      BY <1>2, <2>1 DEF Pending
    <3>2. s = "accepted" /\ copy'[a] = clean
      BY <1>1, <1>2, <2>3, <3>1 DEF clean
    <3> QED  BY <1>2, <1>4, <1>6, <2>3, <3>2
  <2> QED  BY <2>2, <2>3
<1>11. \A g \in Attendee \ Untold' : g \notin GuestsOf(event') => Clear(g)'
  <2> SUFFICES ASSUME NEW g \in Attendee \ Untold', g \notin GuestsOf(event')  PROVE Clear(g)'
    OBVIOUS
  <2>1. Clear(g)
    BY <1>1, <1>2, <1>9, LocalsAre DEF Untold
  <2>2. g # a
    BY <1>2, <2>1 DEF Clear
  <2> QED  BY <1>1, <1>2, <1>3, <2>1, <2>2 DEF Clear, Pending
<1>12. LocalsTrue(hd[w])'
  BY <1>1, LocalsAre, FinishIs
<1> QED  BY <1>8, <1>9, <1>10, <1>11, <1>12, SerialIs

(* An attendee tidies up.                                                  *)
LEMMA TidySerial ==
  ASSUME Serial, TypeOK', NEW a \in Attendee, DeleteCopy(a) \/ DeleteInbox(a)
  PROVE  Serial'
<1>1. /\ UNCHANGED <<event, req, hd, cut, silent>> /\ copy \in [Attendee -> Ics \cup {None}]
      /\ copy' = copy \/ copy' = [copy EXCEPT ![a] = None]
  BY DEF Serial, TypeOK, StoreTypeOK, DeleteCopy, DeleteInbox
<1>2. \A g \in Attendee : copy'[g] # None => copy'[g] = copy[g]
  BY <1>1
<1>3. \A g \in Attendee : Clear(g) => Clear(g)'
  BY <1>1, <1>2 DEF Clear, Pending
<1>4. CopiesAnswered'
  BY <1>1, <1>2 DEF Serial, CopiesAnswered
<1>5. AnswersHonest'
  BY <1>1 DEF Serial, AnswersHonest, Honest
<1>6. Uninvited'
  BY <1>1, <1>3 DEF Serial, Uninvited, Owed, Untold
<1>7. \A w \in Handler : LocalsTrue(hd[w])'
  BY <1>1, <1>3 DEF Serial, LocalsTrue, Honest, Pending, Untold
<1> QED  BY <1>4, <1>5, <1>6, <1>7 DEF Serial

LEMMA SerialInit ==
  ASSUME Init, TypeOK
  PROVE  Serial
BY DEF Init, Serial, CopiesAnswered, AnswersHonest, Uninvited, Clear, Pending, LocalsTrue, Honest, Idle

LEMMA SerialNext ==
  ASSUME OneRequest, Serial, TypeOK', [Next]_vars
  PROVE  Serial'
<1>1. CASE UNCHANGED vars
  BY <1>1 DEF vars, Serial, TypeOK, CopiesAnswered, AnswersHonest, Uninvited, Clear, Pending,
     LocalsTrue, Honest, Owed, Untold
<1>2. ASSUME NEW w \in Handler, Step(w) \/ Abandon(w)
      PROVE  Serial'
  <2>1. ~WriteMerged(w)
    BY LocalsAre DEF WriteMerged, LocalsTrue
  <2> QED  BY <1>2, <2>1, WriteSerial, RereadSerial, EndSerial, PassSerial, CancelStepsSerial,
           DeliverSerial, InviteSerial, AnswerSerial DEF Step
<1>3. ~\E w \in Handler, a \in Attendee, p \in {"ACCEPTED", "DECLINED"} : OutboxReply(w, a, p)
  BY DEF OneRequest, OutboxReply
<1>4. ~\E S \in SUBSET Attendee : OutboxRequest(S) \/ OutboxCancel(S)
  BY DEF OneRequest, OutboxRequest, OutboxCancel
<1> QED  BY <1>1, <1>2, <1>3, <1>4, OrganizerSerial, SilentSerial, RespondSerial, TidySerial, Zenon DEF Next

LEMMA SerialAlways ==
  ASSUME OneRequest
  PROVE  Spec => []Serial
<1>1. Init /\ TypeOK => Serial
  BY SerialInit
<1>2. Serial /\ TypeOK' /\ [Next]_vars => Serial'
  BY SerialNext
<1> QED  BY <1>1, <1>2, TypeCorrect, PTL DEF Spec

(* Requests that do not overlap keep the copy of whoever accepted at the   *)
(* revision that was delivered last (Accept, refreshAcceptedCopy).         *)
THEOREM CopiesFollow ==
  ASSUME OneRequest
  PROVE  Spec => []AcceptedCopyCurrent
<1>1. Serial => AcceptedCopyCurrent
  BY DEF Serial, CopiesAnswered, AcceptedCopyCurrent
<1> QED  BY <1>1, SerialAlways, PTL

(* Requests that do not overlap leave nobody who is not invited with a     *)
(* copy or an open invitation (DeliverFromPut, deliverCancel), but for     *)
(* whose cancellation was cut off or failed and for whom a request that    *)
(* sends none has dropped: createEvent or an import over the event, a PUT  *)
(* under another name, the deletion of the calendar.                       *)
THEOREM NothingOrphaned ==
  ASSUME OneRequest
  PROVE  Spec => []NoOrphans
<1>1. Serial => NoOrphans
  BY DEF Serial, Uninvited, NoOrphans, Quiet, Owed, Clear, Untold
<1> QED  BY <1>1, SerialAlways, PTL

(* Requests that do not overlap never put an answer into the organizer's   *)
(* event that the attendee has not given (MergeReply, Accept, Decline).    *)
THEOREM AnswersTrue ==
  ASSUME OneRequest
  PROVE  Spec => []NoFalseAnswers
<1>1. Serial => NoFalseAnswers
  BY DEF Serial, AnswersHonest, Honest, NoFalseAnswers
<1> QED  BY <1>1, SerialAlways, PTL
=============================================================================
