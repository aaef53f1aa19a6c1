------------------------ MODULE DavCollectionProofs ------------------------
(***************************************************************************)
(* What sync-collection and getctag guarantee, for every set of hrefs,     *)
(* bodies, handlers and clients and every bound.                           *)
(*                                                                         *)
(* NothingMissed is not inductive as it stands: a report in progress holds *)
(* a listing and a token that become the client's mirror and token later.  *)
(* ReportInv says of them what NothingMissed says of the client.           *)
(*                                                                         *)
(* And what requests that do not overlap add to that (OneHandler): the     *)
(* change log is true, and the collection is an ObjectStore.               *)
(***************************************************************************)
EXTENDS DavCollection, WellFoundedInduction, TLAPS

USE SentinelAssumption DEF Change, HandlerPc

-----------------------------------------------------------------------------
(* Facts about the operators.                                              *)

(* A non-empty set of record ids has a last one, which LastOf returns.     *)
LEMMA LastOfIsMax ==
  ASSUME NEW n \in Nat, NEW S \in SUBSET (1..n), S # {}
  PROVE  LastOf(S) \in S /\ \A j \in S : j <= LastOf(S)
<1> DEFINE T == {k \in Nat : n - k \in S}
<1>1. T \subseteq Nat /\ T # {}
  <2>1. PICK i \in S : TRUE
    OBVIOUS
  <2>2. n - i \in Nat /\ n - (n - i) = i
    BY <2>1
  <2> QED
    BY <2>1, <2>2
<1>2. \E x \in T : \A y \in T : ~(<<y, x>> \in OpToRel(<, Nat))
  <2> HIDE DEF T
  <2> QED
    BY <1>1, WFMin, NatLessThanWellFounded
<1>3. PICK x \in T : \A y \in T : ~(y < x)
  BY <1>2 DEF OpToRel
<1>4. n - x \in S /\ \A j \in S : j <= n - x
  <2>1. ASSUME NEW j \in S PROVE j <= n - x
    <3>1. n - j \in Nat /\ n - (n - j) = j
      BY <2>1
    <3>2. n - j \in T
      BY <3>1
    <3>3. ~(n - j < x)
      BY <3>2, <1>3
    <3> QED
      BY <3>1, <3>3
  <2> QED
    BY <2>1
<1> QED
  BY <1>4 DEF LastOf

(* m is l with records appended.                                           *)
Extends(l, m) == Len(l) <= Len(m) /\ \A i \in 1..Len(l) : m[i] = l[i]

(* The records m adds to l mention h.                                      *)
Mentions(l, m, h) == \E i \in Len(l) + 1 .. Len(m) : m[i].href = h

StoreType == [row : [Href -> Body \cup {NoRow}], log : Seq(Change), ctag : Nat]

(* UpsertCalendarObject in a transaction records every row it changes and  *)
(* advances the ctag.                                                      *)
LEMMA UpsertedRecords ==
  ASSUME NEW s \in StoreType, NEW h \in Href, NEW other \in Href, NEW b \in Body
  PROVE  LET u == Upserted(s, h, b, other) IN
         /\ u \in StoreType
         /\ Extends(s.log, u.log)
         /\ u.ctag > s.ctag
         /\ \A g \in Href : u.row[g] # s.row[g] => Mentions(s.log, u.log, g)
<1> DEFINE u == Upserted(s, h, b, other)
           e == [href |-> other, deleted |-> TRUE]
           f == [href |-> h, deleted |-> FALSE]
<1>0. e \in Change /\ f \in Change /\ s.log \in Seq(Change) /\ s.ctag \in Nat
      /\ s.row \in [Href -> Body \cup {NoRow}]
  BY DEF StoreType
<1>1. u.row \in [Href -> Body \cup {NoRow}] /\ u.ctag \in Nat /\ u.ctag > s.ctag
  BY <1>0 DEF Upserted
<1>2. ASSUME NEW g \in Href, g # h, g # other PROVE u.row[g] = s.row[g]
  BY <1>0, <1>2 DEF Upserted
<1>3. CASE other = h
  <2>1. u.log = Append(s.log, f)
    BY <1>3 DEF Upserted
  <2>2. u.log \in Seq(Change) /\ Len(u.log) = Len(s.log) + 1
        /\ u.log[Len(s.log) + 1] = f /\ Extends(s.log, u.log)
    BY <2>1, <1>0 DEF Extends
  <2>3. Mentions(s.log, u.log, h)
    BY <2>2, <1>0 DEF Mentions
  <2>4. u \in StoreType
    BY <1>1, <2>2 DEF StoreType, Upserted
  <2> QED
    BY <1>1, <1>2, <1>3, <2>2, <2>3, <2>4
<1>4. CASE other # h
  <2> DEFINE l == Append(s.log, e)
  <2>1. u.log = Append(l, f)
    BY <1>4 DEF Upserted
  <2>2. l \in Seq(Change) /\ Len(l) = Len(s.log) + 1 /\ l[Len(s.log) + 1] = e
        /\ \A i \in 1..Len(s.log) : l[i] = s.log[i]
    BY <1>0
  <2>3. u.log \in Seq(Change) /\ Len(u.log) = Len(s.log) + 2
        /\ u.log[Len(s.log) + 1] = e /\ u.log[Len(s.log) + 2] = f
        /\ \A i \in 1..Len(s.log) : u.log[i] = s.log[i]
    <3> HIDE DEF l, e, f
    <3> QED
      BY <2>1, <2>2, <1>0
  <2>4. Mentions(s.log, u.log, h) /\ Mentions(s.log, u.log, other)
    <3>1. e.href = other /\ f.href = h
      OBVIOUS
    <3>2. Len(s.log) + 1 \in Len(s.log) + 1 .. Len(u.log)
          /\ Len(s.log) + 2 \in Len(s.log) + 1 .. Len(u.log)
      BY <2>3, <1>0
    <3> HIDE DEF u, e, f, l
    <3> QED
      BY <2>3, <3>1, <3>2 DEF Mentions
  <2>5. Extends(s.log, u.log)
    BY <2>3, <1>0 DEF Extends
  <2>6. u \in StoreType
    BY <1>1, <2>3 DEF StoreType, Upserted
  <2> QED
    BY <1>1, <1>2, <2>4, <2>5, <2>6
<1> QED
  BY <1>3, <1>4

-----------------------------------------------------------------------------
(* Type correctness.                                                       *)

(* The transaction of PutICSWithAttachments is one or two upserts.         *)
LEMMA TransactionRecords ==
  ASSUME TypeOK, NEW w \in Handler, PutICSWithAttachments(w)
  PROVE  /\ row' \in [Href -> Body \cup {NoRow}] /\ log' \in Seq(Change)
         /\ ctag' \in Nat /\ ctag' > ctag
         /\ Extends(log, log')
         /\ \A g \in Href : row'[g] # row[g] => Mentions(log, log', g)
         /\ \A g \in unlogged : g \notin unlogged' => Mentions(log, log', g)
         /\ unlogged' \subseteq unlogged
<1> DEFINE h == hd[w].href
           b == hd[w].body
           store == [row |-> row, log |-> log, ctag |-> ctag]
<1>1. h \in Href /\ b \in Body /\ store \in StoreType
  BY DEF TypeOK, StoreTypeOK, HandlerLocals, StoreType, PutICSWithAttachments
<1>2. ASSUME NEW r \in [Href -> Body \cup {NoRow}] PROVE SameUid(r, h, b) \subseteq Href
  BY <1>1 DEF SameUid
<1>3. PICK o1 \in SameUid(row, h, b) :
        \E s \in {Upserted(store, h, b, o1)} \cup
              {Upserted(Upserted(store, h, b, o1), h, b, o2) :
                 o2 \in SameUid(Upserted(store, h, b, o1).row, h, b)} :
          /\ row' = s.row /\ log' = s.log /\ ctag' = s.ctag
          /\ unlogged' = {g \in unlogged : \A i \in DOMAIN s.log :
                                             i > Len(log) => s.log[i].href # g}
  BY DEF PutICSWithAttachments
<1> DEFINE once == Upserted(store, h, b, o1)
<1>4. o1 \in Href
  BY <1>2, <1>3 DEF TypeOK, StoreTypeOK
<1>5. /\ once \in StoreType /\ Extends(log, once.log) /\ once.ctag > ctag
      /\ \A g \in Href : once.row[g] # row[g] => Mentions(log, once.log, g)
  <2>1. store.row = row /\ store.log = log /\ store.ctag = ctag
    OBVIOUS
  <2> HIDE DEF store, h, b
  <2> QED
    BY <1>1, <1>4, <2>1, UpsertedRecords
<1>6. PICK s : /\ s = once \/ \E o2 \in SameUid(once.row, h, b) : s = Upserted(once, h, b, o2)
               /\ row' = s.row /\ log' = s.log /\ ctag' = s.ctag
               /\ unlogged' = {g \in unlogged : \A i \in DOMAIN s.log :
                                             i > Len(log) => s.log[i].href # g}
  BY <1>3
<1> HIDE DEF store, h, b, once
<1>7. /\ s \in StoreType /\ Extends(log, s.log) /\ s.ctag > ctag
      /\ \A g \in Href : s.row[g] # row[g] => Mentions(log, s.log, g)
  <2>1. CASE s = once
    BY <2>1, <1>5
  <2>2. CASE \E o2 \in SameUid(once.row, h, b) : s = Upserted(once, h, b, o2)
    <3>1. PICK o2 \in SameUid(once.row, h, b) : s = Upserted(once, h, b, o2)
      BY <2>2
    <3>2. o2 \in Href
      BY <1>2, <1>5 DEF StoreType
    <3>3. /\ s \in StoreType /\ Extends(once.log, s.log) /\ s.ctag > once.ctag
          /\ \A g \in Href : s.row[g] # once.row[g] => Mentions(once.log, s.log, g)
      BY <1>1, <1>5, <3>1, <3>2, UpsertedRecords
    <3>4. log \in Seq(Change) /\ once.log \in Seq(Change) /\ s.log \in Seq(Change)
          /\ ctag \in Nat /\ once.ctag \in Nat /\ s.ctag \in Nat
      BY <1>5, <3>3 DEF StoreType, TypeOK, StoreTypeOK
    <3>5. Extends(log, s.log) /\ s.ctag > ctag
      BY <1>5, <3>3, <3>4 DEF Extends
    <3>6. ASSUME NEW g, Mentions(log, once.log, g) PROVE Mentions(log, s.log, g)
      <4>1. PICK i \in Len(log) + 1 .. Len(once.log) : once.log[i].href = g
        BY <3>6 DEF Mentions
      <4>2. i \in 1..Len(once.log) /\ i \in Len(log) + 1 .. Len(s.log)
        BY <3>3, <3>4 DEF Extends
      <4> QED
        BY <4>1, <4>2, <3>3 DEF Mentions, Extends
    <3>7. ASSUME NEW g, Mentions(once.log, s.log, g) PROVE Mentions(log, s.log, g)
      BY <3>7, <1>5, <3>4 DEF Mentions, Extends
    <3> QED
      BY <1>5, <3>3, <3>5, <3>6, <3>7
  <2> QED
    BY <1>6, <2>1, <2>2
<1>8. ASSUME NEW g \in unlogged, g \notin unlogged' PROVE Mentions(log, log', g)
  <2>1. PICK i \in DOMAIN s.log : i > Len(log) /\ s.log[i].href = g
    BY <1>6, <1>8
  <2>2. s.log \in Seq(Change) /\ log \in Seq(Change)
    BY <1>7 DEF StoreType, TypeOK, StoreTypeOK
  <2>3. i \in Len(log) + 1 .. Len(s.log)
    BY <2>1, <2>2
  <2> QED
    BY <2>1, <2>3, <1>6 DEF Mentions
<1> QED
  BY <1>6, <1>7, <1>8 DEF StoreType

(* Moving a handler to a step whose locals are set keeps its locals typed. *)
LEMMA GotoTyped ==
  ASSUME hd \in [Handler -> HandlerLocals], NEW w \in Handler, NEW pc \in HandlerPc,
         Goto(w, pc),
         pc \in {"uid", "write", "log", "bump", "reread"} => hd[w].href \in Href,
         pc \in {"del", "dellog", "delbump"} => hd[w].target \in Href
  PROVE  /\ hd' \in [Handler -> HandlerLocals]
         /\ hd'[w] = [hd[w] EXCEPT !.pc = pc]
         /\ \A v \in Handler : v # w => hd'[v] = hd[v]
<1>1. [hd[w] EXCEPT !.pc = pc] \in HandlerLocals
  BY DEF HandlerLocals
<1>2. hd' = [hd EXCEPT ![w] = [hd[w] EXCEPT !.pc = pc]]
  BY DEF Goto
<1> QED
  BY <1>1, <1>2

(* The deletion that a PUT or a DELETE ran returns to its caller.          *)
LEMMA AfterDeleteTyped ==
  ASSUME hd \in [Handler -> HandlerLocals], NEW w \in Handler, AfterDelete(w)
  PROVE  /\ hd' \in [Handler -> HandlerLocals]
         /\ hd'[w].pc \in {"idle", "write"}
         /\ \A v \in Handler : v # w => hd'[v] = hd[v]
<1> DEFINE r == IF hd[w].href = NoHref THEN Idle
                ELSE [hd[w] EXCEPT !.pc = "write", !.target = NoHref]
<1>1. r \in HandlerLocals /\ r.pc \in {"idle", "write"}
  BY DEF HandlerLocals, Idle
<1>2. hd' = [hd EXCEPT ![w] = r]
  BY DEF AfterDelete
<1> QED
  BY <1>1, <1>2

(* Every reachable state of the collection is of its type.                 *)
THEOREM TypeCorrect == Spec => []TypeOK
<1>1. Init => TypeOK
  BY DEF Init, TypeOK, StoreTypeOK, SyncTypeOK, PollTypeOK, HandlerLocals,
         ReportLocals, Idle, NoReport
<1>2. TypeOK /\ [Next]_vars => TypeOK'
  <2> SUFFICES ASSUME TypeOK, [Next]_vars PROVE TypeOK'
    OBVIOUS
  <2> USE DEF TypeOK
  <2>0. /\ UNCHANGED syncVars /\ SyncTypeOK => SyncTypeOK'
        /\ UNCHANGED poll /\ PollTypeOK => PollTypeOK'
        /\ UNCHANGED storeVars /\ StoreTypeOK => StoreTypeOK' /\ hd' = hd
    BY DEF SyncTypeOK, PollTypeOK, StoreTypeOK, syncVars, storeVars
  <2>1. CASE UNCHANGED vars
    BY <2>1, <2>0 DEF vars, syncVars, storeVars
  <2>2. ASSUME NEW w \in Handler, NEW h \in Href, NEW b \in Body,
               NEW m \in IfMatch, NEW n \in IfNoneMatch,
               PutCalendarObject(w, h, b, m, n) \/ PutAddressObject(w, h, b, m, n)
        PROVE  TypeOK'
    <3> DEFINE r(pc) == [pc |-> pc, href |-> h, body |-> b, target |-> NoHref,
                         expect |-> Expected(m, n)]
    <3>1. r("uid") \in HandlerLocals /\ r("write") \in HandlerLocals
      BY DEF HandlerLocals, Expected
    <3>2. /\ hd' \in {[hd EXCEPT ![w] = r("uid")], [hd EXCEPT ![w] = r("write")]}
          /\ requests' = requests + 1
          /\ UNCHANGED <<row, log, ctag, unlogged, unbumped, syncVars, poll>>
      BY <2>2 DEF PutCalendarObject, PutAddressObject, Start
    <3>3. StoreTypeOK' /\ SyncTypeOK' /\ PollTypeOK'
      BY <2>0, <3>2 DEF StoreTypeOK
    <3> HIDE DEF r
    <3> QED
      BY <3>1, <3>2, <3>3
  <2>3. ASSUME NEW w \in Handler, NEW h \in Href, NEW m \in IfMatch, DeleteObject(w, h, m)
        PROVE  TypeOK'
    <3>1. [Idle EXCEPT !.pc = "del", !.target = h, !.expect = Expected(m, Unset)]
            \in HandlerLocals
      BY DEF HandlerLocals, Idle, Expected
    <3>2. hd' \in [Handler -> HandlerLocals]
      BY <3>1, <2>3 DEF DeleteObject, Start
    <3> QED
      BY <2>0, <2>3, <3>2 DEF StoreTypeOK, DeleteObject, Start
  <2>4. ASSUME NEW w \in Handler, CalendarObjectByUID(w) PROVE TypeOK'
    <3>1. PICK other \in SameUid(row, hd[w].href, hd[w].body) :
            hd' = [hd EXCEPT ![w] = IF other = @.href THEN [@ EXCEPT !.pc = "write"]
                                    ELSE [@ EXCEPT !.pc = "del", !.target = other]]
      BY <2>4 DEF CalendarObjectByUID
    <3>2. hd[w] \in HandlerLocals /\ hd[w].href \in Href
      BY <2>4 DEF CalendarObjectByUID, HandlerLocals
    <3>3. other \in Href
      BY <3>1, <3>2 DEF SameUid
    <3>4. [hd[w] EXCEPT !.pc = "write"] \in HandlerLocals
          /\ [hd[w] EXCEPT !.pc = "del", !.target = other] \in HandlerLocals
      BY <3>2, <3>3 DEF HandlerLocals
    <3>5. hd' \in [Handler -> HandlerLocals]
      BY <3>1, <3>4
    <3> QED
      BY <2>0, <2>4, <3>5 DEF StoreTypeOK, CalendarObjectByUID
  <2>5. ASSUME NEW w \in Handler, UpsertRow(w) PROVE TypeOK'
    <3>1. hd[w].href \in Href /\ hd[w].body \in Body
      BY <2>5 DEF UpsertRow, HandlerLocals
    <3>2. hd' \in [Handler -> HandlerLocals]
      BY <3>1, <2>5, GotoTyped DEF UpsertRow
    <3> QED
      BY <2>0, <2>5, <3>1, <3>2 DEF StoreTypeOK, UpsertRow
  <2>6. ASSUME NEW w \in Handler, RecordUpsert(w) PROVE TypeOK'
    <3>1. hd[w].href \in Href
      BY <2>6 DEF RecordUpsert, HandlerLocals
    <3>2. hd' \in [Handler -> HandlerLocals]
      BY <3>1, <2>6, GotoTyped DEF RecordUpsert
    <3> QED
      BY <2>0, <2>6, <3>1, <3>2 DEF StoreTypeOK, RecordUpsert, recordChange
  <2>7. ASSUME NEW w \in Handler, BumpUpsert(w) PROVE TypeOK'
    <3>1. hd[w].href \in Href
      BY <2>7 DEF BumpUpsert, HandlerLocals
    <3>2. hd' \in [Handler -> HandlerLocals]
      BY <3>1, <2>7, GotoTyped DEF BumpUpsert
    <3> QED
      BY <2>0, <2>7, <3>2 DEF StoreTypeOK, BumpUpsert, bump
  <2>8. ASSUME NEW w \in Handler, Reread(w) PROVE TypeOK'
    <3>1. Idle \in HandlerLocals
      BY DEF HandlerLocals, Idle
    <3>2. hd' \in [Handler -> HandlerLocals]
      BY <3>1, <2>8 DEF Reread
    <3> QED
      BY <2>0, <2>8, <3>2 DEF StoreTypeOK, Reread
  <2>9. ASSUME NEW w \in Handler, PutICSWithAttachments(w) PROVE TypeOK'
    <3>1. UNCHANGED <<requests, syncVars, poll>> /\ unbumped' = {} /\ Goto(w, "reread")
          /\ hd[w].pc = "uid"
      BY <2>9 DEF PutICSWithAttachments
    <3>2. hd[w].href \in Href
      BY <3>1 DEF HandlerLocals
    <3>3. hd' \in [Handler -> HandlerLocals]
      BY <3>1, <3>2, GotoTyped
    <3>4. StoreTypeOK'
      BY <3>1, <2>9, TransactionRecords DEF StoreTypeOK
    <3> QED
      BY <2>0, <3>1, <3>3, <3>4
  <2>10. ASSUME NEW w \in Handler, DeleteRow(w) PROVE TypeOK'
    <3>1. hd[w].target \in Href
      BY <2>10 DEF DeleteRow, HandlerLocals
    <3>2. hd' \in [Handler -> HandlerLocals]
      BY <3>1, <2>10, GotoTyped DEF DeleteRow
    <3> QED
      BY <2>0, <2>10, <3>1, <3>2 DEF StoreTypeOK, DeleteRow
  <2>11. ASSUME NEW w \in Handler, DeleteMissing(w) PROVE TypeOK'
    BY <2>0, <2>11, AfterDeleteTyped DEF StoreTypeOK, DeleteMissing
  <2>12. ASSUME NEW w \in Handler, RecordDelete(w) PROVE TypeOK'
    <3>1. hd[w].target \in Href
      BY <2>12 DEF RecordDelete, HandlerLocals
    <3>2. hd' \in [Handler -> HandlerLocals]
      BY <3>1, <2>12, GotoTyped DEF RecordDelete
    <3> QED
      BY <2>0, <2>12, <3>1, <3>2 DEF StoreTypeOK, RecordDelete, recordChange
  <2>13. ASSUME NEW w \in Handler, BumpDelete(w) PROVE TypeOK'
    BY <2>0, <2>13, AfterDeleteTyped DEF StoreTypeOK, BumpDelete, bump
  <2>14. ASSUME NEW w \in Handler, Abandon(w) PROVE TypeOK'
    <3>1. Idle \in HandlerLocals
      BY DEF HandlerLocals, Idle
    <3>2. hd' \in [Handler -> HandlerLocals]
      BY <3>1, <2>14 DEF Abandon
    <3> QED
      BY <2>0, <2>14, <3>2 DEF StoreTypeOK, Abandon
  <2>15. ASSUME NEW c \in SyncClient, NEW since, SyncList(c, since) PROVE TypeOK'
    <3>1. since \in Nat \cup {NoToken}
      BY <2>15 DEF SyncList, SyncTypeOK
    <3>2. SyncTypeOK'
      BY <2>15, <3>1 DEF SyncList, SyncTypeOK, StoreTypeOK, ReportLocals
    <3> QED
      BY <2>0, <2>15, <3>2 DEF SyncList
  <2>16. ASSUME NEW c \in SyncClient, SyncFull(c) PROVE TypeOK'
    <3>1. NoReport \in ReportLocals /\ rep[c].items \in [Href -> Body \cup {NoRow, NoEtag}]
          /\ Len(log) \in Nat /\ Moved(c) \subseteq Href
      BY DEF NoReport, ReportLocals, SyncTypeOK, StoreTypeOK, Moved
    <3>2. SyncTypeOK'
      BY <2>16, <3>1 DEF SyncFull, SyncTypeOK
    <3> QED
      BY <2>0, <2>16, <3>2 DEF SyncFull
  <2>17. ASSUME NEW c \in SyncClient, SyncLatest(c) PROVE TypeOK'
    <3>1. [rep[c] EXCEPT !.pc = "changes", !.latest = Len(log), !.moved = Moved(c)]
            \in ReportLocals
      <4>1. Len(log) \in Nat /\ Moved(c) \in SUBSET Href /\ rep[c] \in ReportLocals
        BY DEF SyncTypeOK, StoreTypeOK, Moved
      <4> QED
        BY <4>1 DEF ReportLocals
    <3>2. rep' = [rep EXCEPT ![c] = [rep[c] EXCEPT !.pc = "changes",
                     !.latest = Len(log), !.moved = Moved(c)]]
      BY <2>17 DEF SyncLatest
    <3>3. SyncTypeOK'
      BY <2>17, <3>1, <3>2 DEF SyncLatest, SyncTypeOK
    <3> QED
      BY <2>0, <2>17, <3>3 DEF SyncLatest
  <2>18. ASSUME NEW c \in SyncClient, SyncChanges(c) PROVE TypeOK'
    <3>1. NoReport \in ReportLocals /\ rep[c] \in ReportLocals
      BY DEF NoReport, ReportLocals, SyncTypeOK
    <3>2. mirror' \in [SyncClient -> [Href -> Body \cup {NoRow, NoEtag}]]
      BY <2>18, <3>1 DEF SyncChanges, SyncTypeOK, ReportLocals
    <3>3. SyncTypeOK'
      BY <2>18, <3>1, <3>2 DEF SyncChanges, SyncTypeOK, ReportLocals
    <3> QED
      BY <2>0, <2>18, <3>3 DEF SyncChanges
  <2>19. ASSUME NEW c \in SyncClient, SyncFail(c) PROVE TypeOK'
    <3>1. SyncTypeOK'
      BY <2>19 DEF SyncFail, SyncTypeOK, ReportLocals, NoReport
    <3> QED
      BY <2>0, <2>19, <3>1 DEF SyncFail
  <2>20. ASSUME NEW c \in CtagClient, PollCtag(c) \/ PollList(c) PROVE TypeOK'
    <3>1. CASE PollCtag(c)
      <4>1. poll' = [poll EXCEPT ![c] = [poll[c] EXCEPT !.pc = "list", !.seen = ctag]]
        BY <3>1 DEF PollCtag
      <4>2. PollTypeOK'
        BY <4>1 DEF PollTypeOK, StoreTypeOK
      <4> QED
        BY <2>0, <3>1, <4>2 DEF PollCtag
    <3>2. CASE PollList(c)
      <4>1. PollTypeOK'
        BY <3>2 DEF PollList, PollTypeOK, StoreTypeOK
      <4> QED
        BY <2>0, <3>2, <4>1 DEF PollList
    <3> QED
      BY <2>20, <3>1, <3>2
  <2> QED
    BY <2>1, <2>2, <2>3, <2>4, <2>5, <2>6, <2>7, <2>8, <2>9, <2>10, <2>11, <2>12,
       <2>13, <2>14, <2>15, <2>16, <2>17, <2>18, <2>19, <2>20
       DEF Next, HandlerStep, SyncStep
<1> QED
  BY <1>1, <1>2, PTL DEF Spec

-----------------------------------------------------------------------------
(* The guarantee of getctag.                                               *)

(* A ctag client holds no ctag that has not been reached yet.              *)
PollBehind == \A c \in CtagClient : poll[c].ctag <= ctag /\ poll[c].seen <= ctag

(* A client that holds the current ctag has listed the current members,    *)
(* unless a writer has still to bump the ctag or ended before it did.      *)
THEOREM CtagGuarantee == Spec => []CtagCovers
<1> DEFINE CInv == PollBehind /\ CtagCovers
<1>1. Init => CInv
  BY DEF Init, PollBehind, CtagCovers
<1>2. TypeOK /\ TypeOK' /\ CInv /\ [Next]_vars => CInv'
  <2> SUFFICES ASSUME TypeOK, TypeOK', CInv, [Next]_vars PROVE CInv'
    OBVIOUS
  <2>0. /\ row \in [Href -> Body \cup {NoRow}] /\ ctag \in Nat /\ ctag' \in Nat
        /\ hd \in [Handler -> HandlerLocals] /\ hd' \in [Handler -> HandlerLocals]
        /\ unbumped \subseteq Href
        /\ \A c \in CtagClient : poll[c].ctag \in Nat /\ poll[c].seen \in Nat
    BY DEF TypeOK, StoreTypeOK, PollTypeOK
  (* A step that advances the ctag leaves no client with the current one.  *)
  <2>a. ASSUME UNCHANGED poll, ctag' > ctag PROVE CInv'
    BY <2>0, <2>a DEF PollBehind, CtagCovers
  (* A step that keeps the ctag changes only rows it owes a bump for.      *)
  <2>b. ASSUME UNCHANGED <<poll, ctag>>,
               \A h \in Href :
                 \/ \E v \in Handler : OwesBump(v, h)'
                 \/ h \in unbumped'
                 \/ /\ row'[h] = row[h] /\ h \notin unbumped
                    /\ \A v \in Handler : ~OwesBump(v, h)
        PROVE  CInv'
    BY <2>0, <2>b DEF PollBehind, CtagCovers
  <2>c. ASSUME UNCHANGED <<poll, ctag, row, unbumped>>,
               \A v \in Handler, h \in Href : OwesBump(v, h) => OwesBump(v, h)'
        PROVE  CInv'
    BY <2>0, <2>c DEF PollBehind, CtagCovers
  <2>1. CASE UNCHANGED vars
    BY <2>1, <2>c DEF vars, OwesBump
  <2>2. ASSUME NEW w \in Handler, NEW h \in Href, NEW b \in Body,
               NEW m \in IfMatch, NEW n \in IfNoneMatch,
               PutCalendarObject(w, h, b, m, n) \/ PutAddressObject(w, h, b, m, n)
        PROVE  CInv'
    BY <2>0, <2>2, <2>c DEF PutCalendarObject, PutAddressObject, Start, OwesBump
  <2>3. ASSUME NEW w \in Handler, NEW h \in Href, NEW m \in IfMatch, DeleteObject(w, h, m)
        PROVE  CInv'
    BY <2>0, <2>3, <2>c DEF DeleteObject, Start, OwesBump
  <2>4. ASSUME NEW w \in Handler, CalendarObjectByUID(w) PROVE CInv'
    BY <2>0, <2>4, <2>c DEF CalendarObjectByUID, OwesBump
  <2>5. ASSUME NEW w \in Handler, UpsertRow(w) PROVE CInv'
    <3>1. hd[w].href \in Href /\ hd'[w].pc = "log" /\ hd'[w].href = hd[w].href
          /\ \A v \in Handler : v # w => hd'[v] = hd[v]
      BY <2>0, <2>5 DEF UpsertRow, HandlerLocals, Goto
    <3> QED
      BY <2>0, <2>5, <3>1, <2>b DEF UpsertRow, OwesBump
  <2>6. ASSUME NEW w \in Handler, RecordUpsert(w) PROVE CInv'
    <3>1. hd'[w].pc = "bump" /\ hd'[w].href = hd[w].href
          /\ \A v \in Handler : v # w => hd'[v] = hd[v]
      BY <2>0, <2>6 DEF RecordUpsert, HandlerLocals, Goto
    <3> QED
      BY <2>0, <2>6, <3>1, <2>c DEF RecordUpsert, OwesBump
  <2>7. ASSUME NEW w \in Handler, BumpUpsert(w) PROVE CInv'
    BY <2>0, <2>7, <2>a DEF BumpUpsert, bump
  <2>8. ASSUME NEW w \in Handler, Reread(w) PROVE CInv'
    BY <2>0, <2>8, <2>c DEF Reread, OwesBump
  <2>9. ASSUME NEW w \in Handler, PutICSWithAttachments(w) PROVE CInv'
    <3>1. ctag' > ctag
      BY <2>9, TransactionRecords
    <3>2. UNCHANGED poll
      BY <2>9 DEF PutICSWithAttachments
    <3> QED
      BY <3>1, <3>2, <2>a
  <2>10. ASSUME NEW w \in Handler, DeleteRow(w) PROVE CInv'
    <3>1. hd[w].target \in Href /\ hd'[w].pc = "dellog" /\ hd'[w].target = hd[w].target
          /\ \A v \in Handler : v # w => hd'[v] = hd[v]
      BY <2>0, <2>10 DEF DeleteRow, HandlerLocals, Goto
    <3> QED
      BY <2>0, <2>10, <3>1, <2>b DEF DeleteRow, OwesBump
  <2>11. ASSUME NEW w \in Handler, DeleteMissing(w) PROVE CInv'
    <3>1. \A v \in Handler : v # w => hd'[v] = hd[v]
      BY <2>0, <2>11 DEF DeleteMissing, AfterDelete
    <3> QED
      BY <2>0, <2>11, <3>1, <2>c DEF DeleteMissing, OwesBump
  <2>12. ASSUME NEW w \in Handler, RecordDelete(w) PROVE CInv'
    <3>1. hd'[w].pc = "delbump" /\ hd'[w].target = hd[w].target
          /\ \A v \in Handler : v # w => hd'[v] = hd[v]
      BY <2>0, <2>12 DEF RecordDelete, HandlerLocals, Goto
    <3> QED
      BY <2>0, <2>12, <3>1, <2>c DEF RecordDelete, OwesBump
  <2>13. ASSUME NEW w \in Handler, BumpDelete(w) PROVE CInv'
    BY <2>0, <2>13, <2>a DEF BumpDelete, bump
  <2>14. ASSUME NEW w \in Handler, Abandon(w) PROVE CInv'
    BY <2>0, <2>14, <2>b DEF Abandon, OwesBump
  <2>15. ASSUME NEW c \in SyncClient, NEW since,
                SyncList(c, since) \/ SyncStep(c) \/ SyncFail(c) PROVE CInv'
    <3>1. UNCHANGED <<storeVars, poll>>
      BY <2>15 DEF SyncList, SyncStep, SyncFull, SyncLatest, SyncChanges, SyncFail
    <3> QED
      BY <3>1, <2>c DEF storeVars, OwesBump
  <2>16. ASSUME NEW c \in CtagClient, PollCtag(c) PROVE CInv'
    BY <2>0, <2>16 DEF PollCtag, PollBehind, CtagCovers, PollTypeOK, TypeOK, OwesBump, storeVars
  <2>17. ASSUME NEW c \in CtagClient, PollList(c) PROVE CInv'
    BY <2>0, <2>17 DEF PollList, PollBehind, CtagCovers, PollTypeOK, TypeOK, OwesBump, storeVars
  <2> QED
    BY <2>1, <2>2, <2>3, <2>4, <2>5, <2>6, <2>7, <2>8, <2>9, <2>10, <2>11, <2>12,
       <2>13, <2>14, <2>15, <2>16, <2>17 DEF Next, HandlerStep
<1> QED
  BY <1>1, <1>2, TypeCorrect, PTL DEF Spec

-----------------------------------------------------------------------------
(* The guarantee of sync-collection.                                       *)

(* A report between its listing and its answer: its token is not ahead of  *)
(* the log, it started from the client's own token, and its listing is     *)
(* wrong about a member only if that has moved or is excused.              *)
ReportInv ==
  \A c \in SyncClient :
    /\ token[c] # NoToken => token[c] <= Len(log)
    /\ rep[c].pc # "idle" /\ rep[c].since # NoToken => rep[c].since = token[c]
    /\ rep[c].pc = "changes" =>
         /\ rep[c].since # NoToken
         /\ rep[c].latest <= Len(log)
         /\ \A h \in Href : rep[c].items[h] # row[h] =>
                             h \in rep[c].moved \/ Excused(rep[c].latest, h)

(* A change of the store keeps every excuse, and gives one to every member *)
(* whose row it changes, if each member is mentioned by a new record, or   *)
(* owed one, or left alone.                                                *)
LEMMA StoreStepExcuses ==
  ASSUME TypeOK, TypeOK', Extends(log, log'),
         NEW t \in Nat, t <= Len(log), NEW h \in Href,
         \/ Mentions(log, log', h)
         \/ \E v \in Handler : OwesRecord(v, h)'
         \/ h \in unlogged'
         \/ /\ row'[h] = row[h] /\ h \notin unlogged
            /\ \A v \in Handler : ~OwesRecord(v, h)
  PROVE  Excused(t, h) \/ row'[h] # row[h] => Excused(t, h)'
<1>0. log \in Seq(Change) /\ log' \in Seq(Change) /\ Len(log) \in Nat /\ Len(log') \in Nat
      /\ DOMAIN log = 1..Len(log) /\ DOMAIN log' = 1..Len(log')
  BY DEF TypeOK, StoreTypeOK
<1>1. CASE Mentions(log, log', h)
  <2>1. PICK i \in Len(log) + 1 .. Len(log') : log'[i].href = h
    BY <1>1 DEF Mentions
  <2>2. i \in DOMAIN log' /\ i > t
    BY <1>0
  <2> QED
    BY <2>1, <2>2 DEF Excused, RecordedAfter
<1>2. CASE (\E v \in Handler : OwesRecord(v, h)') \/ h \in unlogged'
  BY <1>2 DEF Excused
<1>3. CASE /\ row'[h] = row[h] /\ h \notin unlogged /\ ~Mentions(log, log', h)
           /\ \A v \in Handler : ~OwesRecord(v, h)
  <2> SUFFICES ASSUME Excused(t, h) PROVE Excused(t, h)'
    BY <1>3
  <2>1. CASE RecordedAfter(t, h)
    <3>1. PICK i \in DOMAIN log : i > t /\ log[i].href = h
      BY <2>1 DEF RecordedAfter
    <3>2. i \in DOMAIN log' /\ log'[i] = log[i]
      BY <1>0, <3>1 DEF Extends
    <3> QED
      BY <3>1, <3>2 DEF Excused, RecordedAfter
  <2>2. CASE Misrecorded(h)
    <3>1. PICK i \in DOMAIN log :
            /\ log[i].href = h
            /\ \A j \in DOMAIN log : j > i => log[j].href # h
            /\ log[i].deleted = (row[h] # NoRow)
      BY <2>2 DEF Misrecorded
    <3>2. i \in DOMAIN log' /\ log'[i] = log[i]
      BY <1>0, <3>1 DEF Extends
    <3>3. ASSUME NEW j \in DOMAIN log', j > i PROVE log'[j].href # h
      <4>1. CASE j \in 1..Len(log)
        BY <4>1, <1>0, <3>1, <3>3 DEF Extends
      <4>2. CASE j \notin 1..Len(log)
        <5>1. j \in Len(log) + 1 .. Len(log')
          BY <4>2, <1>0
        <5> QED
          BY <5>1, <1>3 DEF Mentions
      <4> QED
        BY <4>1, <4>2
    <3>4. Misrecorded(h)'
      BY <3>1, <3>2, <3>3, <1>3 DEF Misrecorded
    <3> QED
      BY <3>4 DEF Excused
  <2> QED
    BY <1>3, <2>1, <2>2 DEF Excused
<1> QED
  BY <1>1, <1>2, <1>3

(* Therefore such a step keeps the guarantee.                              *)
LEMMA StoreStepKeeps ==
  ASSUME TypeOK, TypeOK', ReportInv, NothingMissed,
         UNCHANGED syncVars, Extends(log, log'),
         \A h \in Href :
           \/ Mentions(log, log', h)
           \/ \E v \in Handler : OwesRecord(v, h)'
           \/ h \in unlogged'
           \/ /\ row'[h] = row[h] /\ h \notin unlogged
              /\ \A v \in Handler : ~OwesRecord(v, h)
  PROVE  ReportInv' /\ NothingMissed'
<1>0. Len(log) \in Nat /\ Len(log') \in Nat /\ Len(log) <= Len(log')
  BY DEF TypeOK, StoreTypeOK, Extends
<1>1. ASSUME NEW c \in SyncClient
      PROVE  token[c] \in Nat \cup {NoToken} /\ rep[c].latest \in Nat
  BY DEF TypeOK, SyncTypeOK, ReportLocals
<1>2. ASSUME NEW t \in Nat, t <= Len(log), NEW h \in Href
      PROVE  Excused(t, h) \/ row'[h] # row[h] => Excused(t, h)'
  BY <1>2, StoreStepExcuses
<1>3. rep' = rep /\ token' = token /\ mirror' = mirror /\ torn' = torn
  BY DEF syncVars
<1>4. NothingMissed'
  <2> SUFFICES ASSUME NEW c \in SyncClient, NEW h \in Href,
                      token[c] # NoToken, mirror[c][h] # row'[h], h \notin torn[c]
               PROVE  Excused(token[c], h)'
    BY <1>3 DEF NothingMissed
  <2>1. token[c] \in Nat /\ token[c] <= Len(log)
    BY <1>1 DEF ReportInv
  <2>2. row'[h] = row[h] => Excused(token[c], h)
    BY DEF NothingMissed
  <2>3. PICK t \in Nat : t = token[c]
    BY <2>1
  <2>4. (Excused(t, h) \/ row'[h] # row[h]) => Excused(t, h)'
    BY <2>1, <2>3, <1>2
  <2>5. Excused(t, h)'
    BY <2>2, <2>3, <2>4
  <2> QED
    BY <2>3, <2>5, <1>3 DEF Excused, RecordedAfter
<1>5. ReportInv'
  <2>1. ASSUME NEW c \in SyncClient, rep[c].pc = "changes", NEW h \in Href,
               rep[c].items[h] # row'[h], h \notin rep[c].moved
        PROVE  Excused(rep[c].latest, h)'
    <3>1. rep[c].latest \in Nat /\ rep[c].latest <= Len(log)
      BY <1>1, <2>1 DEF ReportInv
    <3>2. row'[h] = row[h] => Excused(rep[c].latest, h)
      BY <2>1 DEF ReportInv
    <3>3. PICK t \in Nat : t = rep[c].latest
      BY <3>1
    <3>4. (Excused(t, h) \/ row'[h] # row[h]) => Excused(t, h)'
      BY <3>1, <3>3, <1>2
    <3>5. Excused(t, h)'
      BY <3>2, <3>3, <3>4
    <3> QED
      BY <3>3, <3>5, <1>3 DEF Excused, RecordedAfter
  <2>2. ASSUME NEW c \in SyncClient PROVE token[c] # NoToken => token[c] <= Len(log')
    <3>1. token[c] # NoToken => token[c] \in Nat /\ token[c] <= Len(log)
      BY <1>1 DEF ReportInv
    <3> QED
      BY <1>0, <3>1
  <2>3. ASSUME NEW c \in SyncClient, rep[c].pc = "changes"
        PROVE rep[c].latest <= Len(log')
    BY <1>0, <1>1, <2>3 DEF ReportInv
  <2> QED
    BY <1>3, <2>1, <2>2, <2>3 DEF ReportInv
<1> QED
  BY <1>4, <1>5

(* The answer to a request with a token: what ChangesSince returns.        *)
LEMMA ChangesSinceLast ==
  ASSUME log \in Seq(Change), NEW since \in Nat, NEW h \in Href
  PROVE  /\ h \in DOMAIN ChangesSince(since) <=> RecordedAfter(since, h)
         /\ h \in DOMAIN ChangesSince(since) =>
              \E i \in DOMAIN log :
                /\ log[i].href = h
                /\ \A j \in DOMAIN log : j > i => log[j].href # h
                /\ ChangesSince(since)[h] = log[i].deleted
<1> DEFINE R == RecordsSince(since, h)
<1>1. h \in DOMAIN ChangesSince(since) <=> R # {}
  BY DEF ChangesSince
<1>2. R # {} <=> RecordedAfter(since, h)
  BY DEF RecordsSince, RecordedAfter
<1>3. ASSUME R # {}
      PROVE  \E i \in DOMAIN log :
                /\ log[i].href = h
                /\ \A j \in DOMAIN log : j > i => log[j].href # h
                /\ ChangesSince(since)[h] = log[i].deleted
  <2>1. R \in SUBSET (1..Len(log)) /\ Len(log) \in Nat
    BY DEF RecordsSince
  <2>2. LastOf(R) \in R /\ \A j \in R : j <= LastOf(R)
    <3> HIDE DEF R
    <3> QED
      BY <1>3, <2>1, LastOfIsMax
  <2>3. ChangesSince(since)[h] = log[LastOf(R)].deleted
    BY <1>3 DEF ChangesSince
  <2>4. LastOf(R) \in DOMAIN log /\ LastOf(R) > since /\ log[LastOf(R)].href = h
    <3>1. \A i \in R : i \in DOMAIN log /\ i > since /\ log[i].href = h
      BY DEF RecordsSince
    <3> HIDE DEF R
    <3> QED
      BY <2>2, <3>1
  <2>5. ASSUME NEW j \in DOMAIN log, j > LastOf(R) PROVE log[j].href # h
    <3>1. j \in Nat /\ LastOf(R) \in Nat /\ j > since
      BY <2>4, <2>5
    <3>2. log[j].href = h => j \in R
      BY <3>1, <2>5 DEF RecordsSince
    <3> HIDE DEF R
    <3> QED
      BY <3>1, <3>2, <2>2, <2>5
  <2> QED
    BY <2>3, <2>4, <2>5
<1> QED
  BY <1>1, <1>2, <1>3

(* A report with a token answers with members that are right, or excused.  *)
LEMMA SyncChangesKeeps ==
  ASSUME TypeOK, ReportInv, NothingMissed, NEW c \in SyncClient, SyncChanges(c)
  PROVE  ReportInv' /\ NothingMissed'
<1> DEFINE changes == ChangesSince(rep[c].since)
<1>0. /\ rep[c] \in ReportLocals /\ rep[c].latest \in Nat
      /\ rep[c].pc = "changes" /\ rep[c].since = token[c] /\ rep[c].since \in Nat
      /\ rep[c].latest <= Len(log)
      /\ log \in Seq(Change)
      /\ token \in [SyncClient -> Nat \cup {NoToken}]
      /\ rep \in [SyncClient -> ReportLocals]
      /\ mirror \in [SyncClient -> [Href -> Body \cup {NoRow, NoEtag}]]
      /\ torn \in [SyncClient -> SUBSET Href]
  BY DEF SyncChanges, ReportInv, TypeOK, StoreTypeOK, SyncTypeOK, ReportLocals
<1>1. UNCHANGED storeVars
  BY DEF SyncChanges
<1>2. \A t \in Nat, h \in Href : Excused(t, h) <=> Excused(t, h)'
  BY <1>1 DEF storeVars, Excused, RecordedAfter, OwesRecord, Misrecorded
<1>3. /\ token'[c] = rep[c].latest /\ rep'[c] = NoReport
      /\ torn'[c] = (torn[c] \ DOMAIN changes) \cup (rep[c].moved \cap DOMAIN changes)
      /\ \A h \in Href : h \notin DOMAIN changes => mirror'[c][h] = mirror[c][h]
      /\ \A h \in Href : h \in DOMAIN changes =>
           mirror'[c][h] = IF changes[h] THEN NoRow
                           ELSE IF rep[c].items[h] = NoRow THEN NoEtag
                           ELSE rep[c].items[h]
      /\ \A d \in SyncClient : d # c =>
           /\ token'[d] = token[d] /\ rep'[d] = rep[d]
           /\ torn'[d] = torn[d] /\ mirror'[d] = mirror[d]
  <2> HIDE DEF changes
  <2>1. /\ mirror' = [mirror EXCEPT ![c] =
             [h \in Href |-> IF h \notin DOMAIN changes THEN mirror[c][h]
                             ELSE IF changes[h] THEN NoRow
                             ELSE IF rep[c].items[h] = NoRow THEN NoEtag
                             ELSE rep[c].items[h]]]
        /\ token' = [token EXCEPT ![c] = rep[c].latest]
        /\ torn' = [torn EXCEPT ![c] = (@ \ DOMAIN changes)
                                        \cup (rep[c].moved \cap DOMAIN changes)]
        /\ rep' = [rep EXCEPT ![c] = NoReport]
    BY DEF SyncChanges, changes
  <2> QED
    BY <1>0, <2>1
<1>4. ASSUME NEW h \in Href, mirror'[c][h] # row[h], h \notin torn'[c]
      PROVE  Excused(rep[c].latest, h)
  <2>1. CASE h \notin DOMAIN changes
    <3>1. Excused(token[c], h)
      BY <1>0, <1>3, <1>4, <2>1 DEF NothingMissed
    <3>2. ~RecordedAfter(token[c], h)
      BY <1>0, <2>1, ChangesSinceLast
    <3> QED
      BY <3>1, <3>2 DEF Excused
  <2>2. CASE h \in DOMAIN changes
    <3>1. PICK i \in DOMAIN log :
             /\ log[i].href = h
             /\ \A j \in DOMAIN log : j > i => log[j].href # h
             /\ changes[h] = log[i].deleted
      BY <1>0, <2>2, ChangesSinceLast
    <3>2. changes[h] = TRUE \/ changes[h] = FALSE
      <4>0. log \in Seq(Change) /\ i \in 1..Len(log)
        BY <1>0
      <4>1. log[i] \in Change
        <5> HIDE DEF Change
        <5> QED
          BY <4>0
      <4>2. log[i].deleted = TRUE \/ log[i].deleted = FALSE
        BY <4>1, Zenon DEF Change
      <4> HIDE DEF changes
      <4> QED
        BY <3>1, <4>2
    <3>3. rep[c].items[h] # row[h] => Excused(rep[c].latest, h)
      BY <1>0, <1>3, <1>4, <2>2 DEF ReportInv
    <3>4. Misrecorded(h) => Excused(rep[c].latest, h)
      BY DEF Excused
    <3>5. CASE changes[h] = TRUE
      <4> HIDE DEF changes
      <4>1. mirror'[c][h] = NoRow
        BY <1>3, <2>2, <3>5
      <4>2. Misrecorded(h)
        BY <1>4, <3>1, <3>5, <4>1 DEF Misrecorded
      <4> QED
        BY <3>4, <4>2
    <3>6. CASE changes[h] = FALSE
      <4> HIDE DEF changes
      <4>1. rep[c].items[h] # NoRow => mirror'[c][h] = rep[c].items[h]
        BY <1>3, <2>2, <3>6
      <4>2. row[h] = NoRow => Misrecorded(h)
        BY <3>1, <3>6 DEF Misrecorded
      <4> QED
        BY <1>4, <3>3, <3>4, <4>1, <4>2
    <3> QED
      BY <3>2, <3>5, <3>6
  <2> QED
    BY <2>1, <2>2
<1>5. NothingMissed'
  <2> SUFFICES ASSUME NEW d \in SyncClient, NEW h \in Href,
                      token'[d] # NoToken, mirror'[d][h] # row'[h], h \notin torn'[d]
               PROVE  Excused(token[d], h)'
    BY DEF NothingMissed
  <2>1. PICK t \in Nat : t = token'[d]
    BY <1>0, <1>3
  <2>2. Excused(t, h)
    <3>1. CASE d = c
      BY <2>1, <3>1, <1>1, <1>3, <1>4 DEF storeVars
    <3>2. CASE d # c
      BY <2>1, <3>2, <1>1, <1>3 DEF storeVars, NothingMissed
    <3> QED
      BY <3>1, <3>2
  <2>3. Excused(t, h)'
    BY <1>2, <2>2
  <2> QED
    BY <2>1, <2>3 DEF Excused, RecordedAfter
<1>6. ReportInv'
  <2>1. \A d \in SyncClient : rep'[d].pc # "idle" => d # c
    BY <1>3 DEF NoReport
  <2>2. \A d \in SyncClient : token'[d] # NoToken => token'[d] <= Len(log)
    BY <1>0, <1>3 DEF ReportInv
  <2>3. ASSUME NEW d \in SyncClient, d # c, rep[d].pc = "changes", NEW h \in Href,
               rep[d].items[h] # row[h], h \notin rep[d].moved
        PROVE  Excused(rep[d].latest, h)'
    <3>1. PICK t \in Nat : t = rep[d].latest
      BY <1>0 DEF ReportLocals
    <3>2. Excused(t, h)
      BY <2>3, <3>1 DEF ReportInv
    <3>3. Excused(t, h)'
      BY <1>2, <3>2
    <3> QED
      BY <2>3, <3>1, <3>3, <1>3 DEF Excused, RecordedAfter
  <2> QED
    BY <1>1, <1>3, <2>1, <2>2, <2>3 DEF ReportInv, storeVars
<1> QED
  BY <1>5, <1>6

(* The other steps of a report.  They touch the locals of one client.      *)
ClientFrame(c) ==
  /\ UNCHANGED storeVars
  /\ \A d \in SyncClient : d # c =>
       /\ token'[d] = token[d] /\ rep'[d] = rep[d]
       /\ torn'[d] = torn[d] /\ mirror'[d] = mirror[d]

(* A step of one client's report that leaves that client consistent keeps  *)
(* the guarantee for all of them.                                          *)
LEMMA OtherClientsKeep ==
  ASSUME TypeOK, ReportInv, NothingMissed, NEW c \in SyncClient, ClientFrame(c),
         token'[c] # NoToken => token'[c] \in Nat /\ token'[c] <= Len(log),
         rep'[c].pc # "idle" /\ rep'[c].since # NoToken => rep'[c].since = token'[c],
         rep'[c].pc = "changes" =>
           /\ rep'[c].since # NoToken
           /\ rep'[c].latest <= Len(log)
           /\ \A h \in Href : rep'[c].items[h] # row[h] => h \in rep'[c].moved,
         \A h \in Href : token'[c] # NoToken /\ mirror'[c][h] # row[h] =>
           h \in torn'[c] \/ (token'[c] = token[c] /\ Excused(token[c], h))
  PROVE  ReportInv' /\ NothingMissed'
<1>0. log' = log /\ row' = row /\ hd' = hd /\ unlogged' = unlogged
      /\ rep \in [SyncClient -> ReportLocals]
      /\ token \in [SyncClient -> Nat \cup {NoToken}]
  BY DEF ClientFrame, storeVars, TypeOK, SyncTypeOK
<1>1. \A t \in Nat, h \in Href : Excused(t, h) <=> Excused(t, h)'
  BY <1>0 DEF Excused, RecordedAfter, OwesRecord, Misrecorded
<1>2. NothingMissed'
  <2> SUFFICES ASSUME NEW d \in SyncClient, NEW h \in Href,
                      token'[d] # NoToken, mirror'[d][h] # row'[h], h \notin torn'[d]
               PROVE  Excused(token[d], h)'
    BY DEF NothingMissed
  <2>1. token'[d] = token[d] /\ Excused(token[d], h)
    BY <1>0 DEF ClientFrame, NothingMissed
  <2>2. PICK t \in Nat : t = token[d]
    BY <2>1, <1>0
  <2>3. Excused(t, h)'
    BY <1>1, <2>1, <2>2
  <2> QED
    BY <2>1, <2>2, <2>3 DEF Excused, RecordedAfter
<1>3. ReportInv'
  <2>1. ASSUME NEW d \in SyncClient, rep'[d].pc = "changes", NEW h \in Href,
               rep'[d].items[h] # row[h], h \notin rep'[d].moved
        PROVE  Excused(rep[d].latest, h)'
    <3>1. d # c /\ rep'[d] = rep[d]
      BY <2>1 DEF ClientFrame
    <3>2. PICK t \in Nat : t = rep[d].latest
      BY <1>0 DEF ReportLocals
    <3>3. Excused(t, h)'
      BY <2>1, <3>1, <3>2, <1>1 DEF ReportInv
    <3> QED
      BY <3>1, <3>2, <3>3 DEF Excused, RecordedAfter
  <2>2. \A d \in SyncClient :
          /\ token'[d] # NoToken => token'[d] <= Len(log)
          /\ rep'[d].pc # "idle" /\ rep'[d].since # NoToken => rep'[d].since = token'[d]
          /\ rep'[d].pc = "changes" => rep'[d].since # NoToken /\ rep'[d].latest <= Len(log)
    BY DEF ClientFrame, ReportInv
  <2> QED
    BY <1>0, <2>1, <2>2 DEF ReportInv
<1> QED
  BY <1>2, <1>3

(* Listing the members starts a report from the client's own token.        *)
LEMMA SyncListKeeps ==
  ASSUME TypeOK, ReportInv, NothingMissed, NEW c \in SyncClient,
         NEW since, SyncList(c, since)
  PROVE  ReportInv' /\ NothingMissed'
<1>1. /\ ClientFrame(c) /\ token' = token /\ mirror' = mirror /\ torn' = torn
      /\ rep'[c].pc = "latest"
      /\ rep'[c].since # NoToken => rep'[c].since = token[c]
  BY DEF SyncList, ClientFrame, TypeOK, SyncTypeOK
<1>2. token[c] # NoToken => token[c] \in Nat /\ token[c] <= Len(log)
  BY DEF TypeOK, SyncTypeOK, ReportInv
<1> QED
  BY <1>1, <1>2, OtherClientsKeep DEF NothingMissed

(* A lost answer leaves the client as it was.                              *)
LEMMA SyncFailKeeps ==
  ASSUME TypeOK, ReportInv, NothingMissed, NEW c \in SyncClient, SyncFail(c)
  PROVE  ReportInv' /\ NothingMissed'
<1>1. /\ ClientFrame(c) /\ token' = token /\ mirror' = mirror /\ torn' = torn
      /\ rep'[c].pc = "idle"
  BY DEF SyncFail, ClientFrame, TypeOK, SyncTypeOK, NoReport
<1>2. token[c] # NoToken => token[c] \in Nat /\ token[c] <= Len(log)
  BY DEF TypeOK, SyncTypeOK, ReportInv
<1> QED
  BY <1>1, <1>2, OtherClientsKeep DEF NothingMissed

(* A report without token is wrong only about what has moved since the     *)
(* listing.                                                                *)
LEMMA SyncFullKeeps ==
  ASSUME TypeOK, ReportInv, NothingMissed, NEW c \in SyncClient, SyncFull(c)
  PROVE  ReportInv' /\ NothingMissed'
<1>1. /\ ClientFrame(c) /\ rep'[c].pc = "idle"
      /\ token'[c] = Len(log) /\ mirror'[c] = rep[c].items /\ torn'[c] = Moved(c)
  BY DEF SyncFull, ClientFrame, TypeOK, SyncTypeOK, NoReport
<1>2. Len(log) \in Nat
  BY DEF TypeOK, StoreTypeOK
<1>3. \A h \in Href : mirror'[c][h] # row[h] => h \in torn'[c]
  BY <1>1 DEF Moved
<1> QED
  BY <1>1, <1>2, <1>3, OtherClientsKeep

(* What has moved between the listing and the token is remembered in moved.*)
LEMMA SyncLatestKeeps ==
  ASSUME TypeOK, ReportInv, NothingMissed, NEW c \in SyncClient, SyncLatest(c)
  PROVE  ReportInv' /\ NothingMissed'
<1>1. /\ ClientFrame(c) /\ token' = token /\ mirror' = mirror /\ torn' = torn
      /\ rep'[c].since = rep[c].since /\ rep[c].since # NoToken /\ rep[c].pc = "latest"
      /\ rep'[c].latest = Len(log) /\ rep'[c].items = rep[c].items
      /\ rep'[c].moved = Moved(c)
  BY DEF SyncLatest, ClientFrame, TypeOK, SyncTypeOK, ReportLocals
<1>2. token[c] # NoToken => token[c] \in Nat /\ token[c] <= Len(log)
  BY DEF TypeOK, SyncTypeOK, ReportInv
<1>3. rep'[c].since = token'[c] /\ Len(log) \in Nat
  BY <1>1 DEF ReportInv, TypeOK, StoreTypeOK
<1>4. \A h \in Href : rep'[c].items[h] # row[h] => h \in rep'[c].moved
  BY <1>1 DEF Moved
<1>5. \A h \in Href : token'[c] # NoToken /\ mirror'[c][h] # row[h] =>
           h \in torn'[c] \/ (token'[c] = token[c] /\ Excused(token[c], h))
  BY <1>1 DEF NothingMissed
<1> QED
  BY <1>1, <1>2, <1>3, <1>4, <1>5, OtherClientsKeep

(* The guarantee of sync-collection: a client wrong about a member has     *)
(* that member coming in its next report, or the member is one of those a  *)
(* torn report, a request cut short or two overlapping writers left.       *)
(* ReportInv is the strengthening: what a report holds in between.         *)
THEOREM SyncGuarantee == Spec => []NothingMissed
<1> DEFINE SInv == ReportInv /\ NothingMissed
<1>1. Init => SInv
  BY DEF Init, ReportInv, NothingMissed, NoReport
<1>2. TypeOK /\ TypeOK' /\ SInv /\ [Next]_vars => SInv'
  <2> SUFFICES ASSUME TypeOK, TypeOK', ReportInv, NothingMissed, [Next]_vars PROVE SInv'
    OBVIOUS
  <2>0. /\ row \in [Href -> Body \cup {NoRow}] /\ row' \in [Href -> Body \cup {NoRow}]
        /\ hd \in [Handler -> HandlerLocals] /\ hd' \in [Handler -> HandlerLocals]
        /\ log \in Seq(Change) /\ log' \in Seq(Change) /\ unlogged \subseteq Href
        /\ Len(log) \in Nat
    BY DEF TypeOK, StoreTypeOK
  <2>s. ASSUME log' = log PROVE Extends(log, log')
    BY <2>0, <2>s DEF Extends
  (* A step that records nothing changes only rows it owes a record for.   *)
  <2>b. ASSUME UNCHANGED <<syncVars, log>>,
               \A h \in Href :
                 \/ \E v \in Handler : OwesRecord(v, h)'
                 \/ h \in unlogged'
                 \/ /\ row'[h] = row[h] /\ h \notin unlogged
                    /\ \A v \in Handler : ~OwesRecord(v, h)
        PROVE  SInv'
    BY <2>b, <2>s, StoreStepKeeps
  <2>c. ASSUME UNCHANGED <<syncVars, log, row, unlogged>>,
               \A v \in Handler, h \in Href : OwesRecord(v, h) => OwesRecord(v, h)'
        PROVE  SInv'
    BY <2>b, <2>c
  (* A step that records h leaves the other members alone.                 *)
  <2>d. ASSUME NEW w \in Handler, NEW h \in Href, NEW del \in BOOLEAN,
               UNCHANGED <<syncVars, row>>, recordChange(h, del),
               \A v \in Handler : v # w => hd'[v] = hd[v],
               \A g \in Href : OwesRecord(w, g) => g = h
        PROVE  SInv'
    <3>1. Extends(log, log') /\ Mentions(log, log', h)
      <4>1. Len(log') = Len(log) + 1 /\ log'[Len(log) + 1] = [href |-> h, deleted |-> del]
            /\ \A i \in 1..Len(log) : log'[i] = log[i]
        BY <2>0, <2>d DEF recordChange
      <4> QED
        BY <2>0, <4>1 DEF Extends, Mentions
    <3>2. ASSUME NEW g \in Href, g # h
          PROVE  \/ \E v \in Handler : OwesRecord(v, g)'
                 \/ g \in unlogged'
                 \/ /\ row'[g] = row[g] /\ g \notin unlogged
                    /\ \A v \in Handler : ~OwesRecord(v, g)
      BY <2>d, <3>2 DEF recordChange, OwesRecord
    <3> QED
      BY <2>d, <3>1, <3>2, StoreStepKeeps
  <2>1. CASE UNCHANGED vars
    BY <2>1, <2>c DEF vars, syncVars, OwesRecord
  <2>2. ASSUME NEW w \in Handler, NEW h \in Href, NEW b \in Body,
               NEW m \in IfMatch, NEW n \in IfNoneMatch,
               PutCalendarObject(w, h, b, m, n) \/ PutAddressObject(w, h, b, m, n)
        PROVE  SInv'
    BY <2>0, <2>2, <2>c DEF PutCalendarObject, PutAddressObject, Start, OwesRecord
  <2>3. ASSUME NEW w \in Handler, NEW h \in Href, NEW m \in IfMatch, DeleteObject(w, h, m)
        PROVE  SInv'
    BY <2>0, <2>3, <2>c DEF DeleteObject, Start, OwesRecord
  <2>4. ASSUME NEW w \in Handler, CalendarObjectByUID(w) PROVE SInv'
    BY <2>0, <2>4, <2>c DEF CalendarObjectByUID, OwesRecord
  <2>5. ASSUME NEW w \in Handler, UpsertRow(w) PROVE SInv'
    <3>1. hd[w].href \in Href /\ hd'[w].pc = "log" /\ hd'[w].href = hd[w].href
          /\ \A v \in Handler : v # w => hd'[v] = hd[v]
      BY <2>0, <2>5 DEF UpsertRow, HandlerLocals, Goto
    <3> QED
      BY <2>0, <2>5, <3>1, <2>b DEF UpsertRow, OwesRecord
  <2>6. ASSUME NEW w \in Handler, RecordUpsert(w) PROVE SInv'
    <3>1. hd[w].href \in Href /\ hd[w].pc = "log"
          /\ \A v \in Handler : v # w => hd'[v] = hd[v]
      BY <2>0, <2>6 DEF RecordUpsert, HandlerLocals, Goto
    <3>2. UNCHANGED <<syncVars, row>> /\ recordChange(hd[w].href, FALSE)
      BY <2>6 DEF RecordUpsert
    <3>3. \A g \in Href : OwesRecord(w, g) => g = hd[w].href
      BY <3>1 DEF OwesRecord
    <3>4. PICK h \in Href : h = hd[w].href
      BY <3>1
    <3>5. recordChange(h, FALSE)
      BY <3>2, <3>4 DEF recordChange
    <3> QED
      BY <3>1, <3>2, <3>3, <3>4, <3>5, <2>d
  <2>7. ASSUME NEW w \in Handler, BumpUpsert(w) PROVE SInv'
    <3>1. hd[w].pc = "bump" /\ \A v \in Handler : v # w => hd'[v] = hd[v]
      BY <2>0, <2>7 DEF BumpUpsert, Goto
    <3> QED
      BY <2>0, <2>7, <3>1, <2>c DEF BumpUpsert, OwesRecord
  <2>8. ASSUME NEW w \in Handler, Reread(w) PROVE SInv'
    BY <2>0, <2>8, <2>c DEF Reread, OwesRecord
  <2>9. ASSUME NEW w \in Handler, PutICSWithAttachments(w) PROVE SInv'
    <3>1. hd[w].pc = "uid" /\ \A v \in Handler : v # w => hd'[v] = hd[v]
      BY <2>0, <2>9 DEF PutICSWithAttachments, Goto
    <3>2. \A v \in Handler, h \in Href : OwesRecord(v, h) => OwesRecord(v, h)'
      BY <3>1 DEF OwesRecord
    <3>3. UNCHANGED syncVars
      BY <2>9 DEF PutICSWithAttachments
    <3>4. /\ Extends(log, log')
          /\ \A g \in Href : row'[g] # row[g] => Mentions(log, log', g)
          /\ \A g \in unlogged : g \notin unlogged' => Mentions(log, log', g)
      BY <2>9, TransactionRecords
    <3> QED
      BY <3>2, <3>3, <3>4, StoreStepKeeps
  <2>10. ASSUME NEW w \in Handler, DeleteRow(w) PROVE SInv'
    <3>1. hd[w].target \in Href /\ hd'[w].pc = "dellog" /\ hd'[w].target = hd[w].target
          /\ \A v \in Handler : v # w => hd'[v] = hd[v]
      BY <2>0, <2>10 DEF DeleteRow, HandlerLocals, Goto
    <3> QED
      BY <2>0, <2>10, <3>1, <2>b DEF DeleteRow, OwesRecord
  <2>11. ASSUME NEW w \in Handler, DeleteMissing(w) PROVE SInv'
    <3>1. \A v \in Handler : v # w => hd'[v] = hd[v]
      BY <2>0, <2>11 DEF DeleteMissing, AfterDelete
    <3> QED
      BY <2>0, <2>11, <3>1, <2>c DEF DeleteMissing, OwesRecord
  <2>12. ASSUME NEW w \in Handler, RecordDelete(w) PROVE SInv'
    <3>1. hd[w].target \in Href /\ hd[w].pc = "dellog"
          /\ \A v \in Handler : v # w => hd'[v] = hd[v]
      BY <2>0, <2>12 DEF RecordDelete, HandlerLocals, Goto
    <3>2. UNCHANGED <<syncVars, row>> /\ recordChange(hd[w].target, TRUE)
      BY <2>12 DEF RecordDelete
    <3>3. \A g \in Href : OwesRecord(w, g) => g = hd[w].target
      BY <3>1 DEF OwesRecord
    <3>4. PICK h \in Href : h = hd[w].target
      BY <3>1
    <3>5. recordChange(h, TRUE)
      BY <3>2, <3>4 DEF recordChange
    <3> QED
      BY <3>1, <3>2, <3>3, <3>4, <3>5, <2>d
  <2>13. ASSUME NEW w \in Handler, BumpDelete(w) PROVE SInv'
    <3>1. hd[w].pc = "delbump" /\ \A v \in Handler : v # w => hd'[v] = hd[v]
      BY <2>0, <2>13 DEF BumpDelete, AfterDelete
    <3> QED
      BY <2>0, <2>13, <3>1, <2>c DEF BumpDelete, OwesRecord
  <2>14. ASSUME NEW w \in Handler, Abandon(w) PROVE SInv'
    BY <2>0, <2>14, <2>b DEF Abandon, OwesRecord
  <2>15. ASSUME NEW c \in SyncClient, NEW since \in {NoToken, token[c]}, SyncList(c, since)
         PROVE  SInv'
    BY <2>15, SyncListKeeps
  <2>16. ASSUME NEW c \in SyncClient, SyncFull(c) \/ SyncLatest(c) \/ SyncFail(c) PROVE SInv'
    BY <2>16, SyncFullKeeps, SyncLatestKeeps, SyncFailKeeps
  <2>17. ASSUME NEW c \in SyncClient, SyncChanges(c) PROVE SInv'
    BY <2>17, SyncChangesKeeps
  <2>18. ASSUME NEW c \in CtagClient, PollCtag(c) \/ PollList(c) PROVE SInv'
    <3>1. UNCHANGED <<storeVars, syncVars>>
      BY <2>18 DEF PollCtag, PollList
    <3> QED
      BY <3>1, <2>c DEF storeVars, OwesRecord
  <2> QED
    BY <2>1, <2>2, <2>3, <2>4, <2>5, <2>6, <2>7, <2>8, <2>9, <2>10, <2>11, <2>12,
       <2>13, <2>14, <2>15, <2>16, <2>17, <2>18 DEF Next, HandlerStep, SyncStep
<1> QED
  BY <1>1, <1>2, TypeCorrect, PTL DEF Spec

-----------------------------------------------------------------------------
(* Requests that do not overlap.                                           *)

OneHandler == \A v, w \in Handler : v = w

OneMember ==
  Kind = "calendar" => \A g, h \in Href :
    row[g] # NoRow /\ row[h] # NoRow /\ UidOf[row[g]] = UidOf[row[h]] => g = h

(* What the locals l of a request say of the rows: what the headers named  *)
(* is still there, the look-up by UID has found all there is to displace,  *)
(* and a record to come will say what the row says.                        *)
InsidePut(l) == l.href \in Href /\ l.pc \in {"uid", "write", "del", "dellog", "delbump"}
Displacing(l) == l.href \in Href /\ l.pc \in {"del", "dellog", "delbump"}

LocalsTrue(l) ==
  /\ InsidePut(l) => l.expect \in {Unset, row[l.href]}
  /\ l.pc = "uid" \/ Displacing(l) => Kind = "calendar"
  /\ Displacing(l) => l.target # l.href
  /\ Displacing(l) /\ l.pc = "del" /\ row[l.target] # NoRow => UidOf[row[l.target]] = UidOf[l.body]
  /\ Kind = "calendar" /\ InsidePut(l) /\ l.pc # "uid" =>
       \A g \in Href \ {l.href} :
         row[g] # NoRow /\ UidOf[row[g]] = UidOf[l.body] => l.pc = "del" /\ g = l.target
  /\ l.pc = "log" => row[l.href] # NoRow
  /\ l.pc = "dellog" => row[l.target] = NoRow

Recorded ==
  \A h \in Href : Misrecorded(h) => h \in unlogged \/ \E w \in Handler : OwesRecord(w, h)

Serial == TypeOK /\ OneMember /\ (\A w \in Handler : LocalsTrue(hd[w])) /\ Recorded

(* The same facts of a log l and rows r that are in no variable.           *)
OneIn(r) ==
  \A g, h \in Href : r[g] # NoRow /\ r[h] # NoRow /\ UidOf[r[g]] = UidOf[r[h]] => g = h

MisrecordedIn(l, r, h) ==
  \E i \in DOMAIN l :
    /\ l[i].href = h
    /\ \A j \in DOMAIN l : j > i => l[j].href # h
    /\ l[i].deleted = (r[h] # NoRow)

(* The rows after b has become h and the only member with its UID.         *)
Replaced(r, h, b) ==
  [g \in Href |-> IF g = h THEN b
                  ELSE IF r[g] # NoRow /\ UidOf[r[g]] = UidOf[b] THEN NoRow ELSE r[g]]

(* A record that tells the truth about the one row that has changed.       *)
LEMMA TrueRecord ==
  ASSUME NEW l \in Seq(Change), NEW h \in Href, NEW d \in BOOLEAN, NEW r, NEW s,
         \A g \in Href \ {h} : s[g] = r[g], d = (s[h] = NoRow),
         NEW g \in Href, MisrecordedIn(Append(l, [href |-> h, deleted |-> d]), s, g)
  PROVE  g # h /\ MisrecordedIn(l, r, g)
<1> DEFINE e == [href |-> h, deleted |-> d]
           m == Append(l, e)
<1>1. /\ DOMAIN m = 1..Len(l) + 1 /\ DOMAIN l = 1..Len(l) /\ Len(l) \in Nat
      /\ m[Len(l) + 1] = e /\ \A i \in 1..Len(l) : m[i] = l[i]
  OBVIOUS
<1>2. PICK i \in DOMAIN m :
        /\ m[i].href = g /\ \A j \in DOMAIN m : j > i => m[j].href # g
        /\ m[i].deleted = (s[g] # NoRow)
  BY DEF MisrecordedIn
<1>3. e.href = h /\ e.deleted = d
  OBVIOUS
<1> HIDE DEF m, e
<1>4. g # h
  <2> SUFFICES ASSUME g = h  PROVE FALSE
    OBVIOUS
  <2>1. i = Len(l) + 1
    <3>1. Len(l) + 1 \in DOMAIN m /\ m[Len(l) + 1].href = g
      BY <1>1, <1>3
    <3>2. ~(Len(l) + 1 > i)
      BY <1>2, <3>1
    <3> QED  BY <1>1, <3>2
  <2>2. d = (s[h] # NoRow)
    BY <1>1, <1>2, <1>3, <2>1
  <2> QED  BY <2>2
<1>5. i \in 1..Len(l)
  <2>1. i # Len(l) + 1
    BY <1>1, <1>2, <1>3, <1>4
  <2> QED  BY <1>1, <2>1
<1>6. s[g] = r[g]
  BY <1>4
<1>7. \A j \in DOMAIN l : j > i => l[j].href # g
  BY <1>1, <1>2
<1>8. l[i].href = g /\ l[i].deleted = (r[g] # NoRow)
  BY <1>1, <1>2, <1>5, <1>6
<1>9. MisrecordedIn(l, r, g)
  BY <1>1, <1>5, <1>7, <1>8 DEF MisrecordedIn
<1> QED  BY <1>4, <1>9

(* An upsert where no UID occurs twice.                                    *)
LEMMA UpsertedSerial ==
  ASSUME NEW s \in StoreType, OneIn(s.row), NEW h \in Href, NEW b \in Body,
         NEW o \in SameUid(s.row, h, b)
  PROVE  LET u == Upserted(s, h, b, o) IN
         /\ u \in StoreType /\ o \in Href
         /\ u.row = Replaced(s.row, h, b) /\ OneIn(u.row)
         /\ \A g \in Href : MisrecordedIn(u.log, u.row, g) =>
              g # h /\ g # o /\ MisrecordedIn(s.log, s.row, g)
         /\ \A i \in DOMAIN u.log : i > Len(s.log) => u.log[i].href \in {h, o}
<1> DEFINE u == Upserted(s, h, b, o)
           e == [href |-> o, deleted |-> TRUE]
           f == [href |-> h, deleted |-> FALSE]
           r1 == [s.row EXCEPT ![o] = NoRow]
           r2 == [r1 EXCEPT ![h] = b]
<1>1. o \in Href /\ s.row \in [Href -> Body \cup {NoRow}] /\ s.log \in Seq(Change)
  BY DEF SameUid, StoreType
<1>2. u \in StoreType
  BY <1>1, UpsertedRecords
<1>3. u.row = r2
  BY DEF Upserted
<1>4. \A g \in Href : s.row[g] # NoRow /\ UidOf[s.row[g]] = UidOf[b] => g = o
  BY DEF SameUid, OneIn
<1>5. \A g \in Href : r2[g] = Replaced(s.row, h, b)[g]
  <2> SUFFICES ASSUME NEW g \in Href  PROVE r2[g] = Replaced(s.row, h, b)[g]
    OBVIOUS
  <2>1. CASE g = h
    BY <1>1, <2>1 DEF Replaced
  <2>2. CASE g # h /\ g = o
    BY <1>1, <2>2 DEF Replaced, SameUid
  <2>3. CASE g # h /\ g # o
    BY <1>1, <1>4, <2>3 DEF Replaced
  <2> QED  BY <2>1, <2>2, <2>3
<1>6. r2 = Replaced(s.row, h, b)
  BY <1>1, <1>5 DEF Replaced
<1>7. OneIn(u.row)
  BY <1>3, <1>6 DEF OneIn, Replaced
<1>8. r2[h] = b /\ b # NoRow /\ (o # h => r1[o] = NoRow)
  BY <1>1
<1>9. /\ \A g \in Href \ {o} : r1[g] = s.row[g]
      /\ \A g \in Href \ {h} : r2[g] = r1[g]
  BY <1>1
<1> HIDE DEF r1, r2
<1>10. CASE o = h
  <2>1. u.log = Append(s.log, f)
    BY <1>10 DEF Upserted
  <2>2. \A g \in Href \ {h} : r2[g] = s.row[g]
    BY <1>9, <1>10
  <2>3. \A g \in Href : MisrecordedIn(Append(s.log, f), r2, g) => g # h /\ MisrecordedIn(s.log, s.row, g)
    BY <1>1, <1>8, <2>2, TrueRecord
  <2>4. \A i \in DOMAIN u.log : i > Len(s.log) => u.log[i].href \in {h, o}
    BY <1>1, <2>1
  <2> HIDE DEF f
  <2> QED  BY <1>1, <1>2, <1>3, <1>6, <1>7, <1>10, <2>1, <2>3, <2>4
<1>11. CASE o # h
  <2> DEFINE l == Append(s.log, e)
  <2>1. u.log = Append(l, f)
    BY <1>11 DEF Upserted
  <2>2. l \in Seq(Change)
    BY <1>1
  <2>3. \A g \in Href : MisrecordedIn(l, r1, g) => g # o /\ MisrecordedIn(s.log, s.row, g)
    BY <1>1, <1>8, <1>9, <1>11, TrueRecord
  <2>4. \A g \in Href : MisrecordedIn(Append(l, f), r2, g) => g # h /\ MisrecordedIn(l, r1, g)
    <3> HIDE DEF l
    <3> QED  BY <1>1, <1>8, <1>9, <2>2, TrueRecord
  <2>5. \A i \in DOMAIN u.log : i > Len(s.log) => u.log[i].href \in {h, o}
    BY <1>1, <2>1
  <2> HIDE DEF l
  <2> QED  BY <1>1, <1>2, <1>3, <1>6, <1>7, <2>1, <2>3, <2>4, <2>5
<1> QED  BY <1>10, <1>11

LEMMA MisrecordedIs ==
  ASSUME NEW h
  PROVE  Misrecorded(h) <=> MisrecordedIn(log, row, h)
BY DEF Misrecorded, MisrecordedIn

LEMMA MisrecordedIsPrime ==
  ASSUME NEW h
  PROVE  Misrecorded(h)' <=> MisrecordedIn(log', row', h)
BY DEF Misrecorded, MisrecordedIn

LEMMA RecordedStays ==
  ASSUME OneHandler, Serial, NEW w \in Handler, UNCHANGED <<row, log>>, unlogged \subseteq unlogged',
         \A h \in Href : OwesRecord(w, h) => OwesRecord(w, h)' \/ h \in unlogged'
  PROVE  Recorded'
<1> SUFFICES ASSUME NEW h \in Href, Misrecorded(h)'
             PROVE  h \in unlogged' \/ OwesRecord(w, h)'
  BY DEF Recorded
<1>1. Misrecorded(h)
  BY DEF Misrecorded
<1> QED  BY <1>1 DEF Serial, Recorded, OneHandler

LEMMA RecordedRow ==
  ASSUME OneHandler, Serial, NEW w \in Handler, UNCHANGED <<log, unlogged>>, NEW h \in Href,
         \A g \in Href \ {h} : row'[g] = row[g],
         \/ hd'[w].pc = "log" /\ hd'[w].href = h
         \/ hd'[w].pc = "dellog" /\ hd'[w].target = h,
         \A g \in Href : ~OwesRecord(w, g)
  PROVE  Recorded'
<1> SUFFICES ASSUME NEW g \in Href \ {h}, Misrecorded(g)'
             PROVE  g \in unlogged'
  BY DEF Recorded, OwesRecord
<1>1. Misrecorded(g)
  BY DEF Misrecorded
<1> QED  BY <1>1 DEF Serial, Recorded, OneHandler

LEMMA RecordedAppend ==
  ASSUME OneHandler, Serial, NEW w \in Handler, NEW h \in Href, NEW d \in BOOLEAN,
         recordChange(h, d), row' = row, d = (row[h] = NoRow),
         \A g \in Href : OwesRecord(w, g) => g = h
  PROVE  Recorded'
<1> SUFFICES ASSUME NEW g \in Href, Misrecorded(g)'
             PROVE  g \in unlogged'
  BY DEF Recorded
<1>1. log \in Seq(Change)
  BY DEF Serial, TypeOK, StoreTypeOK
<1>2. MisrecordedIn(Append(log, [href |-> h, deleted |-> d]), row, g)
  BY MisrecordedIsPrime DEF recordChange
<1>3. g # h /\ MisrecordedIn(log, row, g)
  BY <1>1, <1>2, TrueRecord
<1>4. g \in unlogged
  BY <1>3, MisrecordedIs DEF Serial, Recorded, OneHandler
<1> QED  BY <1>3, <1>4 DEF recordChange

(* PutICSWithAttachments, where no UID occurs twice: the second upsert     *)
(* changes no row.                                                         *)
LEMMA TransactionSerial ==
  ASSUME OneHandler, Serial, NEW w \in Handler, PutICSWithAttachments(w)
  PROVE  /\ row' = Replaced(row, hd[w].href, hd[w].body) /\ OneIn(row')
         /\ Recorded'
<1> DEFINE h == hd[w].href
           b == hd[w].body
           store == [row |-> row, log |-> log, ctag |-> ctag]
<1>1. hd[w].pc = "uid" /\ h \in Href /\ b \in Body /\ store \in StoreType /\ store.row = row /\ store.log = log
  BY DEF Serial, TypeOK, StoreTypeOK, HandlerLocals, StoreType, PutICSWithAttachments
<1>2. OneIn(row)
  BY <1>1 DEF Serial, OneMember, OneIn, LocalsTrue
<1>3. PICK o1 \in SameUid(row, h, b) :
        \E s \in {Upserted(store, h, b, o1)} \cup
                 {Upserted(Upserted(store, h, b, o1), h, b, o2) :
                    o2 \in SameUid(Upserted(store, h, b, o1).row, h, b)} :
          /\ row' = s.row /\ log' = s.log /\ ctag' = s.ctag
          /\ unlogged' = {g \in unlogged : \A i \in DOMAIN s.log :
                                             i > Len(log) => s.log[i].href # g}
  BY DEF PutICSWithAttachments
<1> HIDE DEF store, h, b
<1> DEFINE once == Upserted(store, h, b, o1)
<1>4. /\ once \in StoreType /\ o1 \in Href
      /\ once.row = Replaced(row, h, b) /\ OneIn(once.row)
      /\ \A g \in Href : MisrecordedIn(once.log, once.row, g) =>
           g # h /\ g # o1 /\ MisrecordedIn(log, row, g)
      /\ \A i \in DOMAIN once.log : i > Len(log) => once.log[i].href \in {h, o1}
  BY <1>1, <1>2, UpsertedSerial
<1> HIDE DEF once
<1>5. Replaced(once.row, h, b) = once.row /\ SameUid(once.row, h, b) = {h}
  <2>1. /\ once.row[h] = b
        /\ \A g \in Href \ {h} : once.row[g] # NoRow => UidOf[once.row[g]] # UidOf[b]
    BY <1>1, <1>4 DEF Replaced
  <2>2. \A g \in Href : Replaced(once.row, h, b)[g] = once.row[g]
    BY <2>1 DEF Replaced
  <2>3. once.row = [g \in Href |-> once.row[g]]
    BY <1>4 DEF Replaced
  <2>4. Replaced(once.row, h, b) = once.row
    BY <2>2, <2>3 DEF Replaced
  <2>5. SameUid(once.row, h, b) = {h}
    BY <1>1, <2>1 DEF SameUid
  <2> QED  BY <2>4, <2>5
<1>6. PICK s :
        /\ s = once \/ \E o2 \in SameUid(once.row, h, b) : s = Upserted(once, h, b, o2)
        /\ row' = s.row /\ log' = s.log
        /\ unlogged' = {g \in unlogged : \A i \in DOMAIN s.log :
                                           i > Len(log) => s.log[i].href # g}
  BY <1>3 DEF once
<1>7. /\ s.row = once.row
      /\ \A g \in Href : MisrecordedIn(s.log, s.row, g) =>
           g # h /\ g # o1 /\ MisrecordedIn(log, row, g)
      /\ \A i \in DOMAIN s.log : i > Len(log) => s.log[i].href \in {h, o1}
  <2>1. CASE s = once
    BY <1>4, <2>1
  <2>2. CASE s = Upserted(once, h, b, h)
    <3>1. h \in SameUid(once.row, h, b)
      BY <1>5
    <3>2. /\ s.row = Replaced(once.row, h, b) /\ s \in StoreType
          /\ \A g \in Href : MisrecordedIn(s.log, s.row, g) =>
               g # h /\ MisrecordedIn(once.log, once.row, g)
      BY <1>1, <1>4, <2>2, <3>1, UpsertedSerial
    <3>3. s.log = Append(once.log, [href |-> h, deleted |-> FALSE])
      BY <2>2 DEF Upserted
    <3>4. \A i \in DOMAIN s.log : i > Len(log) => s.log[i].href \in {h, o1}
      BY <1>1, <1>4, <3>3 DEF StoreType
    <3> QED  BY <1>4, <1>5, <3>2, <3>4
  <2> QED  BY <1>5, <1>6, <2>1, <2>2
<1>8. Recorded'
  <2> SUFFICES ASSUME NEW g \in Href, Misrecorded(g)'  PROVE g \in unlogged'
    BY DEF Recorded
  <2>1. g # h /\ g # o1 /\ MisrecordedIn(log, row, g)
    BY <1>6, <1>7, MisrecordedIsPrime
  <2>2. ~OwesRecord(w, g)
    BY <1>1 DEF OwesRecord
  <2>3. g \in unlogged
    BY <2>1, <2>2, MisrecordedIs DEF Serial, Recorded, OneHandler
  <2> QED  BY <1>6, <1>7, <2>1, <2>3
<1> QED  BY <1>4, <1>6, <1>7, <1>8 DEF h, b

-----------------------------------------------------------------------------
(* Steps of ObjectStore.                                                   *)

Asked == [v \in Handler |-> Accepted(v)]

Displaced(r) == Promised!Displaced(r)

LEMMA DisplacedIs ==
  ASSUME NEW r
  PROVE  Displaced(r) = {g \in Href \ {r.href} :
                           /\ Kind = "calendar" /\ r.body # NoRow /\ row[g] # NoRow
                           /\ UidOf[row[g]] = UidOf[r.body]}
BY DEF Displaced, Promised!Displaced

LEMMA AskedIs ==
  ASSUME OneHandler, NEW w \in Handler
  PROVE  /\ Asked[w] = Accepted(w) /\ Asked'[w] = Accepted(w)'
         /\ \A X : Accepted(w)' = X => Asked' = [Asked EXCEPT ![w] = X]
         /\ Accepted(w)' = Accepted(w) => Asked' = Asked
BY DEF Asked, OneHandler

Stored == [Promised!Next]_<<row, Asked>>

LEMMA StutterMaps ==
  ASSUME OneHandler, NEW w \in Handler, row' = row, Accepted(w)' = Accepted(w)
  PROVE  Stored
BY AskedIs DEF Stored

LEMMA AskMaps ==
  ASSUME OneHandler, NEW w \in Handler, NEW r \in Promised!Request,
         r.body # NoRow => r.expect \in {Unset, row[r.href]},
         Accepted(w) = {}, Accepted(w)' = {r}, row' = row
  PROVE  Stored
<1>1. Asked[w] = {} /\ Asked' = [Asked EXCEPT ![w] = {r}]
  BY AskedIs
<1>2. Promised!Ask(w)
  BY <1>1 DEF Promised!Ask, Promised!Holds, Promised!Heeded, Asked
<1> QED  BY <1>2 DEF Stored, Promised!Next

LEMMA DropMaps ==
  ASSUME OneHandler, NEW w \in Handler, Accepted(w)' = {}, row' = row
  PROVE  Stored
<1>1. Asked[w] = Accepted(w) /\ Asked' = [Asked EXCEPT ![w] = {}]
  BY AskedIs
<1>2. CASE Accepted(w) = {}
  BY <1>2, StutterMaps
<1>3. CASE Accepted(w) # {}
  <2>1. Promised!Drop(w)
    BY <1>1, <1>3 DEF Promised!Drop, Asked
  <2> QED  BY <2>1 DEF Stored, Promised!Next
<1> QED  BY <1>2, <1>3

LEMMA DisplaceMaps ==
  ASSUME OneHandler, NEW w \in Handler, NEW r, Accepted(w) = {r}, Accepted(w)' = {r},
         NEW g \in Displaced(r), row' = [row EXCEPT ![g] = NoRow],
         row \in [Href -> Body \cup {NoRow}]
  PROVE  Stored
<1>1. Asked[w] = {r} /\ Asked' = Asked
  BY AskedIs
<1>2. row' = [h \in Href |-> row'[h]] /\ row' = [row EXCEPT ![g] = NoRow]
  OBVIOUS
<1>3. Promised!Displace(w)
  BY <1>1, <1>2 DEF Promised!Displace, Asked, Displaced
<1> QED  BY <1>3 DEF Stored, Promised!Next

LEMMA ApplyMaps ==
  ASSUME OneHandler, NEW w \in Handler, NEW r, Accepted(w) = {r}, Accepted(w)' = {},
         r.body # NoRow => r.expect \in {Unset, row[r.href]},
         row' = [g \in Href |-> IF g = r.href THEN r.body ELSE IF g \in Displaced(r) THEN NoRow ELSE row[g]]
  PROVE  Stored
<1>1. Asked[w] = {r} /\ Asked' = [Asked EXCEPT ![w] = {}]
  BY AskedIs
<1>2. Promised!Holds(r)
  BY DEF Promised!Holds, Promised!Heeded
<1>3. Promised!Apply(w)
  BY <1>1, <1>2 DEF Promised!Apply, Asked, Displaced
<1> QED  BY <1>3 DEF Stored, Promised!Next

-----------------------------------------------------------------------------
(* One step of the only handler.                                           *)

LEMMA SerialIs ==
  ASSUME OneHandler, TypeOK', NEW w \in Handler, OneMember', LocalsTrue(hd[w])', Recorded'
  PROVE  Serial'
BY DEF Serial, OneHandler

LEMMA LocalsAre ==
  ASSUME Serial, NEW w \in Handler
  PROVE  /\ row \in [Href -> Body \cup {NoRow}] /\ hd \in [Handler -> HandlerLocals]
         /\ hd[w] \in HandlerLocals /\ OneMember /\ LocalsTrue(hd[w])
         /\ NoRow \notin Body /\ NoHref \notin Href
BY DEF Serial, TypeOK, StoreTypeOK

LEMMA PutSerial ==
  ASSUME OneHandler, Serial, TypeOK', NEW w \in Handler, NEW h \in Href, NEW b \in Body,
         NEW m \in IfMatch, NEW n \in IfNoneMatch,
         PutCalendarObject(w, h, b, m, n) \/ PutAddressObject(w, h, b, m, n)
  PROVE  Serial' /\ Stored
<1>1. PICK pc \in {"uid", "write"} :
        /\ (pc = "uid") <=> (Kind = "calendar")
        /\ Check(row[h], m, n) /\ hd[w].pc = "idle"
        /\ hd' = [hd EXCEPT ![w] = [pc |-> pc, href |-> h, body |-> b, target |-> NoHref,
                                    expect |-> Expected(m, n)]]
        /\ UNCHANGED <<row, log, unlogged>>
  BY DEF PutCalendarObject, PutAddressObject, Start
<1>2. Expected(m, n) \in {Unset, row[h]} /\ Expected(m, n) \in Body \cup {NoRow, Unset}
  BY <1>1, HeaderAssumption, LocalsAre DEF Expected, Check
<1> DEFINE l == [pc |-> pc, href |-> h, body |-> b, target |-> NoHref, expect |-> Expected(m, n)]
           r == [href |-> h, body |-> b, expect |-> Expected(m, n)]
<1>3. hd'[w] = l
  BY <1>1, LocalsAre
<1>4. l.pc = pc /\ l.href = h /\ l.body = b /\ l.expect = Expected(m, n)
  OBVIOUS
<1> HIDE DEF l
<1>5. LocalsTrue(hd[w])'
  BY <1>1, <1>2, <1>3, <1>4 DEF LocalsTrue, InsidePut, Displacing
<1>6. OneMember'
  BY <1>1, LocalsAre DEF OneMember
<1>7. Recorded'
  BY <1>1, RecordedStays DEF OwesRecord
<1>8. Accepted(w) = {} /\ Accepted(w)' = {r}
  BY <1>1, <1>3, <1>4, LocalsAre DEF Accepted
<1>9. r \in Promised!Request /\ r.expect \in {Unset, row[r.href]}
  BY <1>2 DEF Promised!Request
<1>10. Stored
  BY <1>1, <1>8, <1>9, AskMaps
<1> QED  BY <1>5, <1>6, <1>7, <1>10, SerialIs

LEMMA DeleteSerial ==
  ASSUME OneHandler, Serial, TypeOK', NEW w \in Handler, NEW h \in Href,
         NEW m \in IfMatch, DeleteObject(w, h, m)
  PROVE  Serial' /\ Stored
<1> DEFINE l == [Idle EXCEPT !.pc = "del", !.target = h, !.expect = Expected(m, Unset)]
           r == [href |-> h, body |-> NoRow, expect |-> Expected(m, Unset)]
<1>1. hd' = [hd EXCEPT ![w] = l] /\ hd[w].pc = "idle" /\ UNCHANGED <<row, log, unlogged>>
  BY DEF DeleteObject, Start
<1>2. /\ hd'[w] = l /\ l.pc = "del" /\ l.href = NoHref /\ l.target = h
      /\ l.expect = Expected(m, Unset)
  BY <1>1, LocalsAre DEF Idle
<1> HIDE DEF l
<1>3. LocalsTrue(hd[w])'
  BY <1>2, LocalsAre DEF LocalsTrue, InsidePut, Displacing
<1>4. OneMember'
  BY <1>1, LocalsAre DEF OneMember
<1>5. Recorded'
  BY <1>1, RecordedStays DEF OwesRecord
<1>6. Accepted(w) = {} /\ Accepted(w)' = {r}
  BY <1>1, <1>2, LocalsAre DEF Accepted
<1>7. r \in Promised!Request /\ r.body = NoRow
  BY DEF Promised!Request, Expected
<1>8. Stored
  BY <1>1, <1>6, <1>7, AskMaps
<1> QED  BY <1>3, <1>4, <1>5, <1>8, SerialIs

LEMMA LookupSerial ==
  ASSUME OneHandler, Serial, TypeOK', NEW w \in Handler, CalendarObjectByUID(w)
  PROVE  Serial' /\ Stored
<1> DEFINE l == hd[w]
<1>1. l.pc = "uid" /\ l.href \in Href /\ l.body \in Body /\ UNCHANGED <<row, log, unlogged>>
  BY LocalsAre DEF CalendarObjectByUID, HandlerLocals
<1>2. PICK other \in SameUid(row, l.href, l.body) :
        hd' = [hd EXCEPT ![w] = IF other = @.href THEN [@ EXCEPT !.pc = "write"]
                                ELSE [@ EXCEPT !.pc = "del", !.target = other]]
  BY DEF CalendarObjectByUID
<1>3. hd'[w] = IF other = l.href THEN [l EXCEPT !.pc = "write"]
               ELSE [l EXCEPT !.pc = "del", !.target = other]
  BY <1>2, LocalsAre
<1>4. /\ hd'[w].href = l.href /\ hd'[w].body = l.body /\ hd'[w].expect = l.expect
      /\ other = l.href => hd'[w].pc = "write"
      /\ other # l.href => hd'[w].pc = "del" /\ hd'[w].target = other
  BY <1>3, LocalsAre DEF HandlerLocals
<1>5. Kind = "calendar" /\ l.expect \in {Unset, row[l.href]} /\ OneIn(row)
  BY <1>1, LocalsAre DEF LocalsTrue, InsidePut, OneMember, OneIn
<1>6. /\ other \in Href
      /\ other # l.href => row[other] # NoRow /\ UidOf[row[other]] = UidOf[l.body]
      /\ \A g \in Href : row[g] # NoRow /\ UidOf[row[g]] = UidOf[l.body] => g = other
  BY <1>1, <1>5 DEF SameUid, OneIn
<1>7. LocalsTrue(hd[w])'
  BY <1>1, <1>4, <1>5, <1>6 DEF LocalsTrue, InsidePut, Displacing
<1>8. OneMember'
  BY <1>1, LocalsAre DEF OneMember
<1>9. Recorded'
  BY <1>1, RecordedStays DEF OwesRecord
<1>10. Accepted(w)' = Accepted(w)
  BY <1>1, <1>4 DEF Accepted
<1>11. Stored
  BY <1>1, <1>10, StutterMaps
<1> QED  BY <1>7, <1>8, <1>9, <1>11, SerialIs

LEMMA UpsertSerial ==
  ASSUME OneHandler, Serial, TypeOK', NEW w \in Handler, UpsertRow(w)
  PROVE  Serial' /\ Stored
<1> DEFINE l == hd[w]
           r == [href |-> l.href, body |-> l.body, expect |-> l.expect]
<1>1. /\ l.pc = "write" /\ l.href \in Href /\ l.body \in Body
      /\ row' = [row EXCEPT ![l.href] = l.body] /\ UNCHANGED <<log, unlogged>>
  BY LocalsAre DEF UpsertRow, HandlerLocals
<1>2. hd'[w] = [l EXCEPT !.pc = "log"]
  BY <1>1, LocalsAre, GotoTyped DEF UpsertRow
<1>3. hd'[w].pc = "log" /\ hd'[w].href = l.href
  BY <1>2, LocalsAre DEF HandlerLocals
<1>4. /\ l.expect \in {Unset, row[l.href]}
      /\ Kind = "calendar" => \A g \in Href \ {l.href} :
           ~(row[g] # NoRow /\ UidOf[row[g]] = UidOf[l.body])
  BY <1>1, LocalsAre DEF LocalsTrue, InsidePut
<1>5. row'[l.href] = l.body /\ \A g \in Href \ {l.href} : row'[g] = row[g]
  BY <1>1, LocalsAre
<1>6. OneMember'
  BY <1>1, <1>4, <1>5, LocalsAre DEF OneMember
<1>7. LocalsTrue(hd[w])'
  BY <1>1, <1>3, <1>5 DEF LocalsTrue, InsidePut, Displacing
<1>8. Recorded'
  <2>1. \A g \in Href : ~OwesRecord(w, g)
    BY <1>1 DEF OwesRecord
  <2>2. PICK h \in Href : hd'[w].pc = "log" /\ hd'[w].href = h /\ \A g \in Href \ {h} : row'[g] = row[g]
    BY <1>1, <1>3, <1>5
  <2> HIDE DEF l
  <2> QED  BY <1>1, <2>1, <2>2, RecordedRow
<1>9. Accepted(w) = {r} /\ Accepted(w)' = {}
  BY <1>1, <1>3, LocalsAre DEF Accepted
<1>10. Displaced(r) = {}
  BY <1>4, DisplacedIs
<1>11. row' = [g \in Href |-> IF g = r.href THEN r.body ELSE IF g \in Displaced(r) THEN NoRow ELSE row[g]]
  BY <1>1, <1>10, LocalsAre
<1>12. Stored
  BY <1>4, <1>9, <1>11, ApplyMaps
<1> QED  BY <1>6, <1>7, <1>8, <1>12, SerialIs

LEMMA TransactionStores ==
  ASSUME OneHandler, Serial, TypeOK', NEW w \in Handler, PutICSWithAttachments(w)
  PROVE  Serial' /\ Stored
<1> DEFINE l == hd[w]
           r == [href |-> l.href, body |-> l.body, expect |-> l.expect]
<1>1. /\ l.pc = "uid" /\ l.href \in Href /\ l.body \in Body
      /\ hd'[w] = [l EXCEPT !.pc = "reread"]
  BY LocalsAre, GotoTyped DEF PutICSWithAttachments, HandlerLocals
<1>2. hd'[w].pc = "reread"
  BY <1>1, LocalsAre DEF HandlerLocals
<1>3. row' = Replaced(row, l.href, l.body) /\ OneIn(row') /\ Recorded'
  BY TransactionSerial
<1>4. Kind = "calendar" /\ l.expect \in {Unset, row[l.href]}
  BY <1>1, LocalsAre DEF LocalsTrue, InsidePut
<1>5. OneMember' /\ LocalsTrue(hd[w])'
  BY <1>2, <1>3 DEF OneMember, OneIn, LocalsTrue, InsidePut, Displacing
<1>6. Accepted(w) = {r} /\ Accepted(w)' = {}
  BY <1>1, <1>2, LocalsAre DEF Accepted
<1>7. row' = [g \in Href |-> IF g = r.href THEN r.body ELSE IF g \in Displaced(r) THEN NoRow ELSE row[g]]
  BY <1>1, <1>3, <1>4, DisplacedIs, LocalsAre DEF Replaced
<1>8. Stored
  BY <1>4, <1>6, <1>7, ApplyMaps
<1> QED  BY <1>3, <1>5, <1>8, SerialIs

LEMMA DeleteRowSerial ==
  ASSUME OneHandler, Serial, TypeOK', NEW w \in Handler, DeleteRow(w)
  PROVE  Serial' /\ Stored
<1> DEFINE l == hd[w]
           t == l.target
<1>1. /\ l.pc = "del" /\ t \in Href /\ row[t] # NoRow /\ l.href \in Href \cup {NoHref}
      /\ l.href \in Href => l.body \in Body
      /\ row' = [row EXCEPT ![t] = NoRow] /\ UNCHANGED <<log, unlogged>>
  BY LocalsAre DEF DeleteRow, HandlerLocals
<1>2. hd'[w] = [l EXCEPT !.pc = "dellog"]
  BY <1>1, LocalsAre, GotoTyped DEF DeleteRow
<1>3. /\ hd'[w].pc = "dellog" /\ hd'[w].href = l.href /\ hd'[w].target = t
      /\ hd'[w].body = l.body /\ hd'[w].expect = l.expect
  BY <1>2, LocalsAre DEF HandlerLocals
<1>4. l.href \in Href =>
        /\ Kind = "calendar" /\ t # l.href /\ l.expect \in {Unset, row[l.href]}
        /\ UidOf[row[t]] = UidOf[l.body]
        /\ \A g \in Href \ {l.href} : row[g] # NoRow /\ UidOf[row[g]] = UidOf[l.body] => g = t
  BY <1>1, LocalsAre DEF LocalsTrue, InsidePut, Displacing
<1>5. row'[t] = NoRow /\ \A g \in Href \ {t} : row'[g] = row[g]
  BY <1>1, LocalsAre
<1>6. OneMember'
  BY <1>5, LocalsAre DEF OneMember
<1>7. LocalsTrue(hd[w])'
  BY <1>1, <1>3, <1>4, <1>5 DEF LocalsTrue, InsidePut, Displacing
<1>8. Recorded'
  <2>1. \A g \in Href : ~OwesRecord(w, g)
    BY <1>1 DEF OwesRecord
  <2>2. PICK h \in Href : hd'[w].pc = "dellog" /\ hd'[w].target = h /\ \A g \in Href \ {h} : row'[g] = row[g]
    BY <1>1, <1>3, <1>5
  <2> HIDE DEF l
  <2> QED  BY <1>1, <2>1, <2>2, RecordedRow
<1>9. CASE l.href \in Href
  <2> DEFINE r == [href |-> l.href, body |-> l.body, expect |-> l.expect]
  <2>1. Accepted(w) = {r} /\ Accepted(w)' = {r}
    BY <1>1, <1>3, <1>9 DEF Accepted
  <2>2. t \in Displaced(r)
    BY <1>1, <1>4, <1>9, DisplacedIs
  <2> HIDE DEF r
  <2>3. Stored
    BY <1>1, <2>1, <2>2, LocalsAre, DisplaceMaps
  <2> QED  BY <1>6, <1>7, <1>8, <2>3, SerialIs
<1>10. CASE l.href = NoHref
  <2> DEFINE r == [href |-> t, body |-> NoRow, expect |-> l.expect]
  <2>1. Accepted(w) = {r} /\ Accepted(w)' = {}
    BY <1>1, <1>3, <1>10 DEF Accepted
  <2>2. Displaced(r) = {}
    BY DisplacedIs
  <2>3. row' = [g \in Href |-> IF g = r.href THEN r.body ELSE IF g \in Displaced(r) THEN NoRow ELSE row[g]]
    BY <1>1, <2>2, LocalsAre
  <2>4. r.body = NoRow
    OBVIOUS
  <2>5. Stored
    BY <2>1, <2>3, <2>4, ApplyMaps
  <2> QED  BY <1>6, <1>7, <1>8, <2>5, SerialIs
<1> QED  BY <1>1, <1>9, <1>10

(* The caller of a deletion goes on.                                       *)
LEMMA ReturnSerial ==
  ASSUME OneHandler, Serial, TypeOK', NEW w \in Handler, AfterDelete(w),
         UNCHANGED <<row, log, unlogged>>,
         \/ hd[w].pc = "del" /\ row[hd[w].target] = NoRow
         \/ hd[w].pc = "delbump"
  PROVE  Serial' /\ Stored
<1> DEFINE l == hd[w]
<1>1. /\ l.href \in Href \cup {NoHref}
      /\ l.href = NoHref => hd'[w] = Idle
      /\ l.href # NoHref => hd'[w] = [l EXCEPT !.pc = "write", !.target = NoHref]
  BY LocalsAre DEF AfterDelete, HandlerLocals
<1>2. /\ l.href = NoHref => hd'[w].pc = "idle" /\ hd'[w].href = NoHref
      /\ l.href # NoHref => /\ hd'[w].pc = "write" /\ hd'[w].href = l.href
                            /\ hd'[w].body = l.body /\ hd'[w].expect = l.expect
  <2>1. CASE l.href = NoHref
    <3>1. hd'[w] = Idle
      BY <1>1, <2>1
    <3>2. Idle.pc = "idle" /\ Idle.href = NoHref
      BY DEF Idle
    <3> QED  BY <2>1, <3>1, <3>2
  <2>2. CASE l.href # NoHref
    <3>1. hd'[w] = [l EXCEPT !.pc = "write", !.target = NoHref]
      BY <1>1, <2>2
    <3>2. l \in HandlerLocals
      BY LocalsAre
    <3> HIDE DEF l
    <3>3. hd'[w].pc = "write" /\ hd'[w].href = l.href
          /\ hd'[w].body = l.body /\ hd'[w].expect = l.expect
      BY <3>1, <3>2 DEF HandlerLocals
    <3> QED  BY <2>2, <3>3
  <2> QED  BY <2>1, <2>2
<1>3. l.href \in Href =>
        /\ l.expect \in {Unset, row[l.href]}
        /\ \A g \in Href \ {l.href} : ~(row[g] # NoRow /\ UidOf[row[g]] = UidOf[l.body])
  BY LocalsAre DEF LocalsTrue, InsidePut, Displacing
<1>4. LocalsTrue(hd[w])'
  BY <1>1, <1>2, <1>3 DEF LocalsTrue, InsidePut, Displacing
<1>5. OneMember'
  BY LocalsAre DEF OneMember
<1>6. Recorded'
  BY RecordedStays DEF OwesRecord
<1>7. CASE l.href = NoHref
  <2>1. Accepted(w)' = {}
    BY <1>2, <1>7 DEF Accepted
  <2> QED  BY <1>4, <1>5, <1>6, <2>1, DropMaps, SerialIs
<1>8. CASE l.href \in Href
  <2>1. Accepted(w)' = Accepted(w)
    BY <1>2, <1>8 DEF Accepted
  <2> QED  BY <1>4, <1>5, <1>6, <2>1, StutterMaps, SerialIs
<1> QED  BY <1>1, <1>7, <1>8

LEMMA RecordSerial ==
  ASSUME OneHandler, Serial, TypeOK', NEW w \in Handler, RecordUpsert(w) \/ RecordDelete(w)
  PROVE  Serial' /\ Stored
<1> DEFINE l == hd[w]
<1>1. CASE RecordUpsert(w)
  <2>1. /\ l.pc = "log" /\ l.href \in Href /\ row[l.href] # NoRow /\ row' = row
        /\ recordChange(l.href, FALSE) /\ hd'[w] = [l EXCEPT !.pc = "bump"]
    BY <1>1, LocalsAre, GotoTyped DEF RecordUpsert, HandlerLocals, LocalsTrue
  <2>2. hd'[w].pc = "bump" /\ hd'[w].href = l.href
    BY <2>1, LocalsAre DEF HandlerLocals
  <2>3. OneMember' /\ LocalsTrue(hd[w])'
    BY <2>1, <2>2, LocalsAre DEF OneMember, LocalsTrue, InsidePut, Displacing
  <2>4. Recorded'
    <3>1. \A g \in Href : OwesRecord(w, g) => g = l.href
      BY <2>1 DEF OwesRecord
    <3>2. FALSE = (row[l.href] = NoRow)
      BY <2>1
    <3> QED  BY <2>1, <3>1, <3>2, RecordedAppend
  <2>5. Accepted(w) = {} /\ Accepted(w)' = {}
    BY <2>1, <2>2 DEF Accepted
  <2> QED  BY <2>1, <2>3, <2>4, <2>5, StutterMaps, SerialIs
<1>2. CASE RecordDelete(w)
  <2>1. /\ l.pc = "dellog" /\ l.target \in Href /\ row[l.target] = NoRow /\ row' = row
        /\ recordChange(l.target, TRUE) /\ hd'[w] = [l EXCEPT !.pc = "delbump"]
    BY <1>2, LocalsAre, GotoTyped DEF RecordDelete, HandlerLocals, LocalsTrue
  <2>2. /\ hd'[w].pc = "delbump" /\ hd'[w].href = l.href /\ hd'[w].target = l.target
        /\ hd'[w].body = l.body /\ hd'[w].expect = l.expect
    BY <2>1, LocalsAre DEF HandlerLocals
  <2>3. OneMember' /\ LocalsTrue(hd[w])'
    BY <2>1, <2>2, LocalsAre DEF OneMember, LocalsTrue, InsidePut, Displacing
  <2>4. Recorded'
    <3>1. \A g \in Href : OwesRecord(w, g) => g = l.target
      BY <2>1 DEF OwesRecord
    <3>2. TRUE = (row[l.target] = NoRow)
      BY <2>1
    <3> QED  BY <2>1, <3>1, <3>2, RecordedAppend
  <2>5. Accepted(w)' = Accepted(w)
    BY <2>1, <2>2 DEF Accepted
  <2> QED  BY <2>1, <2>3, <2>4, <2>5, StutterMaps, SerialIs
<1> QED  BY <1>1, <1>2

LEMMA EndSerial ==
  ASSUME OneHandler, Serial, TypeOK', NEW w \in Handler, BumpUpsert(w) \/ Reread(w) \/ Abandon(w)
  PROVE  Serial' /\ Stored
<1> DEFINE l == hd[w]
<1>1. UNCHANGED <<row, log>> /\ hd'[w] \in {[l EXCEPT !.pc = "reread"], Idle}
  BY LocalsAre, GotoTyped DEF BumpUpsert, Reread, Abandon, HandlerLocals
<1>2. hd'[w].pc \in {"reread", "idle"}
  BY <1>1, LocalsAre DEF Idle, HandlerLocals
<1>3. OneMember' /\ LocalsTrue(hd[w])'
  BY <1>1, <1>2, LocalsAre DEF OneMember, LocalsTrue, InsidePut, Displacing, Idle
<1>4. unlogged \subseteq unlogged' /\ \A h \in Href : OwesRecord(w, h) => h \in unlogged'
  BY DEF BumpUpsert, Reread, Abandon, OwesRecord
<1>5. Recorded'
  BY <1>1, <1>4, RecordedStays
<1>6. Accepted(w)' = {}
  BY <1>2 DEF Accepted
<1> QED  BY <1>1, <1>3, <1>5, <1>6, DropMaps, SerialIs

(* Steps that leave the rows, the log and the handlers alone.              *)
LEMMA ElsewhereSerial ==
  ASSUME OneHandler, Serial, TypeOK', UNCHANGED <<row, log, hd, unlogged>>
  PROVE  Serial' /\ Stored
<1>1. Asked' = Asked
  BY DEF Asked, Accepted
<1>2. Serial'
  BY DEF Serial, OneMember, LocalsTrue, InsidePut, Displacing, Recorded, Misrecorded, OwesRecord
<1> QED  BY <1>1, <1>2 DEF Stored

LEMMA StepSerial ==
  ASSUME OneHandler, Serial, TypeOK', [Next]_vars
  PROVE  Serial' /\ Stored
<1>1. CASE UNCHANGED vars
  BY <1>1, ElsewhereSerial DEF vars
<1>2. ASSUME NEW w \in Handler,
             \/ \E h \in Href :
                  \/ \E b \in Body, m \in IfMatch, n \in IfNoneMatch :
                       PutCalendarObject(w, h, b, m, n) \/ PutAddressObject(w, h, b, m, n)
                  \/ \E m \in IfMatch : DeleteObject(w, h, m)
             \/ HandlerStep(w)
             \/ Abandon(w)
      PROVE  Serial' /\ Stored
  <2>1. CASE \E h \in Href :
               \/ \E b \in Body, m \in IfMatch, n \in IfNoneMatch :
                    PutCalendarObject(w, h, b, m, n) \/ PutAddressObject(w, h, b, m, n)
               \/ \E m \in IfMatch : DeleteObject(w, h, m)
    BY <2>1, PutSerial, DeleteSerial
  <2>2. CASE DeleteMissing(w) \/ BumpDelete(w)
    BY <2>2, ReturnSerial DEF DeleteMissing, BumpDelete
  <2>3. CASE CalendarObjectByUID(w) \/ UpsertRow(w) \/ PutICSWithAttachments(w) \/ DeleteRow(w)
    BY <2>3, LookupSerial, UpsertSerial, TransactionStores, DeleteRowSerial
  <2>4. CASE RecordUpsert(w) \/ RecordDelete(w)
    BY <2>4, RecordSerial
  <2>5. CASE BumpUpsert(w) \/ Reread(w) \/ Abandon(w)
    BY <2>5, EndSerial
  <2> QED  BY <1>2, <2>1, <2>2, <2>3, <2>4, <2>5 DEF HandlerStep
<1>3. ASSUME NEW c \in SyncClient, NEW since, SyncList(c, since) \/ SyncStep(c) \/ SyncFail(c)
      PROVE  Serial' /\ Stored
  <2>1. UNCHANGED storeVars
    BY <1>3 DEF SyncList, SyncStep, SyncFull, SyncLatest, SyncChanges, SyncFail
  <2> QED  BY <2>1, ElsewhereSerial DEF storeVars
<1>4. ASSUME NEW c \in CtagClient, PollCtag(c) \/ PollList(c)
      PROVE  Serial' /\ Stored
  <2>1. UNCHANGED storeVars
    BY <1>4 DEF PollCtag, PollList
  <2> QED  BY <2>1, ElsewhereSerial DEF storeVars
<1> QED  BY <1>1, <1>2, <1>3, <1>4 DEF Next

LEMMA InitSerial ==
  ASSUME Init, TypeOK
  PROVE  Serial /\ Promised!Init
<1>1. OneMember
  BY DEF Init, OneMember
<1>2. \A w \in Handler : LocalsTrue(hd[w])
  BY DEF Init, LocalsTrue, InsidePut, Displacing, Idle
<1>3. Recorded
  BY DEF Init, Recorded, Misrecorded
<1>4. \A w \in Handler : Accepted(w) = {}
  BY DEF Init, Accepted, Idle
<1>5. Promised!Init
  BY <1>4 DEF Init, Promised!Init
<1> QED  BY <1>1, <1>2, <1>3, <1>5 DEF Serial

(* Requests that do not overlap change a collection as ObjectStore says:   *)
(* a PUT takes effect at once, on the very state its If-Match or           *)
(* If-None-Match named; a DELETE takes effect at once, whatever its        *)
(* If-Match named; and a calendar keeps one member per UID, whatever       *)
(* statement a request ends at (storage/dav.go, davcond).                  *)
THEOREM Refinement ==
  ASSUME OneHandler
  PROVE  Spec => ImplementsObjectStore
<1>1. Init /\ TypeOK => Serial /\ Promised!Init
  BY InitSerial
<1>2. Serial /\ TypeOK' /\ [Next]_vars => Serial' /\ [Promised!Next]_(Promised!vars)
  <2>1. Promised!vars = <<row, Asked>>
    BY DEF Promised!vars, Asked
  <2>2. Promised!vars' = <<row', Asked'>>
    BY DEF Promised!vars, Asked
  <2> QED  BY <2>1, <2>2, StepSerial DEF Stored
<1> QED  BY <1>1, <1>2, TypeCorrect, PTL DEF Spec, ImplementsObjectStore, Promised!Spec

(* After requests that did not overlap the change log says of every member *)
(* whether it exists, unless one of them was cut short before its record   *)
(* (storage/dav.go recordChange).                                          *)
THEOREM RecordGuarantee ==
  ASSUME OneHandler
  PROVE  Spec => []RecordsTruthful
<1>1. Init /\ TypeOK => Serial
  BY InitSerial
<1>2. Serial /\ TypeOK' /\ [Next]_vars => Serial'
  BY StepSerial
<1>3. Serial => RecordsTruthful
  BY DEF Serial, Recorded, RecordsTruthful, Quiet, OwesRecord
<1> QED  BY <1>1, <1>2, <1>3, TypeCorrect, PTL DEF Spec

(* After requests that did not overlap no two members of a calendar have   *)
(* one UID, wherever the requests ended, since what a PUT displaces goes   *)
(* before it writes (storage/dav.go UpsertCalendarObject).                 *)
THEOREM UidGuarantee ==
  ASSUME OneHandler
  PROVE  Spec => []Promised!OneMemberPerUid
<1>1. Init /\ TypeOK => Serial
  BY InitSerial
<1>2. Serial /\ TypeOK' /\ [Next]_vars => Serial'
  BY StepSerial
<1>3. Serial => Promised!OneMemberPerUid
  BY DEF Serial, OneMember, Promised!OneMemberPerUid
<1> QED  BY <1>1, <1>2, <1>3, TypeCorrect, PTL DEF Spec
=============================================================================
