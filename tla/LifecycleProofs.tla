-------------------------- MODULE LifecycleProofs --------------------------
(***************************************************************************)
(* Proofs about Lifecycle and ImportantDates, for any contacts, dates,     *)
(* snapshots, and any number of starts, restores and crashes.              *)
(***************************************************************************)
EXTENDS Lifecycle, SequenceTheorems, TLAPS

(* The databases there can be: no entries without the calendar.            *)
Sound == {d \in Db : ~d.cal => d.entries = Blank.entries}
Maybe == Sound \cup {None}

Dates == [Kind -> Date \cup {None}]

(* Tables, files and snapshots.                                            *)
FilesOK ==
  /\ db \in Sound
  /\ disk \in [dest : Maybe, aside : Maybe, wal : Maybe]
  /\ backups \in Seq(Sound) /\ Len(backups) <= taken /\ taken \in 0..MaxBackups
  /\ owed \in Maybe /\ promised \in Maybe
  /\ rs \in [pc : {"done", "locked", "copied", "moved"}, src : Maybe]
  /\ sv \in [pc : {"down", "bootstrap", "lock", "up", "closing"}, on : {"dest", "aside", "gone"},
             raced : BOOLEAN]
  /\ due \in BOOLEAN /\ starts \in 0..MaxStarts /\ restores \in 0..MaxRestores

(* The tick's locals: what it writes is an entry, in a calendar.           *)
TickOK ==
  /\ DOMAIN wk = DOMAIN Idle
  /\ wk.pc \in {"idle", "settings", "clear", "ensure", "contacts", "refs", "apply", "backup"}
  /\ wk.kinds \subseteq Kind /\ wk.todo \subseteq Contact \X Kind /\ wk.want \subseteq Href
  /\ wk.have \in [Href -> Entry \cup {None}]
  /\ wk.cards \in [Contact -> Dates]
  /\ wk.pc \in {"contacts", "refs", "apply"} => db.cal
  /\ wk.pc = "apply" =>
       \A i \in wk.todo : wk.cards[i[1]][i[2]] # None /\ MonthDay[wk.cards[i[1]][i[2]]] # None
  /\ sv.pc \notin {"up", "closing"} => wk = Idle
  /\ year \in 0..MaxYear /\ changes \in 0..MaxChanges

(* Whoever runs while a restore does has raced it; so has whoever works on *)
(* a file that is no longer the database.                                  *)
RacedOK == sv.pc # "down" /\ (rs.pc # "done" \/ sv.on # "dest") => sv.raced

(* The database a restore replaces is in its place until it is moved, and  *)
(* then aside; once a server runs, there is no such debt.                  *)
OwedOK ==
  owed # None =>
    /\ sv.pc = "down"
    /\ disk.dest = None \/ rs.pc = "moved" => owed = disk.aside
    /\ disk.dest # None /\ rs.pc \in {"locked", "copied"} => owed = disk.dest
    /\ owed \in {disk.dest, disk.aside}

(* A snapshot that is promised is what the next server opens, until it has *)
(* got its first account or another restore begins.                        *)
PromisedOK ==
  promised # None =>
    /\ rs.pc = "done"
    /\ sv.pc \in {"lock", "up", "closing"} => sv.on # "dest"
    /\ disk.wal = None \/ sv.pc # "bootstrap" => Opened = promised

Inv == FilesOK /\ TickOK /\ RacedOK /\ OwedOK /\ PromisedOK

-----------------------------------------------------------------------------
(* Statements on the tables.                                               *)

LEMMA BlankSound == Blank \in Sound /\ Blank.entries = [h \in Href |-> None]
BY DEF Blank, Sound, Db, NoCard

LEMMA UserAdded ==
  ASSUME NEW d \in Sound
  PROVE  [d EXCEPT !.user = TRUE] \in Sound /\ ([d EXCEPT !.user = TRUE]).cal = d.cal
BY DEF Sound, Db

LEMMA CardWritten ==
  ASSUME NEW d \in Sound, NEW c \in Contact, NEW dates \in Dates
  PROVE  [d EXCEPT !.cards[c] = dates] \in Sound /\ ([d EXCEPT !.cards[c] = dates]).cal = d.cal
<1> DEFINE e == [d EXCEPT !.cards[c] = dates]
           cards == [d.cards EXCEPT ![c] = dates]
<1>1. d.cards \in [Contact -> Dates]
  BY DEF Sound, Db, Dates
<1>2. cards \in [Contact -> Dates]
  BY <1>1
<1>3. e = [d EXCEPT !.cards = cards]
  BY DEF Sound, Db
<1> HIDE DEF e, cards
<1> QED  BY <1>2, <1>3 DEF Sound, Db, Dates, e

LEMMA SettingsWritten ==
  ASSUME NEW d \in Sound, NEW on \in BOOLEAN, NEW kinds \in SUBSET Kind
  PROVE  /\ [d EXCEPT !.on = on, !.kinds = kinds] \in Sound
         /\ ([d EXCEPT !.on = on, !.kinds = kinds]).cal = d.cal
BY DEF Sound, Db

LEMMA EntriesCleared ==
  ASSUME NEW d \in Sound
  PROVE  [d EXCEPT !.entries = [h \in Href |-> None]] \in Sound
BY BlankSound DEF Sound, Db

LEMMA CalendarMade ==
  ASSUME NEW d \in Sound
  PROVE  [d EXCEPT !.cal = TRUE] \in Sound /\ ([d EXCEPT !.cal = TRUE]).cal = TRUE
BY DEF Sound, Db

LEMMA EntryWritten ==
  ASSUME NEW d \in Sound, d.cal, NEW h \in Href, NEW e \in Entry \cup {None}
  PROVE  [d EXCEPT !.entries[h] = e] \in Sound /\ ([d EXCEPT !.entries[h] = e]).cal
<1> DEFINE f == [d EXCEPT !.entries[h] = e]
           entries == [d.entries EXCEPT ![h] = e]
<1>1. d.entries \in [Href -> Entry \cup {None}]
  BY DEF Sound, Db
<1>2. entries \in [Href -> Entry \cup {None}]
  BY <1>1
<1>3. f = [d EXCEPT !.entries = entries]
  BY DEF Sound, Db
<1> HIDE DEF f, entries
<1> QED  BY <1>2, <1>3 DEF Sound, Db, f

LEMMA EntryIs ==
  ASSUME TickOK, wk.pc = "apply", NEW c, NEW k, <<c, k>> \in wk.todo
  PROVE  /\ HrefOf(c, k) \in Href /\ c \in Contact /\ k \in Kind
         /\ importantICS(c, k, wk.cards[c][k]) \in Entry
<1>1. c \in Contact /\ k \in Kind
  BY DEF TickOK
<1>2. UidOf[c] \in Uid /\ NameOf[UidOf[c]] \in Name
  BY <1>1, ContactAssumption
<1>3. wk.cards[c][k] # None /\ MonthDay[wk.cards[c][k]] # None
  BY DEF TickOK
<1>4. wk.cards[c][k] \in Date
  BY <1>1, <1>3 DEF TickOK, Dates
<1>5. MonthDay[wk.cards[c][k]] \in {MonthDay[d] : d \in Date} \ {None}
  BY <1>3, <1>4
<1>6. year \in 0..MaxYear
  BY DEF TickOK
<1> HIDE DEF TickOK
<1> QED  BY <1>1, <1>2, <1>5, <1>6 DEF HrefOf, Href, importantICS, Entry

LEMMA IdleIs ==
  /\ DOMAIN Idle = {"pc", "on", "kinds", "have", "cards", "todo", "want"}
  /\ Idle.pc = "idle" /\ Idle.kinds = {} /\ Idle.todo = {} /\ Idle.want = {}
  /\ Idle.have \in [Href -> Entry \cup {None}] /\ Idle.cards \in [Contact -> Dates]
BY DEF Idle, NoCard, Dates

-----------------------------------------------------------------------------
(* Requests of the user and steps of the tick.                             *)

LEMMA RequestKeepsDates ==
  ASSUME db \in Sound, TickOK, sv.pc \in {"up", "closing"}, sv' = sv, UserRequest
  PROVE  db' \in Sound /\ TickOK'
<1>1. db' \in Sound /\ db'.cal = db.cal /\ Change
  <2>1. ASSUME NEW c \in Contact, NEW dates \in Dates, UpsertAddressObject(c, dates)
        PROVE  db' \in Sound /\ db'.cal = db.cal /\ Change
    <3>1. db' = [db EXCEPT !.cards[c] = dates] /\ Change
      BY <2>1 DEF UpsertAddressObject
    <3> QED  BY <3>1, CardWritten
  <2>2. ASSUME NEW on \in BOOLEAN, NEW kinds \in SUBSET Kind, SaveImportantDates(on, kinds)
        PROVE  db' \in Sound /\ db'.cal = db.cal /\ Change
    <3>1. db' = [db EXCEPT !.on = on, !.kinds = kinds] /\ Change
      BY <2>2 DEF SaveImportantDates
    <3> QED  BY <3>1, SettingsWritten
  <2> QED  BY <2>1, <2>2 DEF UserRequest, Dates
<1>2. wk' = wk /\ year' = year /\ changes' \in 0..MaxChanges
  BY <1>1, BoundAssumption DEF Change, TickOK
<1> QED  BY <1>1, <1>2 DEF TickOK

LEMMA TickKeepsDates ==
  ASSUME db \in Sound, TickOK, sv.pc \in {"up", "closing"}, sv' = sv, Sync \/ SyncFails
  PROVE  db' \in Sound /\ TickOK'
<1> USE IdleIs
<1>0. /\ DOMAIN wk = {"pc", "on", "kinds", "have", "cards", "todo", "want"}
      /\ wk.kinds \subseteq Kind /\ wk.todo \subseteq Contact \X Kind /\ wk.want \subseteq Href
      /\ wk.have \in [Href -> Entry \cup {None}] /\ wk.cards \in [Contact -> Dates]
      /\ year \in 0..MaxYear /\ changes \in 0..MaxChanges
  BY DEF TickOK
<1>1. ASSUME NEW pc \in {"settings", "clear", "ensure", "contacts", "refs", "backup"},
             wk' = [wk EXCEPT !.pc = pc], db' \in Sound, UNCHANGED <<year, changes>>,
             pc \in {"contacts", "refs"} => db'.cal
      PROVE  TickOK'
  <2>1. /\ DOMAIN wk' = DOMAIN Idle /\ wk'.pc = pc /\ wk'.kinds = wk.kinds /\ wk'.todo = wk.todo
        /\ wk'.want = wk.want /\ wk'.have = wk.have /\ wk'.cards = wk.cards
    BY <1>0, <1>1
  <2> QED  BY <1>0, <1>1, <2>1 DEF TickOK
<1>2. ASSUME tick
      PROVE  db' \in Sound /\ TickOK'
  BY <1>1, <1>2 DEF tick, Goto, Quiet
<1>3. ASSUME GetImportantDates
      PROVE  db' \in Sound /\ TickOK'
  <2> DEFINE pc == IF db.on THEN "ensure" ELSE "clear"
  <2>1. wk' = [wk EXCEPT !.pc = pc, !.on = db.on, !.kinds = db.kinds] /\ Quiet
    BY <1>3 DEF GetImportantDates
  <2>2. pc \in {"ensure", "clear"}
    OBVIOUS
  <2> HIDE DEF pc
  <2>3. /\ DOMAIN wk' = DOMAIN Idle /\ wk'.pc = pc /\ wk'.kinds = db.kinds /\ wk'.todo = wk.todo
        /\ wk'.want = wk.want /\ wk'.have = wk.have /\ wk'.cards = wk.cards
    BY <1>0, <2>1
  <2>4. db.kinds \subseteq Kind
    BY DEF Sound, Db
  <2> QED  BY <1>0, <2>1, <2>2, <2>3, <2>4 DEF TickOK, Quiet
<1>4. ASSUME DeleteCalendarObjectsByPrefix
      PROVE  db' \in Sound /\ TickOK'
  BY <1>1, <1>4, EntriesCleared DEF DeleteCalendarObjectsByPrefix, Goto
<1>5. ASSUME EnsureCalendar
      PROVE  db' \in Sound /\ TickOK'
  BY <1>1, <1>5, CalendarMade DEF EnsureCalendar, Goto
<1>6. ASSUME ContactsWithDates
      PROVE  db' \in Sound /\ TickOK'
  <2>1. wk' = [wk EXCEPT !.pc = "refs", !.cards = db.cards] /\ Quiet /\ wk.pc = "contacts"
    BY <1>6 DEF ContactsWithDates
  <2>2. /\ DOMAIN wk' = DOMAIN Idle /\ wk'.pc = "refs" /\ wk'.kinds = wk.kinds /\ wk'.todo = wk.todo
        /\ wk'.want = wk.want /\ wk'.have = wk.have /\ wk'.cards = db.cards
    BY <1>0, <2>1
  <2>3. db.cards \in [Contact -> Dates]
    BY DEF Sound, Db, Dates
  <2>4. db.cal
    BY <2>1 DEF TickOK
  <2> QED  BY <1>0, <2>1, <2>2, <2>3, <2>4 DEF TickOK, Quiet
<1>7. ASSUME ListCalendarObjectRefs
      PROVE  db' \in Sound /\ TickOK'
  <2> DEFINE items == Items(wk.cards, wk.kinds)
  <2>1. /\ wk' = [wk EXCEPT !.pc = "apply", !.have = db.entries, !.todo = items]
        /\ Quiet /\ wk.pc = "refs"
    BY <1>7 DEF ListCalendarObjectRefs
  <2>2. /\ items \subseteq Contact \X Kind
        /\ \A i \in items : wk.cards[i[1]][i[2]] # None /\ MonthDay[wk.cards[i[1]][i[2]]] # None
    BY <1>0 DEF Items
  <2> HIDE DEF items
  <2>3. /\ DOMAIN wk' = DOMAIN Idle /\ wk'.pc = "apply" /\ wk'.kinds = wk.kinds /\ wk'.todo = items
        /\ wk'.want = wk.want /\ wk'.have = db.entries /\ wk'.cards = wk.cards
    BY <1>0, <2>1
  <2>4. db.entries \in [Href -> Entry \cup {None}]
    BY DEF Sound, Db
  <2>5. db.cal
    BY <2>1 DEF TickOK
  <2> QED  BY <1>0, <2>1, <2>2, <2>3, <2>4, <2>5 DEF TickOK, Quiet
<1>8. ASSUME NEW c \in Contact, NEW k \in Kind, upsertDay(c, k)
      PROVE  db' \in Sound /\ TickOK'
  <2> DEFINE h == HrefOf(c, k)
             e == importantICS(c, k, wk.cards[c][k])
             todo == wk.todo \ {<<c, k>>}
             want == wk.want \cup {h}
  <2>1. /\ wk.pc = "apply" /\ <<c, k>> \in wk.todo
        /\ db' = db \/ db' = [db EXCEPT !.entries[h] = e]
        /\ wk' = [wk EXCEPT !.todo = todo, !.want = want]
        /\ UNCHANGED <<year, changes>>
    BY <1>8 DEF upsertDay
  <2>2. h \in Href /\ e \in Entry
    BY <2>1, EntryIs
  <2>3. db.cal
    BY <2>1 DEF TickOK
  <2> HIDE DEF h, e
  <2>4. db' \in Sound /\ db'.cal
    <3>1. [db EXCEPT !.entries[h] = e] \in Sound /\ ([db EXCEPT !.entries[h] = e]).cal
      BY <2>2, <2>3, EntryWritten
    <3>2. db' = db \/ db' = [db EXCEPT !.entries[h] = e]
      BY <2>1
    <3> QED  BY <2>3, <3>1, <3>2
  <2>5. todo \subseteq wk.todo /\ want \subseteq Href
    BY <1>0, <2>2
  <2> HIDE DEF todo, want
  <2>6. /\ DOMAIN wk' = DOMAIN Idle /\ wk'.pc = "apply" /\ wk'.kinds = wk.kinds /\ wk'.todo = todo
        /\ wk'.want = want /\ wk'.have = wk.have /\ wk'.cards = wk.cards
    BY <1>0, <2>1
  <2> QED  BY <1>0, <2>1, <2>4, <2>5, <2>6 DEF TickOK
<1>9. ASSUME NEW h \in Href, DeleteCalendarObject(h)
      PROVE  db' \in Sound /\ TickOK'
  <2> DEFINE want == wk.want \cup {h}
  <2>1. /\ wk.pc = "apply" /\ db' = [db EXCEPT !.entries[h] = None]
        /\ wk' = [wk EXCEPT !.want = want] /\ UNCHANGED <<year, changes>>
    BY <1>9 DEF DeleteCalendarObject
  <2>2. db.cal
    BY <2>1 DEF TickOK
  <2>3. db' \in Sound /\ db'.cal
    BY <2>1, <2>2, EntryWritten
  <2>4. want \subseteq Href
    BY <1>0
  <2> HIDE DEF want
  <2>5. /\ DOMAIN wk' = DOMAIN Idle /\ wk'.pc = "apply" /\ wk'.kinds = wk.kinds /\ wk'.todo = wk.todo
        /\ wk'.want = want /\ wk'.have = wk.have /\ wk'.cards = wk.cards
    BY <1>0, <2>1
  <2> QED  BY <1>0, <2>1, <2>3, <2>4, <2>5 DEF TickOK
<1>10. ASSUME Applied \/ SyncFails
       PROVE  db' \in Sound /\ TickOK'
  <2>1. wk' = [Idle EXCEPT !.pc = "backup"] /\ db' = db /\ year' = year /\ changes' \in 0..MaxChanges
    BY <1>0, <1>10, BoundAssumption DEF Applied, SyncFails, Quiet
  <2>2. /\ DOMAIN wk' = DOMAIN Idle /\ wk'.pc = "backup" /\ wk'.kinds = {} /\ wk'.todo = {}
        /\ wk'.want = {} /\ wk'.have = Idle.have /\ wk'.cards = Idle.cards
    BY <2>1
  <2> QED  BY <1>0, <2>1, <2>2 DEF TickOK
<1> QED  BY <1>2, <1>3, <1>4, <1>5, <1>6, <1>7, <1>8, <1>9, <1>10 DEF Sync

-----------------------------------------------------------------------------
(* Files.                                                                  *)

LEMMA FoundSound ==
  ASSUME FilesOK
  PROVE  Found \in Sound
BY BlankSound DEF FilesOK, Maybe, Found

(* What is left when the oldest snapshots are pruned.                      *)
LEMMA PrunedIs ==
  ASSUME NEW S, NEW s \in Seq(S)
  PROVE  PruneBackups(s) \in Seq(S) /\ Len(PruneBackups(s)) <= Len(s)
<1>1. Len(s) \in Nat /\ Keep \in Nat \ {0}
  BY KeepAssumption
<1>2. CASE Len(s) <= Keep
  BY <1>1, <1>2 DEF PruneBackups
<1>3. CASE ~(Len(s) <= Keep)
  <2> DEFINE m == Len(s) - Keep + 1
  <2>1. m \in 1..Len(s) + 1 /\ Len(s) \in m - 1..Len(s) /\ Len(s) - m + 1 = Keep /\ Keep <= Len(s)
    BY <1>1, <1>3
  <2>2. PruneBackups(s) = SubSeq(s, m, Len(s))
    BY <1>3 DEF PruneBackups
  <2> HIDE DEF m
  <2>3. SubSeq(s, m, Len(s)) \in Seq(S) /\ Len(SubSeq(s, m, Len(s))) = Len(s) - m + 1
    BY <2>1, SubSeqProperties
  <2> QED  BY <1>1, <2>1, <2>2, <2>3
<1> QED  BY <1>2, <1>3

(* A file is written by the server that has it open.                       *)
LEMMA WrittenIs ==
  ASSUME FilesOK, NEW d \in Sound
  PROVE  /\ Written(d) \in [dest : Maybe, aside : Maybe, wal : Maybe]
         /\ Written(d).wal = disk.wal
         /\ Written(d).dest = IF sv.on = "dest" THEN d ELSE disk.dest
         /\ Written(d).aside = IF sv.on = "aside" THEN d ELSE disk.aside
<1>1. sv.on \in {"dest", "aside", "gone"} /\ disk \in [dest : Maybe, aside : Maybe, wal : Maybe] /\ d \in Maybe
  BY DEF FilesOK, Maybe
<1>2. CASE sv.on = "gone"
  BY <1>1, <1>2 DEF Written
<1>3. CASE sv.on = "dest"
  <2>1. Written(d) = [disk EXCEPT !.dest = d]
    BY <1>3 DEF Written
  <2> QED  BY <1>1, <1>3, <2>1
<1>4. CASE sv.on = "aside"
  <2>1. Written(d) = [disk EXCEPT !.aside = d]
    BY <1>4 DEF Written
  <2> QED  BY <1>1, <1>4, <2>1
<1> QED  BY <1>1, <1>2, <1>3, <1>4

Sv == [pc : {"down", "bootstrap", "lock", "up", "closing"}, on : {"dest", "aside", "gone"},
       raced : BOOLEAN]
Rs == [pc : {"done", "locked", "copied", "moved"}, src : Maybe]

LEMMA StartIs ==
  /\ Down \in Sv /\ Down.pc = "down" /\ Down.on = "dest" /\ Down.raced = FALSE
  /\ Done \in Rs /\ Done.pc = "done"
BY DEF Down, Done, Sv, Rs, Maybe

(* A process that does not run has no tick.                                *)
LEMMA TickStays ==
  ASSUME TickOK, UNCHANGED <<wk, year, changes>>, db'.cal = db.cal \/ wk = Idle,
         sv'.pc = sv.pc \/ sv'.pc \in {"up", "closing"} \/ wk = Idle
  PROVE  TickOK'
BY IdleIs DEF TickOK

-----------------------------------------------------------------------------
(* The server.                                                             *)

LEMMA OpenKeepsInv ==
  ASSUME Inv, Open
  PROVE  Inv'
<1> USE DEF Inv
<1>1. /\ sv.pc = "down" /\ starts < MaxStarts /\ db' = Found /\ starts' = starts + 1
      /\ disk' = [disk EXCEPT !.dest = Found]
      /\ sv' = [pc |-> "bootstrap", on |-> "dest", raced |-> rs.pc # "done"]
      /\ owed' = None
      /\ UNCHANGED <<wk, year, changes, promised, backups, taken, due, rs, restores>>
  BY DEF Open, command
<1>2. Found \in Sound
  BY FoundSound
<1> DEFINE f == Found
<1> HIDE DEF f
<1>3. /\ disk' \in [dest : Maybe, aside : Maybe, wal : Maybe]
      /\ disk'.dest = Found /\ disk'.aside = disk.aside /\ disk'.wal = disk.wal
  BY <1>1, <1>2 DEF FilesOK, Maybe
<1>4. /\ sv' \in Sv /\ sv'.pc = "bootstrap" /\ sv'.on = "dest" /\ (sv'.raced <=> rs.pc # "done")
  BY <1>1 DEF Sv
<1>5. FilesOK'
  <2>1. starts' \in 0..MaxStarts
    BY <1>1, LimitAssumption DEF FilesOK
  <2> QED  BY <1>1, <1>2, <1>3, <1>4, <2>1 DEF FilesOK, Sv, Maybe
<1>6. TickOK'
  <2>1. wk = Idle
    BY <1>1 DEF TickOK
  <2> QED  BY <1>1, <2>1, TickStays
<1>7. RacedOK'
  BY <1>1, <1>4 DEF RacedOK
<1>8. OwedOK'
  BY <1>1 DEF OwedOK
<1>9. PromisedOK'
  <2>1. SUFFICES ASSUME promised' # None, disk'.wal = None
                 PROVE  rs.pc = "done" /\ Opened' = promised'
    BY <1>1, <1>4 DEF PromisedOK
  <2>2. Opened = promised /\ disk.wal = None /\ promised # None /\ rs.pc = "done"
    BY <1>1, <1>3, <2>1 DEF PromisedOK
  <2>3. Opened = disk.dest
    BY <1>1 DEF Opened
  <2>4. Found = disk.dest
    BY <2>2, <2>3 DEF Found
  <2>5. Opened' = db'
    BY <1>4 DEF Opened
  <2> QED  BY <1>1, <2>2, <2>3, <2>4, <2>5
<1> QED  BY <1>5, <1>6, <1>7, <1>8, <1>9

(* The server has made the database d out of its own.                      *)
LEMMA WritesKeepsInv ==
  ASSUME Inv, db' \in Sound, TickOK', disk' = Written(db'),
         UNCHANGED <<backups, taken, due, starts, rs, restores, owed>>,
         sv' \in Sv, sv'.on = sv.on, sv'.raced = sv.raced, sv.pc # "down", sv'.pc # "down",
         \/ promised' = None
         \/ promised' = promised /\ sv.pc \in {"up", "closing"} /\ sv'.pc = sv.pc
  PROVE  Inv'
<1> USE DEF Inv
<1>1. /\ disk' \in [dest : Maybe, aside : Maybe, wal : Maybe]
      /\ disk'.wal = disk.wal
      /\ disk'.dest = IF sv.on = "dest" THEN db' ELSE disk.dest
      /\ disk'.aside = IF sv.on = "aside" THEN db' ELSE disk.aside
  BY WrittenIs
<1>2. FilesOK'
  BY <1>1 DEF FilesOK, Maybe, Sv
<1>3. RacedOK'
  BY DEF RacedOK
<1>4. OwedOK'
  BY DEF OwedOK
<1>5. PromisedOK'
  BY <1>1 DEF PromisedOK, Opened
<1> QED  BY <1>2, <1>3, <1>4, <1>5

LEMMA AdminKeepsInv ==
  ASSUME Inv, Admin
  PROVE  Inv'
<1>1. /\ sv.pc = "bootstrap" /\ sv' = [sv EXCEPT !.pc = "lock"] /\ db' = [db EXCEPT !.user = TRUE]
      /\ disk' = Written(db') /\ promised' = None
      /\ UNCHANGED <<wk, year, changes, backups, taken, due, starts, rs, restores, owed>>
  BY DEF Admin, command
<1>2. db' \in Sound /\ db'.cal = db.cal
  BY <1>1, UserAdded DEF Inv, FilesOK
<1>3. sv' \in Sv /\ sv'.pc = "lock" /\ sv'.on = sv.on /\ sv'.raced = sv.raced
  BY <1>1 DEF Inv, FilesOK, Sv
<1>4. TickOK'
  <2>1. wk = Idle
    BY <1>1 DEF Inv, TickOK
  <2> QED  BY <1>1, <2>1, TickStays DEF Inv
<1> QED  BY <1>1, <1>2, <1>3, <1>4, WritesKeepsInv

LEMMA ServingKeepsInv ==
  ASSUME Inv, Serving(UserRequest) \/ Serving(Sync) \/ Serving(SyncFails) \/ Draining
  PROVE  Inv'
<1>1. /\ sv.pc \in {"up", "closing"}
      /\ UserRequest \/ Sync \/ SyncFails
      /\ disk' = Written(db')
      /\ UNCHANGED <<backups, taken, due, sv, starts, rs, restores, owed, promised>>
  BY DEF Serving, Draining, Writes, command
<1>2. db \in Sound /\ TickOK /\ sv \in Sv /\ sv' = sv
  BY <1>1 DEF Inv, FilesOK, Sv
<1>3. db' \in Sound /\ TickOK'
  BY <1>1, <1>2, RequestKeepsDates, TickKeepsDates
<1>4. /\ UNCHANGED <<backups, taken, due, starts, rs, restores, owed>>
      /\ sv' \in Sv /\ sv'.on = sv.on /\ sv'.raced = sv.raced /\ sv'.pc = sv.pc
      /\ disk' = Written(db') /\ promised' = promised
  BY <1>1, <1>2
<1> QED  BY <1>1, <1>3, <1>4, WritesKeepsInv

LEMMA LockKeepsInv ==
  ASSUME Inv, HoldRuntimeLock
  PROVE  Inv'
<1> USE DEF Inv
<1>1. /\ sv.pc = "lock" /\ sv' = [sv EXCEPT !.pc = "up"] /\ due' = TRUE
      /\ UNCHANGED <<db, wk, year, changes, disk, backups, taken, starts, rs, restores, owed, promised>>
  BY DEF HoldRuntimeLock, dateVars, files, command
<1>2. sv' \in Sv /\ sv'.pc = "up" /\ sv'.on = sv.on /\ sv'.raced = sv.raced
  BY <1>1 DEF FilesOK, Sv
<1>3. FilesOK'
  BY <1>1, <1>2 DEF FilesOK, Sv
<1>4. TickOK'
  BY <1>1, <1>2, TickStays
<1>5. RacedOK' /\ OwedOK' /\ PromisedOK'
  BY <1>1, <1>2 DEF RacedOK, OwedOK, PromisedOK, Opened
<1> QED  BY <1>3, <1>4, <1>5

LEMMA ShutdownKeepsInv ==
  ASSUME Inv, Shutdown
  PROVE  Inv'
<1> USE DEF Inv
<1>1. /\ sv.pc = "up" /\ sv' = [sv EXCEPT !.pc = "closing"]
      /\ UNCHANGED <<db, wk, year, changes, disk, backups, taken, due, starts, rs, restores, owed,
                     promised>>
  BY DEF Shutdown, dateVars, files, command
<1>2. sv' \in Sv /\ sv'.pc = "closing" /\ sv'.on = sv.on /\ sv'.raced = sv.raced
  BY <1>1 DEF FilesOK, Sv
<1>3. FilesOK'
  BY <1>1, <1>2 DEF FilesOK, Sv
<1>4. TickOK'
  BY <1>1, <1>2, TickStays
<1>5. RacedOK' /\ OwedOK' /\ PromisedOK'
  BY <1>1, <1>2 DEF RacedOK, OwedOK, PromisedOK, Opened
<1> QED  BY <1>3, <1>4, <1>5

LEMMA EndsKeepsInv ==
  ASSUME Inv, Close \/ Crash
  PROVE  Inv'
<1> USE DEF Inv
<1>1. PICK left \in {None, db} : Ends(left)
  BY DEF Close, Crash
<1>2. /\ sv' = Down /\ wk' = Idle /\ db' = Blank /\ due' = FALSE /\ disk' = [disk EXCEPT !.wal = left]
      /\ promised' = (IF sv.pc = "bootstrap" THEN None ELSE promised) /\ sv.pc # "down"
      /\ UNCHANGED <<year, changes, backups, taken, starts, rs, restores, owed>>
  BY <1>1 DEF Ends, command, Close, Crash
<1>3. /\ disk' \in [dest : Maybe, aside : Maybe, wal : Maybe]
      /\ disk'.dest = disk.dest /\ disk'.aside = disk.aside /\ disk'.wal = left
  BY <1>1, <1>2 DEF FilesOK, Maybe
<1>4. FilesOK'
  BY <1>2, <1>3, BlankSound, StartIs DEF FilesOK, Maybe, Sv
<1>5. TickOK'
  BY <1>2, IdleIs DEF TickOK
<1>6. RacedOK' /\ OwedOK'
  BY <1>2, StartIs DEF RacedOK, OwedOK
<1>7. PromisedOK'
  <2>1. SUFFICES ASSUME promised' # None
                 PROVE  rs.pc = "done" /\ Opened' = promised'
    BY <1>2, StartIs DEF PromisedOK
  <2>2. promised' = promised /\ sv.pc \in {"lock", "up", "closing"}
    BY <1>2, <2>1 DEF FilesOK
  <2>3. sv.on # "dest" /\ rs.pc = "done"
    BY <2>1, <2>2 DEF PromisedOK
  <2>4. Opened = disk.dest /\ Opened' = disk.dest
    BY <1>2, <1>3, <2>3, StartIs DEF Opened
  <2> QED  BY <2>1, <2>2, <2>3, <2>4 DEF PromisedOK
<1> QED  BY <1>4, <1>5, <1>6, <1>7

-----------------------------------------------------------------------------
(* Snapshots, and the clock.                                               *)

LEMMA BackupKeepsInv ==
  ASSUME Inv, maybeBackup
  PROVE  Inv'
<1> USE DEF Inv
<1>1. /\ sv.pc = "up" /\ wk' = Idle
      /\ UNCHANGED <<db, year, changes, disk, sv, starts, rs, restores, owed, promised>>
  BY DEF maybeBackup, command
<1>2. backups' \in Seq(Sound) /\ Len(backups') <= taken' /\ taken' \in 0..MaxBackups /\ due' \in BOOLEAN
  <2>1. CASE UNCHANGED <<backups, taken, due>>
    BY <2>1 DEF FilesOK
  <2>2. CASE /\ taken < MaxBackups /\ backups' = PruneBackups(Append(backups, db))
             /\ taken' = taken + 1 /\ due' = FALSE
    <3>1. /\ db \in Sound /\ backups \in Seq(Sound) /\ Len(backups) <= taken
          /\ taken \in Nat /\ MaxBackups \in Nat
      BY LimitAssumption DEF FilesOK
    <3>2. Append(backups, db) \in Seq(Sound) /\ Len(Append(backups, db)) = Len(backups) + 1
      BY <3>1
    <3>3. backups' \in Seq(Sound) /\ Len(backups') <= Len(backups) + 1
      BY <2>2, <3>2, PrunedIs
    <3>4. Len(backups) \in Nat /\ Len(backups') \in Nat
      BY <3>1, <3>3
    <3>5. taken' = taken + 1 /\ taken < MaxBackups /\ due' = FALSE
      BY <2>2
    <3>6. taken' \in 0..MaxBackups /\ due' \in BOOLEAN
      <4>1. due' \in BOOLEAN
        BY <3>5
      <4>2. taken' \in 0..MaxBackups
        BY <3>1, <3>5, SMT
      <4> QED  BY <4>1, <4>2
    <3>7. Len(backups') <= taken'
      BY <3>1, <3>3, <3>4, <3>5
    <3> QED  BY <3>3, <3>6, <3>7
  <2> QED  BY <2>1, <2>2 DEF maybeBackup
<1>3. FilesOK'
  BY <1>1, <1>2 DEF FilesOK
<1>4. TickOK'
  BY <1>1, IdleIs DEF TickOK
<1>5. RacedOK' /\ OwedOK' /\ PromisedOK'
  BY <1>1 DEF RacedOK, OwedOK, PromisedOK, Opened
<1> QED  BY <1>3, <1>4, <1>5

LEMMA ClockKeepsInv ==
  ASSUME Inv, Calendar \/ IntervalOver
  PROVE  Inv'
<1> USE DEF Inv
<1>1. /\ UNCHANGED <<db, wk, disk, backups, taken, sv, starts, rs, restores, owed, promised>>
      /\ due' \in BOOLEAN /\ year' \in 0..MaxYear /\ changes' \in 0..MaxChanges
  <2>1. CASE Calendar
    <3>1. /\ UNCHANGED <<db, wk, disk, backups, taken, due, sv, starts, rs, restores, owed, promised>>
          /\ year < MaxYear /\ changes < MaxChanges /\ year' = year + 1 /\ changes' = changes + 1
      BY <2>1 DEF Calendar, NewYear, files, command
    <3>2. due \in BOOLEAN
      BY DEF FilesOK
    <3>3. year \in 0..MaxYear /\ changes \in 0..MaxChanges
      BY DEF TickOK
    <3>4. year' \in 0..MaxYear /\ changes' \in 0..MaxChanges
      BY <3>1, <3>3, BoundAssumption
    <3> QED  BY <3>1, <3>2, <3>4
  <2>2. CASE IntervalOver
    <3>1. /\ UNCHANGED <<db, wk, disk, backups, taken, sv, starts, rs, restores, owed, promised>>
          /\ due' = TRUE /\ year' = year /\ changes' = changes
      BY <2>2 DEF IntervalOver, dateVars, files, command
    <3>2. year \in 0..MaxYear /\ changes \in 0..MaxChanges
      BY DEF TickOK
    <3> QED  BY <3>1, <3>2
  <2> QED  BY <2>1, <2>2
<1>2. FilesOK' /\ TickOK'
  BY <1>1 DEF FilesOK, TickOK
<1>3. RacedOK' /\ OwedOK' /\ PromisedOK'
  BY <1>1 DEF RacedOK, OwedOK, PromisedOK, Opened
<1> QED  BY <1>2, <1>3

LEMMA CommandKeepsInv ==
  ASSUME Inv, BackupCommand
  PROVE  Inv'
<1> USE DEF Inv
<1> DEFINE d == IF sv.pc = "down" \/ sv.on # "dest" THEN Found ELSE db
           wal == IF sv.pc = "down" THEN None ELSE disk.wal
<1>1. /\ taken < MaxBackups /\ backups' = Append(backups, d) /\ disk' = [disk EXCEPT !.dest = d, !.wal = wal]
      /\ taken' = taken + 1 /\ owed' = None /\ promised' = None
      /\ UNCHANGED <<db, wk, year, changes, sv, due, starts, rs, restores>>
  BY DEF BackupCommand, server, dateVars, command, FilesOK
<1>2. d \in Sound /\ wal \in Maybe
  BY FoundSound DEF FilesOK, Maybe
<1> HIDE DEF d, wal
<1>3. disk' \in [dest : Maybe, aside : Maybe, wal : Maybe]
  BY <1>1, <1>2 DEF FilesOK, Maybe
<1>4. backups' \in Seq(Sound) /\ Len(backups') <= taken' /\ taken' \in 0..MaxBackups
  <2>1. /\ backups \in Seq(Sound) /\ Len(backups) <= taken /\ Len(backups) \in Nat
        /\ taken \in Nat /\ MaxBackups \in Nat
    BY LimitAssumption DEF FilesOK
  <2>2. Append(backups, d) \in Seq(Sound) /\ Len(Append(backups, d)) = Len(backups) + 1
    BY <1>2, <2>1
  <2> QED  BY <1>1, <2>1, <2>2
<1>5. FilesOK'
  BY <1>1, <1>3, <1>4 DEF FilesOK, Maybe
<1>6. TickOK'
  BY <1>1, TickStays
<1>7. RacedOK' /\ OwedOK' /\ PromisedOK'
  BY <1>1 DEF RacedOK, OwedOK, PromisedOK
<1> QED  BY <1>5, <1>6, <1>7

-----------------------------------------------------------------------------
(* dcalcon restore.                                                        *)

LEMMA RestoreKeepsInv ==
  ASSUME Inv, NEW i \in DOMAIN backups, Restore(backups[i])
  PROVE  Inv'
<1> USE DEF Inv
<1> DEFINE src == backups[i]
           pc == IF disk.dest = None THEN "copied" ELSE "locked"
           raced == sv.pc # "down"
           debt == IF disk.dest = None THEN owed
                   ELSE IF sv.pc = "down" /\ disk.wal = None THEN disk.dest ELSE None
<1>1. /\ restores < MaxRestores /\ rs' = [pc |-> pc, src |-> src] /\ restores' = restores + 1
      /\ owed' = debt /\ promised' = None /\ sv' = [sv EXCEPT !.raced = raced]
      /\ UNCHANGED <<db, wk, year, changes, disk, backups, taken, due, starts>>
  BY DEF Restore, dateVars, files
<1>2. src \in Sound /\ debt \in Maybe
  <2>1. backups \in Seq(Sound)
    BY DEF FilesOK
  <2>2. src \in Sound
    BY <2>1
  <2> QED  BY <2>2 DEF FilesOK, Maybe
<1>3. rs' \in Rs /\ rs'.pc = pc
  BY <1>1, <1>2 DEF Rs, Maybe
<1>4. sv' \in Sv /\ sv'.pc = sv.pc /\ sv'.on = sv.on /\ (sv'.raced <=> sv.pc # "down")
  BY <1>1 DEF FilesOK, Sv
<1>5. FilesOK'
  <2>1. restores' \in 0..MaxRestores
    BY <1>1, LimitAssumption DEF FilesOK
  <2>2. owed' \in Maybe /\ promised' \in Maybe
    BY <1>1, <1>2 DEF Maybe
  <2> HIDE DEF debt, src, pc, raced
  <2> QED  BY <1>1, <1>3, <1>4, <2>1, <2>2 DEF FilesOK, Sv, Rs
<1>6. TickOK'
  BY <1>1, <1>4, TickStays
<1>7. RacedOK' /\ PromisedOK'
  BY <1>1, <1>4 DEF RacedOK, PromisedOK
<1>8. OwedOK'
  <2>1. CASE disk.dest = None
    BY <1>1, <1>3, <1>4, <2>1 DEF OwedOK
  <2>2. CASE disk.dest # None
    BY <1>1, <1>3, <1>4, <2>2 DEF OwedOK
  <2> QED  BY <2>1, <2>2
<1> QED  BY <1>5, <1>6, <1>7, <1>8

(* It goes on, or ends, without touching a file.                           *)
LEMMA RestorePcKeepsInv ==
  ASSUME Inv, CopyFile \/ RestoreDies
  PROVE  Inv'
<1> USE DEF Inv
<1>1. /\ rs.pc # "done" /\ rs' \in Rs
      /\ rs'.pc = "done" \/ (rs.pc = "locked" /\ rs'.pc = "copied")
      /\ UNCHANGED <<db, wk, year, changes, disk, backups, taken, due, sv, starts, restores, owed, promised>>
  BY StartIs DEF CopyFile, RestoreDies, Go, Elsewhere, dateVars, FilesOK, Rs
<1>2. FilesOK' /\ TickOK'
  BY <1>1 DEF FilesOK, Rs, TickOK
<1>3. RacedOK' /\ OwedOK' /\ PromisedOK'
  BY <1>1 DEF RacedOK, OwedOK, PromisedOK
<1> QED  BY <1>2, <1>3

LEMMA MoveAsideKeepsInv ==
  ASSUME Inv, MoveAside
  PROVE  Inv'
<1> USE DEF Inv
<1>1. /\ rs.pc = "copied" /\ rs' = [rs EXCEPT !.pc = "moved"]
      /\ UNCHANGED <<db, wk, year, changes, backups, taken, due, starts, restores, owed, promised>>
  BY DEF MoveAside, Go, Elsewhere, dateVars
<1>2. rs' \in Rs /\ rs'.pc = "moved"
  BY <1>1 DEF FilesOK, Rs
<1>3. promised = None
  BY <1>1 DEF PromisedOK
<1>4. CASE disk.dest = None
  <2>1. disk' = disk /\ sv' = sv
    BY <1>4 DEF MoveAside
  <2>2. FilesOK' /\ TickOK'
    BY <1>1, <1>2, <2>1 DEF FilesOK, Rs, TickOK
  <2>3. RacedOK' /\ OwedOK' /\ PromisedOK'
    BY <1>1, <1>2, <1>3, <1>4, <2>1 DEF RacedOK, OwedOK, PromisedOK
  <2> QED  BY <2>2, <2>3
<1>5. CASE disk.dest # None
  <2>1. disk' = [disk EXCEPT !.dest = None, !.aside = disk.dest]
    BY <1>5 DEF MoveAside, FilesOK
  <2>2. /\ disk' \in [dest : Maybe, aside : Maybe, wal : Maybe]
        /\ disk'.dest = None /\ disk'.aside = disk.dest
    BY <2>1 DEF FilesOK, Maybe
  <2>3. sv' \in Sv /\ sv'.pc = sv.pc /\ sv'.raced = sv.raced
    <3>1. \/ sv' = sv
          \/ sv' = [sv EXCEPT !.on = IF sv.on = "dest" THEN "aside" ELSE "gone"]
      BY <1>5 DEF MoveAside
    <3> QED  BY <3>1 DEF FilesOK, Sv
  <2>4. FilesOK'
    BY <1>1, <1>2, <2>2, <2>3 DEF FilesOK, Rs, Sv
  <2>5. TickOK'
    BY <1>1, <2>3, TickStays
  <2>6. RacedOK'
    BY <1>1, <2>3 DEF RacedOK
  <2>7. OwedOK'
    BY <1>1, <1>2, <1>5, <2>2, <2>3 DEF OwedOK
  <2>8. PromisedOK'
    BY <1>1, <1>3 DEF PromisedOK
  <2> QED  BY <2>4, <2>5, <2>6, <2>7, <2>8
<1> QED  BY <1>4, <1>5

LEMMA MoveInKeepsInv ==
  ASSUME Inv, MoveIn
  PROVE  Inv'
<1> USE DEF Inv
<1>1. /\ rs.pc = "moved" /\ rs' = Done /\ disk' = [disk EXCEPT !.dest = rs.src] /\ promised' = rs.src
      /\ UNCHANGED <<db, wk, year, changes, backups, taken, due, starts, restores, owed>>
  BY DEF MoveIn, Elsewhere, dateVars
<1>2. /\ disk' \in [dest : Maybe, aside : Maybe, wal : Maybe]
      /\ disk'.dest = rs.src /\ disk'.aside = disk.aside /\ rs.src \in Maybe
  BY <1>1 DEF FilesOK, Rs
<1>3. /\ sv' \in Sv /\ sv'.pc = sv.pc /\ sv'.raced = sv.raced
      /\ sv.pc # "down" => sv'.on # "dest"
  <2>1. \/ sv' = sv /\ (sv.pc = "down" \/ sv.on # "dest")
        \/ sv' = [sv EXCEPT !.on = "gone"]
    BY DEF MoveIn
  <2> QED  BY <2>1 DEF FilesOK, Sv
<1>4. FilesOK'
  BY <1>1, <1>2, <1>3, StartIs DEF FilesOK, Rs, Sv
<1>5. TickOK'
  BY <1>1, <1>3, TickStays
<1>6. RacedOK'
  BY <1>1, <1>3 DEF RacedOK
<1>7. OwedOK'
  BY <1>1, <1>2, <1>3, StartIs DEF OwedOK
<1>8. PromisedOK'
  BY <1>1, <1>2, <1>3, StartIs DEF PromisedOK, Opened
<1> QED  BY <1>4, <1>5, <1>6, <1>7, <1>8

-----------------------------------------------------------------------------
(* The theorems.                                                           *)

LEMMA InitInv == Init => Inv
<1> SUFFICES ASSUME Init  PROVE Inv
  OBVIOUS
<1> USE DEF Init, InitDates
<1>1. FilesOK
  <2>1. disk \in [dest : Maybe, aside : Maybe, wal : Maybe]
    BY DEF Maybe
  <2>2. backups \in Seq(Sound) /\ Len(backups) = 0
    OBVIOUS
  <2>3. taken = 0 /\ taken \in 0..MaxBackups /\ starts \in 0..MaxStarts /\ restores \in 0..MaxRestores
    BY LimitAssumption
  <2>4. due \in BOOLEAN /\ owed \in Maybe /\ promised \in Maybe /\ db \in Sound
    BY BlankSound DEF Maybe
  <2>5. rs \in Rs /\ sv \in Sv
    BY StartIs
  <2> QED  BY <2>1, <2>2, <2>3, <2>4, <2>5 DEF FilesOK, Rs, Sv
<1>2. TickOK
  BY IdleIs, BoundAssumption DEF TickOK
<1>3. RacedOK /\ OwedOK /\ PromisedOK
  BY StartIs DEF RacedOK, OwedOK, PromisedOK
<1> QED  BY <1>1, <1>2, <1>3 DEF Inv

LEMMA StepKeepsInv == Inv /\ [Next]_vars => Inv'
<1> SUFFICES ASSUME Inv, [Next]_vars  PROVE Inv'
  OBVIOUS
<1>1. CASE UNCHANGED vars
  <2>1. UNCHANGED <<db, wk, year, changes, disk, backups, taken, due, sv, starts, rs, restores, owed, promised>>
    BY <1>1 DEF vars, dateVars, files
  <2> QED  BY <2>1 DEF Inv, FilesOK, TickOK, RacedOK, OwedOK, PromisedOK, Opened
<1>2. CASE Next
  BY <1>2, OpenKeepsInv, AdminKeepsInv, LockKeepsInv, ShutdownKeepsInv, EndsKeepsInv, ServingKeepsInv,
     ClockKeepsInv, BackupKeepsInv, CommandKeepsInv, RestoreKeepsInv, RestorePcKeepsInv,
     MoveAsideKeepsInv, MoveInKeepsInv
     DEF Next
<1> QED  BY <1>1, <1>2

LEMMA InvHolds == Spec => []Inv
<1> QED  BY InitInv, StepKeepsInv, PTL DEF Spec

(* Tables, files, snapshots and processes have their types, and there are  *)
(* no entries without the calendar, whatever is restored and whatever dies *)
(* (worker/worker.go, storage/restore.go).                                 *)
THEOREM TypeCorrect == Spec => []TypeOK
<1>1. Inv => TypeOK
  <2> SUFFICES ASSUME Inv  PROVE TypeOK
    OBVIOUS
  <2>1. Sound \subseteq Db /\ Maybe \subseteq Db \cup {None}
    BY DEF Sound, Maybe
  <2>2. backups \in Seq(Db)
    BY <2>1 DEF Inv, FilesOK
  <2>3. db \in Db /\ (~db.cal => db.entries = Blank.entries)
    BY DEF Inv, FilesOK, Sound
  <2>4. DatesTypeOK
    BY <2>3 DEF Inv, TickOK, DatesTypeOK
  <2>5. disk \in [dest : Db \cup {None}, aside : Db \cup {None}, wal : Db \cup {None}]
    BY <2>1 DEF Inv, FilesOK
  <2>6. rs \in [pc : {"done", "locked", "copied", "moved"}, src : Db \cup {None}]
    BY <2>1 DEF Inv, FilesOK
  <2> QED  BY <2>1, <2>2, <2>4, <2>5, <2>6 DEF Inv, FilesOK, TypeOK
<1> QED  BY <1>1, InvHolds, PTL

(* No server works on a database that restore has moved away, but one that *)
(* was starting while restore looked at the lock, or has started since     *)
(* (storage/lock_unix.go, storage/restore.go).                             *)
THEOREM LockGuarantee == Spec => []ServesDest
<1>1. Inv => ServesDest
  BY DEF Inv, RacedOK, ServesDest
<1> QED  BY <1>1, InvHolds, PTL

(* After a completed restore the next server finds the snapshot, unless an *)
(* old -wal file is there; and wherever a restore dies, the database it    *)
(* was to replace is in its place or aside (storage/restore.go).           *)
THEOREM RestoreGuarantee == Spec => []RestoreReplaces
<1>1. Inv => RestoreReplaces
  BY DEF Inv, OwedOK, PromisedOK, RestoreReplaces
<1> QED  BY <1>1, InvHolds, PTL
=============================================================================
