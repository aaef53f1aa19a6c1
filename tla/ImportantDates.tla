--------------------------- MODULE ImportantDates ---------------------------
(***************************************************************************)
(* Important Dates: the worker turns the birthdays and anniversaries of a  *)
(* user's contacts into the entries of the user's calendar                 *)
(* "important-dates", by a comparison of both on every tick.               *)
(*                                                                         *)
(* db stands for the tables that take part.  A request of the user is one  *)
(* statement on them; a tick reads settings, contacts and entries in       *)
(* statements of their own and writes the entries one by one, so that      *)
(* requests, failures and the turn of the year come in between.  There is  *)
(* one user: the worker treats them one after the other, and an error      *)
(* makes it leave the rest to the next tick.                               *)
(***************************************************************************)
EXTENDS Naturals, FiniteSets

CONSTANTS
  Contact,    \* address objects of the user, in all books
  Uid,        \* UIDs of cards
  UidOf,      \* the UID of each contact; two cards may have the same
  Name,       \* what sanitize leaves of a UID
  NameOf,     \* sanitize: different UIDs may become one name
  Kind,       \* what an entry is for: birthday, anniversary
  Date,       \* values of BDAY and ANNIVERSARY
  MonthDay,   \* normalizeMonthDay: month and day of a value, or None
  None,
  MaxYear,    \* bound on the turns of the year
  MaxChanges  \* bound on the requests of the user, failed ticks and new years

ASSUME ContactAssumption == UidOf \in [Contact -> Uid] /\ NameOf \in [Uid -> Name]
ASSUME BoundAssumption == MaxYear \in Nat /\ MaxChanges \in Nat

VARIABLES
  db,       \* the tables: cards, settings, the calendar and its entries
  wk,       \* the worker and the locals of its tick
  year,     \* the current year
  changes   \* how many of these there were

dateVars == <<db, wk, year, changes>>

Href == Kind \X Name
HrefOf(c, k) == <<k, NameOf[UidOf[c]]>>

NoCard == [k \in Kind |-> None]
Idle == [pc |-> "idle", on |-> FALSE, kinds |-> {}, have |-> [h \in Href |-> None],
         cards |-> [c \in Contact |-> NoCard], todo |-> {}, want |-> {}]

(* A database without the account.  A new account has the dates off, and   *)
(* the calendar is not there.                                              *)
Blank ==
  [user |-> FALSE, cards |-> [c \in Contact |-> NoCard], on |-> FALSE, kinds |-> Kind,
   cal |-> FALSE, entries |-> [h \in Href |-> None]]

InitDates == db = Blank /\ wk = Idle /\ year = 0 /\ changes = 0

-----------------------------------------------------------------------------
(* Requests of the user.                                                   *)

Change ==
  /\ changes < MaxChanges
  /\ changes' = changes + 1
  /\ UNCHANGED <<wk, year>>

(* UpsertAddressObject, for a card with the given dates, from REST, a PUT  *)
(* or an import; DeleteAddressObject leaves a card without dates here.     *)
UpsertAddressObject(c, dates) ==
  /\ dates # db.cards[c]
  /\ Change
  /\ db' = [db EXCEPT !.cards[c] = dates]

SaveImportantDates(on, kinds) ==
  /\ <<on, kinds>> # <<db.on, db.kinds>>
  /\ Change
  /\ db' = [db EXCEPT !.on = on, !.kinds = kinds]

NewYear ==
  /\ year < MaxYear /\ changes < MaxChanges
  /\ year' = year + 1 /\ changes' = changes + 1
  /\ UNCHANGED <<db, wk>>

-----------------------------------------------------------------------------
(* The tick, statement by statement.  up says that its process runs.       *)

Goto(pc) == wk' = [wk EXCEPT !.pc = pc]
Quiet == UNCHANGED <<db, year, changes>>

(* importantICS: the entry of contact c.  The year it begins in is the     *)
(* current one.                                                            *)
importantICS(c, k, date) == [uid |-> UidOf[c], date |-> MonthDay[date], year |-> year]

(* What the worker makes entries of: the dates that have month and day.    *)
Items(cards, kinds) ==
  {i \in Contact \X kinds : cards[i[1]][i[2]] # None /\ MonthDay[cards[i[1]][i[2]]] # None}

tick ==
  /\ wk.pc = "idle"
  /\ Goto("settings")
  /\ Quiet

GetImportantDates ==
  /\ wk.pc = "settings"
  /\ wk' = [wk EXCEPT !.pc = IF db.on THEN "ensure" ELSE "clear",
                      !.on = db.on, !.kinds = db.kinds]
  /\ Quiet

(* The dates are off: CalendarBySlug finds no calendar, or all of its      *)
(* entries are deleted.                                                    *)
DeleteCalendarObjectsByPrefix ==
  /\ wk.pc = "clear"
  /\ db' = [db EXCEPT !.entries = [h \in Href |-> None]]
  /\ Goto("backup")
  /\ UNCHANGED <<year, changes>>

(* Mutant: the calendar is taken to be there.                              *)
EnsureNothing ==
  /\ wk.pc = "ensure"
  /\ Goto("contacts")
  /\ Quiet

EnsureCalendar ==
  /\ wk.pc = "ensure"
  /\ db' = [db EXCEPT !.cal = TRUE]
  /\ Goto("contacts")
  /\ UNCHANGED <<year, changes>>

ContactsWithDates ==
  /\ wk.pc = "contacts"
  /\ wk' = [wk EXCEPT !.pc = "refs", !.cards = db.cards]
  /\ Quiet

ListCalendarObjectRefs ==
  /\ wk.pc = "refs"
  /\ wk' = [wk EXCEPT !.pc = "apply", !.have = db.entries, !.todo = Items(wk.cards, wk.kinds)]
  /\ Quiet

(* Mutant: an entry that is there is not compared.                         *)
upsertNew(c, k) ==
  LET h == HrefOf(c, k)  e == importantICS(c, k, wk.cards[c][k]) IN
  /\ wk.pc = "apply" /\ <<c, k>> \in wk.todo
  /\ db' = IF wk.have[h] # None THEN db ELSE [db EXCEPT !.entries[h] = e]
  /\ wk' = [wk EXCEPT !.todo = @ \ {<<c, k>>}, !.want = @ \cup {h}]
  /\ UNCHANGED <<year, changes>>

(* upsertDay: the entry is written when it is not what was listed.         *)
upsertDay(c, k) ==
  LET h == HrefOf(c, k)  e == importantICS(c, k, wk.cards[c][k]) IN
  /\ wk.pc = "apply" /\ <<c, k>> \in wk.todo
  /\ db' = IF wk.have[h] = e THEN db ELSE [db EXCEPT !.entries[h] = e]
  /\ wk' = [wk EXCEPT !.todo = @ \ {<<c, k>>}, !.want = @ \cup {h}]
  /\ UNCHANGED <<year, changes>>

(* The entries to be deleted: listed, and of no contact's date.            *)
Unwanted == {h \in Href : wk.have[h] # None} \ wk.want

DeleteCalendarObject(h) ==
  /\ wk.pc = "apply" /\ wk.todo = {} /\ h \in Unwanted
  /\ db' = [db EXCEPT !.entries[h] = None]
  /\ wk' = [wk EXCEPT !.want = @ \cup {h}]
  /\ UNCHANGED <<year, changes>>

Applied ==
  /\ wk.pc = "apply" /\ wk.todo = {} /\ Unwanted = {}
  /\ wk' = [Idle EXCEPT !.pc = "backup"]
  /\ Quiet

(* A statement of syncImportantDates fails, or its two minutes are over.   *)
SyncFails ==
  /\ wk.pc \notin {"idle", "backup"} /\ changes < MaxChanges
  /\ changes' = changes + 1
  /\ wk' = [Idle EXCEPT !.pc = "backup"]
  /\ UNCHANGED <<db, year>>

Sync ==
  \/ tick \/ GetImportantDates \/ DeleteCalendarObjectsByPrefix \/ EnsureCalendar
  \/ ContactsWithDates \/ ListCalendarObjectRefs
  \/ \E c \in Contact, k \in Kind : upsertDay(c, k)
  \/ \E h \in Href : DeleteCalendarObject(h)
  \/ Applied

UserRequest ==
  \/ \E c \in Contact, dates \in [Kind -> Date \cup {None}] : UpsertAddressObject(c, dates)
  \/ \E on \in BOOLEAN, kinds \in SUBSET Kind : SaveImportantDates(on, kinds)

-----------------------------------------------------------------------------
Entry == [uid : Uid, date : {MonthDay[d] : d \in Date} \ {None}, year : 0..MaxYear]
Db == [user : BOOLEAN, cards : [Contact -> [Kind -> Date \cup {None}]], on : BOOLEAN, kinds : SUBSET Kind,
       cal : BOOLEAN, entries : [Href -> Entry \cup {None}]]

(* The tables and the worker's locals have their types, and there are no   *)
(* entries without the calendar.                                           *)
DatesTypeOK ==
  /\ db \in Db
  /\ ~db.cal => db.entries = Blank.entries
  /\ wk.pc \in {"idle", "settings", "clear", "ensure", "contacts", "refs", "apply", "backup"}
  /\ wk.kinds \subseteq Kind /\ wk.todo \subseteq Contact \X Kind /\ wk.want \subseteq Href
  /\ wk.have \in [Href -> Entry \cup {None}]
  /\ year \in 0..MaxYear /\ changes \in 0..MaxChanges

(* The items that share their entry's name with no other contact's.        *)
Alone(c, k) ==
  \A d \in Contact : HrefOf(d, k) = HrefOf(c, k) /\ <<d, k>> \in Items(db.cards, db.kinds) => d = c

(* The entries are the dates of the contacts: every date that has an entry *)
(* name to itself is in it, for this year, and no other entry is there;    *)
(* nothing at all when the dates are off.                                  *)
Converged ==
  IF ~db.on THEN \A h \in Href : db.entries[h] = None
  ELSE LET items == Items(db.cards, db.kinds) IN
       /\ \A i \in items : Alone(i[1], i[2]) =>
            db.entries[HrefOf(i[1], i[2])] = importantICS(i[1], i[2], db.cards[i[1]][i[2]])
       /\ \A h \in Href : db.entries[h] # None => \E i \in items : HrefOf(i[1], i[2]) = h
=============================================================================
