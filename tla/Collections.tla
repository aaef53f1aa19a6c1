---------------------------- MODULE Collections ----------------------------
(***************************************************************************)
(* The calendars of the users of dCalCon, who may open them and under      *)
(* which public links: the tables calendars, calendar_shares and           *)
(* webcal_tokens, the objects that hang on a calendar, and the REST and    *)
(* DAV requests on them.                                                   *)
(*                                                                         *)
(* A table is a set of records.  One SQL statement is one action, and a    *)
(* request is a sequence of them that may stop after any (Abandon).  A     *)
(* calendar's id is an AUTOINCREMENT column: here the owner, the slug and  *)
(* how often the owner has used that slug, so an id is never used again.   *)
(***************************************************************************)
EXTENDS Naturals, FiniteSets

CONSTANTS
  User,        \* accounts
  Setup,       \* the accounts that exist, with their defaults, at the start
  Slug,        \* the collection names that clients choose
  Handler,     \* requests in progress
  None,
  MaxGen,      \* bound on how often a user creates one slug
  MaxTokens,   \* bound on public links ever created
  MaxRequests  \* bound on requests

ASSUME SetupAssumption == Setup \subseteq User
ASSUME NoneAssumption == None \notin User \cup Slug \cup Nat \cup {"owner", "read", "write"}
ASSUME BoundAssumption ==
  MaxGen \in Nat \ {0} /\ MaxTokens \in Nat /\ MaxRequests \in Nat

VARIABLES
  users,     \* the table users
  calendars, \* the table calendars: records [id, kind, meta]
  made,      \* sqlite_sequence: how often a user has created a slug
  shares,    \* calendar_shares: [cal, user, access]
  feeds,     \* webcal_tokens: [cal, token]
  tokens,    \* how many public links were created
  objects,   \* calendars that hold the object the requests write
  requests,  \* how many requests have started
  hd,        \* locals of each request
  late,      \* history: requests whose access ended after it was checked
  raced,     \* history: users who deleted a calendar on an outdated count
  cut,       \* history: users whose creation stopped half way
  lent       \* history: calendars renamed by a user they are shared with

vars == <<users, calendars, made, shares, feeds, tokens, objects, requests,
          hd, late, raced, cut, lent>>

DefaultSlugs == {"personal", "inbox", "outbox", "important-dates"}
AnySlug == Slug \cup DefaultSlugs
CalId == User \X AnySlug \X (1..MaxGen)
Access == {"read", "write"}
Grant == [user : User, access : Access]

Owner(id) == id[1]
Row(id) == CHOOSE r \in calendars : r.id = id
Exists(id) == \E r \in calendars : r.id = id
SharesOf(id) == {[user |-> s.user, access |-> s.access] :
                   s \in {t \in shares : t.cal = id}}

Idle == [pc |-> "idle", user |-> None, cal |-> None, slug |-> None,
         kind |-> None, asked |-> {}, want |-> {}, todo |-> {},
         acl |-> FALSE, clean |-> FALSE]

Defaults(u) ==
  {[id |-> <<u, k, 1>>, kind |-> k, meta |-> u] : k \in {"personal", "inbox", "outbox"}}

Init ==
  /\ users = Setup
  /\ calendars = UNION {Defaults(u) : u \in Setup}
  /\ made = [u \in User |-> [s \in AnySlug |->
               IF u \in Setup /\ s \in {"personal", "inbox", "outbox"} THEN 1 ELSE 0]]
  /\ shares = {} /\ feeds = {} /\ objects = {}
  /\ tokens = 0 /\ requests = 0
  /\ hd = [w \in Handler |-> Idle]
  /\ late = {} /\ raced = {} /\ cut = {} /\ lent = {}

-----------------------------------------------------------------------------
(* What a user sees of a calendar.                                         *)

(* CalendarByID and CalendarBySlug: the own row, or one shared with u.     *)
(* Inboxes and outboxes are never opened through a share.                  *)
AccessOf(u, id) ==
  IF ~Exists(id) THEN None
  ELSE IF Owner(id) = u THEN "owner"
  ELSE LET s == {t \in shares : t.cal = id /\ t.user = u}
       IN  IF s = {} \/ Row(id).kind \in {"inbox", "outbox"} THEN None
           ELSE (CHOOSE t \in s : TRUE).access

IsOwner(u, id) == AccessOf(u, id) = "owner"

(* Calendar.CanWrite, for the REST handlers.                               *)
CanWrite(u, id) ==
  AccessOf(u, id) \in {"owner", "write"} /\ Row(id).kind = "personal"

(* calendarWriteError, for PUT and DELETE: DAV clients may also clear      *)
(* their inbox and fill their outbox.                                      *)
DavMayWrite(u, id, del) ==
  \/ CanWrite(u, id)
  \/ AccessOf(u, id) = "owner" /\ Row(id).kind = "outbox"
  \/ AccessOf(u, id) = "owner" /\ Row(id).kind = "inbox" /\ del

-----------------------------------------------------------------------------
(* Requests and their end.                                                 *)

Start(w, locals) ==
  /\ hd[w].pc = "idle" /\ requests < MaxRequests
  /\ requests' = requests + 1
  /\ hd' = [hd EXCEPT ![w] = locals]

End(w) == hd' = [hd EXCEPT ![w] = Idle]
Goto(w, pc) == hd' = [hd EXCEPT ![w].pc = pc]

(* The end of request w, where what the requests in S have listed or       *)
(* counted is noted as outdated.                                           *)
EndNoting(w, S) ==
  hd' = [v \in Handler |-> IF v = w THEN Idle
                           ELSE IF v \in S THEN [hd[v] EXCEPT !.clean = FALSE]
                           ELSE hd[v]]

tables == <<users, calendars, made, shares, feeds, tokens, objects>>
history == <<late, raced, cut, lent>>

(* The requests that have checked the access of user u to calendar id and  *)
(* are about to use it; and the ACL requests on that calendar.             *)
UsingPc == {"read", "put", "remove", "meta", "proppatch"}
Using(u, id) == {w \in Handler : hd[w].pc \in UsingPc /\ hd[w].user = u /\ hd[w].cal = id}
AclOf(id) == {w \in Handler : hd[w].acl /\ hd[w].cal = id}

-----------------------------------------------------------------------------
(* Accounts and their defaults.                                            *)

(* The statement INSERT INTO calendars, with UNIQUE (user_id, slug).       *)
Taken(u, s) == \E r \in calendars : r.id[1] = u /\ r.id[2] = s
Insert(u, s, k) ==
  /\ calendars' = calendars \cup {[id |-> <<u, s, made[u][s] + 1>>, kind |-> k, meta |-> u]}
  /\ made' = [made EXCEPT ![u][s] = @ + 1]

(* CreateUser: the account's row.                                          *)
CreateUser(w, u) ==
  /\ u \notin users
  /\ Start(w, [Idle EXCEPT !.pc = "personal", !.user = u])
  /\ users' = users \cup {u}
  /\ UNCHANGED <<calendars, made, shares, feeds, tokens, objects, history>>

NextDefault == [personal |-> "inbox", inbox |-> "outbox", outbox |-> "idle"]

(* ProvisionUserDefaults and EnsureSchedulingCollections, one INSERT OR    *)
(* IGNORE at a time.  The address books and the settings it creates as     *)
(* well are in no table of this module.                                    *)
ProvisionUserDefaults(w) ==
  /\ hd[w].pc \in {"personal", "inbox", "outbox"}
  /\ LET s == hd[w].pc IN
       IF Taken(hd[w].user, s) THEN UNCHANGED <<calendars, made>>
       ELSE made[hd[w].user][s] < MaxGen /\ Insert(hd[w].user, s, s)
  /\ IF hd[w].pc = "outbox" THEN End(w) ELSE Goto(w, NextDefault[hd[w].pc])
  /\ UNCHANGED <<users, shares, feeds, tokens, objects, requests, history>>

(* A PROPFIND of the principal, or an invitation, ensures the inbox and    *)
(* the outbox again; nothing ensures the personal calendar.                *)
EnsureSchedulingCollections(w, u) ==
  /\ u \in users
  /\ Start(w, [Idle EXCEPT !.pc = "inbox", !.user = u])
  /\ UNCHANGED <<tables, history>>

-----------------------------------------------------------------------------
(* Creation, change and deletion of calendars.                             *)

(* MKCALENDAR and EnsureCalendar look the slug up first; the REST handler  *)
(* and the CalDAV backend insert at once.  The worker's EnsureCalendar is  *)
(* the one that creates a calendar of important dates.                     *)
createCalendar(w, u, s) ==
  /\ u \in users /\ made[u][s] < MaxGen
  /\ Start(w, [Idle EXCEPT !.pc = "insert", !.user = u, !.slug = s, !.kind = "personal"])
  /\ UNCHANGED <<tables, history>>

handleMkCalendar(w, u, s) == ~Taken(u, s) /\ createCalendar(w, u, s)

(* Mutant: the slug is taken for the kind.                                 *)
EnsureKindFromSlug(w, u) ==
  /\ u \in users /\ ~Taken(u, "important-dates") /\ made[u]["important-dates"] < MaxGen
  /\ Start(w, [Idle EXCEPT !.pc = "insert", !.user = u, !.slug = "important-dates",
                           !.kind = "important-dates"])
  /\ UNCHANGED <<tables, history>>

(* The worker's EnsureCalendar looks the slug up and inserts later.        *)
EnsureCalendar(w, u) ==
  /\ u \in users /\ ~Taken(u, "important-dates") /\ made[u]["important-dates"] < MaxGen
  /\ Start(w, [Idle EXCEPT !.pc = "insert", !.user = u, !.slug = "important-dates",
                           !.kind = "important_dates"])
  /\ UNCHANGED <<tables, history>>

(* The insert of CreateCalendar: ErrConflict when the slug is taken.       *)
CreateCalendar(w) ==
  /\ hd[w].pc = "insert"
  /\ IF Taken(hd[w].user, hd[w].slug) THEN UNCHANGED <<calendars, made>>
     ELSE made[hd[w].user][hd[w].slug] < MaxGen /\ Insert(hd[w].user, hd[w].slug, hd[w].kind)
  /\ End(w)
  /\ UNCHANGED <<users, shares, feeds, tokens, objects, requests, history>>

(* Mutant: REST renames whatever the id opens, a share included.           *)
AnyAccessRenames(w, u, id) ==
  /\ u \in users /\ AccessOf(u, id) # None /\ Row(id).kind = "personal"
  /\ Start(w, [Idle EXCEPT !.pc = "meta", !.user = u, !.cal = id])
  /\ UNCHANGED <<tables, history>>

(* The rename over REST: "only the owner can rename this calendar".        *)
patchCalendar(w, u, id) ==
  /\ u \in users /\ IsOwner(u, id) /\ Row(id).kind = "personal"
  /\ Start(w, [Idle EXCEPT !.pc = "meta", !.user = u, !.cal = id])
  /\ UNCHANGED <<tables, history>>

(* PROPPATCH of a name or a colour asks neither for the owner nor for an   *)
(* access to write: PatchCalendar takes whatever the slug opens, and so a  *)
(* share for reading and a calendar of the server's own as well.           *)
handlePropPatch(w, u, id) ==
  /\ u \in users /\ AccessOf(u, id) # None
  /\ Start(w, [Idle EXCEPT !.pc = "proppatch", !.user = u, !.cal = id])
  /\ UNCHANGED <<tables, history>>

(* writeCalendarMeta; meta is the author of name, description and colour.  *)
writeCalendarMeta(w) ==
  /\ hd[w].pc \in {"meta", "proppatch"}
  /\ calendars' = {IF r.id = hd[w].cal THEN [r EXCEPT !.meta = hd[w].user] ELSE r :
                     r \in calendars}
  /\ lent' = IF hd[w].pc = "proppatch" /\ hd[w].user # Owner(hd[w].cal)
             THEN lent \cup {hd[w].cal} ELSE lent
  /\ End(w) /\ late' = late \ {w}
  /\ UNCHANGED <<users, made, shares, feeds, tokens, objects, requests, raced, cut>>

deleteCalendar(w, u, id) ==
  /\ u \in users /\ IsOwner(u, id) /\ Row(id).kind = "personal"
  /\ Start(w, [Idle EXCEPT !.pc = "count", !.user = u, !.cal = id])
  /\ UNCHANGED <<tables, history>>

Personal(u) == {r \in calendars : Owner(r.id) = u /\ r.kind = "personal"}

Counted(w) == hd' = [hd EXCEPT ![w].pc = "drop", ![w].clean = TRUE]

(* Mutant: the calendar to be deleted is allowed to be the last one.       *)
CountZero(w) ==
  /\ hd[w].pc = "count"
  /\ IF Cardinality(Personal(hd[w].user)) < 1 THEN End(w) ELSE Counted(w)
  /\ UNCHANGED <<tables, requests, history>>

(* CountPersonalCalendars: the last one is kept.                           *)
CountPersonalCalendars(w) ==
  /\ hd[w].pc = "count"
  /\ IF Cardinality(Personal(hd[w].user)) <= 1 THEN End(w) ELSE Counted(w)
  /\ UNCHANGED <<tables, requests, history>>

(* DeleteCalendar, with ON DELETE CASCADE over the tables that refer to    *)
(* the calendar.                                                           *)
DeleteCalendar(w) ==
  LET id == hd[w].cal IN
  /\ hd[w].pc = "drop"
  /\ calendars' = {r \in calendars : r.id # id}
  /\ shares' = {s \in shares : s.cal # id}
  /\ feeds' = {f \in feeds : f.cal # id}
  /\ objects' = objects \ {id}
  /\ raced' = IF hd[w].clean THEN raced ELSE raced \cup {hd[w].user}
  /\ late' = (late \cup UNION {Using(u, id) : u \in User}) \ {w}
  /\ EndNoting(w, AclOf(id) \cup {v \in Handler : hd[v].pc = "drop" /\ hd[v].user = hd[w].user})
  /\ UNCHANGED <<users, made, tokens, requests, cut, lent>>

-----------------------------------------------------------------------------
(* Shares.                                                                 *)

(* createShare refuses the collections the server keeps for itself.        *)
Shareable(u, id) ==
  u \in users /\ IsOwner(u, id) /\ Row(id).kind \notin {"inbox", "outbox", "important_dates"}

createShare(w, u, id, g) ==
  /\ Shareable(u, id) /\ g.user \in users \ {u}
  /\ Start(w, [Idle EXCEPT !.pc = "grant", !.user = u, !.cal = id, !.want = {g}])
  /\ UNCHANGED <<tables, history>>

deleteShare(w, u, id, g) ==
  /\ u \in users /\ IsOwner(u, id)
  /\ Start(w, [Idle EXCEPT !.pc = "revoke", !.user = u, !.cal = id, !.todo = {g}])
  /\ UNCHANGED <<tables, history>>

(* ACL, up to the grants it names (parseACLBody): at most one per user,    *)
(* none for the owner or for unknown users.                                *)
handleACL(w, u, id, grants) ==
  /\ u \in users /\ IsOwner(u, id) /\ Row(id).kind = "personal"
  /\ \A g, h \in grants : g.user = h.user => g = h
  /\ Start(w, [Idle EXCEPT !.pc = "list", !.user = u, !.cal = id, !.acl = TRUE,
                           !.asked = grants, !.want = grants])
  /\ UNCHANGED <<tables, history>>

(* Mutant: only the shares for reading are listed.                         *)
ListReadShares(w) ==
  /\ hd[w].pc = "list"
  /\ hd' = [hd EXCEPT ![w].pc = "revoke", ![w].clean = TRUE,
       ![w].todo = {s.user : s \in {t \in SharesOf(hd[w].cal) : t.access = "read"}}
                     \ {g.user : g \in hd[w].asked}]
  /\ UNCHANGED <<tables, requests, history>>

(* ReplaceShares: the shares as they are, less the ones asked for, are to  *)
(* be deleted.                                                             *)
ReplaceShares(w) ==
  /\ hd[w].pc = "list"
  /\ hd' = [hd EXCEPT ![w].pc = "revoke", ![w].clean = TRUE,
       ![w].todo = {s.user : s \in SharesOf(hd[w].cal)} \ {g.user : g \in hd[w].asked}]
  /\ UNCHANGED <<tables, requests, history>>

(* One DeleteShare.  A share that is no longer there is no error to ACL.   *)
DeleteShare(w, u) ==
  LET id == hd[w].cal IN
  /\ hd[w].pc = "revoke" /\ u \in hd[w].todo
  /\ shares' = {s \in shares : s.cal # id \/ s.user # u}
  /\ late' = IF \E s \in SharesOf(id) : s.user = u THEN late \cup Using(u, id) ELSE late
  /\ hd' = [v \in Handler |->
              IF v = w THEN IF hd[w].acl THEN [hd[w] EXCEPT !.todo = @ \ {u}] ELSE Idle
              ELSE IF v \in AclOf(id) THEN [hd[v] EXCEPT !.clean = FALSE] ELSE hd[v]]
  /\ UNCHANGED <<users, calendars, made, feeds, tokens, objects, requests, raced, cut, lent>>

Revoked(w) ==
  /\ hd[w].pc = "revoke" /\ hd[w].todo = {}
  /\ Goto(w, "grant")
  /\ UNCHANGED <<tables, requests, history>>

(* Mutant: PRAGMA foreign_keys is off.                                     *)
ForeignKeyOff(id) == TRUE

(* PRAGMA foreign_keys is on: a row that refers to a calendar needs it.    *)
ForeignKey(id) == Exists(id)

(* One UpsertShare.  Without the calendar its foreign key fails and the    *)
(* request ends.  A share for reading ends what a share for writing gave.  *)
UpsertShare(w, g) ==
  LET id == hd[w].cal IN
  /\ hd[w].pc = "grant" /\ g \in hd[w].want
  /\ IF ~ForeignKey(id) THEN End(w) /\ UNCHANGED <<shares, late>>
     ELSE /\ shares' = {s \in shares : s.cal # id \/ s.user # g.user}
                         \cup {[cal |-> id, user |-> g.user, access |-> g.access]}
          /\ late' = IF g.access = "write" THEN late
                     ELSE late \cup {v \in Using(g.user, id) : hd[v].pc \in {"put", "remove"}}
          /\ hd' = [v \in Handler |->
                      IF v = w THEN IF hd[w].acl THEN [hd[w] EXCEPT !.want = @ \ {g}] ELSE Idle
                      ELSE IF v \in AclOf(id) THEN [hd[v] EXCEPT !.clean = FALSE] ELSE hd[v]]
  /\ UNCHANGED <<users, calendars, made, feeds, tokens, objects, requests, raced, cut, lent>>

(* The end of ReplaceShares: bumpCalendar.                                 *)
Granted(w) ==
  /\ hd[w].pc = "grant" /\ hd[w].want = {} /\ hd[w].acl
  /\ End(w)
  /\ UNCHANGED <<tables, requests, history>>

-----------------------------------------------------------------------------
(* Public links.                                                           *)

(* personalOwnedCalendar, then rotate or delete.                           *)
webcalRequest(w, u, id, pc) ==
  /\ u \in users /\ IsOwner(u, id) /\ Row(id).kind = "personal"
  /\ Start(w, [Idle EXCEPT !.pc = pc, !.user = u, !.cal = id])
  /\ UNCHANGED <<tables, history>>

rotateWebcal(w, u, id) == tokens < MaxTokens /\ webcalRequest(w, u, id, "rotate")
deleteWebcal(w, u, id) == webcalRequest(w, u, id, "unlink")

(* RotateWebcal: one row per calendar, so the link before it is gone.      *)
RotateWebcal(w) ==
  LET id == hd[w].cal IN
  /\ hd[w].pc = "rotate" /\ tokens < MaxTokens
  /\ feeds' = IF ForeignKey(id)
              THEN {f \in feeds : f.cal # id} \cup {[cal |-> id, token |-> tokens + 1]}
              ELSE feeds
  /\ tokens' = tokens + 1
  /\ End(w)
  /\ UNCHANGED <<users, calendars, made, shares, objects, requests, history>>

DeleteWebcal(w) ==
  /\ hd[w].pc = "unlink"
  /\ feeds' = {f \in feeds : f.cal # hd[w].cal}
  /\ End(w)
  /\ UNCHANGED <<users, calendars, made, shares, tokens, objects, requests, history>>

(* ServeWebcal finds the calendar of a link, and lists it afterwards.      *)
ServeWebcal(w, f) ==
  /\ f \in feeds
  /\ Start(w, [Idle EXCEPT !.pc = "feed", !.cal = f.cal])
  /\ UNCHANGED <<tables, history>>

-----------------------------------------------------------------------------
(* Objects: the calendar is opened and the access checked in one           *)
(* statement, and the object read or written in a later one.               *)

calendarFor(w, u, id) ==
  /\ u \in users /\ AccessOf(u, id) # None
  /\ Start(w, [Idle EXCEPT !.pc = "read", !.user = u, !.cal = id])
  /\ UNCHANGED <<tables, history>>

calendarWritable(w, u, id, del) ==
  /\ u \in users /\ DavMayWrite(u, id, del)
  /\ Start(w, [Idle EXCEPT !.pc = IF del THEN "remove" ELSE "put", !.user = u, !.cal = id])
  /\ UNCHANGED <<tables, history>>

ReadObjects(w) ==
  /\ hd[w].pc \in {"read", "feed"}
  /\ End(w) /\ late' = late \ {w}
  /\ UNCHANGED <<tables, requests, raced, cut, lent>>

(* The upsert or the deletion of an object (module DavCollection has its   *)
(* statements one by one).                                                 *)
WriteObject(w) ==
  /\ hd[w].pc \in {"put", "remove"}
  /\ objects' = IF hd[w].pc = "remove" THEN objects \ {hd[w].cal}
                ELSE IF ForeignKey(hd[w].cal) THEN objects \cup {hd[w].cal} ELSE objects
  /\ End(w) /\ late' = late \ {w}
  /\ UNCHANGED <<users, calendars, made, shares, feeds, tokens, requests, raced, cut, lent>>

(* A request ends early: cancelled, a statement failed, the process died.  *)
Abandon(w) ==
  /\ hd[w].pc # "idle"
  /\ End(w)
  /\ late' = late \ {w}
  /\ cut' = IF hd[w].pc = "personal" THEN cut \cup {hd[w].user} ELSE cut
  /\ UNCHANGED <<tables, requests, raced, lent>>

-----------------------------------------------------------------------------
Request(w) ==
  /\ hd[w].pc = "idle"
  /\ \E u \in User :
    \/ CreateUser(w, u) \/ EnsureSchedulingCollections(w, u) \/ EnsureCalendar(w, u)
    \/ \E s \in Slug : createCalendar(w, u, s) \/ handleMkCalendar(w, u, s)
    \/ \E r \in calendars :
         \/ patchCalendar(w, u, r.id) \/ handlePropPatch(w, u, r.id)
         \/ deleteCalendar(w, u, r.id)
         \/ \E g \in Grant : createShare(w, u, r.id, g)
         \/ \E g \in User : deleteShare(w, u, r.id, g)
         \/ \E grants \in SUBSET [user : users \ {u}, access : Access] : handleACL(w, u, r.id, grants)
         \/ rotateWebcal(w, u, r.id) \/ deleteWebcal(w, u, r.id)
         \/ calendarFor(w, u, r.id)
         \/ \E del \in BOOLEAN : calendarWritable(w, u, r.id, del)
    \/ \E f \in feeds : ServeWebcal(w, f)

Step(w) ==
  \/ ProvisionUserDefaults(w) \/ CreateCalendar(w) \/ writeCalendarMeta(w)
  \/ CountPersonalCalendars(w) \/ DeleteCalendar(w)
  \/ ReplaceShares(w) \/ Revoked(w) \/ Granted(w)
  \/ \E u \in User : DeleteShare(w, u)
  \/ \E g \in Grant : UpsertShare(w, g)
  \/ RotateWebcal(w) \/ DeleteWebcal(w) \/ ReadObjects(w) \/ WriteObject(w)

Next == \E w \in Handler : Request(w) \/ Step(w) \/ Abandon(w)

Spec == Init /\ [][Next]_vars

-----------------------------------------------------------------------------
(* Properties.                                                             *)

Pc == {"idle", "personal", "inbox", "outbox", "insert", "meta", "proppatch", "count",
       "drop", "list", "revoke", "grant", "rotate", "unlink", "feed", "read", "put", "remove"}

Locals ==
  [pc : Pc, user : User \cup {None}, cal : CalId \cup {None}, slug : AnySlug \cup {None},
   kind : {"personal", "important_dates", None}, asked : SUBSET Grant,
   want : SUBSET Grant, todo : SUBSET User, acl : BOOLEAN, clean : BOOLEAN]

(* Every table and every local has its type.                               *)
TypeOK ==
  /\ users \subseteq User
  /\ calendars \subseteq
       [id : CalId, kind : {"personal", "inbox", "outbox", "important_dates"}, meta : User]
  /\ made \in [User -> [AnySlug -> 0..MaxGen]]
  /\ shares \subseteq [cal : CalId, user : User, access : Access]
  /\ feeds \subseteq [cal : CalId, token : Nat]
  /\ tokens \in Nat /\ requests \in Nat
  /\ objects \subseteq CalId
  /\ hd \in [Handler -> Locals]
  /\ late \subseteq Handler /\ raced \subseteq User /\ cut \subseteq User
  /\ lent \subseteq CalId

(* "keep at least one personal calendar": every account has one, except    *)
(* while it is created, when its creation stopped before the insert, or    *)
(* when two deletions counted before either deleted.                       *)
HasPersonal ==
  \A u \in users :
    \/ Personal(u) # {}
    \/ u \in raced \cup cut
    \/ \E w \in Handler : hd[w].user = u /\ hd[w].pc = "personal"

(* No share, public link or object outlives its calendar, although the     *)
(* requests that add them have looked at the calendar earlier; and no two  *)
(* calendars of a user answer to one slug, although creation looks first   *)
(* and inserts later.                                                      *)
NothingOutlivesCalendar ==
  /\ {s.cal : s \in shares} \cup {f.cal : f \in feeds} \cup objects
       \subseteq {r.id : r \in calendars}
  /\ \A r, q \in calendars : r.id[1] = q.id[1] /\ r.id[2] = q.id[2] => r = q

(* A request has the access it needs at the moment it uses it, unless that *)
(* access ended after the check: any to read objects, write to put or      *)
(* delete them, and to rename over REST the owner's ("only the owner can   *)
(* rename this calendar").  PROPPATCH takes any access: a calendar's name, *)
(* description and colour are its owner's, unless a PROPPATCH of a user it *)
(* is shared with, for reading too, has written them.                      *)
GrantsHold ==
  /\ \A w \in Handler :
       LET a == AccessOf(hd[w].user, hd[w].cal) IN
       /\ hd[w].pc \in {"read", "proppatch"} => a # None \/ w \in late
       /\ hd[w].pc \in {"put", "remove"} => a \in {"owner", "write"} \/ w \in late
       /\ hd[w].pc = "meta" => a = "owner" \/ w \in late
  /\ \A r \in calendars : r.meta = Owner(r.id) \/ r.id \in lent

(* When ACL has deleted and added what it meant to, the calendar's shares  *)
(* are the ones the request named, unless another request changed them     *)
(* since they were listed.                                                 *)
AclExact ==
  \A w \in Handler :
    hd[w].pc = "grant" /\ hd[w].acl /\ hd[w].want = {} /\ hd[w].clean =>
      SharesOf(hd[w].cal) = hd[w].asked
=============================================================================
