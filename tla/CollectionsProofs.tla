-------------------------- MODULE CollectionsProofs --------------------------
(***************************************************************************)
(* Proofs about Collections for any number of users, slugs, calendars and  *)
(* overlapping requests.                                                   *)
(***************************************************************************)
EXTENDS Collections, FiniteSetTheorems, TLAPS

CalRow == [id : CalId, kind : {"personal", "inbox", "outbox", "important_dates"}, meta : User]
ShareRow == [cal : CalId, user : User, access : Access]

(* The tables: their types, and the keys that the database keeps.          *)
StoreOK ==
  /\ users \subseteq User
  /\ calendars \subseteq CalRow
  /\ made \in [User -> [AnySlug -> 0..MaxGen]]
  /\ shares \subseteq ShareRow
  /\ feeds \subseteq [cal : CalId, token : Nat]
  /\ tokens \in Nat /\ requests \in Nat
  /\ objects \subseteq CalId
  /\ late \subseteq Handler /\ raced \subseteq User /\ cut \subseteq User /\ lent \subseteq CalId
  /\ NothingOutlivesCalendar
  /\ \A s, t \in shares : s.cal = t.cal /\ s.user = t.user => s = t
  /\ \A r \in calendars : r.id[2] = "personal" => r.kind = "personal"

CalPc == {"meta", "proppatch", "count", "drop", "list", "revoke", "grant", "rotate", "unlink",
          "feed", "read", "put", "remove"}

(* What each place of a request implies about its locals.                  *)
LocalOK(h) ==
  /\ h \in Locals
  /\ h.pc \in {"personal", "inbox", "outbox"} => h.user \in User
  /\ h.pc = "insert" => /\ h.user \in User /\ h.slug \in AnySlug
                        /\ h.kind \in {"personal", "important_dates"}
                        /\ h.slug = "personal" => h.kind = "personal"
  /\ h.pc \in CalPc => h.cal \in CalId
  /\ h.pc \in {"meta", "proppatch", "count", "drop", "read", "put", "remove"} => h.user \in User
  /\ h.pc \in {"meta", "count", "drop"} => Owner(h.cal) = h.user
  /\ h.acl => /\ h.pc \in {"list", "revoke", "grant"}
              /\ \A g, k \in h.asked : g.user = k.user => g = k
              /\ h.want \subseteq h.asked
              /\ h.pc \in {"list", "revoke"} => h.want = h.asked

RequestsOK ==
  /\ hd \in [Handler -> Locals]
  /\ \A w \in Handler : LocalOK(hd[w])

Inv == StoreOK /\ RequestsOK

(* The calendar exists and u is its owner, or has a share of it with an    *)
(* access out of A.                                                        *)
May(u, id, A) ==
  \E r \in calendars :
    /\ r.id = id
    /\ \/ Owner(id) = u
       \/ /\ r.kind \notin {"inbox", "outbox"}
          /\ \E t \in shares : t.cal = id /\ t.user = u /\ t.access \in A

(* The locals of a request that has just begun.                            *)
Fresh(h) ==
  /\ LocalOK(h) /\ h.clean = FALSE
  /\ h.pc \in {"read", "proppatch"} => May(h.user, h.cal, Access)
  /\ h.pc = "meta" => May(h.user, h.cal, {})
  /\ h.pc \in {"put", "remove"} => May(h.user, h.cal, {"write"})

-----------------------------------------------------------------------------
(* Calendars and access.                                                   *)

(* An id has one row.                                                      *)
LEMMA RowIs ==
  ASSUME StoreOK, NEW r \in calendars
  PROVE  Row(r.id) = r
<1>1. \A q \in calendars : q.id = r.id => q = r
  BY DEF StoreOK, NothingOutlivesCalendar
<1> QED  BY <1>1 DEF Row

(* SharesOf in terms of rows.                                              *)
LEMMA SharesOfIs ==
  ASSUME shares \subseteq ShareRow, NEW id
  PROVE  /\ \A t \in shares : t.cal = id => [user |-> t.user, access |-> t.access] \in SharesOf(id)
         /\ \A g \in SharesOf(id) : /\ g \in Grant
                                   /\ \E t \in shares : t.cal = id /\ t.user = g.user /\ t.access = g.access
<1>1. ASSUME NEW t \in shares, t.cal = id
      PROVE  [user |-> t.user, access |-> t.access] \in SharesOf(id)
  BY <1>1 DEF SharesOf
<1>2. ASSUME NEW g \in SharesOf(id)
      PROVE  /\ g \in Grant
             /\ \E t \in shares : t.cal = id /\ t.user = g.user /\ t.access = g.access
  BY <1>2 DEF SharesOf, ShareRow, Grant
<1> QED  BY <1>1, <1>2

(* AccessOf in terms of rows.                                              *)
LEMMA AccessIs ==
  ASSUME StoreOK, NEW u, NEW id
  PROVE  /\ AccessOf(u, id) = "owner" <=> Exists(id) /\ Owner(id) = u
         /\ AccessOf(u, id) = "owner" <=> May(u, id, {})
         /\ AccessOf(u, id) # None <=> May(u, id, Access)
         /\ AccessOf(u, id) \in {"owner", "write"} <=> May(u, id, {"write"})
<1> USE NoneAssumption
<1>1. CASE ~Exists(id)
  BY <1>1 DEF AccessOf, Exists, May
<1>2. CASE Exists(id) /\ Owner(id) = u
  BY <1>2 DEF AccessOf, Exists, May
<1>3. CASE Exists(id) /\ Owner(id) # u
  <2> DEFINE S == {t \in shares : t.cal = id /\ t.user = u}
  <2>1. PICK r \in calendars : r.id = id
    BY <1>3 DEF Exists
  <2>2. Row(id) = r /\ \A q \in calendars : q.id = id => q = r
    BY <2>1, RowIs DEF StoreOK, NothingOutlivesCalendar
  <2>3. CASE S = {} \/ r.kind \in {"inbox", "outbox"}
    <3>1. AccessOf(u, id) = None
      BY <1>3, <2>2, <2>3 DEF AccessOf
    <3>2. ~May(u, id, Access) /\ ~May(u, id, {"write"}) /\ ~May(u, id, {})
      BY <1>3, <2>2, <2>3 DEF May
    <3> QED  BY <1>3, <3>1, <3>2
  <2>4. CASE S # {} /\ r.kind \notin {"inbox", "outbox"}
    <3>1. PICK t \in shares : t.cal = id /\ t.user = u
      BY <2>4
    <3>2. \A s \in S : s = t
      BY <3>1 DEF StoreOK
    <3>3. (CHOOSE s \in S : TRUE) = t
      BY <3>1, <3>2
    <3>4. AccessOf(u, id) = t.access
      BY <1>3, <2>2, <2>4, <3>3 DEF AccessOf
    <3>5. t.access \in {"read", "write"}
      BY <3>1 DEF StoreOK, ShareRow, Access
    <3>6. May(u, id, Access)
      BY <2>1, <2>4, <3>1, <3>5 DEF May, Access
    <3>7. (May(u, id, {"write"}) <=> t.access = "write") /\ ~May(u, id, {})
      BY <1>3, <2>1, <2>4, <3>1, <3>2 DEF May
    <3> QED  BY <1>3, <3>4, <3>5, <3>6, <3>7
  <2> QED  BY <2>3, <2>4
<1> QED  BY <1>1, <1>2, <1>3

-----------------------------------------------------------------------------
(* Requests.                                                               *)

(* A request that is over has good locals.                                 *)
LEMMA IdleOK ==
  /\ Idle \in Locals /\ LocalOK(Idle) /\ Idle.pc = "idle"
  /\ Idle.clean = FALSE /\ Idle.acl = FALSE /\ Fresh(Idle)
BY DEF Idle, Locals, Pc, LocalOK, CalPc, Fresh

Begun(w, L) ==
  /\ hd[w].pc = "idle" /\ requests' = requests + 1 /\ hd' = [hd EXCEPT ![w] = L]
  /\ Fresh(L)
  /\ UNCHANGED <<calendars, made, shares, feeds, tokens, objects, history>>

(* A request that begins has good locals, and changes no table but users.  *)
LEMMA RequestBegins ==
  ASSUME StoreOK, NEW w \in Handler, Request(w)
  PROVE  \E L : /\ Begun(w, L)
                /\ \/ users' = users
                   \/ /\ L.pc = "personal" /\ L.user \in User
                      /\ users' = users \cup {L.user}
<1> USE DEF tables, Start, Begun, history
<1>1. PICK u \in User :
    \/ CreateUser(w, u) \/ EnsureSchedulingCollections(w, u) \/ EnsureCalendar(w, u)
    \/ \E s \in Slug : createCalendar(w, u, s) \/ handleMkCalendar(w, u, s)
    \/ \E r \in calendars :
         \/ patchCalendar(w, u, r.id) \/ handlePropPatch(w, u, r.id)
         \/ deleteCalendar(w, u, r.id)
         \/ \E g \in Grant : createShare(w, u, r.id, g)
         \/ \E g \in User : deleteShare(w, u, r.id, g)
         \/ \E grants \in SUBSET [user : users \ {u}, access : Access] : handleACL(w, u, r.id, grants)
         \/ rotateWebcal(w, u, r.id) \/ deleteWebcal(w, u, r.id)
         \/ calendarFor(w, u, r.id)
         \/ \E del \in BOOLEAN : calendarWritable(w, u, r.id, del)
    \/ \E f \in feeds : ServeWebcal(w, f)
  BY DEF Request
<1>2. CASE CreateUser(w, u)
  <2> DEFINE L == [Idle EXCEPT !.pc = "personal", !.user = u]
  <2>1. Fresh(L) /\ L.pc = "personal" /\ L.user = u
    BY DEF Idle, Locals, Pc, LocalOK, CalPc, Fresh
  <2> HIDE DEF L
  <2> QED  BY <1>2, <2>1 DEF CreateUser, L
<1>3. CASE EnsureSchedulingCollections(w, u)
  <2> DEFINE L == [Idle EXCEPT !.pc = "inbox", !.user = u]
  <2>1. Fresh(L)
    BY DEF Idle, Locals, Pc, LocalOK, CalPc, Fresh
  <2> HIDE DEF L
  <2> QED  BY <1>3, <2>1 DEF EnsureSchedulingCollections, L
<1>4. CASE EnsureCalendar(w, u)
  <2> DEFINE L == [Idle EXCEPT !.pc = "insert", !.user = u, !.slug = "important-dates",
                               !.kind = "important_dates"]
  <2>1. Fresh(L)
    BY DEF Idle, Locals, Pc, LocalOK, CalPc, Fresh, AnySlug, DefaultSlugs
  <2> HIDE DEF L
  <2> QED  BY <1>4, <2>1 DEF EnsureCalendar, L
<1>5. ASSUME NEW s \in Slug, createCalendar(w, u, s) \/ handleMkCalendar(w, u, s)
      PROVE  \E L : Begun(w, L) /\ users' = users
  <2> DEFINE L == [Idle EXCEPT !.pc = "insert", !.user = u, !.slug = s, !.kind = "personal"]
  <2>1. Fresh(L)
    BY DEF Idle, Locals, Pc, LocalOK, CalPc, Fresh, AnySlug
  <2> HIDE DEF L
  <2> QED  BY <1>5, <2>1 DEF createCalendar, handleMkCalendar, L
<1>6. ASSUME NEW f \in feeds, ServeWebcal(w, f)
      PROVE  \E L : Begun(w, L) /\ users' = users
  <2> DEFINE L == [Idle EXCEPT !.pc = "feed", !.cal = f.cal]
  <2>1. f.cal \in CalId
    BY DEF StoreOK
  <2>2. Fresh(L)
    BY <2>1 DEF Idle, Locals, Pc, LocalOK, CalPc, Fresh
  <2> HIDE DEF L
  <2> QED  BY <1>6, <2>2 DEF ServeWebcal, L
<1>7. ASSUME NEW r \in calendars, patchCalendar(w, u, r.id)
      PROVE  \E L : Begun(w, L) /\ users' = users
  <2> DEFINE L == [Idle EXCEPT !.pc = "meta", !.user = u, !.cal = r.id]
  <2>1. r.id \in CalId
    BY DEF StoreOK, CalRow
  <2>2. May(u, r.id, {}) /\ Owner(r.id) = u
    BY <1>7, AccessIs DEF patchCalendar, IsOwner
  <2>3. Fresh(L)
    BY <2>1, <2>2 DEF Idle, Locals, Pc, LocalOK, CalPc, Fresh
  <2> HIDE DEF L
  <2> QED  BY <1>7, <2>3 DEF patchCalendar, L
<1>8. ASSUME NEW r \in calendars, deleteCalendar(w, u, r.id)
      PROVE  \E L : Begun(w, L) /\ users' = users
  <2> DEFINE L == [Idle EXCEPT !.pc = "count", !.user = u, !.cal = r.id]
  <2>1. r.id \in CalId
    BY DEF StoreOK, CalRow
  <2>2. Owner(r.id) = u
    BY <1>8, AccessIs DEF deleteCalendar, IsOwner
  <2>3. Fresh(L)
    BY <2>1, <2>2 DEF Idle, Locals, Pc, LocalOK, CalPc, Fresh
  <2> HIDE DEF L
  <2> QED  BY <1>8, <2>3 DEF deleteCalendar, L
<1>9. ASSUME NEW r \in calendars, NEW g \in Grant, createShare(w, u, r.id, g)
      PROVE  \E L : Begun(w, L) /\ users' = users
  <2> DEFINE L == [Idle EXCEPT !.pc = "grant", !.user = u, !.cal = r.id, !.want = {g}]
  <2>1. r.id \in CalId
    BY DEF StoreOK, CalRow
  <2>2. Fresh(L)
    BY <2>1 DEF Idle, Locals, Pc, LocalOK, CalPc, Fresh
  <2> HIDE DEF L
  <2> QED  BY <1>9, <2>2 DEF createShare, L
<1>10. ASSUME NEW r \in calendars, NEW g \in User, deleteShare(w, u, r.id, g)
       PROVE  \E L : Begun(w, L) /\ users' = users
  <2> DEFINE L == [Idle EXCEPT !.pc = "revoke", !.user = u, !.cal = r.id, !.todo = {g}]
  <2>1. r.id \in CalId
    BY DEF StoreOK, CalRow
  <2>2. Fresh(L)
    BY <2>1 DEF Idle, Locals, Pc, LocalOK, CalPc, Fresh
  <2> HIDE DEF L
  <2> QED  BY <1>10, <2>2 DEF deleteShare, L
<1>11. ASSUME NEW r \in calendars, NEW grants \in SUBSET [user : users \ {u}, access : Access],
              handleACL(w, u, r.id, grants)
       PROVE  \E L : Begun(w, L) /\ users' = users
  <2> DEFINE L == [Idle EXCEPT !.pc = "list", !.user = u, !.cal = r.id, !.acl = TRUE,
                               !.asked = grants, !.want = grants]
  <2>1. r.id \in CalId /\ grants \subseteq Grant
    BY DEF StoreOK, CalRow, Grant
  <2>2. \A g, k \in grants : g.user = k.user => g = k
    BY <1>11 DEF handleACL
  <2>3. /\ L.pc = "list" /\ L.user = u /\ L.cal = r.id /\ L.acl = TRUE
        /\ L.asked = grants /\ L.want = grants /\ L.clean = FALSE /\ L \in Locals
    BY <2>1 DEF Idle, Locals, Pc
  <2> HIDE DEF L
  <2>4. Fresh(L)
    BY <2>1, <2>2, <2>3 DEF LocalOK, CalPc, Fresh
  <2> QED  BY <1>11, <2>4 DEF handleACL, L
<1>12. ASSUME NEW r \in calendars, rotateWebcal(w, u, r.id) \/ deleteWebcal(w, u, r.id)
       PROVE  \E L : Begun(w, L) /\ users' = users
  <2>1. r.id \in CalId
    BY DEF StoreOK, CalRow
  <2>2. PICK pc \in {"rotate", "unlink"} : webcalRequest(w, u, r.id, pc)
    BY <1>12 DEF rotateWebcal, deleteWebcal
  <2> DEFINE L == [Idle EXCEPT !.pc = pc, !.user = u, !.cal = r.id]
  <2>3. Fresh(L)
    BY <2>1 DEF Idle, Locals, Pc, LocalOK, CalPc, Fresh
  <2> HIDE DEF L
  <2> QED  BY <2>2, <2>3 DEF webcalRequest, L
<1>13. ASSUME NEW r \in calendars, calendarFor(w, u, r.id)
       PROVE  \E L : Begun(w, L) /\ users' = users
  <2> DEFINE L == [Idle EXCEPT !.pc = "read", !.user = u, !.cal = r.id]
  <2>1. r.id \in CalId
    BY DEF StoreOK, CalRow
  <2>2. May(u, r.id, Access)
    BY <1>13, AccessIs DEF calendarFor
  <2>3. Fresh(L)
    BY <2>1, <2>2 DEF Idle, Locals, Pc, LocalOK, CalPc, Fresh
  <2> HIDE DEF L
  <2> QED  BY <1>13, <2>3 DEF calendarFor, L
<1>14. ASSUME NEW r \in calendars, NEW del \in BOOLEAN, calendarWritable(w, u, r.id, del)
       PROVE  \E L : Begun(w, L) /\ users' = users
  <2>1. PICK pc \in {"put", "remove"} : pc = IF del THEN "remove" ELSE "put"
    OBVIOUS
  <2> DEFINE L == [Idle EXCEPT !.pc = pc, !.user = u, !.cal = r.id]
  <2>2. r.id \in CalId
    BY DEF StoreOK, CalRow
  <2>3. AccessOf(u, r.id) \in {"owner", "write"}
    BY <1>14 DEF calendarWritable, DavMayWrite, CanWrite
  <2>4. May(u, r.id, {"write"})
    BY <2>3, AccessIs
  <2>5. Fresh(L)
    BY <2>2, <2>4 DEF Idle, Locals, Pc, LocalOK, CalPc, Fresh
  <2> HIDE DEF L
  <2> QED  BY <1>14, <2>1, <2>5 DEF calendarWritable, L
<1>15. ASSUME NEW r \in calendars, handlePropPatch(w, u, r.id)
       PROVE  \E L : Begun(w, L) /\ users' = users
  <2> DEFINE L == [Idle EXCEPT !.pc = "proppatch", !.user = u, !.cal = r.id]
  <2>1. r.id \in CalId
    BY DEF StoreOK, CalRow
  <2>2. May(u, r.id, Access)
    BY <1>15, AccessIs DEF handlePropPatch
  <2>3. Fresh(L)
    BY <2>1, <2>2 DEF Idle, Locals, Pc, LocalOK, CalPc, Fresh
  <2> HIDE DEF L
  <2> QED  BY <1>15, <2>3 DEF handlePropPatch, L
<1> HIDE DEF Begun
<1> QED  BY <1>1, <1>2, <1>3, <1>4, <1>5, <1>6, <1>7, <1>8, <1>9, <1>10, <1>11, <1>12,
            <1>13, <1>14, <1>15

-----------------------------------------------------------------------------
(* Types, and the keys of the tables.                                      *)

(* One request moves.                                                      *)
LEMMA OneMoves ==
  ASSUME RequestsOK, NEW w \in Handler, NEW L, LocalOK(L), hd' = [hd EXCEPT ![w] = L]
  PROVE  RequestsOK'
<1>1. hd' \in [Handler -> Locals] /\ \A v \in Handler : hd'[v] = IF v = w THEN L ELSE hd[v]
  BY DEF RequestsOK, LocalOK
<1> QED  BY <1>1 DEF RequestsOK

(* A request ends.                                                         *)
LEMMA EndKeeps ==
  ASSUME RequestsOK, NEW w \in Handler, End(w)
  PROVE  RequestsOK'
BY OneMoves, IdleOK DEF End

(* What a request has listed or counted is outdated.                       *)
LEMMA NotedOK ==
  ASSUME NEW h, LocalOK(h)
  PROVE  LocalOK([h EXCEPT !.clean = FALSE])
<1> DEFINE L == [h EXCEPT !.clean = FALSE]
<1>1. /\ L \in Locals /\ L.pc = h.pc /\ L.user = h.user /\ L.cal = h.cal /\ L.slug = h.slug
      /\ L.kind = h.kind /\ L.asked = h.asked /\ L.want = h.want /\ L.acl = h.acl
  BY DEF LocalOK, Locals
<1> HIDE DEF L
<1>2. LocalOK(L)
  BY <1>1 DEF LocalOK
<1> QED  BY <1>2 DEF L

(* One request moves, and what some others have listed or counted is       *)
(* outdated.                                                               *)
LEMMA OneMovesNoting ==
  ASSUME RequestsOK, NEW w \in Handler, NEW L, LocalOK(L), NEW S,
         hd' = [v \in Handler |-> IF v = w THEN L
                                  ELSE IF v \in S THEN [hd[v] EXCEPT !.clean = FALSE]
                                  ELSE hd[v]]
  PROVE  RequestsOK'
<1>1. \A v \in Handler : LocalOK(hd'[v])
  BY NotedOK DEF RequestsOK
<1>2. hd' \in [Handler -> Locals]
  <2>1. \A v \in Handler : (IF v = w THEN L ELSE IF v \in S THEN [hd[v] EXCEPT !.clean = FALSE]
                            ELSE hd[v]) \in Locals
    BY NotedOK DEF RequestsOK, LocalOK
  <2> QED  BY <2>1
<1> QED  BY <1>1, <1>2 DEF RequestsOK

(* No table of this module but users changes.                              *)
LEMMA StoreSame ==
  ASSUME StoreOK, UNCHANGED <<calendars, made, shares, feeds, tokens, objects>>,
         users' \subseteq User, requests' \in Nat, late' \subseteq Handler,
         raced' \subseteq User, cut' \subseteq User, lent' \subseteq CalId
  PROVE  StoreOK'
BY DEF StoreOK, NothingOutlivesCalendar

(* No table changes, and one request moves.                                *)
LEMMA LocalStep ==
  ASSUME Inv, NEW w \in Handler, NEW L, LocalOK(L), hd' = [hd EXCEPT ![w] = L],
         UNCHANGED tables, requests' = requests, late' \subseteq Handler,
         raced' \subseteq User, cut' \subseteq User, lent' \subseteq CalId
  PROVE  Inv'
<1>1. StoreOK'
  BY StoreSame DEF Inv, tables, StoreOK
<1> QED  BY <1>1, OneMoves DEF Inv

(* Nothing has happened yet.                                               *)
LEMMA InitInv == Init => Inv
<1> SUFFICES ASSUME Init PROVE Inv
  OBVIOUS
<1>1. ASSUME NEW r \in calendars
      PROVE  \E u \in Setup, k \in {"personal", "inbox", "outbox"} :
               r = [id |-> <<u, k, 1>>, kind |-> k, meta |-> u]
  BY DEF Init, Defaults
<1>2. \A k \in {"personal", "inbox", "outbox"} : k \in AnySlug
  BY DEF AnySlug, DefaultSlugs
<1>3. 1 \in 1..MaxGen /\ 0 \in 0..MaxGen /\ 1 \in 0..MaxGen
  BY BoundAssumption
<1>4. calendars \subseteq CalRow
  BY <1>1, <1>2, <1>3, SetupAssumption DEF CalRow, CalId
<1>5. /\ \A r \in calendars : r.id[2] = "personal" => r.kind = "personal"
      /\ \A r, q \in calendars : r.id[1] = q.id[1] /\ r.id[2] = q.id[2] => r = q
  BY <1>1
<1>6. NothingOutlivesCalendar
  BY <1>5 DEF Init, NothingOutlivesCalendar
<1>7. made \in [User -> [AnySlug -> 0..MaxGen]]
  BY <1>3 DEF Init
<1>8. StoreOK
  BY <1>4, <1>5, <1>6, <1>7, SetupAssumption DEF Init, StoreOK
<1>9. RequestsOK
  BY IdleOK DEF Init, RequestsOK
<1> QED  BY <1>8, <1>9 DEF Inv

(* A request begins.                                                       *)
LEMMA RequestKeeps ==
  ASSUME Inv, NEW w \in Handler, Request(w)
  PROVE  Inv'
<1>1. PICK L : /\ Begun(w, L)
               /\ \/ users' = users
                  \/ /\ L.pc = "personal" /\ L.user \in User
                     /\ users' = users \cup {L.user}
  BY RequestBegins DEF Inv
<1>2. StoreOK'
  <2>1. users' \subseteq User /\ requests' \in Nat
    BY <1>1 DEF Inv, StoreOK, Begun
  <2> QED  BY <1>1, <2>1, StoreSame DEF Inv, StoreOK, Begun, history
<1>3. RequestsOK'
  BY <1>1, OneMoves DEF Inv, Begun, Fresh
<1> QED  BY <1>2, <1>3 DEF Inv

(* Insert adds a row under a slug that is free.                            *)
LEMMA InsertKeeps ==
  ASSUME StoreOK, NEW u \in User, NEW s \in AnySlug,
         NEW k \in {"personal", "inbox", "outbox", "important_dates"},
         s = "personal" => k = "personal",
         ~Taken(u, s), made[u][s] < MaxGen, Insert(u, s, k),
         UNCHANGED <<users, shares, feeds, tokens, objects, requests, history>>
  PROVE  StoreOK'
<1> DEFINE n == [id |-> <<u, s, made[u][s] + 1>>, kind |-> k, meta |-> u]
<1>1. made[u][s] + 1 \in 1..MaxGen /\ made[u][s] + 1 \in 0..MaxGen
  BY BoundAssumption DEF StoreOK
<1>2. n \in CalRow /\ n.id[1] = u /\ n.id[2] = s /\ n.kind = k
  BY <1>1 DEF CalRow, CalId
<1>3. calendars' = calendars \cup {n}
  BY DEF Insert
<1> HIDE DEF n
<1>4. made' \in [User -> [AnySlug -> 0..MaxGen]]
  BY <1>1 DEF Insert, StoreOK
<1>5. \A r \in calendars : ~(r.id[1] = u /\ r.id[2] = s)
  BY DEF Taken
<1>6. NothingOutlivesCalendar'
  <2>1. \A r, q \in calendars' : r.id[1] = q.id[1] /\ r.id[2] = q.id[2] => r = q
    BY <1>2, <1>3, <1>5 DEF StoreOK, NothingOutlivesCalendar
  <2>2. {r.id : r \in calendars} \subseteq {r.id : r \in calendars'}
    BY <1>3
  <2> QED  BY <2>1, <2>2 DEF StoreOK, NothingOutlivesCalendar
<1>7. \A r \in calendars' : r.id[2] = "personal" => r.kind = "personal"
  BY <1>2, <1>3 DEF StoreOK
<1> QED  BY <1>2, <1>3, <1>4, <1>6, <1>7 DEF StoreOK, history

(* A request that keeps its calendar goes on to another place.             *)
LEMMA GotoOK ==
  ASSUME NEW h, LocalOK(h), ~h.acl, NEW pc \in Pc, pc \in {"idle", "inbox", "outbox", "grant"},
         pc \in {"inbox", "outbox"} => h.user \in User,
         pc = "grant" => h.cal \in CalId
  PROVE  LocalOK([h EXCEPT !.pc = pc])
<1> DEFINE L == [h EXCEPT !.pc = pc]
<1>1. /\ L \in Locals /\ L.pc = pc /\ L.user = h.user /\ L.cal = h.cal /\ L.acl = h.acl
  BY DEF LocalOK, Locals
<1> HIDE DEF L
<1>2. LocalOK(L)
  BY <1>1 DEF LocalOK, CalPc
<1> QED  BY <1>2 DEF L

(* ProvisionUserDefaults.                                                  *)
LEMMA ProvisionKeeps ==
  ASSUME Inv, NEW w \in Handler, ProvisionUserDefaults(w)
  PROVE  Inv'
<1>1. PICK u, s : u = hd[w].user /\ s = hd[w].pc
  OBVIOUS
<1>2. u \in User /\ s \in {"personal", "inbox", "outbox"} /\ s \in AnySlug
  BY <1>1 DEF ProvisionUserDefaults, Inv, RequestsOK, LocalOK, AnySlug, DefaultSlugs
<1>3. StoreOK'
  <2>1. CASE Taken(u, s)
    BY <1>1, <2>1, StoreSame DEF ProvisionUserDefaults, Inv, StoreOK, history
  <2>2. CASE ~Taken(u, s)
    BY <1>1, <1>2, <2>2, InsertKeeps DEF ProvisionUserDefaults, Inv
  <2> QED  BY <2>1, <2>2
<1>4. RequestsOK'
  <2>1. CASE s = "outbox"
    BY <1>1, <2>1, EndKeeps DEF ProvisionUserDefaults, Inv
  <2>2. CASE s # "outbox"
    <3>1. PICK pc \in {"inbox", "outbox"} : pc = NextDefault[s]
      BY <1>2, <2>2 DEF NextDefault
    <3>2. LocalOK(hd[w]) /\ ~hd[w].acl
      BY <1>1, <1>2 DEF Inv, RequestsOK, LocalOK
    <3>3. LocalOK([hd[w] EXCEPT !.pc = pc])
      BY <1>1, <1>2, <3>1, <3>2, GotoOK DEF Pc
    <3>4. hd' = [hd EXCEPT ![w] = [hd[w] EXCEPT !.pc = pc]]
      BY <1>1, <1>2, <2>2, <3>1 DEF ProvisionUserDefaults, Goto, Inv, RequestsOK
    <3> QED  BY <3>3, <3>4, OneMoves DEF Inv
  <2> QED  BY <2>1, <2>2
<1> QED  BY <1>3, <1>4 DEF Inv

(* CreateCalendar.                                                         *)
LEMMA CreateKeeps ==
  ASSUME Inv, NEW w \in Handler, CreateCalendar(w)
  PROVE  Inv'
<1>1. PICK h : h = hd[w]
  OBVIOUS
<1>2. /\ h.user \in User /\ h.slug \in AnySlug /\ h.kind \in {"personal", "important_dates"}
      /\ h.slug = "personal" => h.kind = "personal"
  BY <1>1 DEF CreateCalendar, Inv, RequestsOK, LocalOK
<1>3. StoreOK'
  <2>1. CASE Taken(h.user, h.slug)
    BY <1>1, <2>1, StoreSame DEF CreateCalendar, Inv, StoreOK, history
  <2>2. CASE ~Taken(h.user, h.slug)
    BY <1>1, <1>2, <2>2, InsertKeeps DEF CreateCalendar, Inv
  <2> QED  BY <2>1, <2>2
<1> QED  BY <1>3, EndKeeps DEF CreateCalendar, Inv

(* writeCalendarMeta changes no id and no kind.                            *)
LEMMA MetaRows ==
  ASSUME Inv, NEW w \in Handler, writeCalendarMeta(w)
  PROVE  /\ \A r \in calendars' : \E q \in calendars : q.id = r.id /\ q.kind = r.kind /\ r \in CalRow
                                   /\ r = IF q.id = hd[w].cal THEN [q EXCEPT !.meta = hd[w].user] ELSE q
         /\ \A q \in calendars : \E r \in calendars' : q.id = r.id /\ q.kind = r.kind
<1>1. PICK c, u : c = hd[w].cal /\ u = hd[w].user /\ u \in User
  BY DEF writeCalendarMeta, Inv, RequestsOK, LocalOK
<1> DEFINE Now(q) == IF q.id = c THEN [q EXCEPT !.meta = u] ELSE q
<1>2. calendars' = {Now(q) : q \in calendars}
  BY <1>1 DEF writeCalendarMeta
<1>3. \A q \in calendars : q \in CalRow
  BY DEF Inv, StoreOK
<1>4. \A q \in calendars : Now(q) \in CalRow /\ Now(q).id = q.id /\ Now(q).kind = q.kind
  BY <1>1, <1>3 DEF CalRow
<1> QED  BY <1>1, <1>2, <1>4

LEMMA MetaKeeps ==
  ASSUME Inv, NEW w \in Handler, writeCalendarMeta(w)
  PROVE  Inv'
<1>1. calendars' \subseteq CalRow /\ \A r \in calendars' : r.id[2] = "personal" => r.kind = "personal"
  BY MetaRows DEF Inv, StoreOK
<1>2. NothingOutlivesCalendar'
  <2>1. \A r, q \in calendars' : r.id[1] = q.id[1] /\ r.id[2] = q.id[2] => r = q
    <3> TAKE r1, r2 \in calendars'
    <3> HAVE r1.id[1] = r2.id[1] /\ r1.id[2] = r2.id[2]
    <3>1. PICK q1 \in calendars : q1.id = r1.id /\ r1 = IF q1.id = hd[w].cal
                                    THEN [q1 EXCEPT !.meta = hd[w].user] ELSE q1
      BY MetaRows
    <3>2. PICK q2 \in calendars : q2.id = r2.id /\ r2 = IF q2.id = hd[w].cal
                                    THEN [q2 EXCEPT !.meta = hd[w].user] ELSE q2
      BY MetaRows
    <3>3. q1 = q2
      BY <3>1, <3>2 DEF Inv, StoreOK, NothingOutlivesCalendar
    <3> QED  BY <3>1, <3>2, <3>3
  <2>2. {r.id : r \in calendars} \subseteq {r.id : r \in calendars'}
    BY MetaRows
  <2>3. UNCHANGED <<shares, feeds, objects>>
    BY DEF writeCalendarMeta
  <2> QED  BY <2>1, <2>2, <2>3 DEF Inv, StoreOK, NothingOutlivesCalendar
<1>3. lent' \subseteq CalId
  BY DEF writeCalendarMeta, Inv, StoreOK, RequestsOK, LocalOK, CalPc
<1>4. StoreOK'
  BY <1>1, <1>2, <1>3 DEF writeCalendarMeta, Inv, StoreOK
<1> QED  BY <1>4, EndKeeps DEF writeCalendarMeta, Inv

(* CountPersonalCalendars.                                                 *)
LEMMA CountKeeps ==
  ASSUME Inv, NEW w \in Handler, CountPersonalCalendars(w)
  PROVE  Inv'
<1>1. PICK L : LocalOK(L) /\ hd' = [hd EXCEPT ![w] = L]
  <2>1. CASE End(w)
    BY <2>1, IdleOK DEF End
  <2>2. CASE Counted(w)
    <3>1. PICK h : h = hd[w] /\ LocalOK(h) /\ h.pc = "count"
      BY DEF Inv, RequestsOK, CountPersonalCalendars
    <3> DEFINE L == [h EXCEPT !.pc = "drop", !.clean = TRUE]
    <3>2. /\ L \in Locals /\ L.pc = "drop" /\ L.user = h.user /\ L.cal = h.cal /\ L.acl = h.acl
      BY <3>1 DEF LocalOK, Locals, Pc
    <3>3. hd' = [hd EXCEPT ![w] = L]
      BY <2>2, <3>1 DEF Counted, Inv, RequestsOK, Locals
    <3> HIDE DEF L
    <3>4. LocalOK(L)
      BY <3>1, <3>2 DEF LocalOK, CalPc
    <3> QED  BY <3>3, <3>4
  <2> QED  BY <2>1, <2>2 DEF CountPersonalCalendars
<1> QED  BY <1>1, LocalStep DEF CountPersonalCalendars, history, Inv, StoreOK

(* DeleteCalendar.                                                         *)
LEMMA DropKeeps ==
  ASSUME Inv, NEW w \in Handler, DeleteCalendar(w)
  PROVE  Inv'
<1>1. PICK id : id = hd[w].cal
  OBVIOUS
<1>2. /\ calendars' = {r \in calendars : r.id # id} /\ shares' = {s \in shares : s.cal # id}
      /\ feeds' = {f \in feeds : f.cal # id} /\ objects' = objects \ {id}
      /\ UNCHANGED <<users, made, tokens, requests, cut, lent>>
  BY <1>1 DEF DeleteCalendar
<1>3. late' \subseteq Handler /\ raced' \subseteq User
  <2>1. hd[w].user \in User
    BY DEF DeleteCalendar, Inv, RequestsOK, LocalOK
  <2>2. UNION {Using(u, id) : u \in User} \subseteq Handler
    BY DEF Using
  <2> QED  BY <1>1, <2>1, <2>2 DEF DeleteCalendar, Inv, StoreOK
<1>4. NothingOutlivesCalendar'
  <2>1. ASSUME NEW c \in {s.cal : s \in shares'} \cup {f.cal : f \in feeds'} \cup objects'
        PROVE  c \in {r.id : r \in calendars'}
    <3>1. c # id /\ c \in {s.cal : s \in shares} \cup {f.cal : f \in feeds} \cup objects
      BY <1>2, <2>1
    <3>2. c \in {r.id : r \in calendars}
      BY <3>1 DEF Inv, StoreOK, NothingOutlivesCalendar
    <3> QED  BY <1>2, <3>1, <3>2
  <2>2. \A r, q \in calendars' : r.id[1] = q.id[1] /\ r.id[2] = q.id[2] => r = q
    BY <1>2 DEF Inv, StoreOK, NothingOutlivesCalendar
  <2> QED  BY <2>1, <2>2 DEF NothingOutlivesCalendar
<1>5. StoreOK'
  BY <1>2, <1>3, <1>4 DEF Inv, StoreOK
<1>6. RequestsOK'
  BY OneMovesNoting, IdleOK DEF DeleteCalendar, EndNoting, Inv
<1> QED  BY <1>5, <1>6 DEF Inv

(* Rows that are added have their calendar.                                *)
LEMMA KeysKept ==
  ASSUME StoreOK, calendars' = calendars,
         \A s \in shares' : s \in shares \/ Exists(s.cal),
         \A f \in feeds' : f \in feeds \/ Exists(f.cal),
         \A c \in objects' : c \in objects \/ Exists(c)
  PROVE  NothingOutlivesCalendar'
<1> DEFINE Ids == {r.id : r \in calendars}
<1>1. \A c : Exists(c) => c \in Ids
  BY DEF Exists
<1>2. /\ \A s \in shares : s.cal \in Ids
      /\ \A f \in feeds : f.cal \in Ids
      /\ \A c \in objects : c \in Ids
  BY DEF StoreOK, NothingOutlivesCalendar
<1>3. /\ \A s \in shares' : s.cal \in Ids
      /\ \A f \in feeds' : f.cal \in Ids
      /\ \A c \in objects' : c \in Ids
  BY <1>1, <1>2
<1>4. \A r, q \in calendars : r.id[1] = q.id[1] /\ r.id[2] = q.id[2] => r = q
  BY DEF StoreOK, NothingOutlivesCalendar
<1> QED  BY <1>3, <1>4 DEF NothingOutlivesCalendar

(* ReplaceShares.                                                          *)
LEMMA ListKeeps ==
  ASSUME Inv, NEW w \in Handler, ReplaceShares(w)
  PROVE  Inv'
<1>1. PICK h : h = hd[w] /\ LocalOK(h) /\ h.pc = "list"
  BY DEF Inv, RequestsOK, ReplaceShares
<1>2. PICK T : T = {s.user : s \in SharesOf(h.cal)} \ {g.user : g \in h.asked}
  OBVIOUS
<1>3. T \subseteq User
  BY <1>2 DEF SharesOf, Inv, StoreOK, ShareRow
<1> DEFINE L == [h EXCEPT !.pc = "revoke", !.clean = TRUE, !.todo = T]
<1>4. /\ L \in Locals /\ L.pc = "revoke" /\ L.user = h.user /\ L.cal = h.cal /\ L.acl = h.acl
      /\ L.asked = h.asked /\ L.want = h.want
  BY <1>1, <1>3 DEF LocalOK, Locals, Pc
<1>5. hd' = [hd EXCEPT ![w] = L]
  BY <1>1, <1>2 DEF ReplaceShares, Inv, RequestsOK, Locals
<1> HIDE DEF L
<1>6. LocalOK(L)
  BY <1>1, <1>4 DEF LocalOK, CalPc
<1> QED  BY <1>5, <1>6, LocalStep DEF ReplaceShares, history, Inv, StoreOK

(* DeleteShare.                                                            *)
LEMMA RevokeKeeps ==
  ASSUME Inv, NEW w \in Handler, NEW u \in User, DeleteShare(w, u)
  PROVE  Inv'
<1>1. PICK h : h = hd[w] /\ LocalOK(h) /\ h.pc = "revoke"
  BY DEF Inv, RequestsOK, DeleteShare
<1>2. PICK T : T = h.todo \ {u}
  OBVIOUS
<1> DEFINE A == [h EXCEPT !.todo = T]
           L == IF h.acl THEN A ELSE Idle
<1>3. T \subseteq User
  BY <1>1, <1>2 DEF LocalOK, Locals
<1>4. /\ A \in Locals /\ A.pc = "revoke" /\ A.user = h.user /\ A.cal = h.cal /\ A.acl = h.acl
      /\ A.asked = h.asked /\ A.want = h.want
  BY <1>1, <1>3 DEF LocalOK, Locals
<1>5. hd' = [v \in Handler |-> IF v = w THEN L
               ELSE IF v \in AclOf(h.cal) THEN [hd[v] EXCEPT !.clean = FALSE] ELSE hd[v]]
  BY <1>1, <1>2 DEF DeleteShare
<1> HIDE DEF A
<1>6. LocalOK(A)
  BY <1>1, <1>4 DEF LocalOK, CalPc
<1>7. LocalOK(L)
  BY <1>6, IdleOK
<1> HIDE DEF L
<1>8. RequestsOK'
  BY <1>5, <1>7, OneMovesNoting DEF Inv
<1>9. shares' \subseteq shares /\ late' \subseteq Handler
  BY DEF DeleteShare, Inv, StoreOK, Using
<1>10. StoreOK'
  <2>1. NothingOutlivesCalendar'
    BY <1>9, KeysKept DEF DeleteShare, Inv
  <2> QED  BY <1>9, <2>1 DEF DeleteShare, Inv, StoreOK
<1> QED  BY <1>8, <1>10 DEF Inv

(* The place of a request that goes on, when nothing else changes.         *)
LEMMA RevokedKeeps ==
  ASSUME Inv, NEW w \in Handler, Revoked(w)
  PROVE  Inv'
<1>1. PICK h : h = hd[w] /\ LocalOK(h) /\ h.pc = "revoke"
  BY DEF Inv, RequestsOK, Revoked
<1> DEFINE L == [h EXCEPT !.pc = "grant"]
<1>2. /\ L \in Locals /\ L.pc = "grant" /\ L.user = h.user /\ L.cal = h.cal /\ L.acl = h.acl
      /\ L.asked = h.asked /\ L.want = h.want
  BY <1>1 DEF LocalOK, Locals, Pc
<1>3. hd' = [hd EXCEPT ![w] = L]
  BY <1>1 DEF Revoked, Goto, Inv, RequestsOK
<1> HIDE DEF L
<1>4. LocalOK(L)
  BY <1>1, <1>2 DEF LocalOK, CalPc
<1> QED  BY <1>3, <1>4, LocalStep DEF Revoked, history, Inv, StoreOK

(* UpsertShare.                                                            *)
LEMMA GrantKeeps ==
  ASSUME Inv, NEW w \in Handler, NEW g \in Grant, UpsertShare(w, g)
  PROVE  Inv'
<1>1. PICK h : h = hd[w] /\ LocalOK(h) /\ h.pc = "grant" /\ h.cal \in CalId
  BY DEF Inv, RequestsOK, UpsertShare, LocalOK, CalPc
<1>2. CASE ~ForeignKey(h.cal)
  <2>1. UNCHANGED tables /\ UNCHANGED history /\ requests' = requests /\ hd' = [hd EXCEPT ![w] = Idle]
    BY <1>1, <1>2 DEF UpsertShare, tables, history, End
  <2> QED  BY <2>1, IdleOK, LocalStep DEF history, Inv, StoreOK
<1>3. CASE ForeignKey(h.cal)
  <2>1. PICK T : T = h.want \ {g}
    OBVIOUS
  <2> DEFINE A == [h EXCEPT !.want = T]
             L == IF h.acl THEN A ELSE Idle
             n == [cal |-> h.cal, user |-> g.user, access |-> g.access]
  <2>2. T \subseteq Grant
    BY <1>1, <2>1 DEF LocalOK, Locals
  <2>3. /\ A \in Locals /\ A.pc = "grant" /\ A.user = h.user /\ A.cal = h.cal /\ A.acl = h.acl
        /\ A.asked = h.asked /\ A.want = T
    BY <1>1, <2>2 DEF LocalOK, Locals
  <2>4. /\ hd' = [v \in Handler |-> IF v = w THEN L
                    ELSE IF v \in AclOf(h.cal) THEN [hd[v] EXCEPT !.clean = FALSE] ELSE hd[v]]
        /\ shares' = {s \in shares : s.cal # h.cal \/ s.user # g.user} \cup {n}
        /\ late' \subseteq Handler
    BY <1>1, <1>3, <2>1 DEF UpsertShare, Inv, StoreOK, Using
  <2>5. n \in ShareRow /\ n.cal = h.cal /\ n.user = g.user
    BY <1>1 DEF ShareRow, Grant
  <2> HIDE DEF A, n
  <2>6. LocalOK(A)
    BY <1>1, <2>1, <2>3 DEF LocalOK, CalPc
  <2>7. LocalOK(L)
    BY <2>6, IdleOK
  <2> HIDE DEF L
  <2>8. RequestsOK'
    BY <2>4, <2>7, OneMovesNoting DEF Inv
  <2>9. Exists(h.cal)
    BY <1>3 DEF ForeignKey
  <2>10. NothingOutlivesCalendar'
    BY <2>4, <2>5, <2>9, KeysKept DEF UpsertShare, Inv
  <2>11. \A s, t \in shares' : s.cal = t.cal /\ s.user = t.user => s = t
    BY <2>4, <2>5 DEF Inv, StoreOK
  <2>12. StoreOK'
    BY <2>4, <2>5, <2>10, <2>11 DEF UpsertShare, Inv, StoreOK
  <2> QED  BY <2>8, <2>12 DEF Inv
<1> QED  BY <1>2, <1>3

(* Granted.                                                                *)
LEMMA GrantedKeeps ==
  ASSUME Inv, NEW w \in Handler, Granted(w)
  PROVE  Inv'
BY IdleOK, LocalStep DEF Granted, End, history, Inv, StoreOK

(* RotateWebcal and DeleteWebcal.                                          *)
LEMMA LinkKeeps ==
  ASSUME Inv, NEW w \in Handler, RotateWebcal(w) \/ DeleteWebcal(w)
  PROVE  Inv'
<1>1. PICK id : id = hd[w].cal /\ id \in CalId
  BY DEF RotateWebcal, DeleteWebcal, Inv, RequestsOK, LocalOK, CalPc
<1>2. tokens \in Nat /\ [cal |-> id, token |-> tokens + 1] \in [cal : CalId, token : Nat]
  BY <1>1 DEF Inv, StoreOK
<1>3. /\ feeds' \subseteq [cal : CalId, token : Nat] /\ tokens' \in Nat
      /\ \A f \in feeds' : f \in feeds \/ (f.cal = id /\ Exists(id))
  BY <1>1, <1>2 DEF RotateWebcal, DeleteWebcal, ForeignKey, Inv, StoreOK
<1>4. NothingOutlivesCalendar'
  BY <1>3, KeysKept DEF RotateWebcal, DeleteWebcal, Inv
<1>5. StoreOK'
  BY <1>3, <1>4 DEF RotateWebcal, DeleteWebcal, history, Inv, StoreOK
<1> QED  BY <1>5, EndKeeps DEF RotateWebcal, DeleteWebcal, Inv

(* ReadObjects and Abandon.                                                *)
LEMMA ReadKeeps ==
  ASSUME Inv, NEW w \in Handler, ReadObjects(w) \/ Abandon(w)
  PROVE  Inv'
<1>1. hd[w].pc = "personal" => hd[w].user \in User
  BY DEF Inv, RequestsOK, LocalOK
<1>2. late' \subseteq Handler /\ raced' \subseteq User /\ cut' \subseteq User /\ lent' \subseteq CalId
  BY <1>1 DEF ReadObjects, Abandon, Inv, StoreOK
<1> QED  BY <1>2, IdleOK, LocalStep DEF ReadObjects, Abandon, End

(* WriteObject.                                                            *)
LEMMA WriteKeeps ==
  ASSUME Inv, NEW w \in Handler, WriteObject(w)
  PROVE  Inv'
<1>1. PICK id : id = hd[w].cal /\ id \in CalId
  BY DEF WriteObject, Inv, RequestsOK, LocalOK, CalPc
<1>2. \A c \in objects' : c \in objects \/ (c = id /\ Exists(id))
  BY <1>1 DEF WriteObject, ForeignKey
<1>3. NothingOutlivesCalendar'
  BY <1>1, <1>2, KeysKept DEF WriteObject, Inv
<1>4. StoreOK'
  BY <1>1, <1>2, <1>3 DEF WriteObject, Inv, StoreOK
<1> QED  BY <1>4, EndKeeps DEF WriteObject, Inv

(* Every step keeps tables and locals good.                                *)
LEMMA InvNext == Inv /\ [Next]_vars => Inv'
<1> SUFFICES ASSUME Inv, [Next]_vars PROVE Inv'
  OBVIOUS
<1>1. ASSUME NEW w \in Handler, Request(w) PROVE Inv'
  BY <1>1, RequestKeeps
<1>2. ASSUME NEW w \in Handler, Step(w) PROVE Inv'
  BY <1>2, ProvisionKeeps, CreateKeeps, MetaKeeps, CountKeeps, DropKeeps, ListKeeps, RevokedKeeps,
     GrantedKeeps, RevokeKeeps, GrantKeeps, LinkKeeps, ReadKeeps, WriteKeeps DEF Step
<1>3. ASSUME NEW w \in Handler, Abandon(w) PROVE Inv'
  BY <1>3, ReadKeeps
<1>4. CASE UNCHANGED vars
  <2>1. StoreOK'
    BY <1>4, StoreSame DEF vars, Inv, StoreOK
  <2>2. RequestsOK'
    BY <1>4 DEF vars, Inv, RequestsOK
  <2> QED  BY <2>1, <2>2 DEF Inv
<1> QED  BY <1>1, <1>2, <1>3, <1>4 DEF Next

LEMMA InvAlways == Spec => []Inv
BY InitInv, InvNext, PTL DEF Spec

(* For any number of users, calendars and overlapping requests, tables and *)
(* locals have their types.                                                *)
THEOREM TypeCorrect == Spec => []TypeOK
<1>1. Inv => TypeOK
  BY DEF Inv, StoreOK, RequestsOK, TypeOK, CalRow, ShareRow
<1> QED  BY <1>1, InvAlways, PTL

(* However requests overlap, no share, link or object outlives its         *)
(* calendar, and a user has one calendar to a slug.                        *)
THEOREM KeysGuarantee == Spec => []NothingOutlivesCalendar
<1>1. Inv => NothingOutlivesCalendar
  BY DEF Inv, StoreOK
<1> QED  BY <1>1, InvAlways, PTL

-----------------------------------------------------------------------------
(* The last personal calendar.                                             *)

(* A deletion that has counted, on a count that is up to date, leaves a    *)
(* personal calendar.                                                      *)
AnotherLeft ==
  \A w \in Handler : hd[w].pc = "drop" /\ hd[w].clean =>
    \E r \in calendars : Owner(r.id) = hd[w].user /\ r.kind = "personal" /\ r.id # hd[w].cal

LastInv == HasPersonal /\ AnotherLeft

(* More than one personal calendar is another one than id.                 *)
LEMMA AnotherExists ==
  ASSUME StoreOK, NEW u, NEW id, Owner(id) = u, ~(Cardinality(Personal(u)) <= 1)
  PROVE  \E r \in calendars : Owner(r.id) = u /\ r.kind = "personal" /\ r.id # id
<1> SUFFICES ASSUME \A r \in Personal(u) : r.id = id PROVE FALSE
  BY DEF Personal
<1>1. \A r, q \in Personal(u) : r = q
  BY DEF Personal, StoreOK, NothingOutlivesCalendar
<1>2. CASE Personal(u) = {}
  BY <1>2, FS_EmptySet
<1>3. CASE Personal(u) # {}
  <2>1. PICK r \in Personal(u) : TRUE
    BY <1>3
  <2>2. Personal(u) = {r}
    BY <1>1, <2>1
  <2>3. Cardinality(Personal(u)) = 1
    BY <2>2, FS_Singleton
  <2> QED  BY <2>3
<1> QED  BY <1>2, <1>3

(* HasPersonal without sets.                                               *)
LEMMA HasPersonalIs ==
  HasPersonal <=>
    \A u \in users :
      \/ \E r \in calendars : Owner(r.id) = u /\ r.kind = "personal"
      \/ u \in raced \cup cut
      \/ \E w \in Handler : hd[w].user = u /\ hd[w].pc = "personal"
BY DEF HasPersonal, Personal

(* A step that keeps every calendar, and at most ends a request that is    *)
(* not about to insert a personal calendar, keeps the last one.            *)
LEMMA RowsStay ==
  ASSUME LastInv, NEW w \in Handler,
         \A r \in calendars : \E q \in calendars' : q.id = r.id /\ q.kind = r.kind,
         users' = users, raced \subseteq raced', cut \subseteq cut',
         \A v \in Handler \ {w} : /\ hd'[v].pc = hd[v].pc /\ hd'[v].user = hd[v].user
                                  /\ hd'[v].cal = hd[v].cal
                                  /\ hd'[v].clean => hd[v].clean,
         hd[w].pc = "personal" => \/ hd[w].user \in cut'
                                  \/ \E r \in calendars' : Owner(r.id) = hd[w].user /\ r.kind = "personal",
         hd'[w].pc # "drop"
  PROVE  LastInv'
<1>1. AnotherLeft'
  BY DEF LastInv, AnotherLeft
<1>2. ASSUME NEW u \in users
      PROVE  \/ \E r \in calendars' : Owner(r.id) = u /\ r.kind = "personal"
             \/ u \in raced' \cup cut'
             \/ \E v \in Handler : hd'[v].user = u /\ hd'[v].pc = "personal"
  <2>1. CASE \E r \in calendars : Owner(r.id) = u /\ r.kind = "personal"
    BY <2>1
  <2>2. CASE \E v \in Handler : hd[v].user = u /\ hd[v].pc = "personal"
    BY <2>2
  <2>3. CASE u \in raced \cup cut
    BY <2>3
  <2> QED  BY <2>1, <2>2, <2>3, HasPersonalIs DEF LastInv
<1>3. HasPersonal'
  BY <1>2 DEF HasPersonal, Personal
<1> QED  BY <1>1, <1>3 DEF LastInv

(* One request moves, and the tables do not.                               *)
LEMMA RowsSame ==
  ASSUME Inv, LastInv, NEW w \in Handler, NEW L, hd' = [hd EXCEPT ![w] = L], L.pc # "drop",
         hd[w].pc # "personal", UNCHANGED <<users, calendars, raced, cut>>
  PROVE  LastInv'
BY RowsStay DEF Inv, RequestsOK

(* Every step keeps the last personal calendar.                            *)
LEMMA LastNext == Inv /\ LastInv /\ [Next]_vars => LastInv'
<1> SUFFICES ASSUME Inv, LastInv, [Next]_vars PROVE LastInv'
  OBVIOUS
<1> USE DEF history
<1>1. ASSUME NEW w \in Handler, Request(w) PROVE LastInv'
  <2>1. PICK L : /\ Begun(w, L)
                 /\ \/ users' = users
                    \/ /\ L.pc = "personal" /\ L.user \in User
                       /\ users' = users \cup {L.user}
    BY <1>1, RequestBegins DEF Inv
  <2>2. /\ hd \in [Handler -> Locals] /\ hd' = [hd EXCEPT ![w] = L] /\ hd[w].pc = "idle"
        /\ UNCHANGED <<calendars, raced, cut>> /\ L.clean = FALSE
    BY <2>1 DEF Begun, Fresh, Inv, RequestsOK
  <2>3. hd'[w] = L /\ \A v \in Handler \ {w} : hd'[v] = hd[v]
    BY <2>2
  <2>4. AnotherLeft'
    BY <2>2, <2>3 DEF LastInv, AnotherLeft
  <2>5. ASSUME NEW u \in users'
        PROVE  \/ \E r \in calendars' : Owner(r.id) = u /\ r.kind = "personal"
               \/ u \in raced' \cup cut'
               \/ \E v \in Handler : hd'[v].user = u /\ hd'[v].pc = "personal"
    <3>1. CASE u \in users
      <4>1. CASE \E v \in Handler : hd[v].user = u /\ hd[v].pc = "personal"
        BY <2>2, <2>3, <4>1
      <4> QED  BY <2>2, <3>1, <4>1, HasPersonalIs DEF LastInv
    <3>2. CASE u \notin users
      BY <2>1, <2>3, <3>2
    <3> QED  BY <3>1, <3>2
  <2>6. HasPersonal'
    BY <2>5 DEF HasPersonal, Personal
  <2> QED  BY <2>4, <2>6 DEF LastInv
<1>2. ASSUME NEW w \in Handler, ProvisionUserDefaults(w) PROVE LastInv'
  <2>1. PICK u, s : u = hd[w].user /\ s = hd[w].pc
    OBVIOUS
  <2>2. calendars \subseteq calendars'
    BY <1>2 DEF ProvisionUserDefaults, Insert
  <2>3. s = "personal" => \E r \in calendars' : Owner(r.id) = u /\ r.kind = "personal"
    <3>1. CASE Taken(u, s) /\ s = "personal"
      BY <2>2, <3>1 DEF Taken, Owner, Inv, StoreOK
    <3>2. CASE ~Taken(u, s) /\ s = "personal"
      <4> DEFINE n == [id |-> <<u, s, made[u][s] + 1>>, kind |-> s, meta |-> u]
      <4>1. n \in calendars'
        BY <1>2, <2>1, <3>2 DEF ProvisionUserDefaults, Insert
      <4>2. n.kind = s /\ Owner(n.id) = u
        BY DEF Owner
      <4> QED  BY <3>2, <4>1, <4>2
    <3> QED  BY <3>1, <3>2
  <2>4. /\ hd' \in [Handler -> Locals] /\ hd'[w].pc # "drop"
        /\ \A v \in Handler \ {w} : hd'[v] = hd[v]
    BY <1>2, IdleOK, ProvisionKeeps DEF ProvisionUserDefaults, End, Goto, NextDefault, Inv, RequestsOK,
       Locals
  <2>5. UNCHANGED <<users, raced, cut>>
    BY <1>2 DEF ProvisionUserDefaults
  <2> QED  BY <2>1, <2>2, <2>3, <2>4, <2>5, RowsStay
<1>3. ASSUME NEW w \in Handler, CreateCalendar(w) PROVE LastInv'
  <2>1. calendars \subseteq calendars' /\ hd[w].pc # "personal" /\ UNCHANGED <<users, raced, cut>>
    BY <1>3 DEF CreateCalendar, Insert
  <2>2. hd'[w] = Idle /\ \A v \in Handler \ {w} : hd'[v] = hd[v]
    BY <1>3 DEF CreateCalendar, End, Inv, RequestsOK
  <2> QED  BY <2>1, <2>2, IdleOK, RowsStay
<1>4. ASSUME NEW w \in Handler, writeCalendarMeta(w) PROVE LastInv'
  <2>1. hd[w].pc # "personal" /\ UNCHANGED <<users, raced, cut>>
    BY <1>4 DEF writeCalendarMeta
  <2>2. hd'[w] = Idle /\ \A v \in Handler \ {w} : hd'[v] = hd[v]
    BY <1>4 DEF writeCalendarMeta, End, Inv, RequestsOK
  <2>3. \A r \in calendars : \E q \in calendars' : q.id = r.id /\ q.kind = r.kind
    BY <1>4, MetaRows
  <2> QED  BY <2>1, <2>2, <2>3, IdleOK, RowsStay
<1>5. ASSUME NEW w \in Handler, CountPersonalCalendars(w) PROVE LastInv'
  <2>1. hd[w].pc = "count" /\ UNCHANGED <<users, calendars, raced, cut>>
    BY <1>5 DEF CountPersonalCalendars, tables
  <2>2. CASE End(w)
    BY <2>1, <2>2, IdleOK, RowsSame DEF End
  <2>3. CASE ~(Cardinality(Personal(hd[w].user)) <= 1) /\ Counted(w)
    <3>1. PICK h : h = hd[w] /\ LocalOK(h) /\ h.pc = "count"
      BY <2>1 DEF Inv, RequestsOK
    <3>2. /\ hd'[w].pc = "drop" /\ hd'[w].user = h.user /\ hd'[w].cal = h.cal
          /\ \A v \in Handler \ {w} : hd'[v] = hd[v]
      BY <2>3, <3>1 DEF Counted, Inv, RequestsOK, Locals
    <3>3. \E r \in calendars : Owner(r.id) = h.user /\ r.kind = "personal" /\ r.id # h.cal
      BY <2>3, <3>1, AnotherExists DEF LocalOK, Inv
    <3>4. AnotherLeft'
      BY <2>1, <3>2, <3>3 DEF LastInv, AnotherLeft
    <3>5. HasPersonal'
      BY <2>1, <3>1, <3>2 DEF LastInv, HasPersonal, Personal
    <3> QED  BY <3>4, <3>5 DEF LastInv
  <2> QED  BY <1>5, <2>2, <2>3 DEF CountPersonalCalendars
<1>6. ASSUME NEW w \in Handler, DeleteCalendar(w) PROVE LastInv'
  <2>1. PICK h : h = hd[w] /\ LocalOK(h) /\ h.pc = "drop"
    BY <1>6 DEF Inv, RequestsOK, DeleteCalendar
  <2>2. /\ calendars' = {r \in calendars : r.id # h.cal} /\ UNCHANGED <<users, cut>>
        /\ raced' = IF h.clean THEN raced ELSE raced \cup {h.user}
    BY <1>6, <2>1 DEF DeleteCalendar
  <2>3. PICK S : /\ S = AclOf(h.cal) \cup {v \in Handler : hd[v].pc = "drop" /\ hd[v].user = h.user}
                 /\ hd' = [v \in Handler |-> IF v = w THEN Idle
                             ELSE IF v \in S THEN [hd[v] EXCEPT !.clean = FALSE] ELSE hd[v]]
    BY <1>6, <2>1 DEF DeleteCalendar, EndNoting
  <2>4. \A v \in Handler \ {w} : /\ hd'[v].pc = hd[v].pc /\ hd'[v].user = hd[v].user
                                 /\ hd'[v].cal = hd[v].cal
                                 /\ hd'[v].clean => hd[v].clean /\ v \notin S
    BY <2>3 DEF Inv, RequestsOK, Locals
  <2>5. hd'[w] = Idle
    BY <2>3
  <2>6. Owner(h.cal) = h.user
    BY <2>1 DEF LocalOK
  <2>7. AnotherLeft'
    <3> SUFFICES ASSUME NEW v \in Handler, hd'[v].pc = "drop", hd'[v].clean
                 PROVE  \E r \in calendars' : Owner(r.id) = hd'[v].user /\ r.kind = "personal"
                                              /\ r.id # hd'[v].cal
      BY DEF AnotherLeft
    <3>1. v # w
      BY <2>5, IdleOK
    <3>2. hd[v].user # h.user
      BY <2>3, <2>4, <3>1
    <3>3. PICK r \in calendars : Owner(r.id) = hd[v].user /\ r.kind = "personal" /\ r.id # hd[v].cal
      BY <2>4, <3>1 DEF LastInv, AnotherLeft
    <3>4. r \in calendars'
      BY <2>2, <2>6, <3>2, <3>3
    <3> QED  BY <2>4, <3>1, <3>3, <3>4
  <2>8. ASSUME NEW u \in users
        PROVE  \/ \E r \in calendars' : Owner(r.id) = u /\ r.kind = "personal"
               \/ u \in raced' \cup cut'
               \/ \E v \in Handler : hd'[v].user = u /\ hd'[v].pc = "personal"
    <3>1. CASE \E r \in calendars : Owner(r.id) = u /\ r.kind = "personal"
      <4>1. CASE u = h.user
        BY <2>1, <2>2, <4>1 DEF LastInv, AnotherLeft
      <4>2. CASE u # h.user
        BY <2>2, <2>6, <3>1, <4>2
      <4> QED  BY <4>1, <4>2
    <3>2. CASE \E v \in Handler : hd[v].user = u /\ hd[v].pc = "personal"
      BY <2>1, <2>4, <3>2
    <3>3. CASE u \in raced \cup cut
      BY <2>2, <3>3
    <3> QED  BY <3>1, <3>2, <3>3, HasPersonalIs DEF LastInv
  <2>9. HasPersonal'
    BY <2>2, <2>8 DEF HasPersonal, Personal
  <2> QED  BY <2>7, <2>9 DEF LastInv
<1>7. ASSUME NEW w \in Handler, ReplaceShares(w) \/ Revoked(w) PROVE LastInv'
  <2>1. /\ hd[w].pc # "personal" /\ UNCHANGED <<users, calendars, raced, cut>>
        /\ hd'[w].pc # "drop" /\ \A v \in Handler \ {w} : hd'[v] = hd[v]
    BY <1>7 DEF ReplaceShares, Revoked, Goto, tables, Inv, RequestsOK, Locals
  <2> QED  BY <2>1, RowsStay
<1>8. ASSUME NEW w \in Handler, NEW u \in User, DeleteShare(w, u) PROVE LastInv'
  <2>1. hd[w].pc = "revoke" /\ UNCHANGED <<users, calendars, raced, cut>>
    BY <1>8 DEF DeleteShare
  <2>2. hd \in [Handler -> Locals]
    BY DEF Inv, RequestsOK
  <2>3. hd'[w].pc # "drop"
    BY <1>8, <2>1, <2>2, IdleOK DEF DeleteShare, Locals
  <2>4. \A v \in Handler \ {w} : /\ hd'[v].pc = hd[v].pc /\ hd'[v].user = hd[v].user
                                 /\ hd'[v].cal = hd[v].cal
                                 /\ hd'[v].clean => hd[v].clean
    BY <1>8, <2>2 DEF DeleteShare, Locals
  <2> QED  BY <2>1, <2>3, <2>4, RowsStay
<1>9. ASSUME NEW w \in Handler, NEW g \in Grant, UpsertShare(w, g) PROVE LastInv'
  <2>1. hd[w].pc = "grant" /\ UNCHANGED <<users, calendars, raced, cut>>
    BY <1>9 DEF UpsertShare
  <2>2. hd \in [Handler -> Locals]
    BY DEF Inv, RequestsOK
  <2>3. hd'[w].pc # "drop"
    BY <1>9, <2>1, <2>2, IdleOK DEF UpsertShare, End, Locals
  <2>4. \A v \in Handler \ {w} : /\ hd'[v].pc = hd[v].pc /\ hd'[v].user = hd[v].user
                                 /\ hd'[v].cal = hd[v].cal
                                 /\ hd'[v].clean => hd[v].clean
    BY <1>9, <2>2 DEF UpsertShare, End, Locals
  <2> QED  BY <2>1, <2>3, <2>4, RowsStay
<1>10. ASSUME NEW w \in Handler, \/ Granted(w) \/ RotateWebcal(w) \/ DeleteWebcal(w)
                                 \/ ReadObjects(w) \/ WriteObject(w)
       PROVE  LastInv'
  <2>1. /\ hd[w].pc # "personal" /\ UNCHANGED <<users, calendars, raced, cut>>
        /\ hd' = [hd EXCEPT ![w] = Idle]
    BY <1>10 DEF Granted, RotateWebcal, DeleteWebcal, ReadObjects, WriteObject, End, tables
  <2> QED  BY <2>1, IdleOK, RowsSame
<1>11. ASSUME NEW w \in Handler, Abandon(w) PROVE LastInv'
  <2>1. /\ UNCHANGED <<users, calendars, raced>>
        /\ hd'[w] = Idle /\ \A v \in Handler \ {w} : hd'[v] = hd[v]
        /\ cut' = IF hd[w].pc = "personal" THEN cut \cup {hd[w].user} ELSE cut
    BY <1>11 DEF Abandon, End, tables, Inv, RequestsOK
  <2> QED  BY <2>1, IdleOK, RowsStay
<1>12. CASE UNCHANGED vars
  BY <1>12 DEF vars, LastInv, HasPersonal, Personal, AnotherLeft
<1> QED  BY <1>1, <1>2, <1>3, <1>4, <1>5, <1>6, <1>7, <1>8, <1>9, <1>10, <1>11, <1>12 DEF Next, Step

(* However requests overlap, a user keeps a personal calendar, unless two  *)
(* deletions counted before either deleted or the creation of the account  *)
(* stopped half way.                                                       *)
THEOREM PersonalGuarantee == Spec => []HasPersonal
<1>1. Init => LastInv
  <2> SUFFICES ASSUME Init PROVE LastInv
    OBVIOUS
  <2>1. AnotherLeft
    BY IdleOK DEF Init, AnotherLeft
  <2>2. ASSUME NEW u \in users
        PROVE  \E r \in calendars : Owner(r.id) = u /\ r.kind = "personal"
    <3> DEFINE r == [id |-> <<u, "personal", 1>>, kind |-> "personal", meta |-> u]
    <3>1. r \in calendars /\ Owner(r.id) = u /\ r.kind = "personal"
      BY <2>2 DEF Init, Defaults, Owner
    <3> QED  BY <3>1
  <2> QED  BY <2>1, <2>2, HasPersonalIs DEF LastInv
<1>2. LastInv => HasPersonal
  BY DEF LastInv
<1> QED  BY <1>1, <1>2, LastNext, InvAlways, PTL DEF Spec

-----------------------------------------------------------------------------
(* Access that is used.                                                    *)

(* What a place of a request needs: the accesses of a share that allow it. *)
(* The owner needs none, and nobody else renames over REST.                *)
Needs(pc) == IF pc \in {"put", "remove"} THEN {"write"} ELSE IF pc = "meta" THEN {} ELSE Access

(* GrantsHold, in terms of rows.                                           *)
AccessInv ==
  \A w \in Handler : hd[w].pc \in UsingPc =>
    May(hd[w].user, hd[w].cal, Needs(hd[w].pc)) \/ w \in late

AuthorInv == \A r \in calendars : r.meta = Owner(r.id) \/ r.id \in lent

LEMMA GrantsInvIs == StoreOK => (AccessInv /\ AuthorInv <=> GrantsHold)
<1> SUFFICES ASSUME StoreOK PROVE AccessInv /\ AuthorInv <=> GrantsHold
  OBVIOUS
<1>1. ASSUME NEW w \in Handler
      PROVE  LET a == AccessOf(hd[w].user, hd[w].cal) IN
             /\ a = "owner" <=> May(hd[w].user, hd[w].cal, {})
             /\ a # None <=> May(hd[w].user, hd[w].cal, Access)
             /\ a \in {"owner", "write"} <=> May(hd[w].user, hd[w].cal, {"write"})
  <2>1. PICK u, id : u = hd[w].user /\ id = hd[w].cal
    OBVIOUS
  <2> QED  BY <2>1, AccessIs
<1> QED  BY <1>1 DEF AccessInv, AuthorInv, GrantsHold, UsingPc, Needs

(* A row's name is written by its owner, or by PROPPATCH.                  *)
LEMMA AuthorNext == Inv /\ AuthorInv /\ [Next]_vars => AuthorInv'
<1> SUFFICES ASSUME Inv, AuthorInv, [Next]_vars PROVE AuthorInv'
  OBVIOUS
<1> USE DEF history
<1>1. ASSUME NEW w \in Handler, writeCalendarMeta(w) PROVE AuthorInv'
  <2> SUFFICES ASSUME NEW r \in calendars' PROVE r.meta = Owner(r.id) \/ r.id \in lent'
    BY DEF AuthorInv
  <2>1. PICK q \in calendars : /\ q.id = r.id
                               /\ r = IF q.id = hd[w].cal THEN [q EXCEPT !.meta = hd[w].user] ELSE q
    BY <1>1, MetaRows
  <2>2. CASE q.id # hd[w].cal
    BY <1>1, <2>1, <2>2 DEF writeCalendarMeta, AuthorInv
  <2>3. CASE q.id = hd[w].cal
    <3>1. r.meta = hd[w].user
      BY <2>1, <2>3 DEF Inv, StoreOK, CalRow
    <3>2. hd[w].pc = "meta" => Owner(hd[w].cal) = hd[w].user
      BY DEF Inv, RequestsOK, LocalOK
    <3> QED  BY <1>1, <2>1, <2>3, <3>1, <3>2 DEF writeCalendarMeta
  <2> QED  BY <2>2, <2>3
<1>2. ASSUME NEW u, NEW s, NEW k, Insert(u, s, k), lent' = lent PROVE AuthorInv'
  <2> DEFINE n == [id |-> <<u, s, made[u][s] + 1>>, kind |-> k, meta |-> u]
  <2>1. n.meta = Owner(n.id) /\ calendars' = calendars \cup {n}
    BY <1>2 DEF Insert, Owner
  <2> HIDE DEF n
  <2> QED  BY <1>2, <2>1 DEF AuthorInv, Owner
<1>3. ASSUME NEW w \in Handler, ProvisionUserDefaults(w) \/ CreateCalendar(w) PROVE AuthorInv'
  <2>1. lent' = lent /\ (calendars' = calendars \/ \E u, s, k : Insert(u, s, k))
    BY <1>3 DEF ProvisionUserDefaults, CreateCalendar
  <2> QED  BY <1>2, <2>1 DEF AuthorInv
<1>4. ASSUME NEW w \in Handler, DeleteCalendar(w) PROVE AuthorInv'
  BY <1>4 DEF DeleteCalendar, AuthorInv
<1>5. ASSUME NEW w \in Handler,
             \/ CountPersonalCalendars(w) \/ ReplaceShares(w) \/ Revoked(w) \/ Granted(w)
             \/ (\E u \in User : DeleteShare(w, u)) \/ (\E g \in Grant : UpsertShare(w, g))
             \/ RotateWebcal(w) \/ DeleteWebcal(w) \/ ReadObjects(w) \/ WriteObject(w)
             \/ Abandon(w)
      PROVE  AuthorInv'
  <2>1. UNCHANGED <<calendars, lent>>
    BY <1>5 DEF CountPersonalCalendars, ReplaceShares, Revoked, Granted, DeleteShare,
       UpsertShare, RotateWebcal, DeleteWebcal, ReadObjects, WriteObject, Abandon, tables
  <2> QED  BY <2>1 DEF AuthorInv
<1>6. ASSUME NEW w \in Handler, Request(w) PROVE AuthorInv'
  <2>1. UNCHANGED <<calendars, lent>>
    BY <1>6, RequestBegins DEF Begun, Inv
  <2> QED  BY <2>1 DEF AuthorInv
<1>7. CASE UNCHANGED vars
  BY <1>7 DEF vars, AuthorInv
<1> QED  BY <1>1, <1>3, <1>4, <1>5, <1>6, <1>7 DEF Next, Step

(* Access lasts while the row and the share it rests on do.                *)
LEMMA MayLasts ==
  ASSUME NEW u, NEW id, NEW A, May(u, id, A),
         \A r \in calendars : r.id = id => \E q \in calendars' : q.id = r.id /\ q.kind = r.kind,
         Owner(id) # u => \A t \in shares : t.cal = id /\ t.user = u /\ t.access \in A =>
           \E s \in shares' : s.cal = id /\ s.user = u /\ s.access \in A
  PROVE  May(u, id, A)'
<1>1. PICK r \in calendars :
        /\ r.id = id
        /\ \/ Owner(id) = u
           \/ /\ r.kind \notin {"inbox", "outbox"}
              /\ \E t \in shares : t.cal = id /\ t.user = u /\ t.access \in A
  BY DEF May
<1>2. PICK q \in calendars' : q.id = id /\ q.kind = r.kind
  BY <1>1
<1>3. CASE Owner(id) = u
  BY <1>2, <1>3 DEF May
<1>4. CASE Owner(id) # u
  <2>1. PICK t \in shares : t.cal = id /\ t.user = u /\ t.access \in A
    BY <1>1, <1>4
  <2>2. \E s \in shares' : s.cal = id /\ s.user = u /\ s.access \in A
    BY <1>4, <2>1
  <2> QED  BY <1>1, <1>2, <1>4, <2>2 DEF May
<1> QED  BY <1>3, <1>4

(* One request moves to a place where it needs nothing.  The others keep   *)
(* what they need, or are late.                                            *)
LEMMA AccessStays ==
  ASSUME AccessInv, NEW w \in Handler, hd'[w].pc \notin UsingPc, late \ {w} \subseteq late',
         \A v \in Handler \ {w} : hd'[v].pc = hd[v].pc /\ hd'[v].user = hd[v].user
                                  /\ hd'[v].cal = hd[v].cal,
         \A v \in Handler \ {w} : hd[v].pc \in UsingPc =>
           \/ v \in late'
           \/ /\ \A r \in calendars : r.id = hd[v].cal =>
                   \E q \in calendars' : q.id = r.id /\ q.kind = r.kind
              /\ Owner(hd[v].cal) # hd[v].user =>
                   \A t \in shares : t.cal = hd[v].cal /\ t.user = hd[v].user
                                     /\ t.access \in Needs(hd[v].pc) =>
                     \E s \in shares' : s.cal = hd[v].cal /\ s.user = hd[v].user
                                        /\ s.access \in Needs(hd[v].pc)
  PROVE  AccessInv'
<1> SUFFICES ASSUME NEW v \in Handler, hd'[v].pc \in UsingPc
             PROVE  May(hd[v].user, hd[v].cal, Needs(hd[v].pc))' \/ v \in late'
  BY DEF AccessInv
<1>1. v # w
  OBVIOUS
<1>2. PICK u, id, A : u = hd[v].user /\ id = hd[v].cal /\ A = Needs(hd[v].pc)
  OBVIOUS
<1>3. hd'[v].user = u /\ hd'[v].cal = id /\ Needs(hd'[v].pc) = A
  BY <1>1, <1>2 DEF Needs
<1>4. CASE v \in late
  BY <1>1, <1>4
<1>5. CASE v \notin late
  <2>1. May(u, id, A)
    BY <1>1, <1>2, <1>5 DEF AccessInv
  <2>2. May(u, id, A)' \/ v \in late'
    BY <1>1, <1>2, <2>1, MayLasts
  <2> QED  BY <1>3, <2>2 DEF May
<1> QED  BY <1>4, <1>5

(* The same, where one request moves and no row or share goes away.        *)
LEMMA AccessSame ==
  ASSUME Inv, AccessInv, NEW w \in Handler, NEW L, hd' = [hd EXCEPT ![w] = L],
         L.pc \notin UsingPc, late \ {w} \subseteq late',
         \A r \in calendars : \E q \in calendars' : q.id = r.id /\ q.kind = r.kind,
         shares' = shares
  PROVE  AccessInv'
<1>1. hd'[w] = L /\ \A v \in Handler \ {w} : hd'[v] = hd[v]
  BY DEF Inv, RequestsOK
<1> QED  BY <1>1, AccessStays

(* Every step keeps the access that is used, or makes its user late.       *)
LEMMA AccessNext == Inv /\ AccessInv /\ [Next]_vars => AccessInv'
<1> SUFFICES ASSUME Inv, AccessInv, [Next]_vars PROVE AccessInv'
  OBVIOUS
<1> USE DEF history
<1>0. Idle.pc \notin UsingPc
  BY IdleOK DEF UsingPc
<1>1. ASSUME NEW w \in Handler, Request(w) PROVE AccessInv'
  <2>1. PICK L : Begun(w, L)
    BY <1>1, RequestBegins DEF Inv
  <2>2. hd'[w] = L /\ \A v \in Handler \ {w} : hd'[v] = hd[v]
    BY <2>1 DEF Begun, Inv, RequestsOK
  <2>3. UNCHANGED <<calendars, shares, late>>
    BY <2>1 DEF Begun
  <2>4. L.pc \in UsingPc => May(L.user, L.cal, Needs(L.pc))
    BY <2>1 DEF Begun, Fresh, UsingPc, Needs
  <2> QED  BY <2>2, <2>3, <2>4 DEF AccessInv, May
<1>2. ASSUME NEW w \in Handler, ProvisionUserDefaults(w) PROVE AccessInv'
  <2>1. calendars \subseteq calendars' /\ UNCHANGED <<shares, late>>
    BY <1>2 DEF ProvisionUserDefaults, Insert
  <2>2. /\ hd'[w].pc \notin UsingPc /\ \A v \in Handler \ {w} : hd'[v] = hd[v]
    BY <1>0, <1>2 DEF ProvisionUserDefaults, End, Goto, NextDefault, Inv, RequestsOK, Locals, UsingPc
  <2> QED  BY <2>1, <2>2, AccessStays
<1>3. ASSUME NEW w \in Handler, CreateCalendar(w) PROVE AccessInv'
  <2>1. calendars \subseteq calendars' /\ UNCHANGED <<shares, late>>
    BY <1>3 DEF CreateCalendar, Insert
  <2> QED  BY <1>0, <1>3, <2>1, AccessSame DEF CreateCalendar, End
<1>4. ASSUME NEW w \in Handler, writeCalendarMeta(w) PROVE AccessInv'
  <2>1. \A r \in calendars : \E q \in calendars' : q.id = r.id /\ q.kind = r.kind
    BY <1>4, MetaRows
  <2> QED  BY <1>0, <1>4, <2>1, AccessSame DEF writeCalendarMeta, End
<1>5. ASSUME NEW w \in Handler, CountPersonalCalendars(w) \/ ReplaceShares(w) \/ Revoked(w)
      PROVE  AccessInv'
  <2>1. /\ hd'[w].pc \notin UsingPc /\ \A v \in Handler \ {w} : hd'[v] = hd[v]
    BY <1>0, <1>5 DEF CountPersonalCalendars, Counted, ReplaceShares, Revoked, End, Goto,
       Inv, RequestsOK, Locals, UsingPc
  <2>2. UNCHANGED <<calendars, shares, late>>
    BY <1>5 DEF CountPersonalCalendars, ReplaceShares, Revoked, tables
  <2> QED  BY <2>1, <2>2, AccessStays
<1>6. ASSUME NEW w \in Handler, DeleteCalendar(w) PROVE AccessInv'
  <2>1. PICK id : id = hd[w].cal
    OBVIOUS
  <2>2. /\ calendars' = {r \in calendars : r.id # id} /\ shares' = {s \in shares : s.cal # id}
        /\ late' = (late \cup UNION {Using(u, id) : u \in User}) \ {w}
    BY <1>6, <2>1 DEF DeleteCalendar
  <2>3. /\ hd'[w] = Idle
        /\ \A v \in Handler \ {w} : hd'[v].pc = hd[v].pc /\ hd'[v].user = hd[v].user
                                    /\ hd'[v].cal = hd[v].cal
    BY <1>6 DEF DeleteCalendar, EndNoting, Inv, RequestsOK, Locals
  <2>4. ASSUME NEW v \in Handler \ {w}, hd[v].pc \in UsingPc, hd[v].cal = id
        PROVE  v \in late'
    <3>1. hd[v].user \in User
      BY <2>4 DEF Inv, RequestsOK, LocalOK, UsingPc
    <3>2. v \in Using(hd[v].user, id)
      BY <2>4 DEF Using
    <3> QED  BY <2>2, <3>1, <3>2
  <2> QED  BY <1>0, <2>2, <2>3, <2>4, AccessStays
<1>7. ASSUME NEW w \in Handler, NEW u \in User, DeleteShare(w, u) PROVE AccessInv'
  <2>1. PICK id : id = hd[w].cal
    OBVIOUS
  <2>2. /\ UNCHANGED calendars /\ shares' = {s \in shares : s.cal # id \/ s.user # u}
        /\ late' = IF \E s \in SharesOf(id) : s.user = u THEN late \cup Using(u, id) ELSE late
    BY <1>7, <2>1 DEF DeleteShare
  <2>3. /\ hd'[w].pc \notin UsingPc
        /\ \A v \in Handler \ {w} : hd'[v].pc = hd[v].pc /\ hd'[v].user = hd[v].user
                                    /\ hd'[v].cal = hd[v].cal
    BY <1>0, <1>7 DEF DeleteShare, Inv, RequestsOK, Locals, UsingPc
  <2>4. ASSUME NEW v \in Handler \ {w}, hd[v].pc \in UsingPc, hd[v].cal = id, hd[v].user = u,
               NEW t \in shares, t.cal = id, t.user = u
        PROVE  v \in late'
    <3>1. v \in Using(u, id)
      BY <2>4 DEF Using
    <3>2. [user |-> t.user, access |-> t.access] \in SharesOf(id)
      BY <2>4, SharesOfIs DEF Inv, StoreOK
    <3>3. \E s \in SharesOf(id) : s.user = u
      BY <2>4, <3>2
    <3> QED  BY <2>2, <3>1, <3>3
  <2>5. late \ {w} \subseteq late'
    BY <2>2
  <2> QED  BY <2>2, <2>3, <2>4, <2>5, AccessStays
<1>8. ASSUME NEW w \in Handler, NEW g \in Grant, UpsertShare(w, g) PROVE AccessInv'
  <2>1. PICK id : id = hd[w].cal
    OBVIOUS
  <2>2. CASE ~ForeignKey(id)
    BY <1>0, <1>8, <2>1, <2>2, AccessSame DEF UpsertShare, End
  <2>3. CASE ForeignKey(id)
    <3> DEFINE n == [cal |-> id, user |-> g.user, access |-> g.access]
    <3>1. /\ UNCHANGED calendars
          /\ shares' = {s \in shares : s.cal # id \/ s.user # g.user} \cup {n}
          /\ late' = IF g.access = "write" THEN late
                     ELSE late \cup {v \in Using(g.user, id) : hd[v].pc \in {"put", "remove"}}
      BY <1>8, <2>1, <2>3 DEF UpsertShare
    <3>2. /\ hd'[w].pc \notin UsingPc
          /\ \A v \in Handler \ {w} : hd'[v].pc = hd[v].pc /\ hd'[v].user = hd[v].user
                                      /\ hd'[v].cal = hd[v].cal
      BY <1>0, <1>8 DEF UpsertShare, End, Inv, RequestsOK, Locals, UsingPc
    <3>3. n \in shares' /\ n.cal = id /\ n.user = g.user /\ n.access = g.access
          /\ g.access \in {"read", "write"}
      BY <3>1 DEF Grant, Access
    <3> HIDE DEF n
    <3>4. ASSUME NEW v \in Handler \ {w}, hd[v].pc \in UsingPc, hd[v].cal = id, hd[v].user = g.user,
                 hd[v].pc # "meta"
          PROVE  v \in late' \/ g.access \in Needs(hd[v].pc)
      BY <3>1, <3>3, <3>4 DEF Needs, Using, Access
    <3>5. late \ {w} \subseteq late'
      BY <3>1
    <3>6. ASSUME NEW v \in Handler \ {w}, hd[v].pc \in UsingPc, v \notin late',
                 NEW t \in shares, t.cal = hd[v].cal, t.user = hd[v].user,
                 t.access \in Needs(hd[v].pc)
          PROVE  \E s \in shares' : s.cal = hd[v].cal /\ s.user = hd[v].user
                                    /\ s.access \in Needs(hd[v].pc)
      <4>1. CASE t.cal = id /\ t.user = g.user
        <5>1. hd[v].pc # "meta"
          BY <3>6 DEF Needs
        <5> QED  BY <3>3, <3>4, <3>6, <4>1, <5>1
      <4>2. CASE ~(t.cal = id /\ t.user = g.user)
        BY <3>1, <3>6, <4>2
      <4> QED  BY <4>1, <4>2
    <3> QED  BY <3>1, <3>2, <3>5, <3>6, AccessStays
  <2> QED  BY <2>2, <2>3
<1>9. ASSUME NEW w \in Handler, \/ Granted(w) \/ RotateWebcal(w) \/ DeleteWebcal(w)
                                \/ ReadObjects(w) \/ WriteObject(w) \/ Abandon(w)
      PROVE  AccessInv'
  <2>1. /\ UNCHANGED <<calendars, shares>> /\ late \ {w} \subseteq late'
        /\ hd' = [hd EXCEPT ![w] = Idle]
    BY <1>9 DEF Granted, RotateWebcal, DeleteWebcal, ReadObjects, WriteObject, Abandon, End, tables
  <2> QED  BY <1>0, <2>1, AccessSame
<1>10. CASE UNCHANGED vars
  BY <1>10 DEF vars, AccessInv, May
<1> QED  BY <1>1, <1>2, <1>3, <1>4, <1>5, <1>6, <1>7, <1>8, <1>9, <1>10 DEF Next, Step

(* However requests overlap, access that is used was held when it was      *)
(* checked and is held when it is used, unless it ended in between; and    *)
(* names and colours are the owner's but where a PROPPATCH of a user the   *)
(* calendar is shared with has written them.                               *)
THEOREM AccessGuarantee == Spec => []GrantsHold
<1>1. Init => AccessInv /\ AuthorInv
  <2>1. Init => AccessInv
    BY IdleOK DEF Init, AccessInv, UsingPc
  <2>2. Init => AuthorInv
    BY DEF Init, Defaults, AuthorInv, Owner
  <2> QED  BY <2>1, <2>2
<1>2. Inv /\ AccessInv /\ AuthorInv => GrantsHold
  BY GrantsInvIs DEF Inv
<1> QED  BY <1>1, <1>2, AccessNext, AuthorNext, InvAlways, PTL DEF Spec

-----------------------------------------------------------------------------
(* ACL.                                                                    *)

Named(S, u) == \E g \in S : g.user = u

(* While an ACL request works on shares nobody else has touched since it   *)
(* listed them, what is left to delete are the users it did not name, and  *)
(* what is left to add has not been added.                                 *)
AclProgress(h) ==
  h.acl /\ h.clean =>
    /\ h.pc = "revoke" => \A t \in shares : t.cal = h.cal => t.user \in h.todo \/ Named(h.asked, t.user)
    /\ h.pc = "grant" =>
         /\ \A t \in shares : t.cal = h.cal => Named(h.asked, t.user)
         /\ \A g \in h.asked \ h.want :
              \E t \in shares : t.cal = h.cal /\ t.user = g.user /\ t.access = g.access

AclInv == \A w \in Handler : AclProgress(hd[w])

(* A request that has added everything has made the shares what it named.  *)
LEMMA AclInvIs == Inv /\ AclInv => AclExact
<1> SUFFICES ASSUME Inv, AclInv, NEW w \in Handler,
                    hd[w].pc = "grant", hd[w].acl, hd[w].want = {}, hd[w].clean
             PROVE  SharesOf(hd[w].cal) = hd[w].asked
  BY DEF AclExact
<1>1. PICK h : h = hd[w] /\ LocalOK(h) /\ AclProgress(h)
  BY DEF Inv, RequestsOK, AclInv
<1>2. /\ \A t \in shares : t.cal = h.cal => Named(h.asked, t.user)
      /\ \A g \in h.asked : \E t \in shares : t.cal = h.cal /\ t.user = g.user /\ t.access = g.access
  BY <1>1 DEF AclProgress
<1>3. h.asked \subseteq Grant
  BY <1>1 DEF LocalOK, Locals
<1>4. shares \subseteq ShareRow /\ \A s, t \in shares : s.cal = t.cal /\ s.user = t.user => s = t
  BY DEF Inv, StoreOK
<1>5. ASSUME NEW g \in h.asked PROVE g \in SharesOf(h.cal)
  <2>1. PICK t \in shares : t.cal = h.cal /\ t.user = g.user /\ t.access = g.access
    BY <1>2
  <2>2. g = [user |-> t.user, access |-> t.access]
    BY <1>3, <2>1 DEF Grant
  <2> QED  BY <1>4, <2>1, <2>2, SharesOfIs
<1>6. ASSUME NEW g \in SharesOf(h.cal) PROVE g \in h.asked
  <2>1. PICK t \in shares : g \in Grant /\ t.cal = h.cal /\ t.user = g.user /\ t.access = g.access
    BY <1>4, SharesOfIs
  <2>2. PICK k \in h.asked : k.user = g.user
    BY <1>2, <2>1 DEF Named
  <2>3. PICK s \in shares : s.cal = h.cal /\ s.user = k.user /\ s.access = k.access
    BY <1>2
  <2>4. s = t
    BY <1>4, <2>1, <2>2, <2>3
  <2>5. k \in Grant /\ g.user = k.user /\ g.access = k.access
    BY <1>3, <2>1, <2>2, <2>3, <2>4
  <2>6. g = k
    BY <2>1, <2>5 DEF Grant
  <2> QED  BY <2>6
<1> QED  BY <1>1, <1>5, <1>6

(* One request moves, and the shares do not.                               *)
LEMMA AclStays ==
  ASSUME AclInv, NEW w \in Handler, shares' = shares,
         \A v \in Handler \ {w} : hd'[v] = hd[v], AclProgress(hd'[w])
  PROVE  AclInv'
<1>1. ASSUME NEW v \in Handler \ {w} PROVE AclProgress(hd[v])
  BY DEF AclInv
<1>2. ASSUME NEW v \in Handler PROVE AclProgress(hd'[v])
  BY <1>1
<1> QED  BY <1>2 DEF AclInv, AclProgress

(* One request moves and changes shares of calendar id: ACL requests on it *)
(* are noted.                                                              *)
LEMMA AclNoted ==
  ASSUME Inv, AclInv, NEW w \in Handler, NEW id, NEW S, NEW L, AclOf(id) \subseteq S,
         hd' = [v \in Handler |-> IF v = w THEN L
                  ELSE IF v \in S THEN [hd[v] EXCEPT !.clean = FALSE] ELSE hd[v]],
         \A t \in shares : t.cal # id => t \in shares',
         \A t \in shares' : t.cal # id => t \in shares,
         AclProgress(L)'
  PROVE  AclInv'
<1> SUFFICES ASSUME NEW v \in Handler, v # w
             PROVE  AclProgress(hd[v])'
  BY DEF AclInv, AclProgress
<1>1. PICK h, k : h = hd[v] /\ k = hd'[v] /\ h \in Locals
  BY DEF Inv, RequestsOK
<1>2. CASE v \in S
  <2>1. k = [h EXCEPT !.clean = FALSE]
    BY <1>1, <1>2
  <2>2. k.clean = FALSE
    BY <1>1, <2>1 DEF Locals
  <2> QED  BY <1>1, <2>2 DEF AclProgress
<1>3. CASE v \notin S
  <2>1. k = h /\ AclProgress(h)
    BY <1>1, <1>3 DEF AclInv
  <2>2. h.acl => h.cal # id
    BY <1>1, <1>3 DEF AclOf
  <2> QED  BY <1>1, <2>1, <2>2 DEF AclProgress
<1> QED  BY <1>2, <1>3

(* Every step keeps the progress of ACL requests.                          *)
LEMMA AclNext == Inv /\ AclInv /\ [Next]_vars => AclInv'
<1> SUFFICES ASSUME Inv, AclInv, [Next]_vars PROVE AclInv'
  OBVIOUS
<1>0. AclProgress(Idle) /\ AclProgress(Idle)'
  BY IdleOK DEF AclProgress
<1>1. ASSUME NEW w \in Handler, Request(w) PROVE AclInv'
  <2>1. PICK L : Begun(w, L)
    BY <1>1, RequestBegins DEF Inv
  <2>2. hd'[w] = L /\ \A v \in Handler \ {w} : hd'[v] = hd[v]
    BY <2>1 DEF Begun, Inv, RequestsOK
  <2>3. shares' = shares /\ AclProgress(L)
    BY <2>1 DEF Begun, Fresh, AclProgress
  <2> QED  BY <2>2, <2>3, AclStays
<1>2. ASSUME NEW w \in Handler, ProvisionUserDefaults(w) PROVE AclInv'
  <2>1. \/ hd'[w] = Idle
        \/ \E pc \in {"inbox", "outbox"} : hd'[w] = [hd[w] EXCEPT !.pc = pc]
    BY <1>2 DEF ProvisionUserDefaults, End, Goto, NextDefault, Inv, RequestsOK
  <2>2. AclProgress(hd'[w])
    BY <1>0, <2>1 DEF AclProgress, Inv, RequestsOK, Locals
  <2>3. shares' = shares /\ \A v \in Handler \ {w} : hd'[v] = hd[v]
    BY <1>2 DEF ProvisionUserDefaults, End, Goto, Inv, RequestsOK
  <2> QED  BY <2>2, <2>3, AclStays
<1>3. ASSUME NEW w \in Handler, CountPersonalCalendars(w) PROVE AclInv'
  <2>1. hd'[w] = Idle \/ hd'[w] = [hd[w] EXCEPT !.pc = "drop", !.clean = TRUE]
    BY <1>3 DEF CountPersonalCalendars, End, Counted, Inv, RequestsOK, Locals
  <2>2. hd[w] \in Locals /\ ~hd[w].acl
    BY <1>3 DEF CountPersonalCalendars, Inv, RequestsOK, LocalOK
  <2>3. AclProgress(hd'[w])
    <3>1. hd'[w].acl = FALSE \/ hd'[w] = Idle
      BY <2>1, <2>2 DEF Locals
    <3> QED  BY <1>0, <3>1 DEF AclProgress
  <2>4. shares' = shares /\ \A v \in Handler \ {w} : hd'[v] = hd[v]
    BY <1>3 DEF CountPersonalCalendars, End, Counted, tables, Inv, RequestsOK
  <2> QED  BY <2>3, <2>4, AclStays
<1>4. ASSUME NEW w \in Handler, DeleteCalendar(w) PROVE AclInv'
  <2>1. PICK id, S : id = hd[w].cal /\ AclOf(id) \subseteq S
                     /\ hd' = [v \in Handler |-> IF v = w THEN Idle
                                 ELSE IF v \in S THEN [hd[v] EXCEPT !.clean = FALSE] ELSE hd[v]]
    BY <1>4 DEF DeleteCalendar, EndNoting
  <2>2. shares' = {s \in shares : s.cal # id}
    BY <1>4, <2>1 DEF DeleteCalendar
  <2> QED  BY <1>0, <2>1, <2>2, AclNoted
<1>5. ASSUME NEW w \in Handler, ReplaceShares(w) PROVE AclInv'
  <2>1. PICK h, T : /\ h = hd[w] /\ LocalOK(h)
                    /\ T = {s.user : s \in SharesOf(h.cal)} \ {g.user : g \in h.asked}
    BY DEF Inv, RequestsOK
  <2>2. PICK L : L = [h EXCEPT !.pc = "revoke", !.clean = TRUE, !.todo = T]
    OBVIOUS
  <2>3. /\ L.pc = "revoke" /\ L.cal = h.cal /\ L.asked = h.asked /\ L.todo = T
    BY <2>1, <2>2 DEF LocalOK, Locals
  <2>4. hd' = [hd EXCEPT ![w] = L]
    BY <1>5, <2>1, <2>2 DEF ReplaceShares, Inv, RequestsOK, Locals
  <2>5. /\ hd'[w] = L /\ \A v \in Handler \ {w} : hd'[v] = hd[v]
        /\ shares' = shares
    BY <1>5, <2>4 DEF ReplaceShares, tables, Inv, RequestsOK
  <2>6. ASSUME NEW t \in shares, t.cal = h.cal PROVE t.user \in T \/ Named(h.asked, t.user)
    <3>1. [user |-> t.user, access |-> t.access] \in SharesOf(h.cal)
      BY <2>6, SharesOfIs DEF Inv, StoreOK
    <3>2. t.user \in {s.user : s \in SharesOf(h.cal)}
      BY <3>1
    <3> QED  BY <2>1, <3>2 DEF Named
  <2>7. AclProgress(L)
    BY <2>3, <2>6 DEF AclProgress
  <2> QED  BY <2>5, <2>7, AclStays
<1>6. ASSUME NEW w \in Handler, Revoked(w) PROVE AclInv'
  <2>1. PICK h, L : h = hd[w] /\ LocalOK(h) /\ AclProgress(h) /\ L = [h EXCEPT !.pc = "grant"]
    BY DEF Inv, RequestsOK, AclInv
  <2>2. /\ L.pc = "grant" /\ L.cal = h.cal /\ L.acl = h.acl /\ L.asked = h.asked
        /\ L.want = h.want /\ L.clean = h.clean
    BY <2>1 DEF LocalOK, Locals
  <2>3. /\ hd'[w] = L /\ \A v \in Handler \ {w} : hd'[v] = hd[v]
        /\ shares' = shares /\ h.pc = "revoke" /\ h.todo = {}
    BY <1>6, <2>1 DEF Revoked, Goto, tables, Inv, RequestsOK
  <2>4. AclProgress(L)
    BY <2>1, <2>2, <2>3 DEF AclProgress, LocalOK
  <2> QED  BY <2>3, <2>4, AclStays
<1>7. ASSUME NEW w \in Handler, NEW u \in User, DeleteShare(w, u) PROVE AclInv'
  <2>1. PICK h, T : h = hd[w] /\ LocalOK(h) /\ AclProgress(h) /\ h.pc = "revoke" /\ T = h.todo \ {u}
    BY <1>7 DEF Inv, RequestsOK, AclInv, DeleteShare
  <2>2. PICK A, L : A = [h EXCEPT !.todo = T] /\ L = IF h.acl THEN A ELSE Idle
    OBVIOUS
  <2>3. /\ shares' = {s \in shares : s.cal # h.cal \/ s.user # u}
        /\ hd' = [v \in Handler |-> IF v = w THEN L
                    ELSE IF v \in AclOf(h.cal) THEN [hd[v] EXCEPT !.clean = FALSE] ELSE hd[v]]
    BY <1>7, <2>1, <2>2 DEF DeleteShare
  <2>4. /\ A.pc = "revoke" /\ A.cal = h.cal /\ A.acl = h.acl /\ A.asked = h.asked
        /\ A.todo = T /\ A.clean = h.clean
    BY <2>1, <2>2 DEF LocalOK, Locals
  <2>5. AclProgress(A)'
    BY <2>1, <2>3, <2>4 DEF AclProgress
  <2>6. AclProgress(L)'
    BY <1>0, <2>2, <2>5
  <2> QED  BY <2>3, <2>6, AclNoted
<1>8. ASSUME NEW w \in Handler, NEW g \in Grant, UpsertShare(w, g) PROVE AclInv'
  <2>1. PICK h : h = hd[w] /\ LocalOK(h) /\ AclProgress(h) /\ h.pc = "grant" /\ g \in h.want
    BY <1>8 DEF Inv, RequestsOK, AclInv, UpsertShare
  <2>2. CASE ~ForeignKey(h.cal)
    <3>1. shares' = shares /\ hd'[w] = Idle /\ \A v \in Handler \ {w} : hd'[v] = hd[v]
      BY <1>8, <2>1, <2>2 DEF UpsertShare, End, Inv, RequestsOK
    <3> QED  BY <1>0, <3>1, AclStays
  <2>3. CASE ForeignKey(h.cal)
    <3>1. PICK A, L, T, n : /\ T = h.want \ {g} /\ A = [h EXCEPT !.want = T]
                            /\ L = IF h.acl THEN A ELSE Idle
                            /\ n = [cal |-> h.cal, user |-> g.user, access |-> g.access]
      OBVIOUS
    <3>2. /\ shares' = {s \in shares : s.cal # h.cal \/ s.user # g.user} \cup {n}
          /\ hd' = [v \in Handler |-> IF v = w THEN L
                      ELSE IF v \in AclOf(h.cal) THEN [hd[v] EXCEPT !.clean = FALSE] ELSE hd[v]]
      BY <1>8, <2>1, <2>3, <3>1 DEF UpsertShare
    <3>3. /\ A.pc = "grant" /\ A.cal = h.cal /\ A.acl = h.acl /\ A.asked = h.asked
          /\ A.want = T /\ A.clean = h.clean
      BY <2>1, <3>1 DEF LocalOK, Locals
    <3>4. n.cal = h.cal /\ n.user = g.user /\ n.access = g.access
      BY <3>1
    <3>5. ASSUME h.acl, h.clean
          PROVE  /\ \A t \in shares' : t.cal = h.cal => Named(h.asked, t.user)
                 /\ \A k \in h.asked \ T :
                      \E t \in shares' : t.cal = h.cal /\ t.user = k.user /\ t.access = k.access
      <4>1. h.want \subseteq h.asked /\ \A k \in h.asked : k.user = g.user => k = g
        BY <2>1, <3>5 DEF LocalOK
      <4>2. Named(h.asked, g.user)
        BY <2>1, <4>1 DEF Named
      <4>3. \A t \in shares' : t.cal = h.cal => Named(h.asked, t.user)
        BY <2>1, <3>2, <3>4, <3>5, <4>2 DEF AclProgress
      <4>4. ASSUME NEW k \in h.asked \ T
            PROVE  \E t \in shares' : t.cal = h.cal /\ t.user = k.user /\ t.access = k.access
        <5>1. CASE k = g
          BY <3>2, <3>4, <5>1
        <5>2. CASE k # g
          <6>1. k.user # g.user /\ k \in h.asked \ h.want
            BY <3>1, <4>1, <5>2
          <6>2. PICK t \in shares : t.cal = h.cal /\ t.user = k.user /\ t.access = k.access
            BY <2>1, <3>5, <6>1 DEF AclProgress
          <6> QED  BY <3>2, <6>1, <6>2
        <5> QED  BY <5>1, <5>2
      <4> QED  BY <4>3, <4>4
    <3>6. AclProgress(A)'
      BY <3>3, <3>5 DEF AclProgress
    <3>7. AclProgress(L)'
      BY <1>0, <3>1, <3>6
    <3>8. /\ \A t \in shares : t.cal # h.cal => t \in shares'
          /\ \A t \in shares' : t.cal # h.cal => t \in shares
      BY <3>2, <3>4
    <3> QED  BY <3>2, <3>7, <3>8, AclNoted
  <2> QED  BY <2>2, <2>3
<1>9. ASSUME NEW w \in Handler,
             \/ CreateCalendar(w) \/ writeCalendarMeta(w) \/ Granted(w) \/ RotateWebcal(w)
             \/ DeleteWebcal(w) \/ ReadObjects(w) \/ WriteObject(w) \/ Abandon(w)
      PROVE  AclInv'
  <2>1. shares' = shares /\ hd' = [hd EXCEPT ![w] = Idle]
    BY <1>9 DEF CreateCalendar, writeCalendarMeta, Granted, RotateWebcal, DeleteWebcal,
       ReadObjects, WriteObject, Abandon, End, tables
  <2>2. hd'[w] = Idle /\ \A v \in Handler \ {w} : hd'[v] = hd[v]
    BY <2>1 DEF Inv, RequestsOK
  <2> QED  BY <1>0, <2>1, <2>2, AclStays
<1>10. CASE UNCHANGED vars
  BY <1>10 DEF vars, AclInv, AclProgress
<1> QED  BY <1>1, <1>2, <1>3, <1>4, <1>5, <1>6, <1>7, <1>8, <1>9, <1>10 DEF Next, Step

(* However requests overlap, ACL ends with the shares it named, unless     *)
(* another request changed shares of that calendar since it listed them.   *)
THEOREM AclGuarantee == Spec => []AclExact
<1>1. Init => AclInv
  BY IdleOK DEF Init, AclInv, AclProgress
<1> QED  BY <1>1, AclInvIs, AclNext, InvAlways, PTL DEF Spec
=============================================================================
