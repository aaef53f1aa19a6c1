---------------------------- MODULE ObjectStore ----------------------------
(* What the collections of dCalCon promise the clients that write them: a  *)
(* map from member names to bodies, to which every request is applied in   *)
(* one step, a PUT under the precondition it came with and a DELETE        *)
(* whatever precondition it came with, and in a calendar at most one       *)
(* member for every UID.  DavCollection, which takes a dozen statements to *)
(* do so, implements it as long as requests do not overlap.                *)

CONSTANTS
  Href, Body, UidOf, Handler,
  UniqueUid,   \* does a UID occur once (calendars)
  NoRow,       \* there is no such member
  Any          \* the request names no state of the member

VARIABLES
  members,     \* the body under each href, or NoRow
  asked        \* the request each handler has accepted and not applied, if any

vars == <<members, asked>>

(* A request to make body the member href, or to remove it (NoRow), and    *)
(* the state of the member that its headers expect.                        *)
Request == [href : Href, body : Body \cup {NoRow}, expect : Body \cup {NoRow, Any}]

Init ==
  /\ members = [h \in Href |-> NoRow]
  /\ asked = [w \in Handler |-> {}]

(* The headers of a removal are not looked at, neither by caldav nor by    *)
(* carddav: a client whose ETag is old removes what another has written.   *)
Heeded(r) == r.body # NoRow

Holds(r) == Heeded(r) => r.expect \in {Any, members[r.href]}

(* The members that the body of r replaces because they carry its UID.     *)
Displaced(r) ==
  {g \in Href \ {r.href} :
     /\ UniqueUid /\ r.body # NoRow /\ members[g] # NoRow
     /\ UidOf[members[g]] = UidOf[r.body]}

Ask(w) ==
  /\ asked[w] = {}
  /\ \E r \in Request : Holds(r) /\ asked' = [asked EXCEPT ![w] = {r}]
  /\ UNCHANGED members

(* What the new member replaces may go before the member comes, and the    *)
(* request may end between the two.                                        *)
Displace(w) ==
  /\ \E r \in asked[w] : \E g \in Displaced(r) :
       members' = [members EXCEPT ![g] = NoRow]
  /\ UNCHANGED asked

Apply(w) ==
  /\ \E r \in asked[w] :
       /\ Holds(r)
       /\ members' = [g \in Href |-> IF g = r.href THEN r.body
                                     ELSE IF g \in Displaced(r) THEN NoRow
                                     ELSE members[g]]
  /\ asked' = [asked EXCEPT ![w] = {}]

(* The request ends without effect.                                        *)
Drop(w) ==
  /\ asked[w] # {}
  /\ asked' = [asked EXCEPT ![w] = {}]
  /\ UNCHANGED members

Next == \E w \in Handler : Ask(w) \/ Displace(w) \/ Apply(w) \/ Drop(w)

Spec == Init /\ [][Next]_vars

(* At most one member of a calendar carries a UID.                         *)
OneMemberPerUid ==
  UniqueUid => \A g, h \in Href :
    members[g] # NoRow /\ members[h] # NoRow /\ UidOf[members[g]] = UidOf[members[h]]
      => g = h
=============================================================================
