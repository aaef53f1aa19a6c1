-------------------------------- MODULE Mail --------------------------------
(***************************************************************************)
(* Invitations to one event, of the organizer's invitees as they are typed *)
(* (usernames, mailboxes of this server, addresses): sendInvites invites   *)
(* the local users, merges the others into the event and mails them with a *)
(* connected account (module Connected) or the server's SMTP; testAccount  *)
(* mails the account's own address.                                        *)
(*                                                                         *)
(* The event is the set of its attendee lines.  What the invited users see *)
(* and answer is the subject of Schedule.                                  *)
(***************************************************************************)
EXTENDS Connected

CONSTANTS
  Ident,       \* what can be typed, in lower case; also usernames and addresses
  User,        \* [name, email, box, active]: users of this server
  Self,        \* the organizer, one of them
  UserOf,      \* FindUser: ident -> user or None
  LocalBox,    \* IsLocalMailbox: idents whose host is this server's
  AddrOf,      \* parseInviteEmail: the address of an ident, or None
  Invitees,    \* the lists of invitees requests carry
  Failures     \* the sets of positions in them whose look-ups may fail together

ASSUME IdentAssumption ==
  /\ Self \in User /\ UserOf \in [Ident -> User \cup {None}]
  /\ AddrOf \in [Ident -> Ident \cup {None}] /\ LocalBox \subseteq Ident
  /\ Invitees \subseteq Seq(Ident) /\ Failures \subseteq SUBSET Nat

(* FindUser finds a user by username and by the local mailbox; addresses   *)
(* are not usernames, which have no @ (validUsername).  What it finds a    *)
(* user by is at most written with "mailto:", and so is its address.       *)
ASSUME UserAssumption ==
  /\ None \notin User
  /\ \A u \in User :
       /\ {u.name, u.email, u.box} \subseteq Ident /\ u.active \in BOOLEAN
       /\ UserOf[u.name] = u /\ UserOf[u.box] = u
       /\ \A i \in Ident : AddrOf[i] # u.name
  /\ \A i \in Ident : UserOf[i] # None /\ AddrOf[i] # None => UserOf[AddrOf[i]] = UserOf[i]

VARIABLES
  server,   \* is the server's own SMTP configured?
  event,    \* the attendee lines of the stored event
  reached,  \* history: the lines of those who were invited or mailed
  raced     \* history: an invitation has written an event it had read before
            \* another one wrote it

mailVars == <<server, event, reached, raced>>
vars == <<connVars, mailVars>>

Init == InitConnected /\ server \in BOOLEAN /\ event = {} /\ reached = {} /\ raced = FALSE

-----------------------------------------------------------------------------
(* sendInvites: who is invited, and how.                                   *)

Nobody == [seen |-> {}, local |-> {}, external |-> <<>>, missing |-> {}]

(* Mutant: only the name under which a user was found is noted.            *)
SeenByName(u) == {u.name}

(* The names a user that is invited may be typed by again.                 *)
SeenAs(u) == {u.name, u.email, u.box}

(* One that was typed, and the user it was found to be, or None.           *)
addIdent(acc, raw, u) ==
  LET addr == AddrOf[raw] IN
  CASE raw \in acc.seen \/ raw = Self.name -> acc
    [] raw \notin acc.seen /\ raw # Self.name /\ u # None ->
         IF u = Self \/ ~u.active \/ u.name \in acc.seen THEN acc
         ELSE [acc EXCEPT !.seen = @ \cup SeenAs(u), !.local = @ \cup {u}]
    [] raw \notin acc.seen /\ raw # Self.name /\ u = None ->
         IF raw \in LocalBox \/ addr = None THEN [acc EXCEPT !.missing = @ \cup {raw}]
         ELSE IF addr = Self.email \/ addr \in acc.seen THEN acc
         ELSE [acc EXCEPT !.seen = @ \cup {addr}, !.external = Append(@, addr)]

(* Whatever error FindUser returns, nobody was found.                      *)
Found(names, failed, n) == IF n \in failed THEN None ELSE UserOf[names[n]]

(* All that were typed, one after the other; the look-ups at the positions *)
(* failed return an error.                                                 *)
LookUp(names, failed) ==
  LET who[n \in 0..Len(names)] ==
        IF n = 0 THEN Nobody ELSE addIdent(who[n-1], names[n], Found(names, failed, n))
  IN  who[Len(names)]

(* Where an error makes a difference.                                      *)
MayFail(names) == {n \in DOMAIN names : UserOf[names[n]] # None}

(* The event is read, and the invitees are looked up.                      *)
sendInvites(w, names, failed) ==
  LET who == LookUp(names, failed)
      next == IF who.local # {} THEN "local" ELSE IF who.external # <<>> THEN "merge" ELSE "answered" IN
  /\ Start(w, [Idle EXCEPT !.pc = next, !.kind = "invite", !.names = names, !.failed = failed,
                           !.lines = event, !.local = who.local, !.todo = who.external,
                           !.missing = who.missing, !.err = next = "answered"])
  /\ UNCHANGED <<stored, flows, codes, provider, cut, mailVars>>

-----------------------------------------------------------------------------
(* The event is written with what was read and the lines S; what other     *)
(* requests have read of it is late then.                                  *)
Late(w) == [v \in Handler |-> IF v # w /\ hd[v].pc \in {"local", "merge"}
                              THEN [hd[v] EXCEPT !.late = TRUE] ELSE hd[v]]

(* Mailboxes of this server are passed over by sendIMIP.                   *)
Recipients(l) ==
  LET to[n \in 0..Len(l)] == IF n = 0 THEN <<>>
                             ELSE IF l[n] \in LocalBox THEN to[n-1] ELSE Append(to[n-1], l[n])
  IN  to[Len(l)]

(* Mutant: the object in hand stays as it was read.                        *)
WriteStoredOnly(w, S, pc) ==
  /\ event' = hd[w].lines \cup S
  /\ hd' = [Late(w) EXCEPT ![w].pc = pc, ![w].todo = IF pc = "list" THEN Recipients(@) ELSE @]
  /\ raced' = (raced \/ hd[w].late)

WriteEvent(w, S, pc) ==
  /\ event' = hd[w].lines \cup S
  /\ hd' = [Late(w) EXCEPT ![w].pc = pc, ![w].todo = IF pc = "list" THEN Recipients(@) ELSE @,
                        ![w].lines = @ \cup S]
  /\ raced' = (raced \/ hd[w].late)

(* One transaction: the event and the copies of the local users.           *)
ApplyLocalInvite(w) ==
  LET boxes == {u.box : u \in hd[w].local} IN
  /\ hd[w].pc = "local"
  /\ WriteEvent(w, boxes, IF hd[w].todo = <<>> THEN "answered" ELSE "merge")
  /\ reached' = reached \cup boxes
  /\ UNCHANGED <<server, stored, flows, codes, provider, requests, cut>>

MergeExternalEmails(w) ==
  /\ hd[w].pc = "merge"
  /\ WriteEvent(w, Range(hd[w].todo), "list")
  /\ UNCHANGED <<stored, flows, codes, provider, requests, cut, server, reached>>

(* One of them fails.  What was done before stays.                         *)
InviteFails(w) ==
  /\ hd[w].pc \in {"local", "merge", "list"}
  /\ hd' = [hd EXCEPT ![w].pc = "answered", ![w].err = TRUE]
  /\ UNCHANGED <<stored, flows, codes, provider, requests, cut, mailVars>>

-----------------------------------------------------------------------------
(* sendIMIP.                                                               *)

Lowest(K) == CHOOSE k \in K : \A j \in K : accounts[k].id <= accounts[j].id
Highest(K) == CHOOSE k \in K : \A j \in K : accounts[j].id <= accounts[k].id
Connected(p) == {k \in Mailbox : accounts[k] # None /\ k[1] \in p}

(* pickAccountID: the account with the organizer's address, else one of    *)
(* Google, of Microsoft, of SMTP.                                          *)
pickAccountID ==
  LET match == {k \in Connected({"google", "microsoft", "smtp"}) : k[2] = OwnEmail} IN
  IF match # {} THEN Highest(match)
  ELSE IF Connected({"google"}) # {} THEN Lowest(Connected({"google"}))
  ELSE IF Connected({"microsoft"}) # {} THEN Lowest(Connected({"microsoft"}))
  ELSE Lowest(Connected({"smtp"}))

ListConnectedAccounts(w) ==
  /\ hd[w].pc = "list"
  /\ hd' = [hd EXCEPT ![w] =
       IF hd[w].todo = <<>> THEN [@ EXCEPT !.pc = "answered"]
       ELSE IF Connected({"google", "microsoft", "smtp"}) = {} THEN [@ EXCEPT !.pc = "server"]
       ELSE [@ EXCEPT !.pc = "account", !.key = pickAccountID, !.id = accounts[pickAccountID].id]]
  /\ UNCHANGED <<stored, flows, codes, provider, requests, cut, mailVars>>

(* The account may have been deleted, or the read fails; either way there  *)
(* is none.                                                                *)
ConnectedAccountByID(w) ==
  /\ hd[w].pc = "account"
  /\ \/ hd' = [hd EXCEPT ![w].pc = "server", ![w].id = 0]
     \/ /\ RowWithId(hd[w].id) # {}
        /\ hd' = [hd EXCEPT ![w].pc = "send", ![w].tok = accounts[hd[w].key].tok]
  /\ UNCHANGED <<stored, flows, codes, provider, requests, cut, mailVars>>

(* The request after a message: the next recipient, or the answer.         *)
AfterMessage(w, how) ==
  hd' = [hd EXCEPT
    ![w].todo = Tail(@),
    ![w].pc = IF Len(hd[w].todo) = 1 THEN "answered" ELSE IF hd[w].id = 0 THEN "server" ELSE "send",
    ![w].mailed = IF how = "sent" THEN @ \cup {Head(hd[w].todo)} ELSE @,
    ![w].err = @ \/ how = "failed"]

(* SendGmail, SendGraph, SendSMTP.                                         *)
Deliver(w) ==
  /\ hd[w].pc = "deliver"
  /\ AfterMessage(w, "sent")
  /\ reached' = IF hd[w].kind = "invite" THEN reached \cup {Head(hd[w].todo)} ELSE reached
  /\ UNCHANGED <<stored, flows, codes, provider, requests, cut, server, event, raced>>

(* The failure is noted on the account, and the next recipient tried.      *)
NoteFailure(w) ==
  /\ hd[w].pc = "fail"
  /\ SetConnectedAccountError(w)
  /\ AfterMessage(w, "failed")
  /\ UNCHANGED <<nextId, flows, codes, provider, requests, cut, mailVars>>

(* Without an account: the server's SMTP, message by message.              *)
SendMIME(w) ==
  /\ hd[w].pc = "server" /\ server
  /\ \/ AfterMessage(w, "sent") /\ reached' = reached \cup {Head(hd[w].todo)}
     \/ AfterMessage(w, "failed") /\ UNCHANGED reached
  /\ UNCHANGED <<stored, flows, codes, provider, requests, cut, server, event, raced>>

(* Or an error, and no other recipient is tried.                           *)
NoSender(w) ==
  /\ hd[w].pc = "server" /\ ~server
  /\ hd' = [hd EXCEPT ![w].pc = "answered", ![w].err = TRUE]
  /\ UNCHANGED <<stored, flows, codes, provider, requests, cut, mailVars>>

(* testAccount: one message to the account's own address.                  *)
testAccount(w, k) ==
  /\ accounts[k] # None
  /\ Start(w, [Idle EXCEPT !.pc = "send", !.kind = "test", !.key = k, !.id = accounts[k].id,
                           !.tok = accounts[k].tok, !.todo = <<k[2]>>])
  /\ UNCHANGED <<stored, flows, codes, provider, cut, mailVars>>

-----------------------------------------------------------------------------
Next ==
  \/ ConnectStep /\ UNCHANGED mailVars
  \/ \E w \in Handler :
       \/ \E names \in Invitees, failed \in Failures : sendInvites(w, names, failed \cap MayFail(names))
       \/ \E k \in Mailbox : testAccount(w, k)
       \/ ApplyLocalInvite(w) \/ MergeExternalEmails(w) \/ InviteFails(w)
       \/ ListConnectedAccounts(w) \/ ConnectedAccountByID(w)
       \/ Deliver(w) \/ NoteFailure(w) \/ SendMIME(w) \/ NoSender(w)

Spec == Init /\ [][Next]_vars

-----------------------------------------------------------------------------
(* Properties.                                                             *)

(* Typed with a display name: "Bob <bob@example.org>".                     *)
Displayed(i) == AddrOf[i] \notin {i, None}

(* The user that an ident denotes to a reader, who also looks at the       *)
(* address behind a display name.                                          *)
Denotes(i) ==
  IF UserOf[i] # None \/ AddrOf[i] = None THEN UserOf[i] ELSE UserOf[AddrOf[i]]

(* The form in which d is typed first.                                     *)
FirstTyped(names, d) ==
  names[CHOOSE m \in DOMAIN names :
          Denotes(names[m]) = d /\ \A n \in 1..m-1 : Denotes(names[n]) # d]

(* Every user is found by the address of her own; one whose address is a   *)
(* mailbox of this server is not (FindUser).                               *)
FoundByAddress == \A u \in User : UserOf[u.email] = u

(* Nobody is dropped or invited twice: when an invitation reports no       *)
(* error, each one who was typed is invited here, was mailed, or is listed *)
(* as missing, but for the organizer and disabled users, who are passed    *)
(* over; and no user is both invited and mailed.  Three gaps: a mailbox of *)
(* this server that is typed with a display name is dropped, and with it   *)
(* the same mailbox when it is typed without one later; a user whose       *)
(* address is first typed with one is not recognised and mailed; and so is *)
(* one, by the address typed, when looking her up fails, or she is listed  *)
(* as missing, invited or not (api/mail.go sendInvites,                    *)
(* schedule/identity.go FindUser).                                         *)
Accounted ==
  \A w \in Handler :
    hd[w].pc = "answered" /\ hd[w].kind = "invite" /\ ~hd[w].err =>
      \A i \in Range(hd[w].names) :
        LET d == Denotes(i) IN
        /\ \/ d = Self \/ (d \in User /\ ~d.active)
           \/ d \in hd[w].local \/ i \in hd[w].missing
           \/ {i, AddrOf[i]} \cap hd[w].mailed # {}
           \/ \E j \in Range(hd[w].names) :
                Displayed(j) /\ AddrOf[j] \in {i, AddrOf[i]} \cap LocalBox
        /\ d \in User /\ d \in hd[w].local /\ d.email \in hd[w].mailed =>
             \/ Displayed(FirstTyped(hd[w].names, d))
             \/ \E n \in hd[w].failed : Denotes(hd[w].names[n]) = d

(* Rows, flows and locals have their types, and ids are not used twice.    *)
TypeOK ==
  /\ accounts \in [Mailbox -> Row \cup {None}] /\ nextId \in Nat \ {0}
  /\ flows \in [Flow -> FlowRow \cup {None}]
  /\ \A k \in Mailbox : accounts[k] # None => RowWithId(accounts[k].id) = {k} /\ accounts[k].id < nextId
  /\ \A w \in Handler : hd[w].id < nextId /\ hd[w].tok \in Tok /\ hd[w].next \in Tok
  /\ live \subseteq 1..issued /\ stale <= issued /\ cut \subseteq Mailbox

(* Whoever has got the invitation is an attendee of the stored event, so   *)
(* that answers and cancellations find them; unless an invitation has      *)
(* written an event that another one had written since it was read         *)
(* (schedule/local.go ApplyLocalInvite, MergeExternalEmails).              *)
InvitedAreListed == raced \/ reached \subseteq event
=============================================================================
