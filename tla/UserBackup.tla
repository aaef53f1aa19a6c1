----------------------------- MODULE UserBackup -----------------------------
(***************************************************************************)
(* A user's own archive: exported while requests go on writing the         *)
(* calendar and its files (module Attachments), and restored later.        *)
(*                                                                         *)
(* Build lists the objects in one statement and reads the rows and the     *)
(* bytes of each object afterwards, then the tables of the account one     *)
(* after the other, with nothing that holds writers back.  Restore is one  *)
(* transaction, for an archive that the parser takes.  One calendar is     *)
(* modelled; address books are treated alike, without files.  account      *)
(* stands for what a full archive has besides: password is a number for    *)
(* each state of the password hash, tokens for each state of the           *)
(* authenticator, the app passwords and the connected accounts together.   *)
(***************************************************************************)
EXTENDS Attachments

CONSTANTS
  Segment,   \* the segments of paths in the archive
  SegmentOf, \* davpath.ZipSegment, on the object names
  Email,     \* addresses
  Grantee,   \* users the calendar may be shared with
  MaxState,  \* bound on the states of password and of tokens
  MaxEntries,  \* limits.MaxImportZipFiles
  MaxUnpacked  \* limits.MaxBackupZip, packed, or twice that, unpacked

ASSUME SegmentAssumption == SegmentOf \in [Href -> Segment]
ASSUME StateAssumption == MaxState \in Nat /\ MaxEntries \in Nat /\ MaxUnpacked \in Nat
ASSUME EmailAssumption == Email # {}

VARIABLES
  account,  \* email, password, tokens, shares of the user
  others,   \* addresses that other users have
  build,    \* the export in progress
  archive,  \* the archive the user has kept, or None
  restored  \* history: nothing has changed since this archive was restored

vars == <<fileVars, account, others, build, archive, restored>>

Kind == {"data", "full"}
NoBuild == [pc |-> "idle"]

Init ==
  /\ InitFiles
  /\ account = [email |-> CHOOSE e \in Email : TRUE, password |-> 0, tokens |-> 0, shares |-> {}]
  /\ others = {} /\ build = NoBuild /\ archive = None /\ restored = FALSE

-----------------------------------------------------------------------------
(* Export.                                                                 *)

(* Build, writeCalendar: the row of the user is read, then the objects are *)
(* listed.  of and was are history: the tables at this moment, and the     *)
(* account, as long as nobody has written them since.  An export counts    *)
(* for two requests, itself and the restore of its archive.                *)
Build(kind) ==
  /\ build.pc = "idle" /\ requests + 2 <= MaxRequests
  /\ requests' = requests + 2
  /\ build' = [pc |-> "objects", kind |-> kind, of |-> db, was |-> account, account |-> account,
               todo |-> Live(db), obj |-> db.obj, items |-> {}, href |-> None, pending |-> {},
               ics |-> [s \in Segment |-> None], files |-> {}]
  /\ UNCHANGED <<db, hd, outOfStep, account, others, archive, restored>>

(* The body of an object goes into the archive, over the one of an object  *)
(* whose name has the same segment; then its rows are listed.              *)
writeObject(h) ==
  /\ build.pc = "objects" /\ h \in build.todo /\ build.pending = {}
  /\ build' = [build EXCEPT !.todo = @ \ {h}, !.ics[SegmentOf[h]] = build.obj[h].ics,
                            !.items = @ \cup {[href |-> h, uid |-> build.obj[h].uid]},
                            !.href = h, !.pending = Ids(RowsAt(db, h))]
  /\ UNCHANGED <<fileVars, account, others, archive, restored>>

(* AttachmentByPublicID, for each row of the list: a file that has been    *)
(* deleted since is left out.                                              *)
writeFile(id) ==
  /\ build.pc = "objects" /\ id \in build.pending
  /\ build' = [build EXCEPT !.pending = @ \ {id},
                 !.files = @ \cup {[id |-> r.id, href |-> build.href, file |-> r.file] :
                                     r \in {x \in db.rows : x.id = id}}]
  /\ UNCHANGED <<fileVars, account, others, archive, restored>>

Complete == build.pc = "objects" /\ build.todo = {} /\ build.pending = {}

(* buildAccount, in a full archive: the password hash; the authenticator,  *)
(* the app passwords and the connected accounts; the shares.  The address  *)
(* is the one of the row that Build has read.                              *)
buildAccount ==
  /\ Complete /\ build.kind = "full"
  /\ build' = [build EXCEPT !.account.password = account.password, !.pc = "tokens"]
  /\ UNCHANGED <<fileVars, account, others, archive, restored>>

ListBackups ==
  /\ build.pc = "tokens"
  /\ build' = [build EXCEPT !.account.tokens = account.tokens, !.pc = "shares"]
  /\ UNCHANGED <<fileVars, account, others, archive, restored>>

ListShares ==
  /\ build.pc = "shares"
  /\ build' = [build EXCEPT !.account.shares = account.shares, !.pc = "written"]
  /\ UNCHANGED <<fileVars, account, others, archive, restored>>

(* The user keeps the archive.                                             *)
writeUserBackup ==
  /\ build.pc = "written" \/ (Complete /\ build.kind = "data")
  /\ archive' = [kind |-> build.kind, of |-> build.of, was |-> build.was, items |-> build.items,
                 ics |-> build.ics, files |-> build.files, account |-> build.account]
  /\ build' = NoBuild
  /\ restored' = FALSE
  /\ UNCHANGED <<fileVars, account, others>>

-----------------------------------------------------------------------------
(* Restore.                                                                *)

(* Open counts the files of the archive and their bytes, and refuses the   *)
(* whole of it for one file that is too long; Build has no limits.         *)
Opens(arch) ==
  /\ Cardinality(arch.items) + Cardinality(arch.files) <= MaxEntries
  /\ MapThenSumSet(LAMBDA f : Size[f.file], arch.files) <= MaxUnpacked
  /\ \A item \in arch.items : item.uid \notin Long

(* It finds the body of an object under the segment of its name.           *)
Open(arch, item) == arch.ics[SegmentOf[item.href]]

(* RestoreAttachment keeps the id: in the calendar that is restored all    *)
(* rows have gone.  A file that does not fit is skipped.                   *)
RestoreAttachment(S, f) ==
  IF Fits(S, f.href, {f.file}) THEN [S EXCEPT !.rows = @ \cup {f}] ELSE S

(* restoreObject: the body without its ATTACHs, the files, the files that  *)
(* were still in the body, and the body with references to all of them.    *)
(* The external links are in no part of this.                              *)
restoreObject(S, arch, item) ==
  LET h == item.href
      split == SplitAttachments(Open(arch, item))
      S1 == UpsertCalendarObject(S, h, item.uid, split.rest)
      S2 == FoldSet(LAMBDA f, T : RestoreAttachment(T, f), S1, {f \in arch.files : f.href = h})
      S3 == FoldSet(LAMBDA f, T : IF Fits(T, h, {f}) THEN InsertAttachments(T, h, {f}) ELSE T,
                    S2, split.inlines)
  IN  UpsertCalendarObject(S3, h, item.uid, RewriteManagedAttachments(S3, h, split.rest))

Emptied == Deleted(db, Href)

(* Mutant: objects that the archive does not have stay.                    *)
restoreOver(arch) ==
  FoldSet(LAMBDA item, S : restoreObject(S, arch, item), db, arch.items)

(* restoreCalendars: all objects are deleted first.  The order in which    *)
(* the others come back goes by their times, which are left out here.      *)
restoreCalendars(arch) ==
  FoldSet(LAMBDA item, S : restoreObject(S, arch, item), Emptied, arch.items)

(* restoreSharesFromBackup: shares are replaced when there are any.        *)
restoreShares(a) == IF a.shares = {} THEN account.shares ELSE a.shares

(* restoreAccount: an address that somebody else has by now is left out;  *)
(* SetPasswordHash, RestoreTOTP, ReplaceAppPasswordBackups and             *)
(* ReplaceConnectedAccountBackups write the rest as it was exported.       *)
restoreAccount(a) ==
  [a EXCEPT !.email = IF @ \in others THEN account.email ELSE @, !.shares = restoreShares(a)]

(* A full archive restores the account, too.                               *)
AccountOf(arch) == IF arch.kind = "full" THEN restoreAccount(arch.account) ELSE account

(* Restore, one transaction.                                               *)
Restore ==
  /\ archive # None /\ Opens(archive)
  /\ LET S == restoreCalendars(archive) IN S.next <= MaxId /\ Store(S, {})
  /\ account' = AccountOf(archive)
  /\ restored' = TRUE
  /\ build' = IF build.pc = "idle" THEN build ELSE [build EXCEPT !.of = None, !.was = None]
  /\ UNCHANGED <<hd, requests, others, archive>>

(* importBackup, with an archive that Open refuses.                        *)
RefuseRestore ==
  /\ archive # None /\ ~Opens(archive)
  /\ UNCHANGED vars

-----------------------------------------------------------------------------
(* The account goes on changing.                                           *)

Changes ==
  /\ requests < MaxRequests
  /\ requests' = requests + 1
  /\ restored' = FALSE
  /\ build' = IF build.pc = "idle" THEN build ELSE [build EXCEPT !.was = None]
  /\ UNCHANGED <<db, hd, outOfStep, archive>>

changePassword ==
  /\ account.password < MaxState
  /\ Changes
  /\ account' = [account EXCEPT !.password = @ + 1] /\ UNCHANGED others

(* An authenticator is set up, an app password or a mail account added.    *)
AddToken ==
  /\ account.tokens < MaxState
  /\ Changes
  /\ account' = [account EXCEPT !.tokens = @ + 1] /\ UNCHANGED others

(* UpdateProfile of this user, and of another one: an address is UNIQUE.   *)
UpdateProfile(e) ==
  /\ e \notin others \cup {account.email}
  /\ Changes
  /\ account' = [account EXCEPT !.email = e] /\ UNCHANGED others

OthersUpdateProfile(e) ==
  /\ e \notin others \cup {account.email}
  /\ Changes
  /\ others' = {e} /\ UNCHANGED account

UpsertShare(g) ==
  /\ g \notin account.shares
  /\ Changes
  /\ account' = [account EXCEPT !.shares = @ \cup {g}] /\ UNCHANGED others

FileStep ==
  /\ FileNext
  /\ build' = IF build.pc # "idle" /\ db' # db THEN [build EXCEPT !.of = None] ELSE build
  /\ restored' = (restored /\ db' = db)
  /\ UNCHANGED <<account, others, archive>>

Next ==
  \/ FileStep
  \/ \E kind \in Kind : Build(kind)
  \/ \E h \in Href : writeObject(h)
  \/ \E id \in 1..MaxId : writeFile(id)
  \/ buildAccount \/ ListBackups \/ ListShares \/ writeUserBackup
  \/ Restore \/ RefuseRestore
  \/ changePassword \/ AddToken
  \/ \E e \in Email : UpdateProfile(e) \/ OthersUpdateProfile(e)
  \/ \E g \in Grantee : UpsertShare(g)

Spec == Init /\ [][Next]_vars

-----------------------------------------------------------------------------
(* Properties.                                                             *)

Account ==
  [email : Email, password : 0..MaxState, tokens : 0..MaxState, shares : SUBSET Grantee]

(* Tables, locals, archive and account have their types.                   *)
TypeOK ==
  /\ FileTypeOK
  /\ account \in Account /\ others \subseteq Email /\ restored \in BOOLEAN
  /\ build # NoBuild =>
       build.files \subseteq Row /\ build.todo \subseteq Href /\ build.account \in Account
  /\ archive # None => archive.files \subseteq Row /\ archive.account \in Account

(* The objects whose bodies the archive has: no other name of the archive  *)
(* has the same segment.                                                   *)
Own(arch) ==
  {i.href : i \in {x \in arch.items :
     \A y \in arch.items : SegmentOf[x.href] = SegmentOf[y.href] => x = y}}

(* Restoring an archive that was taken while nobody wrote, and that the    *)
(* parser takes, brings back every UID and no object that was not there,   *)
(* with the same files under the same ids, whatever has happened to them   *)
(* in between: what is missing are objects that shared their UID with      *)
(* another.  Left out are the bodies that the archive mixed up, and links  *)
(* to elsewhere, which Restore drops.  "full also restores password hash,  *)
(* authenticator, app passwords, mail tokens" (doc/SECURITY.md), and the   *)
(* address unless somebody else has it by now, and shares if there were    *)
(* any: as they were at the start, if they were the same until the end.    *)
RestoreFaithful ==
  /\ restored /\ archive.of # None =>
       /\ \A h \in Live(db) : h \in Live(archive.of) /\ db.obj[h].uid = archive.of.obj[h].uid
       /\ \A h \in Live(archive.of) :
            \E g \in Live(db) : db.obj[g].uid = archive.of.obj[h].uid
       /\ \A r \in archive.of.rows : r.href \in Live(db) => r \in db.rows
       /\ \A h \in Own(archive) \cap Live(db) :
            /\ db.obj[h].ics.uid = archive.of.obj[h].ics.uid
            /\ DOMAIN db.obj[h].ics.parts = DOMAIN archive.of.obj[h].ics.parts
            /\ RefsOf(db.obj[h].ics) = Ids(RowsAt(db, h))
  /\ restored /\ archive.kind = "full" /\ archive.was # None =>
       /\ account.password = archive.was.password /\ account.tokens = archive.was.tokens
       /\ account.email # archive.was.email => archive.was.email \in others
       /\ archive.was.shares # {} => account.shares = archive.was.shares
  /\ account.email \notin others

=============================================================================
