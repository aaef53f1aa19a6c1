# dCalCon: TLA+ specifications

dCalCon is a CalDAV/CardDAV server with a REST API, a web dashboard, a CLI and a
background worker, all over one SQLite database. This directory specifies the
parts of the server that keep state, checks them with TLC on small instances and
proves the most important guarantees with TLAPS for every instance.

## The system

| Part | State | Operations | Interacts with |
|---|---|---|---|
| DAV collections (`storage/dav.go`, `caldav`, `carddav`, `davcond`, `davext/sync.go`, `davext/inject.go`) | object rows, `dav_changes`, ctag | PUT, DELETE, sync-collection, getctag, listing | everything that writes objects: REST, import, worker, scheduling, restore |
| Attachments (`storage/attachments.go`, `icsutil/attach.go`, `api/attachments.go`) | `attachments` rows, ATTACH lines in the stored body | managed, inline and REST attachments, limits | object upsert, calendar import, user backup |
| Scheduling (`schedule/local.go`, `itip.go`, `davext/schedule.go`, `api/router.go`) | `schedule_inbox` rows and their status, copies in the inbox, outbox and personal calendars | deliver on PUT, cancel on DELETE, accept, decline, reply | collections of several users, mail |
| People book (`schedule/people.go`) | a generated address book | refresh on read | collections |
| Worker (`worker/worker.go`) | important-dates calendar, backups on disk | tick, important dates, backup, prune, hook | collections, backup |
| Accounts (`storage/users.go`, `accounts.go`, `auth`, `api/account.go`, `admin.go`) | users, sessions, roles | sign-in, password change, disable, delete, create | every request (authentication) |
| Recovery (`storage/recovery.go`, `api/recovery.go`) | reset and verification tokens | request, consume | accounts, mail |
| Second factor (`api/totp.go`, `otp`) | TOTP secret, pending secret, enabled flag | set-up, cancel, enable, disable, reset a password | accounts |
| App passwords (`storage/app_passwords.go`) | app password rows | create, use, delete | DAV authentication |
| Rate limiter (`ratelimit`) | failures and lock per key, in memory | Allow, Fail, Success, Hit, collection | sign-in, recovery, public feeds |
| Sharing (`storage/shares.go`, `api/shares.go`, `davext/acl.go`) | shares, public feed tokens | replace, list, delete calendar | collections, authentication |
| Mail and OAuth (`providers`, `api/mail.go`, `mail`, `imip`) | provider settings, OAuth state and tokens | connect, refresh, send | scheduling, recovery |
| Server lifecycle (`app/serve.go`, `storage/lock*.go`, `backup.go`, `restore.go`, `purge.go`) | the runtime lock, database files | serve, backup, restore, migrate | everything |
| User backup (`userbackup`, `storage/user_backup.go`) | archive of a user's data | build, parse, restore | collections, attachments |
| Conversions (`icsutil`, `davpath`, `config`, `httpx`, `secret`, `metrics`) | none | parsing, formatting, encoding | all |
| CLI and web clients (`src/cli`, `src/web`) | a saved token, screen state | HTTP calls | REST API |

`storage.Open` limits the pool to one connection, so SQL statements never
overlap, and code under `WithTx` is one atomic step. Everything else is a
sequence of statements between which another request may run, the request may be
cancelled or the process may end. That is where most of the hazards listed in
`PROJECT.json` come from.

## Modules

### DavCollection: one collection, its writers and its followers

State: the rows (`row`), the change log (`log`, a record's id is its index; ids
of other collections in between do not matter, since only their order is used),
the ctag, the locals of each request handler, each sync-collection report and
each ctag client. A body and its ETag are one value, because the ETag is a hash
of the body (`icsutil.ETag`). One action is one SQL statement with the local code
around it:

| Code | Actions |
|---|---|
| `PutCalendarObject`, `PutAddressObject` up to the precondition check | `PutCalendarObject`, `PutAddressObject`, `Check` |
| `UpsertCalendarObject`, `UpsertAddressObject` | `CalendarObjectByUID`, `UpsertRow`, `RecordUpsert`, `BumpUpsert` |
| the row read back for the response | `Reread` |
| `PutICSWithAttachments` (in a transaction) | `PutICSWithAttachments`, `Upserted` |
| DELETE | `DeleteObject`, `DeleteRow`, `DeleteMissing`, `RecordDelete`, `BumpDelete` |
| a request that ends between two statements | `Abandon` |
| `handleSync` | `SyncList`, `SyncFull` or `SyncLatest` then `SyncChanges` |
| a lost answer | `SyncFail` |
| getctag, then a listing in a later request | `PollCtag`, `PollList` |

REST creation, import, scheduling and the worker write through the same upsert
without preconditions: they are PUTs whose headers are unset. The branch of
`handleSync` that rejects a token ahead of the log needs a restored database and
is not modelled.

`ObjectStore` is what all this promises the clients that write: a map from names to
bodies, each request applied in one step, a PUT on the very state its headers named and
a DELETE whatever state its If-Match named (`Heeded`), one member of a calendar per UID.
The DELETE handlers of both backends do not look at If-Match, and so the abstract store
does not promise it; a client that relies on it is not protected (Known gaps).
`DavCollection` instantiates it with its rows and, for
every handler, the request it has accepted and not applied yet (`Accepted`), and
`ImplementsObjectStore` says that each statement is a step of the abstract store or
leaves it alone. It holds for requests that do not overlap; two PUTs that do can both
pass `Check` and then it does not (Known gaps).

`unlogged`, `unbumped`, `torn` and `moved` are history variables: they record
that one of the code's gaps happened, so that the guarantees can say exactly
what holds when it did not.

### Schedule: one event, its invitations and the attendees' copies

State: the organizer's object (`event`), the attendees' REQUEST rows of
`schedule_items` (`req`), the objects in their schedule inboxes (`inbox`), their
own copies (`copy`), the locals of each request. A body is its revision and the
PARTSTAT of each attendee. A transaction is one action; the upsert and the delete
of an object are one action too, since `DavCollection` has their statements.

| Code | Actions |
|---|---|
| `PutCalendarObject` with scheduling | `PutObject`, `WriteEvent`, `RereadEvent` or `RereadMissing`, `DeliverRemoved` or `NoneRemoved`, `DeliverFromPut` |
| REST create, also over an event that is there | `createEvent`, `WriteEvent`, `RereadEvent`, `ApplyLocalInvite` |
| REST update; invite | `updateEvent`, then the same; `invite`, `ApplyLocalInvite` |
| import; deletion of the calendar | `importEvents`; `DeleteCalendar` |
| DELETE and REST delete | `DeleteObject`, `CancelFromDelete` or `CancelFails`, `DeleteEvent` |
| `respondInvitation` | `respondInvitation`, then `Accept` or `Decline` |
| POST to the outbox | `OutboxRequest`, `OutboxCancel`, `OutboxReply` then `WriteMerged` |
| an attendee's own deletes | `DeleteCopy`, `DeleteInbox` |
| a request that ends early | `Abandon` |

`cut` records the attendees whose cancellation did not go out because a request
ended early, failed, or found its event deleted. `silent` records those who were dropped
by a write that compares no attendees and so sends no cancellation: `createEvent` stores a
body without attendees whatever was there, an import that of the file, a PUT under another
name compares with the (missing) object of that name, and the deletion of a calendar with
nothing. Only `updateEvent` keeps the attendees it read.

### Accounts: roles, passwords, sessions, reset links

State: role, status and password of each account (`acct`, passwords numbered as
they are set), `sess`, `tok`, the locals of each request. The check of the
session by `SessionOrBearer` and `RequireAdmin` and the first statement of the
handler are one action.

| Code | Actions |
|---|---|
| `login`, `logout`, expiry | `Authenticate`, `CreateSession`, `DeleteSession` |
| `changePassword`, `revokeSessions` | `changePassword`, `AuthenticateCurrent`, `SetPassword`, `DeleteSessionsForUser`; `revokeSessions` |
| `adminCreateUser`, `adminResetPassword` | `adminCreateUser`, `CreateUser`; `adminResetPassword`, `SetPassword`, `DeleteSessionsForUser` |
| `adminPatchUser` | `adminPatchUser`, `ActiveAdminCount`, `AdminUpdateUser`, `DeleteSessionsForUser` |
| `resetWithTOTP` | `resetWithTOTP`, `SetPassword`, `DeleteSessionsForUser` |
| `recover`, `adminSendRecovery`, `resetPassword` | `issueRecovery`, `ReplacePasswordReset`; `ConsumePasswordReset`, `ExpireToken` |
| a request that ends early, or a deletion of sessions whose error is dropped | `Abandon` |

History: the password each session's holder last gave, whether the account
changed while it signed in (`late`), the newest token of each user, the users
whose sessions were left behind (`cut`), and whether two patches were past their
checks at the same time (`crossed`).

### RateLimit and SignIn: what proves who you are

`RateLimit` has the operations on one key's bucket as functions. `SignIn` puts
them in front of the limited requests and adds the authenticator and the app
passwords of one account.

| Code | Actions |
|---|---|
| `login`, `auth.Basic`, `resetWithTOTP`, `resetPassword`, `recover` | `Attempt` (with `Allow`), then the checks below, then `Failed` or `Success` |
| `Authenticate`, `authenticateLogin`, `AuthenticateDAV`, `totpFields` | `Authenticate`, `AuthenticateFails`, `totpFields`, `totpFieldsFails`, `authenticateAppPassword` |
| `ConsumePasswordReset`, requests that are refused without being counted | `ConsumePasswordReset`, `Rejected` |
| `Limiter.Hit` | `Attempt`, `Failed` (the two take the lock one after the other) |
| `totpSetup`, `totpCancel`, `totpEnable`, `totpDisable`, `adminDisableTOTP` | the same, then `SetTOTPPending`, `EnableTOTP` or `DisableTOTP` |
| app passwords | `createAppPassword`, `InsertAppPassword`, `DeleteAppPassword` |
| time, `gcLocked`, a restart | `Tick`, `gcLocked`, `Restart` |

A bucket that is absent and an empty one are not distinguished, as no operation
does. A code is the number of the secret it belongs to, so the three time steps
that `otp.Valid` accepts are one; the key that seals secrets does not change.
History: `saw` collects, for each request under way, what the authenticator and
the app passwords were at every moment of it; `spent` the failures of each key
within the last window.

### Collections: calendars, shares, public links

State: the tables `users`, `calendars`, `calendar_shares` (`shares`),
`webcal_tokens` (`feeds`), which calendars hold an object, and the locals of each
request. An id is owner, slug and how often that owner has used the slug, which is
what AUTOINCREMENT amounts to.

| Code | Actions |
|---|---|
| `CreateUser`, `ProvisionUserDefaults`, `EnsureSchedulingCollections` | the same, one insert each |
| `createCalendar`, `handleMkCalendar`, `EnsureCalendar`, `CreateCalendar` | look-up of the slug, then `CreateCalendar` |
| `patchCalendar`, `handlePropPatch` | the check, then `writeCalendarMeta` |
| `deleteCalendar` | `deleteCalendar`, `CountPersonalCalendars`, `DeleteCalendar` with its cascades |
| `createShare`, `deleteShare`, `handleACL`, `ReplaceShares` | the check, `UpsertShare`, `DeleteShare`, `ReplaceShares` one row at a time |
| `rotateWebcal`, `deleteWebcal`, `ServeWebcal` | the check, then `RotateWebcal`, `DeleteWebcal`; `ServeWebcal` |
| object reads and writes by owner or by share | `calendarFor`, `calendarWritable`, then `ReadObjects`, `WriteObject` |

`patchCalendar` lets only the owner of a personal calendar rename it; `handlePropPatch`
lets everybody do so who can see the calendar. History: `late` (access that ended after it
was checked), `raced` (a deletion on an outdated count), `cut` (an account whose
provisioning stopped), `lent` (a calendar whose name, description and colour a user other
than its owner has written by PROPPATCH). `HasPersonal` has three exceptions: an account
whose creation is in progress, one whose creation was cut off, and one with two deletions
that crossed.

### Attachments and UserBackup: files, archives, restores

`Attachments` has the bodies of one calendar, each component's ATTACH values, and
the rows of `calendar_attachments`. A PUT stores both in one transaction; REST
edits read the body, and store what they made of it later; uploads, deletions and
imports are transactions or single statements as in the code. The upsert of a REST save
is two steps, `DisplaceOther` (look-up by UID, deletion of another object that has it) and
`Save`, so that two objects may come to have one UID; `older` keeps which of them has the
lower row id, which is the one a later look-up finds. `outOfStep` names the
objects for which a stale save or a failed import item has parted the two.

`UserBackup` extends it with the account and the archive: `Build` lists the objects
and then reads one object (`writeObject`) and one file (`writeFile`) per step while
other requests go on, and in a full archive the account statement by statement: the row of
the user at the start (`Build`), the password hash (`buildAccount`), tokens
(`ListBackups`) and shares (`ListShares`) at the end. `Restore` is one transaction made of
`restoreCalendars`, `restoreObject`, `RestoreAttachment`, `restoreAccount` and
`restoreShares`, for an archive that the parser takes (`Opens`: so many files, so many
bytes, no file too long). `Build` has no limits, and an archive that is over them is
refused as a whole (`RefuseRestore`). `archive.of` and `archive.was` are histories: the
tables and the account the export saw, if nothing was written during it.
`RestoreFaithful` says that every UID comes back and no object that was not there, with
components, rows and references as they were; of two objects with one UID one is lost,
because the second upsert deletes the first. Bodies of
objects whose names share a segment of the archive are mixed up by the code and left out
(`Own`), and links to elsewhere are dropped by it.

### ImportantDates and Lifecycle: the worker, and the process around it

`ImportantDates` is the tick, statement by statement: settings, calendar, contacts,
entries, then `upsertDay` per date and `DeleteCalendarObject` per entry that is not
wanted, with requests, failures and the new year in between. `Lifecycle` extends it with
the database file, its -wal, the file moved aside and the snapshots: a server that
opens, bootstraps, takes the lock, serves and ends in order or by a crash. An orderly end
is two steps, as main.go's defers are: `Shutdown` gives up the lock, `Close` closes the
store, and in between the worker and requests that outlasted the eight seconds of grace
may still write (`Draining`). Besides there are
`maybeBackup` and `PruneBackups`; `dcalcon backup`; and `dcalcon restore` from the look
at the lock (`Restore`) over `CopyFile`, `MoveAside` and `MoveIn` to any point at which
it may die. `sv.on` says which file the server's descriptor means after a rename.

### Connected and Mail: mail accounts and invitations

`Connected` has the rows of `connected_accounts` and `oauth_states` and the tokens a
provider honours. A callback takes its state (`TakeOAuthState`), exchanges the code
(`Exchange`) and stores the account (`Connect`). Sending holds the row as it was read
for all of its messages, refreshes an expired access token (`ensureAccess`, `Refresh`)
and stores the result (`SaveConnectedTokens`) or not (`SendFails`, `Abandon`).
`Mail` extends it with invitations: `sendInvites` looks every name up (`addIdent`),
any of which may fail and then counts as not found (`Found`, for the positions in
`Failures`),
`ApplyLocalInvite` and `MergeExternalEmails` write the event, `ListConnectedAccounts`,
`ConnectedAccountByID`, `Deliver`, `NoteFailure`, `SendMIME` and `NoSender` are
`sendIMIP`, message by message; when the account cannot be read, for whatever reason, the
mail goes by the server's own SMTP. The event is the set of its attendee lines; what the
invited then see is the subject of `Schedule`. The provider is external: it issues
tokens, honours a refresh token until it rotates, and may fail at any call.

## Runs

MaxRequests bounds the number of requests, which is what makes the state spaces
finite; two overlapping requests reach every pairwise interleaving of their
statements. The runs say CHECK_DEADLOCK FALSE where MaxRequests is used up and
nothing is left to do.

| Run | Instance | Shows |
|---|---|---|
| dav_overlap | calendar, 2 hrefs with one UID, 2 bodies, 2 writers, 2 requests, a sync and a ctag client | `TypeOK`, `NothingMissed`, `CtagCovers` |
| dav_serial | calendar, one writer at a time, all precondition headers, 5 requests | `RecordsTruthful`; `ImplementsObjectStore` (refinement) |
| dav_catches_up | address book, 1 href, 2 writers, 3 requests, fairness | `CatchesUp`: quiet writers, then every client catches up |
| invite_overlap | 2 attendees, 2 requests at a time, 3 in all, outbox posts | `TypeOK`, `PendingMatchesInbox`, `NeverReopened` |
| invite_serial | 2 attendees, one request at a time, 5 in all | `AcceptedCopyCurrent`, `NoOrphans`, `NoFalseAnswers` |
| accounts | 2 users, 2 sessions, 2 tokens, 2 requests at a time, 6 in all | `TypeOK`, `NoStaleSessions`, `OnlyNewestOpen`, `AdminRemains` |
| signin_access | 3 keys, 3 app passwords with a limit of 1, 2 requests at a time, 4 in all | `TypeOK`, `AccessProven`, `FactorConsistent`, `AppsBounded` |
| signin_rate | limit 2, window and lockout of 2 ticks, 2 requests at a time, 6 in all, 5 ticks | `GuessesBounded`, `LockedAtMax` |
| collections | 2 users, one of them created meanwhile, the default slugs and one more, 2 requests at a time, 4 in all, a slug used up to twice | `TypeOK`, `HasPersonal`, `NothingOutlivesCalendar`, `GrantsHold`, `AclExact` |
| userbackup | 2 names, 3 UIDs, one of them with a text too long for an archive, files of 1 and 2 units, limits of 2 files and 2 units for an object and of 4 entries and 3 units for an archive, a request that reads first and stores later beside requests that are one transaction, 4 in all, an export counting for two; the account changes only once an export has begun | `TypeOK`, `InStep`, `WithinLimits`, `RestoreFaithful` |
| worker | 2 contacts whose UIDs become one name, 3 changes or failures, one new year, 1 snapshot, 2 starts, 1 restore | `TypeOK`, `ServesDest`, `RestoreReplaces`, `Converges` |
| mail | 3 mailboxes at a rotating and a non-rotating provider and SMTP, 3 users, 3 lists of invitees, the look-up at position 1 or 3 failing or none, 2 requests at a time, 4 in all, 3 grants | `TypeOK`, `TokensLive`, `FlowOnce`, `Accounted`, `InvitedAreListed` |

In signin_access time stands still, since nothing but the limiter looks at it; in
signin_rate no settings change. Six accounts requests are a sign-in, the creation
of a second administrator, its sign-in, and three requests that race. In worker, one
snapshot is enough for a restore to bring back an older state; pruning a second one
away was checked with two snapshots and two changes, which takes the same time and
finds nothing else. Four requests in mail are a connect, a second one or a deletion,
and two invitations or test messages that race over a refresh; three grants are the
connect and two refreshes. The lists of invitees type one user in each of the ways
`FindUser` knows, and in two it does not. Five requests in invite_serial are a creation
with guests, an answer, a request that drops them, a new invitation and one more. In
userbackup an export counts for two requests, itself and the restore of its archive,
which is not counted again; so four are what it takes to leave two objects with one UID
(two overlapping writes) and to export and restore them. An archive there stays under the
limit of 4 entries, and meets the other two: files over 3 units and a text that is too
long. Its constraint `Bound` leaves out states whose account differs before the first
full export, since an archive without the account does not look at it.

Fairness (`FairSpec` of `DavCollection`): a handler that has started goes on (the
Go scheduler and the database driver do not stop it for ever), a client keeps
asking (weak fairness), and of the reports it starts infinitely many get to each
of their steps without being lost (strong fairness: a report may fail at any
time, but not every one does). Without the last, a client on a dead link never
catches up.

Fairness (`Spec` of `Lifecycle`): while the server is up and its worker can take a
step, it does sooner or later; the ticker of `Worker.Run` fires again after each tick.
Nothing is assumed of the user, of restores or of restarts; failed ticks, changes and
new years are bounded by MaxChanges, which stands for their ending some time.

## Known gaps

What the code does that a reader of its documents would not expect. Each is a
behaviour of the modules: a property names it as an exception or stops short of it.

Collections of objects:

- `handleSync` lists the members (davext/sync.go:52) and reads `LatestChangeID`
  afterwards (:86). A member changed in between is answered as it was, under a token
  that covers the change, and no later report mentions it (`torn`), while
  doc/STANDARDS.md:42 says "RFC 6578 sync-collection | incremental".
- `PutCalendarObject` checks If-Match on a row it read in an earlier statement
  (caldav/backend.go:317) and writes unconditionally: of two PUTs with one ETag both
  succeed, while doc/STANDARDS.md:45 says "ETags + If-Match | lost-update". With two
  writers `ImplementsObjectStore` is violated.
- DELETE does not look at If-Match (caldav/backend.go:364, carddav/backend.go:295), which
  the same line promises and doc/CLIENTS.md:33 tells clients to use: a client that deletes
  the version it knows removes one it has never seen, with no overlap needed. `ObjectStore`
  promises it for a PUT only.
- Overlapping writers of a href can log in the other order than they wrote; overlapping
  PUTs of one UID leave two hrefs with it; a PUT may answer with the ETag of another
  writer's body.

Scheduling:

- `MergeReply` applies every ATTENDEE line of a reply (schedule/itip.go:177), and
  `writeReply` builds the reply from the event as it was delivered: when A has accepted
  since, B's answer sets A back to NEEDS-ACTION, while doc/LIMITATIONS.md:6 says "REPLY
  PARTSTAT merge are in". `NoFalseAnswers` is what remains true.
- An answer to an invitation that was changed or cancelled meanwhile overwrites its row.
  Whoever accepted, was taken off the event and is invited again gets neither a REQUEST
  nor a copy, because the row still says accepted (`NeverReopened` keeps it so).
- Cancellations go out on a PUT that drops attendees and on DELETE, and on nothing else.
  createEvent with the UID of an event that is there stores a body without attendees
  (api/router.go:327), an import the attendees of the file (api/calendar_io.go:97), a PUT
  of the event under another name is not compared with it (storage/dav.go:333), and the
  deletion of the calendar takes its events along: whoever was dropped keeps copy and
  invitation. `NoOrphans` names them (`silent`).

Accounts and sign-in:

- Two patches can remove the last two administrators at the same time; a patch of the
  e-mail writes back the status it read, and so may undo a disabling (api/admin.go:137).
- A session is created by a sign-in that was under way when the password changed; a
  DAV request is let in when the state of the authenticator cannot be read.
- A failure counted after the lock is over is wiped out by the next attempt. The
  limiter of the public feeds locks for one minute and drops all counted fetches with
  the lock (app/serve.go:24), so that 119 more are served every minute, while
  doc/LIMITATIONS.md:37 says "Webcal is 120 fetches / hour / IP".

Calendars:

- Two deletions at a time leave an account without a personal calendar
  (api/shares.go:112), and so does a creation that stops half way; access that was checked
  is used although it was revoked meanwhile.
- PROPPATCH writes name, description and colour for every user who can see the calendar,
  one with read access included (davext/proppatch.go:42, storage/dav.go:405), and to
  calendars of the server's own. Over REST "only the owner can rename this calendar"
  (api/shares.go:69), and the privileges that such a user is told of are read and read-acl
  (davext/acl.go:157). `GrantsHold` says that nothing else does so (`lent`).

Files and archives:

- A REST edit stores the body it read earlier: files uploaded or deleted since are out
  of step with it (`outOfStep`); an import item that fails is committed half, as each
  statement of it is (storage/db.go:149).
- createEvent with the UID of an existing object (api/router.go:327), a PUT of a UID
  under a new name (storage/dav.go:333) and a second component with ATTACH lines
  (icsutil/attach.go:70) lose files; a third component's lines are never looked at, and
  stay in the body as they were sent.
- The parser refuses an archive over 64 MiB, with more than 2500 files, over 128 MiB
  unpacked or with one file over 8 MiB (userbackup/parse.go:41, :48, :52, :59, :72), none
  of which `Build` looks at: a user's own export may be one that cannot be restored.
- Of two objects with one UID (above) a restore brings back one, and which one depends on
  the order of their times, which is not modelled.
- A full restore writes the app passwords of the archive without the limit that
  createAppPassword looks at (storage/user_backup.go:80), which `AppsBounded` is about.
- An archive taken while the account is in use mixes times. Names that become one path
  segment (davpath/paths.go:160) share one entry, links to elsewhere are dropped by a restore
  (userbackup/restore.go:156), and a full restore revokes later shares only when the
  archive has some (restore.go:299).

Worker and lifecycle:

- Two contacts whose UIDs sanitize to one name share an entry, and the ticks overwrite
  it in turns (worker/worker.go:224). A user's own calendar with the slug
  important-dates is taken over (:105). An error with one user leaves the others to the
  next tick.
- A server that opens the file before restore looks at the lock, and takes the lock
  after it, works on a file that has been moved away (`ServesDest` names the race). A restore that
  dies between its renames leaves no database, and the next start creates an empty one;
  `RestoreReplaces` says that the old one is still aside then, but a further restore deletes it.
- The -wal file of a killed server stays beside the restored database
  (storage/restore.go:23), while doc/SECURITY.md:29 says "replaces the database".
- `dcalcon backup` takes no lock and creates a database where there is none.
- A server that ends gives up the lock (main.go:127) before it closes the store (:84), and
  waits neither for the worker nor for requests that take over eight seconds
  (app/serve.go:72): a restore that starts then meets a process that still writes.

Mail: a refreshed token that is not stored (a failure or an early end right after the
refresh) disconnects a rotating provider until the next connect (api/mail.go:638);
overlapping invitations write the event from what each has read (schedule/local.go:26,
`raced`); a local mailbox typed with a display name is neither invited nor reported, and with
it the same mailbox when it is typed plainly later (api/mail.go:451, :423); a user's address
typed that way is mailed instead; a user whose own address is another's mailbox here is taken
for that other (schedule/identity.go:114, which `validEmail` does not forbid); a look-up
that fails passes for one that found nobody (api/mail.go:426), so that a user of this server
is mailed under the address typed, or listed as missing; a connected account that cannot be
read is replaced by the server's SMTP, whatever the error (:512); `invite` answers 400 when
`MergeExternalEmails` fails although local users have been invited; a callback with the wrong
provider uses up its state.

## Proofs

All for any number of hrefs, bodies, users, requests and so on, and without the
bounds of the runs. Each invariant below was checked by TLC on the run of its module
before it was proved.

`DavCollectionProofs`:

- `TypeCorrect`: `Spec => []TypeOK`.
- `CtagGuarantee`: `Spec => []CtagCovers`, from the inductive invariant that no
  client holds or has seen a ctag ahead of the stored one (`PollBehind`).
- `SyncGuarantee`: `Spec => []NothingMissed`. The strengthening is `ReportInv`:
  a token is never ahead of the log, a report started from the client's own
  token, and its listing is wrong about a member only if the member has moved
  since or is excused. `StoreStepExcuses` shows that a step of the store that
  mentions, owes or leaves alone every member keeps all excuses, and
  `ChangesSinceLast` what the answer to a report with a token contains.
- `Refinement` (`ImplementsObjectStore`), `RecordGuarantee` (`RecordsTruthful`) and
  `UidGuarantee` (`OneMemberPerUid` of `ObjectStore`), for requests that do not overlap
  (`OneHandler`). For a DELETE the refinement says that it is one step, and nothing of
  its headers. The invariant is `Serial`: no two members of a calendar have one UID,
  what a request's headers named is still there and its look-up by UID has found all there
  is to displace (`LocalsTrue`), and a member the log is wrong about is cut or owed a
  record (`Recorded`). Each statement is then a step of `ObjectStore` or a stutter.

`ScheduleProofs`:

- `TypeCorrect`; `InboxAgrees` (`PendingMatchesInbox`), which is inductive together with
  the types because every transaction writes row and object together; `AnswersStay`
  (`NeverReopened`).
- `CopiesFollow` (`AcceptedCopyCurrent`), `NothingOrphaned` (`NoOrphans`) and `AnswersTrue`
  (`NoFalseAnswers`), for requests that do not overlap, of clients that do not post to the
  outbox (`OneRequest`), which is what the run invite_serial has. `Serial` adds what a
  request under way knows: the event in its hand is the stored one, and whoever is taken
  off it is still to be told, or in `silent`.

`AccountsProofs`: `TypeCorrect`, `SessionsEnd` (`NoStaleSessions`) and
`NewestLink` (`OnlyNewestOpen`) from one invariant, which adds that a sign-in
under way is marked late or has checked the account as it is (`SignInsChecked`);
`AdminGuarantee` (`AdminRemains`) from the invariant that a patch past its check
leaves an administrator unless two crossed.

`SignInProofs`:

- `TypeCorrect`, `AccessGuarantee` (`AccessProven`), `FactorGuarantee`
  (`FactorConsistent`) and `LockGuarantee` (`LockedAtMax`) from one invariant: what each
  place of a request implies about its key and password (`LocalOK`), and that a bucket is
  finite and, when full, locked (`BucketOK`).
- `AppsGuarantee` (`AppsBounded`) counts every request past its count as if it had
  inserted already (`AppsInv`).
- `GuessGuarantee` (`GuessesBounded`) counts over time (`CountInv`): an open bucket has
  lost only failures of requests that were under way when the last lock began, and a
  closed one lets nobody in, so that the failures since, the requests still under way and
  those lost are never more than the limit and two for each other request there can be.

`CollectionsProofs`:

- `TypeCorrect` and `KeysGuarantee` (`NothingOutlivesCalendar`), with the invariant that
  ids are never used again.
- `PersonalGuarantee` (`HasPersonal`): a deletion that has counted on a count still up to
  date leaves another personal calendar (`LastInv`).
- `AccessGuarantee` (`GrantsHold`): a request past its check has the row that let it in, or
  is late (`AccessInv`); a calendar's metadata is its owner's or it is `lent` (`AuthorInv`). That a user
  with read access cannot rename is not proved, because it is not so.
- `AclGuarantee` (`AclExact`): which shares are left to remove and to add at each statement
  of `ReplaceShares` (`AclInv`).

`LifecycleProofs`: `TypeCorrect` of the worker, files and processes together;
`LockGuarantee` (`ServesDest`) from the invariant that whoever runs while a restore does
has raced it (`RacedOK`); `RestoreGuarantee` (`RestoreReplaces`) from where the old
database is at each step of a restore (`OwedOK`) and what the next start will open
(`PromisedOK`).

`MailProofs`:

- `TypeCorrect`, with the invariant that an id is only ever used for one mailbox (`IdsOK`).
- `TokensGuarantee` (`TokensLive`): each refresh token belongs to one id, and one that is
  not stored yet to one request, which will store it or mark the mailbox (`TokensOK`).
- `FlowGuarantee` (`FlowOnce`): when the state of a flow is gone, one request has its code
  (`FlowsOK`).
- `ListGuarantee` (`InvitedAreListed`): as long as nobody has written over an event, the
  event that a request holds is the stored one, and whoever is still to be mailed is in it
  (`Current`).
- `InviteGuarantee` (`Accounted`), but for the three gaps it names, for users whose own addresses are not mailboxes of this
  server (`FoundByAddress`): what is mailed is what was looked up and is not a mailbox here
  (`ListOK`), and at each name of the list nobody before it has been lost, nobody whose
  address is to be mailed was typed without a display name first (`HeardAll`).

The last needs induction over the list of names. `LookUp` and `Recipients` are functions on
the numbers up to its length; that such a function exists, and each fact about its value at
the end, follows from the least number at which it would fail (`Least`, `Reaches`,
`LookUpIs`, `LookUpHears`).

`UserBackupProofs`: `TypeCorrect` (`TypeOK`), `InStepGuarantee` (`InStep`),
`LimitsGuarantee` (`WithinLimits`) and `RestoreGuarantee` (`RestoreFaithful`), for any
objects, files, limits, requests, exports and restores, from one invariant:

- `FileInv`: a row is added, kept or deleted together with the line that refers to it,
  object by object (`InStepAt`, for the objects that are not `outOfStep`); the work is in
  what `SplitAttachments`, `ApplyICSAttachments` and the rewriting make of a body;
- `Limited`: every statement and every request that keeps the limits leaves them kept
  (`Follows`, which also says that ids only go up);
- `IdsOK`: an id is only ever used for one row, be it in the tables, in an export in
  progress or in the archive. `RestoreAttachment` puts an old id back, and this is why it
  cannot meet a newer row with that id;
- `BuildOK`: while nobody writes, the export has the rows of the objects it is done with,
  but for those it has yet to read; otherwise it has rows that there were (`PendingOK`);
- `AccountRead` and `ArchiveOK`: the archive of an undisturbed export is what the tables
  were (`Depicts`) and has the account as it was, and any archive has one item for a name
  (`Restorable`).

`CalendarsRestored` follows a restore from item to item, in whatever order they come: an
item finds no rows at its name, and so has room for all its files, which were within the
limits when they were exported (`FilesRestored`); it leaves the objects before it as they
were, or deletes one that has its UID, which then is back under the name of the new one
(`Replayed`). The archive may hold anything else when it was taken while others wrote: what
is restored is then in step and within the limits, too. What an archive over the limits of
the parser would bring back is not said: it is refused.

The model's folds (`FoldSet`, `MapThenSumSet`) are functions on the subsets of a finite set.
That such a function exists (`FoldExists`), and what holds of its value on the whole set
(`FoldsReach`), follows from the least size of a subset at which it would fail; sums of
sizes are such a function (`SumIs`, `SumRemove`, `SumUnion`).

Assumptions: the named ASSUMEs of the modules, which TLC evaluates in every run
(the markers of absence are none of the values, bounds are natural numbers, the
limits of the limiter are positive as `ratelimit.New` makes them, the number of requests
under way and of files is finite, and there is an address for the user to have).
`GuessGuarantee` supposes that there are requests at all (its bound counts the others). `UserAssumption` is what usernames, which have no @
(`validUsername`), and `FindUser` guarantee: a user is found by username and by local
mailbox. `FoundByAddress` is not guaranteed by the code (Known gaps), and so is a hypothesis
of `InviteGuarantee` alone; the run mail has it too (`MCMail`). `OneHandler` and `OneRequest` are hypotheses of the theorems
they are named with and not of the modules: with overlapping requests those properties are
false (Known gaps), while any number of requests may follow each other and end anywhere.

Model-checked only: liveness under fairness (`CatchesUp`, `Converges`), which this prover does
not do.

## Not modelled

The people book (recomputed by the same kind of comparison as the important dates),
conversions between texts, configuration, HTTP helpers and metrics, the web and command line clients,
calendar queries, free-busy, recurrence exceptions, several server processes on one
file, `PurgeExpired` (it deletes rows that every reader already takes for expired),
and the revocation of grants at a provider. PROJECT.json has the reason for each.

## Plan

Every component that keeps state and is not named above is modelled, and every safety
property that a run checks is proved for all values of the constants (some for requests that
do not overlap, as their runs are). What is left: converses that no run asks for yet, that
the gaps above are the only ways to lose what each property promises.
