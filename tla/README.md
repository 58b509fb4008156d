# TelebookServer: a TLA+ verification project

TelebookServer is the Go server behind a reading app. Devices push changes of
books to it, pull each other's changes, upload page images and restore old
libraries. It keeps its state in PostgreSQL, in an object store (MinIO) and in
Redis, and runs every request in its own goroutine. What can go wrong is almost
never one handler by itself: it is two handlers, or a handler that stops half
way, or a client that repeats itself.

The modules here describe the stores and the handlers with their interleavings
and failures. TLC checks them on small instances, and TLAPS proves the safety
properties of every component for instances of any size.

## The system

| Component | State | Operations | Hard because |
|---|---|---|---|
| Sync store (`internal/store/book_store.go`, `entity_store.go`) | `current_book`, `entities`, `sync_events`, `conflicts` | `ApplyBookChange`, `ApplyChange`, `ForceUpsertBook`, `ForceUpsert`, `RestoreLibrary` | READ COMMITTED transactions, optimistic locking, retries, event ids drawn before commit |
| Event feed (`event_store.go`, `SyncService.Pull`) | `sync_cursors`, the devices' cursors | `ListAfterCursor`, `UpdateCursor` | commits appear out of id order, paging, lost answers |
| Sync service (`service/sync_service.go`) | `conflicts`, `book_history`, `library_meta` | `Push`, `ResolveConflict`, `RestoreBook`, `RecordHistory`, `RefreshLibraryVersion` | several store calls per request, one of which fails |
| Book upload (`service/upload_service.go`) | `book_upload`, `book_upload_file`, the order cache | `InitUpload`, `MarkFileDone`, `Complete`, `MarkFailed` | three stores without a common transaction; the cache may vanish |
| Files (`service/file_service.go`) | objects, multipart uploads, `file_meta` | `CheckFiles`, `InitUpload`, `UploadPart`, `CompleteUpload`, `DirectUpload` | devices that upload the same content at once; short objects |
| Authentication (`service/auth_service.go`, `api/middleware.go`, the token stores) | devices, refresh tokens; with the devices, their tokens | `Register`, `Refresh`, the middleware, `GET /me` | two stores without a common transaction, a rotation that stops half way, one token used twice, tokens that outlive their device |
| In-memory sync store (`store/memory_sync_store.go`) | maps and slices under one mutex | the methods of the sync store, the feed, conflicts and history | it stands in for PostgreSQL in every service test, so what it does differently goes untested |

Devices talk to the handlers in `internal/api`. `Push` asks the file service
whether a book's files are complete and then calls the sync store. A completed
book upload ends in `ForceUpsertBook`, as does a resolved conflict; both
therefore publish an event, which other devices pull.

What makes each part correct: the event log must determine the library, in an
order devices can apply; a change must be applied to the version its author
saw, once; a device must get every event; an answer given to a client must stay
true; a book in the library must have its files and its page order; a file that
is complete must stay so, and a short object must not stay; a device that knows the connection key must always find
its way back in, and a spent token must stay dead.

## Modules

| Module | Models | Uses |
|---|---|---|
| `EventLog` | what events mean to whoever applies them, one by one and all at once | |
| `SyncLog` | the abstract promise: a library that is the replay of an append-only log | `EventLog` |
| `SyncStore` | the transactions of the sync store | `EventLog`; `SyncLog` as its abstraction |
| `SyncFeed` | devices pulling from the store | `SyncStore` |
| `SyncService` | requests as sequences of store calls | |
| `BookUpload` | one upload task, its order cache, the landed book | |
| `ObjectFiles` | one object, its multipart uploads, `file_meta` | |
| `Auth` | devices, refresh and access tokens, the handlers that use them | |
| `MemoryStore` | the in-memory store, and pulls from it | `EventLog`; `SyncLog` as its abstraction |
| `MC...` | instances for TLC | |
| `...Proofs` | theorems about the module of that name, one for each of the seven | that module; `SyncFeedProofs` also `SyncStoreProofs` |
| `EventLogProofs` | the lemmas about replaying a log that the stores and the feed share | `EventLog` |

### EventLog and SyncLog

`ApplyEvent` is one event applied to a row, as a device does it: an upsert
replaces the payload, a delete buries it and keeps it, a progress moves the page
only. `Replay(r, E)` is what a set of numbered events makes of row `r`, stated
by what is left of each event and not as a fold: the revision rises by the
events that are not progress, the last of these decides about the tombstone, the
last upsert gives the content, and the last progress behind it the page. The
closed form is what the proofs can reason about; that it is the fold is a
theorem (`ReplayOneMore`, see Proofs) and, on every log of up to three events,
the assumption `ReplayIsFold` that TLC evaluates in `MCSyncStore`.

`SyncLog` is what the stores promise to devices. One action, `Publish`, adds
events that are numbered above the earlier ones of their entities and moves the
whole library by the replay of exactly these events.

### SyncStore

`row` and `events` are the committed tables. `work` holds the newest version of
each row, committed or not, `lock` its owner, `pend` the uncommitted events of a
transaction and `lastId` the id sequence, which no rollback rewinds. A
transaction is a slot `t` with a program counter:

* `Begin` is `BEGIN` and the `SELECT EXISTS` on `change_id`;
* `JudgeAbsent`, `Insert`, `JudgeProgress`, `JudgeConflict` and `JudgeUpdate`
  are the branches of `ApplyBookChange` and `ApplyChange`;
* `ForceBegin`, `RestoreBegin`, `UpsertItem`, `TombstoneItem` and `WritesDone`
  are the forced writes and the restore, row by row;
* `Commit` and `Rollback` end it. A commit may take effect although its caller
  sees an error. `Rollback` stands for every failed statement, deadlock victim,
  cancelled request and crash.

READ COMMITTED is modelled by what it allows: a statement sees what is committed
when it starts, waits for the owner of a row it writes and then reads the row
again, cannot lock a row that is not there, and does not see an uncommitted
insert. `FOR UPDATE`, the update and `insertEvent` are one step, because nothing
another transaction can observe happens between them.

Payloads are a `content` and a `page`. `NoFiles` are the contents without a
files array, which the `NOT NULL` of `current_book.files` refuses. `conflicts`
rows are written with their event and are represented by its status. The op
`progress` is reachable at the service (its tests use it); `validateChange`
refuses it at the API, and `SyncService` models that. Progress is exempt from
the optimistic lock (`book_store.go:70-72`) and makes no version, so
`AppliedToItsBase` and `OneVersionPerChange` speak of upserts and deletes;
what is lost by that is `ProgressAppliedOnce` (see Findings).

### SyncFeed

Extends `SyncStore` with devices. A pull is `ListAfterCursor` (one `SELECT`) and
`UpdateCursor`, then `Receive` or `Lose`. The cursor that counts is the one the
device sends. `raced` remembers the ids that were drawn and uncommitted when a
pull moved past them.

### SyncService

Requests in slots `q`, each store call one step, any request able to die after
any of them (`Fail`). `wrote` and `by` are history variables: the payloads
forced for a conflict, and the strategy and payload it was closed with. `found`
is a history variable too: the changes a push found the files of complete.
`ready` are the contents whose files are complete in the object store.
`FilesArrive` and `FilesBreak` add and remove one between any two store calls,
the second because `ObjectFiles` shows that a complete file can be lost.
`Verify` looks only where the code does (`Checked`): with a verifier, which
exists only with MinIO configured (`HasVerifier`), at changes that are no delete
and whose payload decodes without an error (not `Unparsed`) and lists files;
`VerifyError` is the object store that cannot say. `AllFilesComplete`, a loop
over the files, is taken as one look. The library version is the set of live books and contents that the hash is computed
from; the empty string of a fresh database stands for the empty library.

### BookUpload

One uuid, since tasks share nothing. `InitUpload` is the transaction, `SaveOrder`
the write to the cache after it; `GetTask`, `LoadOrder`, `Count`, `Finish` and
`Land` are the statements of `Complete`. `LoseOrder` is Redis expiring or losing
the key, or the end of the process that held the map. `crossed` records that the
last init was cut short before the cache was written, or overlapped with another
init or complete. `book_upload.done_files` is left out: no answer is computed
from it.

### ObjectFiles

One hash, and `N`, the size every device declares for it. Nothing in the code
compares what is uploaded with the hash: a part is any bytes (`Body`) under any
number from 1, a direct body any `N` bytes. An object is the bytes it was put
together from (`Joined`), in the order of the list that completed the upload,
repeats included, as the in-memory object store does it; S3 refuses lists that do
not ascend, and so gives fewer objects. The handler compares the list only with
`total_parts` of the same request, so lists that end early are allowed, and
completing an upload does not ask again whether the object is there. `told` is
what a request was last answered.

### Auth

`devices` is the device table, `tokens` the token store with the device of each
refresh token. A request is a slot `q`: `Register`, `Refresh` and
`AuthMiddleware` are the first store call of a handler with what is decided
before it, `CreateDevice`, `SaveRefreshToken`, `GetDeviceByID`, `RevokeDeleted`,
`DeleteRefreshToken` and `MeHandler` the calls that follow. Every call may fail,
and a write that failed may have reached the store. A refresh token is a value
the store has or does not have: the store keeps hashes, and nobody guesses one.
`newRefreshToken` picks a token that nothing refers to, which stands for a fresh
random one. An access token is the set `access` of devices that keep an
unexpired one.

The device is external. It keeps the tokens it is given, drops a token that is
answered with 401, may have two requests under way, and goes on asking.
`ExpireToken` is the time to live (or Redis losing a key), `ResetData` the reset
of the database that the comment of the middleware speaks of. `used` is a
history variable: the tokens that were presented or have expired.

### MemoryStore

One mutex, so one step per method. `row` holds entities and books, `events` the
slice, whose positions are the ids; a page is a set of ids. A method that writes
several rows (`ServerWrites`) is stated by its result: one event per write, a
revision that rises by the number of writes, and the last write showing. Clients apply changes, conflict resolution
forces payloads, libraries are archived and restored (`SetToSeqs` for the order
of a Go map), and a device pulls through two slots, because one that gave up
waiting sends a second pull while the first is under way. `Restored` is what a
payload becomes on its way through an archive entry: one without files gets an
empty list.

The store has no case for the op `progress`: it judges such a change, and lets
it replace the payload, like an upsert, and logs it as what it is called. The
log that refines `SyncLog` is the log as pulls deliver it (`Logged`), so the
refinement holds only of changes among which there is no progress; with them it
fails (`MCMemoryProgress.cfg`, see Findings).

## Runs

| Run | Instance | Result |
|---|---|---|
| `store` | two transactions, two books and one other entity, five changes, two snapshots, one forced write, four event ids | passes, about 480,000 states |
| `feed` | two transactions, two books, one device; a create, a delete, a progress change, forced writes, two pages, pages of one event, three ids | passes, about 250,000 states, with liveness |
| `service` | two requests, two books, four changes (a delete among them) in two batches, revisions up to 2, two snapshots in the history | passes, about 1,600,000 states |
| `upload` | two requests, four declared lists over three paths and two contents | passes |
| `files` | two requests, two upload ids, a file of two bytes, two bodies (one short, one not), two part numbers, four part lists | passes, about 80,000 states, with liveness |
| `auth` | a device that knows the key with two requests at a time, one that does not, three refresh tokens, two faults | passes, about 330,000 states, with liveness |
| `memory` | two books and one other entity, five changes, none of them progress, forced writes, one archive entry, which names a book twice or which the server took, one device with two pulls at a time, pages of one event, three ids | passes, about 170,000 states, with liveness |
| `duplicate_event` (of `store`), `lost_event` (of `feed`), `broken_between` (of `service`), `done_not_landed` (of `upload`), `short_object` (of `files`) | the instances of the runs they are said to be of | violated, see Findings |

Further instances, in the same `MC` modules:

| Configuration | Property | Result |
|---|---|---|
| `MCFeedMirror.cfg` (of `feed`, with an edit and forced writes of the same book, two contents) | `CaughtUpMirrors` | passes, about 400,000 states |
| `MCAuthKeyed.cfg` (two devices that know the key, one request each, four tokens, one fault) | `TokensBelong` | passes, about 2,000,000 states |
| `MCMemoryLog.cfg` (of `memory`, with four ids and one pull at a time) | `RestoreBringsBack`, `ImplementsSyncLog` | passes, about 70,000 states |
| `MCProgressTwice.cfg` (of `store`) | `ProgressAppliedOnce` | violated |
| `MCStaleVersion.cfg`, `MCOneFails.cfg` (of `service`) | `VersionIsCurrent`, `OneFailureIsAlone` | violated |
| `MCUnparsedBook.cfg` (of `service`, with a payload that does not decode) | `HalfBooksStayOut` | violated |
| `MCCrossedInits.cfg`, `MCAbandonedLands.cfg` (of `upload`) | `ChecksWhatItLands`, `AbandonedIsNotCompleted` | violated |
| `MCCachedDownload.cfg` (of `files`, with true bytes only) | `DownloadIsImmutable` | violated |
| `MCMemoryProgress.cfg` (of `memory`, with a progress change and payloads with a page) | `ImplementsSyncLog` | violated |

What the passing runs show:

* `LogExplainsLibrary`, `RevisionsInIdOrder`: for each entity the committed
  events determine the committed row, whatever commits, aborts and interleaves.
* `AppliedToItsBase`, `OneVersionPerChange`: the optimistic lock holds after
  waiting for another writer, and it, not the `EXISTS` check, keeps concurrent
  retries of an upsert or a delete from making two versions. Progress has no
  such lock.
* `OutcomeIsDurable`, `CommitsPublish`: what a caller was told stays true, and
  no row changes without a newer event of it.
* `ImplementsSyncLog`: the store implements `SyncLog`; `lib` is the committed
  rows without the progress counter, `log` the done events.
* `CaughtUpMirrors`: a device with nothing left to pull, which applies what it
  receives, shows each entity exactly as the server has it, revision, page,
  payload and tombstone, unless a pull raced with an event of that entity. This
  is the promise of the whole path from the transaction to the device.
* `OnlyRacedAreSkipped`, `ArrivesInOrder`, `EventuallyReceived`: paging, lost
  answers and repeated pulls drop nothing. The only events a device can miss are
  those that were in flight when it passed their id.
* `PushAnswersHold`, `ResolvedOnce`, `ResolvedAfterWrite`: the results of a push
  hold, a conflict is closed once and only after its payload was written.
  `PushedBooksWereComplete`: no change whose files are to be looked at gets into
  the event log without having been found complete, in whatever batch. It says
  no more than that: see `HalfBooksStayOut` under Findings.
* `PageOrderKept`, `LandsWhatWasUploaded`, `DoneIsDurable`: a landed book is a
  declared list in its order, with all files reported done since the last init
  unless that init was crossed.
* `CompleteStays`: what Push and `CheckFiles` find complete can be lost to an
  upload begun before the object was there and to nothing else; once none of
  these is left it stays complete, because no init opens another.
  `MetaNamesObject`: `file_meta` names only stored objects. `EventuallyComplete`:
  direct uploads repair short objects. Complete means the declared size; that the
  bytes are the file's is claimed of nothing, because no handler looks at them.
* `NoLockout`: a device that knows the key is authorised again and again,
  whatever failed half way, raced, expired or was reset. `GivenTokenWorks`: no
  error hands out a refresh token the store does not have. `SpentIsDead`: a
  refresh that is answered has killed its token and nothing revives a token that
  anybody still knows. `TokensBelong`: without the key there is no token, and a
  device's token is accepted as its own, of which the run, with one device that
  has tokens, shows little: `MCAuthKeyed.cfg` has two.
* In `memory`: `OneEventPerChange` holds here (the mutex makes check and write
  one step), where the PostgreSQL store violates it. `CursorClaimsOnlyListed`
  and `EventuallyListed`: a stored cursor may be set back by a late pull but
  never claims an event no page has shown, and every done event is listed.
  `ConflictQuotesServer`: a conflict quotes the version it lost against.
  `RestoreBringsBack`, `ImplementsSyncLog`: a restore makes the library exactly
  its entry, also one that names a book twice (`MCMemoryLog.cfg` buries two books
  as well), and library and log agree throughout, as long as no change is
  progress.

Each property has a mutant in `PROJECT.json`, a plausible bug in the code
(a dropped guard, a missing reset, a changed order) that breaks it. The mutated
operators stand next to the definition they replace and are marked `Mutant`.

### Bounds

`MaxId` bounds the event ids: four are enough for two transactions that write
twice each, and for an id that a rollback leaves unused between two others. Two
transactions meet in every pairwise way; a third would only queue for the same
rows. `MaxRev = 2` in `service` lets a book be created, conflict and be resolved;
`MaxHistory = 2` a restore record a library other than the one it restored.
`Limit = 1` makes every second event a second page. The upload and file models
need no counters. In `auth`, `MaxFaults = 2` allows a failed call and a lost
answer, or a reset, in one history; three tokens are one the device keeps, and
one for each of two rotations under way, and a request waits for a token to be
forgotten before it draws the next. In `memory`, three ids are a create, a
conflict and a write behind it, which is what a page of one must skip over, and
a restore that writes two rows; a restore that buries two books needs a fourth
(`MCMemoryLog.cfg`). In `files`, two bytes and two part
numbers are enough for objects that are too short, complete, and too long
(`<<1, 1>>` of a body of two), and for a complete object of any of these lists.
With finitely many upload ids `EventuallyComplete` and `CompleteStays` could hold
for want of ids; they do not, because no upload is opened once an object exists,
so only those opened before can still replace it. The service has batches of at
most two changes, and `Unparsed` payloads only in `MCUnparsedBook.cfg` and in the
theorem.

### Fairness

`store`, `service` and `upload` check safety only. In `auth`, handlers run to
their answer and answers arrive (weak fairness on calls that do not fail, with
at most `MaxFaults` that do), a refresh token's time to live ends, and a device
does not stop asking; which request it sends is not prescribed. In `memory`, a
device keeps pulling, and an answer sent over and over arrives some time. In `feed`, a device keeps
pulling (weak fairness), and a pull that is tried over and over is answered and
arrives some time (strong fairness, since answers may be lost any number of
times); nothing is assumed of the transactions. In `files`, handlers end (weak
fairness: each is a bounded sequence of calls with a request context), and a
device that tries the direct upload over and over gets one `PUT` through.

## Findings

* `duplicate_event`: two attempts of one change that overlap both pass the
  `EXISTS` check. The second then meets the revision of the first and is stored
  as a conflict of the change with itself, with a second event. A test says a
  retry writes no second event; it tries one after the other.
* `lost_event`: a transaction that drew its event id first and commits last is
  overtaken by a pull. The device's cursor passes the id, and the event is never
  delivered to it.
* `broken_between`: a book can be applied without its files, although they are
  verified to keep such a book out. Between the look and the write an upload
  begun earlier can put a short object over a complete one.
* `done_not_landed`: `Complete` marks the task before the book lands.
* `short_object`: `InitUpload` answers complete for an object that `CheckFiles`
  calls missing because of its size.

Stated as properties too, and refuted by the further instances:

* `MCProgressTwice.cfg`: two attempts of one progress change that overlap are
  both applied, so that an old page can come back over a newer one. The comment
  at `book_store.go:47` says a change whose id exists is a replay. (The handler
  refuses the op; the store and the service take it.)
* `MCUnparsedBook.cfg`: the push does not look at the files of a payload with a
  field of the wrong type, and the store keeps them (`sync_service.go:140-142`).
* `MCStaleVersion.cfg`: a resolved conflict changes the library and leaves
  `library_meta.book_version`, which `db.go:119-120` says is recomputed on every
  change; so do restores and landed uploads.
* `MCOneFails.cfg`: a change the store refuses ends the whole push. The results
  before it are dropped and the changes after it not judged, where the comment at
  `sync_service.go:135` says that one failure does not affect the others.
* `MCCrossedInits.cfg`: an init that dies before the cache is written leaves the
  order of an earlier one. A complete request checks the files of the new list
  and lands the old one, files that nobody reported included
  (`upload_service.go:76-77`).
* `MCAbandonedLands.cfg`: nothing in `Complete` looks at the status, so an
  abandoned task is marked done, whether the abandon comes before the complete
  request or in the middle of it
  (`upload_handlers.go:100-101`).
* `MCCachedDownload.cfg`: an object is replaced, by a later completion or by a
  direct upload, and downloads of it are immutable for a year
  (`file_handlers.go:246`).
* `MCMemoryProgress.cfg`: the in-memory store makes a version of a progress
  change, whose payload is the page alone, and logs an event that says otherwise.
  `memory_sync_store.go:41` says the two stores share their rules.

Seen while reading and not stated as a run:

* a complete that is repeated overwrites later edits of the book;
* a device that loses a race to resolve a conflict has written its payload over
  the winner's before it is told; `ResolvedOnce` is about the record only, and no
  comment says which payload is to stand;
* a missing upload task is answered with 500, because `GetTask` returns the
  driver's error and not `ErrUploadNotFound`;
* `Refresh` revokes a valid token on any error of the device lookup (the comment
  at `auth_service.go:116` speaks of a deleted device), answers 401 when the
  token store is down, and lets two overlapping refreshes of one token both
  succeed; `Register` answers 409 for any error of the insert. `NoLockout` shows
  that a device recovers from all of these by registering again;
* the in-memory store accepts payloads without files, which the PostgreSQL store
  refuses; its `CountByStatus` reports no conflicts;
* a download that breaks off is answered 200 and may be cached for a year.

## Proofs

Every property that a passing run checks is also a theorem, except the liveness
properties: all invariants, all action properties and the refinement of
`SyncLog` by both stores. The theorems hold for any sets of entities, devices, changes, requests, tokens and so on, and any
bounds, under the named assumptions of the modules, which TLC evaluates on every
instance. `MemoryImplementsLog` has one hypothesis more, that no change is
progress. Each module has one inductive invariant, `Inv` (`FeedInv` for the
feed), checked by TLC as an invariant of the run's instance before it was
proved. The proof that a step keeps it has one case per action.

| Module | Theorem | Property |
|---|---|---|
| `SyncStoreProofs` | `TypeCorrect` | `TypeOK` |
| | `LogExplains` | `LogExplainsLibrary` |
| | `RevisionOrder` | `RevisionsInIdOrder` |
| | `OptimisticLock` | `AppliedToItsBase` |
| | `AtMostOneVersion` | `OneVersionPerChange` |
| | `AnswersAreDurable` | `OutcomeIsDurable` |
| | `CommitsArePublished` | `CommitsPublish` (action) |
| | `StoreImplementsLog` | `ImplementsSyncLog` (refinement) |
| `EventLogProofs` | `ReplayOneMore` | (the replay is a fold) |
| `SyncFeedProofs` | `PagesAreBounded` | `FeedTypeOK` |
| | `NothingElseIsSkipped` | `OnlyRacedAreSkipped` |
| | `DeliveredInOrder` | `ArrivesInOrder` (action) |
| | `CaughtUpIsMirror` | `CaughtUpMirrors` |
| | `AppliedPageByPage` | (action; the mirror grows page by page) |
| `SyncServiceProofs` | `TypeCorrect` | `TypeOK` |
| | `PushAnswersStayTrue` | `PushAnswersHold` |
| | `NoUncheckedBook` | `PushedBooksWereComplete` |
| | `WrittenBeforeResolved` | `ResolvedAfterWrite` |
| | `ResolutionIsFinal` | `ResolvedOnce` (action) |
| `BookUploadProofs` | `TypeCorrect` | `TypeOK` |
| | `PagesInDeclaredOrder` | `PageOrderKept` |
| | `AnsweredDoneStays` | `DoneIsDurable` |
| | `OnlyUploadedLands` | `LandsWhatWasUploaded` (action) |
| `ObjectFilesProofs` | `TypeCorrect` | `TypeOK` |
| | `NothingElseShortens` | `CompleteStays` (action) |
| | `MetaIsBacked` | `MetaNamesObject` |
| `AuthProofs` | `TypeCorrect` | `TypeOK` |
| | `TokensStayWithTheirDevice` | `TokensBelong` |
| | `FirstRefreshWorks` | `GivenTokenWorks` |
| | `SpentTokensStayDead` | `SpentIsDead` (action) |
| `MemoryStoreProofs` | `TypeCorrect` | `TypeOK` |
| | `OneEvent` | `OneEventPerChange` |
| | `CursorsAreHonest` | `CursorClaimsOnlyListed` |
| | `RestoreIsExact` | `RestoreBringsBack` (action) |
| | `ConflictsQuoteTheLog` | `ConflictQuotesServer` |
| | `MemoryImplementsLog` | `ImplementsSyncLog` (refinement, without progress) |

### Replaying a log

What a recursive definition computes for every log would need induction over
data, which the prover cannot do. `Replay` is therefore a closed form, and two
facts tie it to the fold: no events change nothing (`ReplayNothing`), and one
more event behind all others changes the replay as `ApplyEvent` changes a row
(`ReplayOneMore`). Together they determine the replay of every finite log.
`ReplayInParts` is the general fact the refinements use: the replay of a log is
the replay of its end over the replay of its beginning. It needs that ids are
unique, that the log is finite (`LogIsFinite`, since its ids are bounded) and
that the last event of a union is the last of the later part (`LastOfUnion`).

### The sync store

Assumed: books are entities, contents without files include the null content, a
change id names one change, server ids are not client ids, snapshots hold books,
and progress is a change of a book.

None of the properties is inductive. When a transaction commits, the committed
row jumps to `work` and its pending events become visible at once, so the
invariant has to know before the commit what will be true after it. `Inv`
therefore says the same fact twice: the committed events explain the committed
row (`CommittedExplained`), and the committed events together with all pending
ones explain the newest row (`WorkExplained`). A write extends the second, a
commit of the row's owner copies the second to the first, and a rollback copies
the first back to the second. The rest ties the two together: pending events
belong to rows their transaction has locked (`PendingIsLocked`), a row without
owner is committed (`UnlockedIsCommitted`), all ids come from the sequence
(`IdsAreDrawn`), the pending events of a row are newer than its committed ones
(`PendingIsNewer`) and are there whenever the row differs (`WorkIsPending`), a
client's event is of its change and base (`EventsOfChanges`), and `PlacesOK`
says what a transaction may hold at each place of its code. `AtMostOneVersion` follows
without the `EXISTS` check: two applied events of a change have the same
revision of the same entity, and a revision has one event.

`StoreImplementsLog` needs the same doubling for whole rows.
`CommittedReplayed` says that a committed row shows the replay of its committed
done events, `WorkReplayed` that the newest version shows the replay of these
and the pending ones. A write adds one event behind all of its entity
(`ReplayOneMore`), a commit makes the second fact the first. A step of the store
is then a step of `SyncLog`: the events it commits are newer than the committed
ones of their entities, and each row moves by their replay (`ReplayInParts`);
all other steps commit nothing and are stutters.

### The feed

Assumed in addition: the page limit is between 1 and 1000, as the handler
enforces. `OnlyRacedAreSkipped` fails to be inductive twice: a commit can publish
an event below a cursor that has already moved, and an answer under way will
move the cursor. `FeedInv` says the same of all events, the uncommitted ones
included, and of what the device will have when the answer it waits for arrives
(`HasOK`, `AnswerOK`). That a full page leaves out only later ids rests on the
uniqueness of ids and on the page having a largest one. `DeliveredInOrder`
combines `FeedInv` with the store's `RevisionOrder`. `CaughtUpIsMirror` combines
it with the store's `CommittedReplayed`: a device whose cursor has nothing
behind it has all done events of the entity that no pull raced with, so its
mirror is the replay the row shows. The mirror is defined from all the device
has received; `AppliedPageByPage` shows that a device gets it by applying each
answer to what it had.

### The service

Assumed: the contents that need files have some, the null content has none,
manual payloads are contents, a change id names one change, a batch holds
changes, archived libraries map books to contents. An answer of `Push` grows
change by change while other requests write, so the invariant says of each
result so far that the tables bear it out (`ResultsHold`); this is kept because
events are only added, conflicts never disappear and revisions only rise.
"duplicate" repeats what `SeenOK` says of every change with an event. A request
at its `Apply` has passed the check of the change it applies, or there was none
(`CheckPassed`): this says nothing of the files at that moment, which may have
broken since. A request about to mark a conflict has written its payload (`WrittenBeforeMark`).

### Book uploads

Assumed: a declared list is a name and a sequence of files without repetition,
as the key (`upload_uuid`, `rel_path`) of `book_upload_file` requires. Whatever the cache holds and whatever a request
carries was declared by some init (`OrderDeclared`, `ArgDeclared`), hence the
page order. As long as nothing crossed the last init, a request carries the task
itself and the cache its files (`Uncrossed`); a request past `Count` knows every
file is done, because the done rows are among the task's files and there are as
many of them.

### Files

Assumed: the declared size is not zero, a body is not empty, and part lists name
parts. Of the bytes nothing is assumed. `CompleteStays` holds because a settled
file leaves no request with anything to store but a body of the declared size:
no upload is open and, as long as there is an object, no init opens one. What
the proof has to rule out is a direct upload that stores another size, and an
upload opened by an init that had asked before. A request about to write
`file_meta` has its object stored, and objects are replaced, never removed.

### Tokens

Assumed: the devices that know the key are devices, and a request has an owner.
A token belongs to its device from the moment it is answered, before the device
keeps it, so the invariant speaks of all given tokens (`TokensOK`). A given token
that a request has presented counts as used: this is why the rotation of one
request cannot kill a token another one was just given.

### The in-memory store

Assumed: a change id names one change, the server's id is not one, and an
archive entry is a sequence of books with payloads. A stored cursor comes from a
pull, which computed it from the cursor the device kept, so the invariant makes
one claim of all three (`ClaimsOK`). `RestoreIsExact` needs that only finitely
many rows exist, so that the tombstones can be put in an order, and that of
several writes of one book the last one shows.

A conflict record is made from a row, and `ConflictQuotesServer` speaks of the
log, so the invariant also says that the rows are the replay of the log
(`LogShowsRow`). A method keeps it by moving each row by the replay of the
events it adds: one for a client's change, none for one that lost, and for a
restore one event for each write, all of one kind for one book
(`RestoresUniform`: the books of the entry are upserted, the others buried).
Later events lie behind the record's, so what it quotes stays. In these proofs
the log is read as the store wrote it, a progress event as the upsert that its
change has been (`AsWritten`). That view is the log itself when no change is
progress, and so the same fact is the step of `MemoryImplementsLog`, under that
hypothesis.

### Only model-checked

* Liveness (`EventuallyReceived`, `EventuallyComplete`, `NoLockout`,
  `EventuallyListed`): it rests on fairness, which is beyond the prover.
* `ReplayIsFold`, which names the fold itself; TLC evaluates it for every log of
  up to three events. `ReplayNothing` and `ReplayOneMore` are the proved form.
* The findings, which are counterexamples of TLC.

## Not modelled

Listings, status queries and downloads, which only read; presigned URLs; the
signing of tokens; `last_seen_at`, which nothing reads but `GET /me`; routing,
configuration and start-up, which have no state of their own; devices that
declare different sizes for one hash; the deadlock of two restores, of which
`Rollback` is the outcome but which no action forms; and the composition of the upload task with the object store:
`Complete` trusts the reports of the client and asks the object store nothing,
so there is nothing of the code for a composition to check.

## Plan

1. Done: `SyncStore` with its refinement, `SyncFeed`, `SyncService`,
   `BookUpload`, `ObjectFiles`, `Auth`, `MemoryStore`, and the proofs of all their
   invariants, action properties and refinements.
2. Left: the liveness properties, which TLC checks on the instances above; and a
   module that composes `SyncService` with `SyncStore`, so that the store calls of
   a push are transactions that interleave inside.
