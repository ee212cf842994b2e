# Verification of dingbap in TLA+

dingbap is a single-process file server: an HTTP server in Go over one storage
directory, with JSON files beside it for its own state. It has no database and
no second node, so what is hard in it is of another kind: handlers run in
parallel goroutines, every store keeps a copy of its data in memory and another
in a file, each save may fail, and the process may be killed between any two
steps. The models in this directory are about exactly that.

## Inventory

| part | source | state | operations |
|---|---|---|---|
| share store | shares.go 19-459 | slice of `Share` under `mu`; shares.json | create, listPublic, getValid, beginDownload, beginUpload, undoUpload, revoke, removeByPathPrefix, rewritePathPrefix, open |
| public share requests | shares.go 592-957 | a copy of one `Share` per request | landing page, folder listing, file, zip, drop upload |
| chunked uploads | upload.go | `um.active` under `um.mu`; `activeUpload` objects with `sessMu`; `.uploads/<id>/` | init, acquire, writeChunk, complete, abort, status, reapExpired |
| sessions | session.go 23-269 | map under `mu`, writer lock `persistMu`; sessions.json | create, get, destroy, destroyByUsername, reap, persist, load |
| login limiter | session.go 140-165, 271-301 | failures and lock per address | allowLogin, recordFailure, clearFailures, reap |
| users, two-factor | users.go, users_admin.go, totp.go | users.json; pending logins and set-ups in memory | add, delete, set role or password, enable, disable, recovery codes |
| trash | trash.go | `Items` under `mu`; `.trash/items/<id>`; trash_info.json | moveToTrash, restore, purge, empty, purgeExpired |
| archive handlers | handlers.go, bulk.go, copy.go | the storage tree itself | upload, mkdir, rename, move, delete, copy, bulk |
| caches | cache.go, disk.go, search.go | directory listings (LRU) under one mutex, disk usage under another | get, set, invalidate, measure |
| activity log | activity.go | activity.jsonl under `activityMu` | auditLog, prune, readActivityRecent |
| atomic files | atomic.go | `<file>.tmp` | writeFileAtomic |
| path vault | path.go, storage.go | none | safePath, sanitizeName |
| middleware, proxy auth, WebDAV, search, compression | middleware.go ... | none | dispatch |
| start and stop | main.go | wiring | serveUntilStop |

How they interact. Handlers call the stores, and the stores call
`writeFileAtomic`. Rename, move and delete first change the tree and then tell
the share store (`rewritePathPrefix`, `removeByPathPrefix`) and the listing
cache. Login goes through limiter, users and two-factor to the sessions; user
administration changes a user and then drops its sessions. A drop upload
reserves a slot in the share store, writes into the tree, and gives the slot back
if it fails. `complete` publishes an assembled file into the tree, where every
other handler may also create it.

What each part must guarantee:

- share store: a quota is never overrun, whatever copies, failures and restarts
  are in between; a link that works is in the file; what is removed stays removed.
- uploads: a finished chunk is never forgotten, only whole files appear, an upload
  that is answered as done is there, one request at a time works on an upload, no
  request hangs.
- sessions: no writer undoes another's change; a saved login survives, a saved
  logout is final.
- trash: an item reported as deleted can be restored until somebody purges it; an
  expired item is purged at last; a failure harms only the item it happened to.
- users: there is always an administrator; a changed role or password leaves no
  session of the old one; only administrators have two-factor; a recovery code
  counts once.
- archive handlers: whatever they do to each other, the archive stays a tree, a
  share follows its item, and a stored file is lost only in a race for its place.
- caches: a listing or a usage that is out of date has one of few causes; no name in
  a listing is hidden or leads to something hidden; a search in peace finds everything.
- path vault: no path leads out of the archive or to a hidden place.
- limiter: an address is locked out in time, no failure is lost, no entry leaks.
- activity log: a logged event stays listed, whatever happens to other lines.
- atomic files: a name leads to a complete file, also after a power failure.

The hard behaviours, each at its line, are the list `hazards` in PROJECT.json.

## Modules

| module | what it is |
|---|---|
| `ShareStore` | the share store with its public requests |
| `ShareQuota` | what the share store promises, as an abstract specification: mint, grant, refund, close |
| `Archive` | the file handlers over one tree, with trash and `ShareStore` |
| `UploadChunks` | how browser and server cut a file into chunks |
| `UploadManager` | chunked uploads, every request a program of interleaving steps; extends `UploadChunks` |
| `SessionStore` | sessions and the writing of sessions.json |
| `TrashStore` | the trash: list, metadata file and directory |
| `Accounts` | users, two-factor and their sessions, handler by handler |
| `PathVault` | how a request path becomes a place, links included |
| `ListingCache` | listings, search and disk usage beside changes; extends `PathVault` |
| `LoginLimiter` | the failures of one address |
| `AtomicFile` | `writeFileAtomic`, call by call |
| `ActivityLog` | the activity log, whose prune is an `AtomicFile` |
| `LoginTrail` | logins with the limiter and the log: extends both |
| `MCArchive`, `MCShareStore`, `MCUploadManager`, `MCSessionStore`, `MCTrashStore`, `MCAccounts`, `MCListingCache` | small instances for TLC: constants, symmetry |
| `ShareStore_proofs`, `SessionStore_proofs`, `TrashStore_proofs`, `Accounts_proofs`, `Archive_proofs`, `ListingCache_proofs`, `UploadManager_proofs` | theorems about the module of that name; `ListingCache_proofs` also about `PathVault` |
| `LoginTrail_proofs` | theorems about `LoginLimiter`, `AtomicFile` and `ActivityLog`, which `LoginTrail` extends, and about the composition |

Each module has, just before some of its definitions, a variant called faulty in
its comment (`DownloadsOverrun`, `InsertBlindly`, ...). No specification uses
them. Put in the place of the definition they precede they let a property fail, which
shows that the property depends on that piece of the code; PROJECT.json pairs
them.

### ShareStore

A method of `shareStore` holds `mu` from beginning to end, so it is one step.
`mem` is `s.Shares`, `disk` is shares.json; `SaveLocked(ok)` either writes the
whole table or leaves the file as it was, and each method treats a failed save
as the code does: `create` reports it but keeps the record, `beginDownload`
rolls its count back, `beginUpload` reports it and keeps the count, the others
ignore it (so a `revoke` whose save failed is undone by a restart). `pruneLocked` changes memory and does not save. Where a method saves
twice (`beginDownload` of a last download), a crash between the two leaves what a
failed second save leaves, and `Restart` may follow.

A public request calls `getValid`, leaves the mutex with a copy (`holding`), and
later reserves its transfer by token (`BeginDownload`, `BeginUpload`). Between the
two everything may happen to the share. Time is the set `lapsed`;
`LapseDuringCall` is the deadline that passes between the two clock readings of
one call. The second limit test of `beginDownload` (287-291) and of
`beginUpload` (407-411) can never succeed after the prune and the expiry test
before it, and has no action. Paths are sequences of names; the prefix test of
the code (`== rel` or prefix `rel + "/"`) is the prefix order of sequences.
Passwords, page contents and validity of tokens are left out. Share kinds and
expiry modes never change, so they are constant functions of the token.

### Archive

A handler checks paths, changes the tree, and tells the share store, and holds no
lock from one to the next: `BeginRename`, `Move`, `RewriteShares` are three steps, and
every other handler may run between them. `BeginDelete`, `MoveToTrash`, `RemoveShares`
is a deletion, with `UndoTrash` after a failed save; `BeginCreate` with `CreateFile` or
`MakeFolder` is an upload or mkdir; `BeginPublish`, `Publish` is what `complete` of a
chunked upload does to the tree; `BeginCopy` and `BeginDuplicate` go on with `CopyTop`,
`CopyChild`, and `CleanUp` if anything fails; a folder is copied with its children and
no deeper. A bulk request is a sequence of the same
steps, one path after the other. The share store is `ShareStore` itself (INSTANCE),
and the trash is here in fewer steps than in `TrashStore`: its saves fail only where
a handler then renames something back.

An item is a file or a folder, `place` says where it is; renaming a folder moves what
is under it, and `os.Rename` replaces a file by a file without a word (`RenameWorks`).
A name can be created only in a folder that is there (`HasParent`); the storage root
always is. `Init` takes every placement of the items that is a tree, each with any
shares of its items.
`answered` are the items a client was told are stored, `leads` the item a share was
made for. Two requests on overlapping paths can harm each other, and the code does
nothing against it; a crash can also cut a rename off from its rewrite. What these may have touched is
`excused`, and the properties speak of everything else: whatever a handler does
with its own paths, at whatever time, must not reach the items of another.
`os.RemoveAll` is one step here (`UploadManager` and `TrashStore` have it entry by
entry). The temporary names of completions are no places here: `UploadManager` has them. `RevokeShare` and the purges come at any time.

### UploadChunks

The arithmetic of `init` and `writeChunk` (number of chunks, size of each) on one
side, of `file.slice` in the page on the other, for numbers that are constants.
`UploadManager` takes its chunks from here: its run checks that no chunk a browser
sends is refused for its size, the theorem says it for every size.

### UploadManager

Requests are small programs: `pc` is the place in the source, `job` the
operation, `obj` the pointer to an `activeUpload` on `heap`. `um.mu` protects one
look at the table and is one step; `sessMu` is held over many steps
(`heap[o].holder`). `os.RemoveAll` removes one entry per step, and other requests
see the half-removed directory. `Restart` empties table, heap and requests and
keeps the files.

The other handlers create and take away what is at a destination (`Occupy`, `Vacate`)
and at the temporary name beside it (`PutTemp`, `TakeTemp`): `<name>.uploading` is a
visible name like any other, and a rename of the folder takes away both. `temp[d]` is the
request that copies into the file there, `Left` after a crash ended that request, or `Other`
for any other file. `Renamed` moves whatever has the temporary name, as `os.Rename`
does, so `final[d]` may be a request that still writes (`Closed` is what it leaves when
it closes its file). After a failed assembly the removal of the temporary file may
fail too, and its error is ignored (`AssembleFails`): the file then stays as `Other`.
`robbed` is history: the destinations whose temporary file was taken from the request that
wrote it. Both properties of published files except these, because the code does break
them there (see below).

Abstractions: a chunk is its index, the size test after assembly is that all
chunks were copied; `chunk_i.tmp` files are left out, since an incomplete one is
never read, and a chunk counts as its index and length; `handleUploadChunk` looks the upload up once for itself before
`writeChunk` does, which is a status request followed by a chunk request;
`EnterChunk` stands for a request with a valid index and size. Heap cells that
nobody reaches are reset (`Collect`), which is the garbage collector.

### SessionStore

Every method changes the map in one step under `sm.mu`; then, without it,
`persist` takes `persistMu` (`LockPersist`), copies the map (`CopyMap`) and writes
the copy (`WriteDone`, `WriteFails`). Calls interleave between any of these. `in` and
`out` record which logins and logouts had a successful write of their own; they
are history and no action reads them. Session contents are left out, apart from
the user and whether the session has expired.

### TrashStore

The list of items exists three times: `mem` is `s.meta.Items`, `disk` is
trash_info.json, and `vault` is what lies under `.trash/items`. A method holds
`s.mu` from beginning to end (`mu`), but it renames, saves and removes one after the
other, so each of these is a step of its own: a crash or a handler that does not
take `s.mu` may come between any two. Items are immutable and their ids fresh, so
the list is a set of ids. A folder that `os.RemoveAll` left half removed counts as
present. `Occupy` and `Vacate` are all other handlers, which create and remove
files at the place an item came from. `told` is what a caller was told is in the
trash, `asked` what anybody began to restore or purge, `unseen` what a restore dropped
from the list although it is there, `hurt` the items a failed step or a crash happened to;
the four are history. `restore` drops an item from the list after any error of `os.Stat`
(trash.go:186-190): `RestoreMissing` is the item that is gone, `RestoreUnseen` the one
that is there.

A request for an unknown id or an occupied place changes nothing and is no
step. Between its test and its rename, `restore` can replace a file that another
handler has just created; what that costs is the subject of `Archive`.

### Accounts

This module composes three parts: the user store (`mem`, `disk`), the sessions
(`sess`, `sfile`) and the waiting second requests of two-factor (`pending`, `setups`).
A method of the user store holds `s.mu` until it has saved, and is one step; a
handler calls several and is a chain of steps (`pc`, `job`). The chains that matter:

- login: `Authenticate` copies the account; `DemandCode` or `NoCodeNeeded` reads again
  whether two-factor is on; the session is made from the copy (`CreateSession`).
- a pending login waits with its copied role; `TakePending`, `CodeValid` or
  `TryRecoveryCode` and `ConsumeRecoveryCode`, then `CreateSession`, or `RejectLogin`.
- a change: `SetPassword`, `SetRole`, `DeleteUser`, then `DestroyByUsername`, then
  `Persist`. After a failed save the handler stops, but memory stays changed.
- set-up: `BeginSetup`, `PutPendingSetup`; `PeekPendingSetup`, `TakePendingSetup`,
  `EnableTOTP`.

A write of sessions.json is one step here (`Persist`, `PersistFails`); its interleavings
are the subject of `SessionStore`. Random values are drawn once (`drawn`). Whether a
code or a password is right is a choice of the environment. Who asks for a change
is left out, since he was tested at an earlier time; the rule that nobody
demotes or deletes himself then restricts nothing. `raced` are the sessions
made from a copy that no longer fits, `hurt` the names a failed write or a
crash happened to, `spent` and `unsaved` the recovery codes used; they are history.
`SessionsAreCurrent` names the complete list of causes for a session that does
not fit its account: src/README.md:121 has no such exceptions, and the first one,
a login that read the account before the change and ends after it, needs no
failure.

The secret that `takePendingSetup` takes can be another than the one whose code was
validated, if a second set-up began in between. The steps are in the model; no
line of the repository promises otherwise.

### PathVault and ListingCache

`PathVault` is `safePath` as an operator: `SafePath(here, path)` walks the cleaned path
name by name through folders and links (`Enter`, `Follow`) and takes it as written
beyond what exists. It is compared with `Reaches`, where the operating system gets by
the same path without any rule of the program, and with what that passes on the way
(`Stations`, `PassesHidden`). `Guards` has both directions: what the vault answers is
visible, without links and the place the system would open; and a place that is
reached in the open is not refused.

`ListingCache` is what reads the archive while others change it. A reader looks into
the cache (`Tree`, `Search`), and after a miss reads the directory (`ReadDir`) and
stores what it read (`Store`), with nothing locked between the two. Reading may fail at
any time (`ReadDirFails`), which ends a tree request and makes a search leave the directory
out (`Skip`). A writer changes
the archive, invalidates the listings and then the disk usage. `Measure` runs with
`diskUsageMu` held (`walker`), so `InvalidateUsage` waits for it. `ChangeQuietly` is a
change no handler announces: a partial file of an upload or a copy that failed,
a folder made for an upload that is not complete, a chunk, sessions.json, the list of the
trash, the activity log. The history variables are `missed` (a reader whose reading an
invalidation has overtaken), `late` (a key stored by such a reader), `quiet` (a
change that nobody announces) and `calm` (a search that has met neither a change nor an error).

`NothingHiddenIsListed` asks of every name in a cached listing where the system gets with it
(`Reaches`, without any rule of the program) if all that may ever exist does: never to a hidden
place, nor out of the archive or nowhere. So it depends on the `safePath` test of each child
(handlers.go:152): a listing that leaves out only names with a dot (`ListUnchecked`)
breaks it, by a link.

### LoginLimiter, AtomicFile, ActivityLog, LoginTrail

`LoginLimiter` is one entry of `failures`: `Allow` lets a request pass, `RecordFailure`
and `Succeed` come after a check that holds no lock. Times are kept as their order:
a lock is on or over, a failure recent or past; `LockEnds` and `FailureAges` are time. Its
requests are the two steps of a login (middleware.go:165, totp.go:198). The code also
tries passwords where it never asks the limiter, in the Basic login of WebDAV
(webdav.go:76) and in switching two-factor off (totp.go:361): an address may fail there
without end, and no property here speaks of it.

`AtomicFile` has each system call of `writeFileAtomic` as a step that may fail. A file
is what a process reads (`data`) and what is on the disk (`safe`); `was` are the files
a name may lead to again until its folder is synced. `Crash` kills the process,
`PowerFails` the machine.

`ActivityLog` appends a line in place, whose write may be cut anywhere (the code
ignores its result) and then prunes through `AtomicFile`, all under `activityMu`
(`holder`). `Recent` is what the page shows. A file of one empty line counts as empty.
The page reads under the mutex too; the property is checked in every state.

`LoginTrail` composes them: a login that is complete writes its line, other logins
run meanwhile. After a crash the limiter is empty (`Forget`) and the file is what it
was. The failures are lost with it: the code keeps them in memory only.

## Runs

Bounds are small sets in the cfg files and the numbers named below; tokens,
session ids, items, upload ids and the requests of a fixed set are used once.

| run | instance | question |
|---|---|---|
| share_quotas | a one-download link and a drop box of 2 slots, 2 paths, 3 requests | Are quotas kept, are working links durable, does the store implement `ShareQuota`? |
| archive | 2 files and 2 folders on 4 paths in two levels, 1 share, 3 requests | Does the archive stay a tree, do shares follow their items, is what was answered kept? |
| upload_one | 1 upload of 2 chunks, the last one short, 2 requests, all operations, expiry | Are finished chunks kept, is the upload serialized and resumable, is any chunk refused for its size? |
| upload_two | 2 empty uploads to one name, 2 requests: chunk, complete, abort; other handlers at both names | Do only whole files appear, is what was answered as done there? |
| upload_live | 1 upload of 1 chunk, 2 requests, fair | Does every request return? |
| session_writes | 3 sessions of 2 users, 3 callers | Does a write ever undo another caller's change? |
| trash | 2 items from 2 places, 2 requests and the janitor, fair | Is what was reported as deleted kept, does damage stay local, is the old purged? |
| accounts | 2 names, 2 requests, 2 password hashes, 1 session, 1 secret with 1 code | Is an administrator left, do changes end sessions, does two-factor stay with administrators, are codes single-use? |
| listing_cache | 4 keys in a cache of 2 entries, 2 readers, 1 writer, a folder with a file and a folder that comes and goes, links to that one, to a hidden folder and out of the archive, and one from the hidden folder back; at most 2 hits | What makes a listing or a usage out of date, does a listed name lead to anything hidden, is a search complete, does the vault guard every path of up to 3 names? |
| login_trail | 2 logins at a time, lock after 2 failures, 3 events, a log of 2 lines, fair | Is an address locked in time, does an entry leak, does a broken line or a power failure cost other events? |
| copy_removes | the instance of archive | a finding, below |
| upload_blocked | 2 uploads of 1 chunk, 2 requests | a finding, below |

Why these are enough to show something. Three requests are one more than a drop
box of two slots takes and two more than a link takes, so overruns by one and
a refund with a later re-use both happen; four requests on one path were checked too. Two requests are what a race of
`acquire`, `complete` and `abort` needs; three heap cells let a third object exist
beside the two they hold. Three callers let one write an old copy while a
second waits and a third changes the map. In the archive, two top-level names and
one name in each are the smallest tree in which a folder moves with a file in it,
a file is alone in a folder, and a handler works inside what another
moves; the second file and folder are for copies and for what takes a place.
Three requests let a third work while two race, which is when "nothing else is
excused" says something. In `upload_two` an empty upload has one chunk, which is enough for a
file that is partial (no chunk yet), and two uploads race for both names. There the other handlers
touch the temporary name too; in the other runs of the module they touch the destination
only (`Touched`), since those properties do not speak of files in the archive. Its `VIEW`
(`Present`) leaves out the history `acked`, `ended` and `doomed`, which no guard reads
and neither property of the run mentions. In the cache, four keys of which two fit make eviction
and a repeated miss happen; a search has three hits while the folder that comes and goes is
there and one otherwise, so with a limit of two it is cut off as well as complete; the second reader carries a listing past an
invalidation while the first goes on. For the vault all paths of three names over
the names of the instance, `.` and `..` are tried. In the log, three events in two lines
make the prune drop one, and each can be cut in three ways.

Symmetry is only over
interchangeable requests, objects, callers, items of one kind, uploads with one
destination and sessions of one user; the liveness runs use none.

Two names let two administrators remove each other; two requests let a change
run between any two steps of a login or a set-up, and a second one beside a
crash. The instance has one hash beyond the first, so either the second name
or a new password; three hashes were checked too, without two-factor.
In the trash two items let a failure at one be told from its effect on the
other; the invariants were also checked with three.

The type invariants are proved for every instance. Those of `ShareStore`,
`SessionStore`, `TrashStore` and `Accounts` are not checked again by a run; TLC
checks the others as well, with the mutants that show what they depend on.

Deadlock is checked in all runs; none of the models stops, because a restart, or
another request, is always possible.

### Fairness

`upload_live` assumes strong fairness of each request (`SF_vars(Step(r))`). A
goroutine that can run is run by the Go scheduler; a goroutine waiting for
`sessMu` gets it although others take it in between, because `sync.Mutex` hands the
lock to a waiter after a millisecond of starvation; a body that stalls is cut by
`ReadTimeout` (main.go:244), which is the step `WriteChunkFails`. Nothing is assumed
of clients, of the clock, of other handlers or of restarts.

`trash` assumes strong fairness of each caller's steps and of the janitor's
`PurgeExpired`: goroutines are scheduled, `sync.Mutex` hands over to a waiter,
and the ticker of main.go never stops. A removal may fail or be cut by a restart
any number of times, but not for ever. Nothing is assumed of clients.

`login_trail` assumes weak fairness of time and of `Reap`, which the hourly ticker
calls (session.go:127-132). An entry then goes, unless requests from
its address keep coming; nothing is assumed of these.

## Findings

Two runs show what is not as the repository says. Each is a counterexample found
by TLC.

- **copy_removes**: a copy looks for a name that is free, and copies afterwards. If
  another request takes the name in between, the copy fails as it should, and
  then removes that name, with what the other request has put there.
- **upload_blocked**: a crash during assembly leaves `<name>.uploading`, and `O_EXCL`
  then refuses every later completion to that name.

Other behaviours to know of are in the models, and the properties are stated so
that they name them:

- A drop box is pruned from memory as soon as its last slot is reserved
  (shares.go:364). If that upload then fails, its slot cannot be given back
  (`DropQuota` is an upper bound only). A failed save in `beginUpload` loses a slot
  too.
- `complete` and `abort` take the upload out of the table before its directory is
  gone (upload.go:403). A request in between loads it again into a second object
  with a mutex of its own; `SerializedWhileOpen` holds until the removal begins.
- `<name>.uploading` is a visible name. If a handler renames or deletes it, or renames
  its folder, while `complete` copies into it, a second `complete` to the same
  destination creates it anew, and the first one renames the half-written file to the
  destination (upload.go:398) and removes its own chunks. Nothing in the code prevents it;
  `PublishedIsWhole` and `DoneIsPublished` leave out destinations to which that happened (`robbed`).
- The temporary file of a failed assembly stays if its removal fails (upload.go:388, 399),
  for instance after its folder was renamed, and then blocks later completions to the
  name like the one a crash leaves.
- `restore` takes an item off the list whenever `os.Stat` fails on it, also if the item
  is there (trash.go:186-190). It then cannot be restored; only emptying the trash or a
  purge by its id removes it. `TrashedIsRestorable` says that it is still in the
  directory.
- A removed share whose save failed comes back with a restart (shares.go:313). It comes back
  with what it had granted: its quota is not overrun.
- `complete` tests for an existing file before assembling (upload.go:358) and renames
  over whatever is there after it (upload.go:398), as `restore`, rename and move do
  after theirs. This is the race for one place that `AnsweredIsKept` excuses.
- A request that had already read a directory when a handler invalidated stores the
  old listing after it (handlers.go:168), and nothing ages out of the listings: it stays until
  the next change or its eviction (`late` in `StaleIsExplained`).
- Failures of an address that was not locked go only with the hourly reap or a
  success; they are not counted "per minute" (src/README.md:206). A right
  password clears the entry even if the address was locked meanwhile.
- A place that is visible itself, but reached only through a hidden folder (a link
  leads into the hidden folder, and a link there leads back), is refused at the hidden
  folder (path.go:145), although what is opened in the end would be allowed. `Guards`
  excepts it; that the exception is needed came out of the proof.
- The activity log ignores the result of its write. After a line that was cut
  short, the next event is glued to it and both are dropped by the next prune
  (`written` has only events with a line of their own).

## Proofs

`tlapm` checks the proof modules to the last leaf. They assume only the named
assumptions on the constants (a kind and an expiry mode for every token, drop
boxes have a deadline, an owner for every session, finitely many requests from one
address, sizes are natural numbers, the null values are not
members of the sets they are told apart from, all logged events are values of
the file; of the file system: what is in a place is in a folder, a resolved link leads to no
link, `.` and `..` are no file names, what always exists is a tree, the keys of
the cache are made of names), and hold for any sets of tokens,
paths, requests, sessions, users and callers. The theorems about `Archive` have one
hypothesis of their own, `AllPaths`: every sequence of names is a path. The code has
no other limit; the runs do, because `Paths` must be finite for them, and a move whose
result would not be a path of the run is no step there.

**ShareStore.** The type invariant, `OneDownloadOnce` and `LiveIsDurable`.
`OneDownloadOnce` is about requests, but what protects it is a counter that
exists twice, and a restart or a failed save may put either copy back. So
the inductive invariant adds `GrantIsCounted`: a link that was granted has a
count of one in every copy that still has it. It also needs that granted
requests have the kind of their share, and that a token that was never created is
nowhere, so that `create` starts with no holders. Most actions neither create a
share nor count a download; the lemma `TameSteps` shows they all satisfy one
relation `Tame`, and `TameKeepsIInv` treats them at once. `create`, `beginDownload`
and the restart have lemmas of their own.

`DropQuota` and `UploadsCountedOnDisk` have an invariant of their own (`QuotaInv`): the
requests that hold a place of a drop box are finitely many, and no more than either
copy of its counter says. `QuietQuota` treats the steps that change neither the holders
nor the counter; `beginUpload`, the refund of a failed upload, the grant of a download
and `create` remain. With both invariants every step is one of `ShareQuota`, which is
`StoreKeepsPromise`: `create` mints, `beginDownload` and `beginUpload` grant, a
failed upload refunds, and all that is left (prunes, revocations, renames, failed
saves, restarts) at most closes tokens (`NothingOpens`). The same lemma gives
`GoneIsForever`.

**SessionStore.** The type invariant, `LoginIsDurable`, `LogoutIsFinal`,
`QuietMeansSaved` and the action property `NoLoginClobbered`. What a write does
is decided when its copy is taken, which may be many calls earlier. The inductive
invariant therefore speaks of the copy of the one caller that holds `persistMu`:
it has every good session of the file (`CopyKeepsLogins`), none whose removal was
written (`CopyOmitsLogouts`), and whatever it lacks belongs to a caller that is
still waiting for `persistMu` (`ChangesAreAwaited`).

**TrashStore.** The type invariant, `TrashedIsRestorable` and `DamageIsLocal`. The
first says that three copies agree on what was reported; it is not
inductive, because a method in progress has changed some of the copies and not yet
the others. The inductive invariant names what the holder of `s.mu` has in hand
(`InHand`), says that an id not yet used is in no copy (`WaitingIsFresh`), and that
on every item that is neither in hand nor hurt the copies agree (`Agreement`). A
deletion, a restoration, a removal and the surroundings have a lemma each. An item that a failing
stat dropped from the list is hurt, and remains in the directory: `TrashedIsRestorable`
has no other exception.

**Accounts.** The type invariant, `AlwaysAnAdmin`, `SessionsAreCurrent`,
`TwoFactorIsForAdmins` and `CodesAreSingleUse`. The second and fourth speak of one copy of the accounts at a
time, and every copy is a whole former memory. `SessionsAreCurrent` must survive a
restart, which reads two files written at different times. The invariant ties both
to memory: for a name that is not hurt, users.json has the account as memory has it
(`FilesAgree`), and a session that is only in sessions.json was dropped by a request
that has yet to write that (`FileIsAwaited`). The obvious weaker form, that a
session in the file which does not fit awaits a request, is not inductive: a
change may find nothing to drop because a logout has just dropped it. `Mild`
collects what most steps have in common, `MildKeepsAgreement` treats them at once,
`SaveKeepsAgreement` those that change an account.

`CodesAreSingleUse` would break if a secret came to an account a second time, or to a second
account: its codes would be whole again. `CodeInv` follows each secret on its way. It is
drawn into a set-up, then in the hand of the one request that took it from there
(`WaitsOnce`), and until then no account has had it and no code of it is spent
(`WaitingIsNew`); afterwards it belongs to one name in memory and to one in the file
(`OneOwner`). Restarts bring back accounts of the file, never a set-up, so a
secret does not return to this beginning.

**Archive.** The type invariant, `AnsweredIsKept` and `SharesLeadHome`. All are about
requests that hold no lock from their check to their change. What makes them true is that requests
keep to their own paths (`Area`), and that two requests whose areas overlap both
know it: they are no longer `clean`, and what they may touch is excused
(`RivalsAreDirty`, `DirtyIsExcused`). A clean request then finds the archive
as it left it: nothing is at the place it renames to, and below the place it cleans up are
only the items it created (`CleanIsAlone`, `OwnIsNew`, `OwnersDiffer`). `StepOf` says
what a step does to others: it moves items only within its area, answers
only for what it created, keeps what is in the trash. From it follow `FarStays` (a path apart from
the area of the request keeps all that is under it) and `OthersStay` (every other
request keeps its part of the invariant), so each action is examined only for
what it does itself. Below that are lemmas on sequences, place by place: prefixes,
and what a path becomes when its beginning is replaced (`MovedIs`, `MovedInjective`,
`MovedPrefixes`), with which a rename keeps the archive a tree (`RenameKeepsTree`).

`SharesLeadHome` needs more, because a share is wrong between the rename and the
rewrite. `Accounted` says where its item is then: at the path of the share, or
where the one request has put it that will rewrite, remove or rename back
(`Awaits`); a clean request has no share of others where it goes (`SharesOK`). A rename makes shares at
home wait, a rewrite brings them home (`RewriteSharesKeepsShares`), a failed deletion
puts back the item under each (`MovedBack`), and no other request touches either end
(`OthersStillAwait`).

**LoginTrail.** `FailuresBounded` and `EveryFailureCounts` together are inductive as they
stand (`LimiterInv`): while there is no lock the entry knows the number of failures,
and a lock leaves only requests that are already checking, whose number falls
with every failure. `TrailStep` shows that a step of the composition is a step of the
limiter, leaves it alone, or forgets it.

**AtomicFile.** `FileInv` says that the file and all that its name may lead to again are
complete, and what the temporary file holds at each step up to the rename
(`TmpInv`). After a crash it may hold anything, and nobody reads it.

**ActivityLog.** The type invariant, `RecentIsComplete` and `NeverTruncated`, of the composition
`LoginTrail`. An event must not get lost on its way from the appended line through
the prune into the new file, nor by a power failure that gives the name back to an older
file. The invariant (`LogInv`) says it of every copy: what can be read has all that was
written and not aged out, what is on the disk and every file the name may lead to again
have all that was synced (`LogKept`), and the file that is being written has what was written, too
(`LogTmp`). That the prune keeps the order and the last lines is a lemma about picking
from a sequence (`OnlyIsPicked`): what is picked comes in the order it had, and in as
many lines as it takes.

**ListingCache.** The type invariant, `StaleIsExplained`, `UsageIsFresh`, `NothingHiddenIsListed`
and `SearchFindsAll`. A listing or a measurement
becomes stale while a reader carries it, so the inductive invariant says of every
reader what the properties say of the cache (`ReaderInv`), with `missed` in the place of
`late`. The usage needs no such excuse, because who carries a measurement
holds the mutex, and this is what `ReaderInv` adds. For these two it does not
matter what a listing is, only that it is a function of what exists. For the type
invariant, a set of a key is a removal of it from the list, an insertion
at the front and a cut at the end (`RemovedAt`, `RemovedFirst`), and none of them lets a key be
in the list and not in the map.

A search is complete because of what `CalmInv` says of it between two of its steps: every
visible folder has either been searched or lies under a directory that is still in the queue
(`Ahead`). A visit takes a directory away and puts its folders there (`HandsOn`).
This holds only of listings that are up to date, which is `Settled`: it lasts until the
archive changes, and a change makes no search calm. The listing of a visible folder
is what has to be shown of it (`ListingIsShown`): the vault lets a name through
exactly when the system gets to a visible place with it (`LetThrough`).

`NothingHiddenIsListed` must survive what comes after the listing was read. A
listed child exists when its directory is read, and so does what it leads to if it is a link: the
system already gets to the end of its path (`ChildIsReached`), and it gets to the same place in every larger archive
(`ReachesStill`), since what links lead to does not change.

**PathVault.** `VaultIsSafe` is about every archive that is a tree and every path of any
length; `VaultAlwaysGuards` says that the archive of `ListingCache` is always one. The
walk of `safePath` and the operating system take the same path name by name, and
`Together` says how they stand to each other after each: at the same place, or
the walk beyond what exists and the system at an end, or the walk has refused and the system
is at an end too or has passed something hidden. `StayTogether` is one name, `WalkTogether` the
whole path. The walk is a recursive function over the names of the path.
That such a function exists (`Recursion`), and that what passes from
each name to the next holds at the end (`Along`), are proved here from the fact that
`<` on the numbers is well-founded, with the statement as a set of numbers, since the
induction theorems of the library take an operator.

**UploadManager.** The type invariant, `PublishedIsWhole`, the action property
`DoneIsPublished`, `FinishedChunksKept`, `SerializedWhileOpen` and `OpenIsResumable`. A request keeps its
pointer to an `activeUpload` over many steps, while others take the upload out of the
table, load it again as another object, or remove its files. None of the properties
is inductive, because each speaks of what is seen outside. The inductive invariant
says what a request may rely on between two of its steps: its pointer is set where the code
needs it (`PointersSet`), leads to an object of no other upload (`ObjectsOfOne`), and is
the one of the table until the removal of the upload begins (`SameObject`); the request
between `Lock` and `Unlock` is the holder of that object (`HolderIsInside`); removals
begin only for uploads that ended or are old (`DoomedHasCause`); what a request has read
from the directory, or is about to mark, is there (`ChunksKnown`). Two holders of one
upload therefore hold one mutex. For the published files it says who writes where: a request
that is the content of a temporary or published name is still assembling for
that destination (`WritersAssemble`), and whoever assembles has its own file at the
temporary name, unless it was taken (`AssemblerOwns`); so what it renames is what it has
copied. `SameObject` is false of `flag`, the step in which
`abort` sets `aborted` on an object it has taken out of the table, and true of every
step before. The program counter has 15 places and a request about 30 steps; instead of
a case for each step and conjunct, the lemmas `StepPointer`, `StepTable`, `StepDoom`,
`StepObjects`, `StepStored` and `StepDestination` say once what any step does to
one part of the state, and each conjunct follows from those it needs. The chunk
arithmetic is proved for every size: the length of `Slice(i)` is `Expected(i)` and lies between 1 and
the chunk size (0 for an empty file), and the full chunks with the last one add up to the
file. `NoChunkIsRefused` follows: every chunk has the length the server expects, and their
sum (`Copied`) is the declared size. Division of integers is reduced to one lemma.

Only model-checked are `RequestsReturn`, `OldIsPurged` and `EntriesDoNotLeak`: liveness
under fairness is out of the prover's reach and stays with TLC. So do the
counterexamples of the findings.

The inductive invariants were also checked by TLC on the instances of
the runs.

## What is not modelled

- Power failure outside `AtomicFile` and `LoginTrail`: the other modules take from
  `AtomicFile` that a write replaces the whole file or leaves it, and stop at a crash of
  the process. Files edited by hand, corrupted JSON, two server processes on one
  directory.
- WebDAV (webdav.go) is a read-only view through `safePath` and keeps no state;
  what it rests on is `VaultGuards`. Downloads, previews and zip streams only read as
  well.
- The identity a proxy sends, headers, redirects, request limits and compression
  (middleware.go) keep no state beyond one request.
- Start-up and the drain of a graceful stop (main.go): a stop is a `Restart` at any
  point, which covers handlers that the grace period cuts off; the drain itself is
  in net/http.
- Contents of requests, pages and passwords; `sanitizeName`, which maps a name to a name
  before the paths of the models are formed.
- In `Archive`, paths a request writes in another way than their place is named (links,
  `..`), and the storage root itself. `handleRename` does not refuse an empty `oldPath`
  (handlers.go:475-510): it then renames the whole storage directory to a sibling of it,
  and no property of `Archive` would survive that. The module has nothing outside
  the root, so its properties are to be read for requests with a path.
- The recursion of `copyDir` (copy.go:197-222) below the first level: the children of a copied
  folder are copied one by one, and what fails or races in a deeper folder does so in
  the same way.
- A stat that fails for another reason than a missing file, outside `TrashStore` and
  `ListingCache`: the handlers answer it with an error and change nothing.
- What a request does with the path in its copy of a share after the share was renamed or
  removed: `ShareStore` has no archive, and in `Archive` nobody reads through a share.
- The text of chunk contents and the `chunk_i.tmp` files; the browser, but for how it
  cuts a file.

## Plan

1. A refinement for the upload manager: what a browser may rely on, as a specification
   of its own, in the way `ShareQuota` is one for the shares.
2. A refinement for the trash: an item is deleted, restored or purged at once, and the
   three copies of the list implement it.
