# Verification of the Nextcloud server: locks, background jobs, and the pages for files and shares

This directory holds TLA+ specifications of parts of this repository (a distribution of the
Nextcloud server: PHP, with a front end in JavaScript), the TLC configurations that check them on small instances, and proofs
about them for TLAPS. It is meant to be read beside the code; every definition that stands for
code is listed in `PROJECT.json` ("map") with the file and lines it was written from.

The server has no process of its own: every web request and every `occ` or cron run is a PHP
process that starts, works on shared tables, caches and files, and ends. Nothing in it blocks or
waits. What is hard, therefore, is what several such processes do to one row or one key between two
statements of one of them, and what a killed process leaves behind. The server side of the project
is where the code has the most of this: the locks every file operation goes through, the operations that
take them, and the queue of background jobs.

The front end is the other kind of concurrency. A page is one thread, but every request it sends is
answered later, in any order or never, and meets what the user has done since: another folder is open,
the row has been edited, the share was toggled back. The pages keep copies of what the server has, in
several places, and each handler of an answer or an event corrects some of them. The project models
the pages with the most of this: the file list, the settings of external storages, and the two halves
of the sharing sidebar.

* [Inventory](#inventory)
* [Modules](#modules)
* [What is checked](#what-is-checked)
* [What the violations show](#what-the-violations-show)
* [What is proved](#what-is-proved)
* [Limits](#limits)
* [Plan](#plan)

## Inventory

Core, modelled:

| part | code | state | operations | correct means |
|---|---|---|---|---|
| lock contract | `lib/public/Lock/ILockingProvider.php` | who holds which lock | `acquireLock`, `changeLock`, `releaseLock`, `releaseAll` | readers-writer lock per path; refusal instead of waiting |
| database provider | `lib/private/Lock/DBLockingProvider.php`, `AbstractLockingProvider.php` | table `file_locks` (an anonymous counter and an expiry time per path); per request `acquiredLocks` and `sharedLocks` | the same, one to two SQL statements each, and `cleanExpiredLocks` | implements the contract; counters are exactly the units held; live locks are not cleaned up; stray locks are |
| cache provider | `lib/private/Lock/MemcacheLockingProvider.php`, `lib/private/Memcache/{Redis,CASTrait,CADTrait}.php` | a key per path (`'exclusive'` or a counter) with an optional ttl; per request `acquiredLocks` and `oldTTLs` | the same, up to four cache commands each | the same, per backend |
| callers of the locks | `lib/private/Files/View.php`, `apps/files_sharing/lib/SharedStorage.php`, `apps/dav/lib/Connector/Sabre/{File,LockPlugin}.php` | the locks a request holds, the operation it is in, the files it has open | `basicOperation`, `fopen`, `file_put_contents`, `rename`, `copy`, `removeMount`, `File::put`; `lockFile`, `changeLock`, `unlockFile` | nobody works on what another one changes, under whatever path; every way out gives back what was taken |
| background jobs | `lib/private/BackgroundJob/JobList.php`, `lib/public/BackgroundJob/`, `cron.php`, `core/Command/Background/JobWorker.php` | table `jobs` (`reserved_at`, `last_checked`, `last_run`); per worker the selected row and the list of executed jobs | `add`, `scheduleAfter`, `getNext`, `setLastRun`, `setExecutionTime`, `setLastJob`, `unlockJob` | a reservation is exclusive; a queued job runs once; no reservation is lost; restrictions are respected |
| file list | `apps/files/src/views/FilesList.vue`, `store/{files,paths}.ts`, `actions/`, `newMenu/newFolder.ts` | the route; `loading`, `error` and the ongoing promise; stores of nodes, of the children of folders and of paths | navigate, reload, create, upload, delete; the events `files:node:*` | what is shown belongs to the open folder and agrees with the server; loading ends |
| external storage settings | `apps/files_external/src/settings.js`, its controllers | a table row: inputs, id, status icon; requests on their way | `saveStorageConfig`, `recheckStorageConfig`, `deleteStorageConfig`, `loadStorages` | the icon is about what the server has; one storage per row; nothing deleted comes back |
| updates of a share | `apps/files_sharing/src/mixins/SharesMixin.js`, `ShareRequests.js`, the entry, the quick select and the details; `ShareAPIController::updateShare`, `DefaultShareProvider::update` | the share object the components edit in place; a queue of updates per component; the row on the server | `queueUpdate`, `saveShare`, `cancel`, `onDelete`, `onSyncError` | once all is quiet page and server agree; a refused change is taken back |
| sharing tab | `apps/files_sharing/src/views/SharingTab.vue`, `SharingLinkList.vue`, `components/SharingEntryLink.vue` | the file, the list of links, a draft, requests on their way | `update`, `getShares`, `onNewLinkShare`, `pushNewLinkShare`, `onCancel`, `onDelete` | the list is the one of the file; a draft becomes one link, and none if it is cancelled |

How they interact: `View` (with WebDAV, versions, encryption on top of it) calls the locking
provider, which `Server.php` chooses from the configuration; the shutdown function registered in
`base.php` calls `releaseAll`; `cron.php` takes `CleanupFileLocks` from the job list, which calls
`cleanExpiredLocks`. Applications put jobs in the list from within requests, and workers take them. The pages talk to the server over WebDAV and
the sharing API, and to each other over the event bus (`files:node:deleted`, `files:node:created`,
`files:node:updated`) and through objects they share: `SharingTab` hands one share object to the list,
the entry and the details, which all edit it.

Not modelled yet. Candidates for later modules, with what would make them correct:

| part | code | hard behaviour | properties worth stating |
|---|---|---|---|
| trusted servers | `apps/federation/lib` | two servers exchange a shared secret with jobs that are retried, over requests that may be lost or repeated | both sides end with the same secret; a lost answer is recovered from |
| task processing | `lib/private/TaskProcessing` | clients, the synchronous worker and external providers move one task through its states | terminal states are final; a task is handed to one provider |
| uploads | `apps/dav/lib/Upload`, `Connector/Sabre/File.php` | part files, chunks and their assembly while others read and write | a reader sees the old or the new content |
| calendars, contacts | `apps/dav/lib/CalDAV`, `CardDAV` | sync tokens and the change log of concurrent writers | a client that follows the tokens sees every change |
| file cache | `lib/private/Files/Cache` | scanner, updater and propagator update sizes and etags side by side | the size of a folder is the sum of its children once all is quiet |
| configuration | `lib/private/AppConfig.php` | lazy and eager values cached per request, conditional updates | a value written is not lost |
| authentication | `lib/private/Authentication/Token` | rotation and invalidation of tokens while they are used | an invalidated token stays invalid |
| rate limiting | `lib/private/Security/RateLimiting` | counters under concurrent requests | never more than the limit in a period |
| encryption, versions, trash | `apps/encryption`, `apps/files_versions`, `apps/files_trashbin` | several files change for one operation | version numbers and keys agree with the content; expiry keeps what it promises |

Parts that stay outside, and why: sharing, groups, accounts, directory, comments, tags, activity,
notifications, workflow and user status are rules and records with little concurrency of their own;
storages, external storage, updater, installer and migrations are adapters to systems that are not
in the repository; the application framework, routing, templates and logging have no protocol; the
rest of the front end, the dashboard of this distribution and the vendored code are forms over single
requests, presentation, generated, or third-party. `PROJECT.json` lists all of them.

## Modules

| module | what it is |
|---|---|
| `FileLock` | the contract: readers and writer of each path |
| `DBLockingProvider` | the database provider, one action per SQL statement and the bookkeeping that follows it |
| `DBLockingProviderProofs` | inductive invariant and safety theorems of `DBLockingProvider`, and that it implements `FileLock` |
| `MemcacheLockingProvider` | the cache provider, one action per cache command |
| `MemcacheLockingProofs` | inductive invariants and safety theorems of `MemcacheLockingProvider`, and that it implements `FileLock` |
| `View` | operations on files: which locks they take, in which order, and what they give back; composes `FileLock` |
| `ViewProofs` | inductive invariant and safety theorems of `View`; that `FileLock` excludes and `View` keeps to it |
| `JobList` | the job table, `cron.php`, the `occ` worker, the life of a job, an application that adds jobs |
| `JobListProofs` | inductive invariant and safety theorems of `JobList` |
| `FilesList` | the file list of the files app: route, stores, listings, events |
| `FilesListProofs` | inductive invariant and safety theorems of `FilesList` |
| `StorageConfigList` | the table of external storages and its requests |
| `StorageConfigListProofs` | inductive invariant and safety theorems of `StorageConfigList` |
| `ShareUpdates` | the queues of updates of one share, on the page and on the server |
| `ShareUpdatesProofs` | inductive invariant and safety theorems of `ShareUpdates` |
| `SharingTab` | the links of a file: loading, creating, cancelling, deleting |
| `SharingTabProofs` | inductive invariant and safety theorems of `SharingTab` |
| `MCDBLocking`, `MCMemcacheLocking`, `MCView`, `MCJobList`, `MCFilesList` | constants and symmetry sets for TLC |

### FileLock

`readers[p]` and `writer[p]`. The six operations are the doc comments of `ILockingProvider`. Since
a call that is not granted throws `LockedException` and changes nothing, the specification says
nothing about when a lock must be granted: a provider may be stricter (a stray lock of a killed
request blocks a path until it expires), never more generous.

### DBLockingProvider

`rows`, `lock` and `ttl` are the table; `acquiredShared`, `acquiredExclusive` and `sharedLocks` the
fields of each request's provider. `ttl` counts down to the moment the row may be deleted and `age`
counts the seconds of a request, so no bound on the length of a behaviour is needed.

* `acquireLock` is an `INSERT ... ON CONFLICT DO NOTHING` (`InsertShared`, `InsertExclusive`,
  `InsertConflict`) and, when that met a row, an `UPDATE` (`UpdateShared`, `UpdateExclusive`,
  `Refused`). The expected value and the expiry time are computed before the INSERT and kept in
  `pending`: others may change or delete the row in between.
* `Caching` are the web requests: they keep one shared unit per path until they end
  (`cacheSharedLocks`), reuse it (`ReuseShared`) and give it back with the last statement of
  `releaseAll` (`Close`). Console commands give every unit back at once.
* `releaseAll` runs as a shutdown function, also after a fatal error in the middle of a call
  (`BeginClose` drops what was pending). `Crash` is a process that is killed; what it had stays in
  the table, and the model keeps its bookkeeping as a record of that, until `CleanExpiredLocks`
  deletes the row.
* `SharedPath` are paths that are locked shared before anything else, which is what `View` does;
  `ExclusivePath` those only locked exclusively. They may overlap; see
  [what the violations show](#what-the-violations-show).

### MemcacheLockingProvider

`call` says which method a request is in and which cache command comes next. `HasTTL` and
`AtomicCas` select the backend: Redis (cas and cad are Lua scripts, keys expire), APCu and Memcached
(cas and cad emulated by `CASTrait` and `CADTrait` with a `_lock` key), and `ArrayCache`, which the
unit tests use. `oldTTLs` and `restoreTTL` are modelled command by command (`Get`, `GetTTL`,
`CompareSetTTL`). The bookkeeping of a request is private to it, so it is done with the command that
settles the call.

### View

The locks are those of `FileLock` (`Lock == INSTANCE FileLock`), so the operations may rely on the contract
both providers are held to, and on nothing else; `shared` is the list each request keeps
(`AbstractLockingProvider::$acquiredLocks`). A request is in one operation (`op`) at a phase (`pc`), works through the
files it has to lock, change or unlock (`queue`), and for the first of them through the locks (`todo`): the
path itself, then its parents. Each call of the provider is one step.

* `Files` and `Claims` are the files an operation locks shared and those it makes exclusive while it works on the
  storage. `read` and `write` stand for the operations of `basicOperation` with such hooks, `openRead` and
  `openWrite` for `fopen`, whose locks stay until the callback of the stream runs (`Close`, by then between
  other operations of the request), `stream` for `file_put_contents` with a resource, `put` for
  `File::put` with the lock of `LockPlugin` around it, `unmount` for `removeMount`.
* A path is what a user sees, a node what is behind it: below the mount of a share the paths of the recipient
  and those of the owner lead to the same nodes, and the lock is the one of the node (`Common::acquireLock` hashes
  the id of the storage and the path in it). `OwnerFolders` are the locks `SharedStorage` takes in addition at the root of a
  share. `rename` and `removeMount` lock the mount point instead of what is mounted there (`OwnKey`).
* A lock may be refused at any time (`Refused`, `ClaimRefused`); hooks veto an operation or throw (`Veto`,
  `HooksThrow`); the storage fails or throws, and so does the update of the file cache. Each of these leaves an operation the
  way its own `catch` and `finally` do. Where there is none, the locks stay until the request ends
  (`unguarded`), which `End` models, as `releaseAll` or a kill would.

### JobList

A job is a class with an argument; its row gets a new id when it is inserted again. A worker goes
through the statements of `getNext` (`Select`, `CheckParallelRuns`, `Skip`, `Reserve`, ...), starts the
job (`StartQueued` removes the row first, `StartTimed` compares the interval with the row as it was
selected), runs it, and gives it back (`SetExecutionTime`, `SetLastJob`, and `UnlockJob` in the `occ`
worker). Every retry of `getNext` is a jump back to `Select` with the argument the code passes on. An
application adds jobs in two steps (`Add` looks, `AddWrite` inserts or updates), and any worker can
be killed anywhere. Seconds are `now`; 0 means "never", as in the table, so the clock starts at
`ReserveTime`.

### FilesList

`server` is what the WebDAV server has, `op` the creation or deletion of a node the page has begun, and
`files`, `roots`, `children` and `paths` are the two Pinia stores. A request for a listing goes through
`sent`, `answered` (the server has computed it) and `done` or `failed`; `fetchContent` cancels the
ongoing one if its promise can be cancelled (`Cancelable` are the views where it can). `goToRoute` calls
`fetchContent` once for each watcher that fires. The subscribers of an event run one after the other in
the order they subscribed: the stores first, the list last, which is why `StillCurrentFolder` looks at
`files'`. One level of folders (`Folder`, with files in them) below the root; `Flat` are views such as
"recent" whose root lists nodes from anywhere. The history variable `stale` has the nodes about which
the server has changed its mind since the listing was computed and the page was not told.

### StorageConfigList

A row has the inputs (`Value`, of which `Valid` pass `validate`), the id the first answer brings, and
the status icon. `save` is a POST or a PUT depending on that id. A request is served or refused, its
answer may get lost, and `Deliver` is the callback: success sets status and id, failure an error, and
the answer to a deletion removes the row. `loadStorages` computes a list on the server and adds rows for
it later. `raced` names the rows on which the user acted while a request was under way (or that lost an
answer), `failed` those with a failed request after the last successful save, `owner` the row that
created a storage.

### ShareUpdates

One share, which the details, the quick select and the entry edit through the same object (`share`).
Each component that uses `SharesMixin` has a queue; `queueUpdate` appends the values that the named
properties have at that moment (`last` remembers them), and the head of the queue is sent. On the server an update is `Read` and
`Write`: `DefaultShareProvider::update` writes all columns. The outcomes `refused`, `silent` (an error
without a message) and `lost` are the ways a request fails. `clouded` and `shaky` remember whether two
queues met, an update failed for good, or a toggle was pressed while one was pending.

### SharingTab

The tab stays when another file is selected, its entries do not: `Without` turns the requests of an
entry that goes away into requests nobody waits for. `processShares` ignores an answer without shares
(`Ignored`). A draft is `new` until its first answer, `failed` after a refused one. `made` counts the links the
server made from the draft, `stale` names the links the list was not told about.

## What is checked

Every property has a mutant in `PROJECT.json`: a plausible bug in one definition (a dropped guard,
a missing reset) under which TLC finds that property violated with the same configuration. Mutants
stand beside the definitions they change, marked `Mutant`.

### Runs that hold

| run | instance | shows |
|---|---|---|
| `db_locking` | two web requests and a console command, a path locked shared first and one only exclusively, nested locks; 536 000 states | `TypeOK`, `MutualExclusion`, `RowIsExact` (the counter of a row is the number of units held), `LiveLocksDoNotExpire`, `ImplementsFileLock` |
| `db_locking_live` | a web request and a console command, fair | `WritersGoAway`: an exclusively locked path becomes available again |
| `memcache_atomic` | three requests, nested locks, atomic commands without expiry; 860 000 states | `MutualExclusion`, `NoLeakedLock`, `ImplementsFileLock`: the sequences of commands are right in themselves |
| `memcache_redis` | two requests, expiry, `restoreTTL`; 6.5 million states | `NoLeakedLock` with keys that vanish during a call |
| `memcache_emulated_exclusive` | three requests that only lock exclusively, emulated cas | `MutualExclusion`, `ImplementsFileLock`: the emulation excludes writers from each other |
| `view_locks` | two requests; an owner's folder with a shared folder and a file in it, the mount of a recipient; reads, writes, open files, moves, copies, unmounting; 441 000 states | `TreeExclusion`: what one request changes no other works on, on the same node or below it; `Balanced`: an operation gives back what it took; `HoldsWhatItClaims` |
| `job_list_cron` | two cron processes, a timed and a queued job, the queued one added again while it is taken; 4.8 million states | `NoOrphanReservation`, `RunsAtMostOncePerAdd`, `ReservationsAreKept` |
| `job_list_apps` | a cron process and an `occ` worker restricted to one class; jobs of a disabled and of a removed app, a class that must not run in parallel | `NoOrphanReservation`, `OnlyRequestedClasses` on the retries of `getNext` |
| `files_list` | two views, one of them flat, a folder and a file in it, four listings; 803 000 states | `LoadingIsOwn`, `ErrorIsOwn`, `ListIsCurrent`, `LoadingEnds` |
| `storage_list` | a row, two storages, two requests at a time; 576 000 states | `StatusIsTrue`, `NoOrphan`, `NeverResurrected`, `ProgressEnds` |
| `share_updates` | the quick select, the entry and the details, two permissions and two passwords, two pending updates; 7.0 million states | `LastUpdateWins` and `TalkIsRestored`: once all is quiet, page and server agree unless two queues met |
| `sharing_tab` | two files, one with other shares, two links, three requests at a time; 1.9 million states | `ListIsCurrent`, `PushedOnce`, `LoadingEnds` |

### Bounds, and why they are enough

* Two requests are enough for every race between two statements of one and a statement of another;
  a third one is there where two others are needed to move a counter (a reader leaves, a writer
  comes). The proofs below remove the bound for both providers, for `View` and for the workers.
* `MaxAge = 1`, `TTL = 2`: the smallest instance in which a row outlives its request, a request
  is over before its rows expire, and the two differ. `RequestsShort` (twice the life of a request is at
  most the ttl: an hour by default) is what makes `LiveLocksDoNotExpire` true; twice, because an
  `UPDATE` may be sent late and write an expiry time computed when the call began.
* `MaxShared` bounds nested shared locks of one request; 2 distinguishes "still held" from "last
  release".
* `MaxTime`, `MaxRun`, `MaxAdds` bound the clock, how long a worker keeps a job and how often a job
  is added. `ReserveTime` is longer than `CheckTime`, like twelve and six hours, and a job is over
  (`MaxRun`) before either has passed.
* `View`: the smallest tree with a shared folder that has a folder above and a file below it, its mount at a recipient,
  and a file outside. The operations of `MCView` have each kind on paths of the owner and of the recipient, files and
  folders. `MaxShared = 3` is an open file and a copy or move that takes two more locks of a folder.
* `FilesList`: four listings are two navigations and an answer of each that is late; one folder with one
  node has all cases of the stores (open directory deleted, its parent deleted, a node below it created).
  `LoadingIsOwn`, `ErrorIsOwn` and `ListIsCurrent` are proved for any number.
* `StorageConfigList`: the rows are independent except through `loadStorages`, so one row and a storage it
  did not create suffice; two requests at a time are the smallest race, two ids the smallest duplicate.
  The proofs are about any number of each.
* `ShareUpdates`: `MaxPending` bounds the updates in all queues; two is one in each of two queues, or
  one behind another. `SharingTab`: `MaxRequest = 3` is a listing of the file before, one of this file and a
  creation. The proofs are about any number of each.
* Symmetry is used for requests of a kind, never together with liveness.
* `CHECK_DEADLOCK FALSE` where killed processes and a bounded clock really end a behaviour.

### Fairness

Four runs make claims about the future. In `db_locking_live`, `FairSpec` assumes that time passes; that
a request that can end ends (PHP's time limits and the web server see to that) and then goes through
its shutdown function; and that the clean-up job is run again and again (a `TimedJob` of five
minutes). Nothing is assumed about requests that lock, and what a killed request left behind goes away
only with its row. Even if others lock the path again at once, each exclusive lock comes to an end.

In `files_list`, `storage_list` and `sharing_tab` it assumes that a request that was sent is answered or
fails (the browser gives up in the end), and that the page handles what has arrived. Nothing is assumed
about the user, and, where a lost answer is an outcome of its own, about its success.

## What the violations show

While the models were written, TLC found behaviours of the code that contradict what a comment, a doc
or a test says. They are kept as configurations beside their modules
(`tlc -config <file>.cfg <module>` finds the violation in seconds); a property that the code never
satisfies is marked in the module.

* `SharingCancel.cfg`, `SharingTab`, `CancelledIsNotPushed`: `onCancel` takes a draft away because "this.share already
  exists at this point, but is incomplete as not pushed to server YET"
  (`SharingEntryLink.vue:877`). `shareCreationComplete` is set in the `finally` of `pushNewLinkShare`, after
  the answer: a draft that is cancelled while its request is on the way becomes a link nobody sees.
* `DBLockingMixed.cfg`, `MCDBLocking`, `MutualExclusion`: a web request locks a path shared, releases it
  (and keeps the unit), locks it exclusively (which uses the kept unit up, but leaves `sharedLocks` set,
  `DBLockingProvider.php:124`), releases that and locks it shared: the lock is granted from memory, while the
  row says 0 and another request can write. With `SharedPath` and `ExclusivePath` disjoint the module is
  proved correct.
* `MemcacheRestore.cfg`, `MCMemcacheLocking`, `MutualExclusion`: the request that created a key saved the ttl -1
  for "no key"; when its `changeLock` fails, or it releases one of several units, `restoreTTL` may conclude
  that nobody has renewed the key ("*only* if nobody else got a shared lock after we did",
  `MemcacheLockingProvider.php:142`) and expires it although another request has a unit in it.
* `MemcacheEternal.cfg`, `MCMemcacheLocking`, `NoEternalLock`: a process killed between `cas` and `setTTL` leaves
  `'exclusive'` without expiry, in spite of "ttl is updated automatically when the `set` succeeds"
  (`MemcacheLockingProvider.php:74`).
* `MemcacheEmulated.cfg`, `MCMemcacheLocking`, `MutualExclusion`: `inc` does not respect the `_lock` key of the
  emulated `cas` (`CASTrait.php:27`: "no native cas, emulate with locking").
* `JobListUnlock.cfg`, `MCJobList`, `NoParallelRuns`: `setExecutionTime` gives a reservation back and
  `setLastJob` gives it back once more, when it may belong to somebody else; a third worker then runs the job
  beside the second, although the class has `allowParallelRuns = false` (`Job.php:120`).
* `ViewHandles.cfg`, `MCView`, `TreeExclusion`: the `finally` of `rename` unlocks source and target (`View.php:852`), also
  when the lock on the target was refused, and so counts down locks on its parents that the same request holds for a
  file it has open. The last one gone, another request can move or delete the folder around the open file. The run
  `view_locks` lets a request with an open file do everything but rename (`BesideHandle`).
* `ViewReleases.cfg`, `MCView`, `ReleasesWhatItHolds`: the same `finally`, without an open file: `releaseLock` is called
  for locks the request does not hold. `markRelease` ignores that, but the database provider of a console
  command still decrements the counter (`DBLockingProvider.php:158`), which is then the unit of another request.
* `JobListRestricted.cfg`, `MCJobList`, `OnlyRequestedClasses`: "List of job classes to restrict which next job we get"
  (`IJobList.php:103`), but `getNext` calls itself without them after it has skipped a job of an exclusive class.
* `ShareOneQueue.cfg`, `ShareUpdates`, `OneQueuePerShare`: "we want one queue per share"
  (`SharesMixin.js:57`), but `data()` makes one for each component that shows the share. Two updates are
  then under way at a time, and because the server writes all columns one can undo the other.
* `StorageConfigRemoved.cfg`, `StorageConfigList`, `RemovedLeavesNothing`: "deleting unsaved storage"
  (`settings.js:1267`) removes a row that has no id yet because its POST is still on the way; the storage stays.
* `FilesListDeleted.cfg`, `MCFilesList`, `LeavesDeletedDirectory`: "Handle the edge case that the current
  directory is deleted" (`FilesList.vue:611`) compares with `currentFolder`, which is computed from stores
  that the node has left by then, so the page stays in the deleted directory.

Exceptions that are part of the properties, and what they hide: `raced` (`StatusIsTrue`, `NoOrphan`) excepts
rows the user acts on while a request is on the way; two quick saves of a new row do create two storages.
`clouded` and `shaky` (`LastUpdateWins`, `TalkIsRestored`) except shares on which two queues met, or whose
toggle was pressed twice before the first answer, where negation (`SharesMixin.js:395`) restores the wrong
value. `stale` (`ListIsCurrent` of `FilesList` and of `SharingTab`) names the nodes and links the page could not
know about, and in the tab those of an answer for the file before. `made` is unknown once an answer was lost:
trying again then makes a second link.

## What is proved

The proofs are checked by TLAPS. Those about the database provider hold for every number of requests and paths,
every ttl and every nesting depth, under the assumptions of the module (`ConstantsOK`) and

    Assumptions == IsFiniteSet(Request) /\ PathsSeparated /\ RequestsShort

`PathsSeparated` is needed because of the behaviour of `DBLockingMixed.cfg` (it is void if there are only console
commands), `RequestsShort` because the clean-up job and the provider trust the clock.

| theorem | module | statement |
|---|---|---|
| `Invariance` | `DBLockingProviderProofs` | `Spec => []IInv` |
| `TypeCorrect` | | `Spec => []TypeOK`; `acquiredLocks` never becomes negative |
| `Exclusion` | | `Spec => []MutualExclusion` |
| `CountersExact` | | `Spec => []RowIsExact` |
| `NoEarlyCleanup` | | `Spec => []LiveLocksDoNotExpire` |
| `Refinement` | | `Spec => ImplementsFileLock` |
| `TypeCorrect` | `MemcacheLockingProofs` | `Spec => []TypeOK` |
| `NothingLeaks` | | `Spec => []NoLeakedLock`, if `AtomicCas` and `Request` is finite |
| `Exclusion` | | `Spec => []MutualExclusion`, if `Assumptions` |
| `Refinement` | | `Spec => ImplementsFileLock`, if `Assumptions` |
| `TypeCorrect` | `ViewProofs` | `Spec => []TypeOK`, if `Assumptions` |
| `NobodyElseBelow` | | `Spec => []TreeExclusion`, if `Assumptions` |
| `ClaimsWhatItHolds` | | `Spec => []HoldsWhatItClaims`, if `Assumptions` |
| `GivesBack` | | `Spec => []Balanced`, if `Assumptions` |
| `LockExcludes` | | `FileLock` excludes: `Lock!Spec => []Lock!Exclusion` |
| `FollowsContract` | | `Spec => Lock!Spec`, if `Assumptions` |
| `Invariance`, `TypeCorrect` | `JobListProofs` | `Spec => []IInv`, `Spec => []TypeOK` |
| `NoOrphans` | | `Spec => []NoOrphanReservation` |
| `Keeps` | | `Spec => ReservationsAreKept` |
| `RunsOnce` | | `Spec => []RunsAtMostOncePerAdd`, if `Assumptions` |
| `OnlyRequested` | | `Spec => []OnlyRequestedClasses`, if `ParallelOnly` |
| `TypeCorrect` | `FilesListProofs` | `Spec => []TypeOK`, if `Cancelable = View` |
| `LoadingOwn` | | `Spec => []LoadingIsOwn`, if `Cancelable = View` |
| `ErrorOwn` | | `Spec => []ErrorIsOwn`, if `Cancelable = View` |
| `ListCurrent` | | `Spec => []ListIsCurrent`, if `Cancelable = View` |
| `TypeCorrect` | `StorageConfigListProofs` | `Spec => []TypeOK` |
| `StatusTrue` | | `Spec => []StatusIsTrue` |
| `NoOrphans` | | `Spec => []NoOrphan` |
| `NotResurrected` | | `Spec => NeverResurrected` |
| `TypeCorrect` | `ShareUpdatesProofs` | `Spec => []TypeOK` |
| `LastOneWins` | | `Spec => []LastUpdateWins` |
| `TalkRestored` | | `Spec => []TalkIsRestored` |
| `TypeCorrect` | `SharingTabProofs` | `Spec => []TypeOK` |
| `ShowsItsLinks` | | `Spec => []ListIsCurrent` |
| `DraftPushedOnce` | | `Spec => []PushedOnce` |

**The argument for the locks.** Mutual exclusion is not inductive: the table does not know whose unit is whose. The
inductive invariant `IInv` ties the two together:

* `RowIsExact`: a row at -1 has one owner and nobody has a unit; otherwise the row is the number of
  *tokens*, one for each unit of each request, dead ones included. Lemmas on the cardinality of the
  set of tokens (`TokGain`, `TokSingle`, ...) turn "one more unit" into "+ 1" and "the counter is
  1 and I have a unit" into "nobody else has", which is what `changeLock` relies on.
* `KeptLocks`: the bookkeeping of a request agrees with itself. A web request that holds a shared
  lock keeps exactly one unit; this is what lets `ReuseShared` grant a lock without looking.
* `PendingOK`: what stays true, between INSERT and UPDATE, of the decision made before the INSERT. In
  particular the expected value is 0: with `PathsSeparated` the branch of `acquireLock` that takes a kept unit
  over is never reached.
* `LifeOK` and `LiveLocksDoNotExpire`: no request is older than `MaxAge`, and each row a live request
  depends on outlives it. Without it `CleanExpiredLocks` could delete a row with units, and
  `RowIsExact` would not be inductive.

Each step has a lemma, and the acquisitions share three: a unit is gained (`GainStep`), the row is taken
(`TakeStep`), a row that is written is fresh (`Renewed`). `Refinement` maps a lock of a live
request's bookkeeping to the abstract lock and shows, with the same invariant, that granted
acquisitions are `Share` or `Claim`, `changeLock` is `Downgrade` or `Claim`, last releases are `Unshare` or
`Unclaim`, a kill is `Vanish`, and all other steps stutter.

**The argument for the memory cache** has two invariants, because the code keeps the first on every backend with
an atomic `cas`, and the second only where no lock expires. Both count the same tokens as above, with one
difference: a call is several commands, and `releaseLock` forgets a lock before it changes the key. The unit a
request is giving back (`Releasing`) therefore still counts until `dec` or `cad`, and so does the exclusive
lock (`Unacquiring`).

* `Backed`: a key never stands for more than there is. `'exclusive'` has an owner, a counter is at most
  the number of tokens, and a negative one has either tokens or a request that is about to reset it
  (`ResetDue`). Keys may expire at any moment, under any request, and `restoreTTL` may
  give a key too little time: a key that vanishes is backed. When everybody has gone there are no tokens, no owners
  and nobody to reset, so each key is absent or 0 (`NothingLeaks`). It needs the atomic `cas`: an emulated
  `cad` fails when another request has the `_lock` key, and leaves `'exclusive'` behind.
* `Exact`: the key says exactly what there is, no key expires within the behaviour (`LastsAt`), and an
  emulated `cas` still finds what it compared (`CasOK`). Then the reset of `releaseLock` never fires, the
  counter is positive when `dec` is sent, and mutual exclusion follows as for the database. The assumptions

      Assumptions == IsFiniteSet(Request) /\ (HasTTL => TTL > MaxTime) /\ (HasTTL \/ ~AtomicCas => SharedPath = {})

  are what the counterexamples leave: with keys that expire, `restoreTTL` removes a shared lock others have
  (`MemcacheRestore.cfg`, far below the ttl), and an emulated `cas` overwrites what `inc` did
  (`MemcacheEmulated.cfg`), so that those backends are correct for exclusive locks only; a lock that outlives its ttl
  excludes nobody on any backend. Without ttl and with an atomic `cas` all locks are covered.

`Exact` is one-sided for `'exclusive'`: the owner may have left, after a `cad` that failed or a kill. `Refinement` maps
the bookkeeping of live requests as for the database; `inc` is `Share`, a `cas` is `Claim` or `Downgrade`, and
a release is `Unshare` or `Unclaim` when the request forgets the lock, before the key has changed.

**The argument for the callers of the locks** holds for every tree of files, every set of mounts and every number of
requests, if

    Assumptions == IsFiniteSet(Operation) /\ "rename" \notin BesideHandle

The providers only count; which count is for which file is known by nobody. `Sharers` and `Claimers` are the *needs*
of a request for a lock: one for each open file below it, and one for each file of the current operation that has
got the lock and not yet given it back. `EnoughOf` says that a request has a shared lock at least as often as it needs it, and
that an exclusive one has exactly one need, and nothing else of the same request needs it. "At least" and not "exactly",
because an exception in the storage can leave an operation without giving its locks back (`unguarded`). Five lemmas
turn one step of a lock into one need more or less (`EnoughShared`, `EnoughClaimed`, `EnoughDowngraded`,
`EnoughReleased`, `EnoughUnclaimed`), and `StepKeeps` carries what the request does next along; each action then has a lemma. The
rename that is on its way out gives back what it did not get (`View.php:852`), so `EnoughOf` is not claimed there (`Exempt`), and
that is sound only because this request has no open files: without the second assumption `TreeExclusion` is violated
(`ViewHandles.cfg`). `LocksUp` says that from a node to the root every folder is among the locks of each path to it,
the folders of the owner of a share included; a folder that one request has exclusively is hence held by no
other one that works below it, which is `TreeExclusion`. The finite set of operations is needed for the cardinalities only.

`Balanced` needs the converse, `Spare`: unless an exception has left the request unguarded, it holds no lock more often
than it needs it. Shared or exclusive makes no difference there, so `HeldBy` counts both and `Needers` has one element for
each open file and each file of the operation that took the lock and has not given it back; a claim or a downgrade changes neither. The two
invariants need each other where a lock is given back: `EnoughOf` says that the request does hold it, so that the
counter goes down with the need (`GivenBack`), and every lock that is held exclusively has a claim, so that
the way out chosen gives it back as an exclusive one. `rename` is again apart. It restores the locks it
claimed one after the other and may find the second one not claimed, so `WayBack` says what it has claimed: the target
whenever it comes from the storage, and nothing any more when it begins to unlock. Between two operations only the
open files have needs, and both invariants together make "at least" and "at most" exact (`SpareBalances`).

**The argument for the job list** holds for every number of workers and jobs. `Owned` strengthens
`NoOrphanReservation` with the id of the row: a worker that lets go of its row clears the reservation only where
the id is still its own, and a row that was inserted again has none. `SelectedFree` carries what `Select` saw
to the UPDATE of `Reserve`, which compares `reserved_at` with it; `ReservationsAreKept` follows.
`RunsAtMostOncePerAdd` is a budget (`Within`): the runs of a job, the workers that have it and have not run it
yet, its row if that is free to be taken, and a call of `add` that has not written yet, are together no more
than the calls of `add`. `Reserve` moves the row from free to taken, and the step needs that no other worker
has it: its reservation would be as old as the one in the row, older than `ReserveTime`, and
nobody keeps a job for longer than `MaxRun` (`Recent`). Hence the assumptions `0 < ReserveTime`, `MaxRun < ReserveTime`
and a finite set of workers. `RemovedFirst` is what makes the later `setExecutionTime` and `unlockJob` of a
`QueuedJob` harmless: its row is gone, and an insertion brings another id.
`Asked` is the invariant behind `OnlyRequestedClasses`: each retry of `getNext` passes the classes on, except the one
after a skip, and `ParallelOnly` (no worker is asked for a class that must not run in parallel) is the assumption
under which no worker gets there; without it the property is violated (`JobListRestricted.cfg`).

**The argument for the file list.** `LoadingIsOwn` is inductive with the types: only the listing requested
last is live, and `fetchContent` cancels that one before it sends its own. `ErrorIsOwn` follows because
only a live listing can fail. The assumption is that the promises of all views can be cancelled. Views for which this
is not so (`files_trashbin`, `systemtags`, and the shared files and external storages lists) return plain
promises; a late answer of theirs does end the loading of the next view.

`ListIsCurrent` relates the three stores with the server, for every number of views, folders and files. `TreeOK` says
that the server has no file without its folder, so that an answer for a folder that is there lists what the server has;
`DeletedOK` that what the page has announced as deleted is gone for good; `RootOK` that the root of the open view is known
once its listing is done. From the moment `getContents` was answered to the moment its answer is put in the stores, a
node the server changed its mind about is in `stale` unless the page was told; the subscribers of an event then keep list
and stores together, in the order they run.

**The argument for the external storages** has no assumptions beyond those the module names. `Knows` is the way
from a row of the page to a storage of the server: the id in the row, a request on its way, or the POST that
created it. `Apart` says that a row that did not race shares no storage with another one, so nobody else changes it;
ids are given in order, so a row never comes to know a storage by chance, and when `loadStorages` makes a row for a
storage that was created from the page, both rows count as raced. A row that did not race has at most one request on its way, and `RowsOK` has two cases: while it
waits (`Waits`), the request carries the inputs the row shows and leaves it with one storage or none; when it rests (`Rests`),
its only storage is the one whose id it has, with the inputs shown if the icon says so. `StatusIsTrue` and `NoOrphan`
are what the second case says. `NeverResurrected` follows from the types: a PUT changes only what is there, and an id is
not given twice.

**The argument for the updates of a share** has no assumptions, and holds for any number of openings of the details
and of updates that are pending. The server writes all columns of a share, with old values for those that an update does not name
(`read`), so that the last update of a property is safe only if nobody else writes meanwhile. `Alone` says just that: while
a property that is not `clouded` waits in one queue, all other queues are empty. `Wins` follows the value of such a property on its way:
the last update of the queue that names it sets it to `last` (`EndsWith`), it is on the server from the `Write` of that update on,
and when no queue has it, each request between `Read` and `Write` has read it and will write it back. `TalkOK` needs
more, because a refused toggle is taken back by negating what is shown: there is one toggle at a time (`Once`), and
server and page agree exactly when its queue has written it (`Toggled`). Both are inductive only together with the
types, in which a queue works on its head as long as it has one (`IType`). `LastUpdateWins` and `TalkIsRestored` are these
parts when all queues are empty.

**The argument for the sharing tab** holds for any number of files, links and requests, and has no assumptions beyond
those the module names. `ListIsCurrent` is inductive once it is known what an answer may
do to the list, and that is what `RequestOK` says: an entry that waits for an answer is shown, and waits for a request
about the file that is selected; all others were turned over to nobody by `Without`. A link that was created
belongs to the file of its request and a deleted one to none, so that an answer that comes late still tells the
truth about the server, or the link is in `stale`. `Distinct` says that an entry has one request on its way; this is
what keeps a draft from being pushed twice, and as `MadeOK` counts a link of a draft only while the answer to that request is
under way, `PushedOnce` follows.

Only model-checked, because the prover reaches no liveness: `WritersGoAway`, `LoadingEnds` of `FilesList` and of
`SharingTab`, and `ProgressEnds`. Each invariant and each action property that a run checks is stated by a theorem, the
two refinements included. The assumptions of a theorem are what its counterexamples leave (see
[above](#what-the-violations-show)), so that it is not about the instances on which the code is known to fail.

## Limits

* One SQL statement and one cache command are atomic; the isolation level of the database does not
  matter then. `getTTL` and the method's bookkeeping around it are one step with the command they
  precede.
* Times are seconds, as in the code, but small. A request that lives longer than half the ttl, a job that runs
  longer than six hours, and a clock that jumps are outside of the models.
* The model of the database provider releases only locks that are held. `releaseLock` of a shared lock
  the request does not hold decrements the counter of others in a console command; `rename` is a caller that
  does that (`ViewReleases.cfg`).
* In `View` locks do not expire: `File::put` tries another exclusive lock when its shared one may have expired
  ("the entire operation will be safe", `File.php:164`); what the providers make of expired locks is in their
  modules. The mounts stay where they are, the lock of the part file in `Directory::createFile` and the root
  of a user's files, which is not locked, are left out, and so is `LockPlugin` when the file does not exist yet.
* `releaseAll` gives kept units back in chunks of 100 paths, one statement each; the model has one.
* `isLocked` reads and changes nothing, so it is left out. `remove` and the administrative commands
  on jobs are left out; the time-sensitive filter of `getNext` is a second filter of the form of
  `jobClasses`.
* `OnlyRequestedClasses` is checked for workers whose own classes may run in parallel. When `getNext`
  skips a job of an exclusive class it calls itself without `jobClasses` (`JobList.php:209`; `Skip` in the model), so
  a worker restricted to such a class goes on with jobs of any class.
* That a `TimedJob` keeps its interval is not claimed: the sequence of `JobListUnlock.cfg` starts it twice.
  Two `add` calls of the same job at a time can insert two rows; the model has one application that
  adds.
* A queued job is removed before it runs, so a kill loses it; the model claims at most once.
* The file list: `files:node:moved`, renaming, copying, filters and sorting are left out, and so are folders
  below folders. A listing that is computed before a deletion and delivered after it shows the node again
  until the next one.
* Storages: the user changes one input at a time; `Value` stands for all inputs of a row.
* Shares: label, note, expiry date and hide-download go through the same queue and are left out; external
  share actions, and a new share in the details, too.
* The sharing tab shows one draft at a time; `pending` does not keep a second one from being made while a
  generated password is awaited (`SharingEntryLink.vue:643`). `shares` is a set, so a duplicate entry is not
  told apart. The error message of the tab is left out.
* Performance, wording, logging and the content of files play no role.

## Plan

In this order:

1. `SharedSecret`: the exchange between trusted servers (`RequestSharedSecret`, `GetSharedSecret`,
   `OCSAuthAPIController`) with lost and repeated requests and the retry of jobs.
2. `TaskProcessing`: life cycle of a task against `Manager` and `SynchronousBackgroundJob`.
3. In the front end: moving and renaming in the file list with its nested folders; the store of the user
   management (`apps/settings/src/store/users.js`); the heartbeat of the user status.
