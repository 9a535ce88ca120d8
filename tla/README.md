# Verification of KMO Book Sync

TLA+ models of the synchronisation core of this repository (`kmo_sync`, a Rust library with a
C ABI and a Kotlin Multiplatform wrapper), the TLC runs that check them on small instances, and
TLAPS proofs for any number of devices, items, clocks and attempts. Paths and line numbers below
are those of the repository; `facade.rs` is `kmo_sync/src/facade.rs`.

## The system

Several devices share one bucket (S3/R2, WebDAV or a directory). Per book the bucket holds the
book file and three JSON objects: `book_progress/<hash>.json` (the position),
`bookmarks/<hash>.json` (bookmarks, highlights, notes) and `tombstones/<hash>.json` (deletions
and revivals). There is no server logic: devices coordinate through conditional PUTs alone.

| component | state | operations | hard part |
|---|---|---|---|
| local metadata cache (`facade.rs` 397-456, 916-1005) | one `.meta` file per book, a history archive, a tombstone file | `put_local_meta`, `read_local_meta`, `mark_meta_item_deleted`, `undo_deletion` | two files written one after the other; `put_local_meta` re-stamps what changed |
| metadata sync (`facade.rs` 1137-1313) | what a pass has read | `sync_single_meta` and its attempts | three reads, three conditional writes, local writes, interleaved with other devices and with the app; up to eight attempts |
| merge (`facade.rs` 2297-2510, `tombstone.rs`) | none | LWW of position and items, union or snapshot of items, merge of tombstones | equal stamps, clocks that disagree, revivals |
| storage trait and back ends (`storage/`) | the bucket; lock and temporary files | versioned read, conditional write, listing, streams | atomicity of the conditional write; lost answers |
| book files (`facade.rs` 361-383, 754-842, 1571-1745, 1868-2175) | `blob_index` and `conflict_log` tables, cached files | `put_local_book`, `sync_book`, `resolve_blob_conflict` | several requests and a table that says what was there last time; the adopted flag |
| scheduler (`facade.rs` 232-359, 1007-1065, 2220-2264) | network type, pause, byte limit | `sync_all` | order, budget, one failure among many books |
| encryption namespace (`facade.rs` 844-897, 1067-1135, 1320-1367) | the marker `_active_namespace.json`, the instance's keys | `rotate_envelope_kek`, refresh before every pass | copy, then switch, while other devices write |
| cryptography, encoding, events, discovery | none to speak of | pure conversions, callbacks | |
| local database (`local_db/mod.rs`) | schema version, tables | `migrate` | two processes at once |
| C ABI, JNI, Kotlin (`ffi.rs`, `jni_android.rs`, `kmo-sync-kmp/`) | handle registry, last error, a mutex per Kotlin instance | every call | destroy during a call; which calls are serialised |

What makes each part correct: *cache*: no edit is lost, a deletion is never half done for ever.
*Sync and merge*: positions never go back, deletions stick on all devices, items disappear only
through deletions, devices converge. *Conditional write*: it replaces exactly what its caller
read. *Books*: the cached file and the index agree with the bucket or a conflict is recorded.
*Scheduler*: every book gets its turn. *Rotation*: the active namespace is complete and no write
is lost. `PROJECT.json` lists every component with its status and, under `hazards`, every place
where this code is hard to test.

## Modules

### MetaSync: reading metadata of one book

| state | code |
|---|---|
| `local[d]`, `tombs[d]` | `<id>.meta` and `<id>.tombstones.json` of device `d` |
| `progress`, `bookmarks`, `tombstones` | the three remote objects |
| `task[d]` | the running pass: its stage, mode, attempts left, what it has read, and `current`: which objects still have the version it has read |
| `clock[d]`, `edits`, `born` | last clock reading, number of app calls so far, item ids given out |
| `applied` | history: the tombstones that the author of `bookmarks` had applied |

| action | code |
|---|---|
| `EditProgress`, `EditItem` | the app's `put_local_meta` (397-447) |
| `MarkDeleted`, `UndoDeletion` | 542-608, 610-655; `finished = FALSE` is a crash between the two files |
| `Sync`, `Retry` | begin of an attempt: local read, GET of the position (1161-1180) |
| `ReadBookmarks` | second GET, read of the tombstone file (1181-1194) |
| `ReadTombstones` | third GET, merge and write of the tombstone file, or "nothing exists" (1195-1227) |
| `WriteTombstones`, `WriteProgress`, `WriteBookmarks` | the conditional PUTs that succeed (1225-1282), and with `Faults` those that are carried out while the answer is lost (`Unheard`): sent again, they look like a lost race (`webdav.rs` 96-126) |
| `LoseRace` | a conditional PUT that answers "changed": next attempt, or `Conflict` (1146-1159) |
| `PutLocal` | `put_local_meta` of the result (1284-1286) |
| `Abort` | any request fails, was carried out or not, or the process dies |

A local read or write belongs to the step of the request it stands next to: other devices
cannot tell, and on the device itself it is the app call, which is an atomic step of its own,
that comes before or after. Content is abstract: each edit has a number, a position is the
number of its edit, an item the number of its edit and a `create_ts`. The three kinds of items
are one. A stamp is (time, device). Where the code compares lists, and so their order, lists of
two or more entries may compare either way. Constants: `ClockModel` (clocks that agree, that
run forward per device, or arbitrary readings), `ContentVersions` (TRUE: an object that returns
to its former content has its former version, as with `FileStorage::version` and ETags that are
content hashes; FALSE: versions never repeat), `AppSerialized` (TRUE: app calls wait for a
running pass, which the mutex of `KmoSync.kt` 95-100 ensures but the C ABI does not, because
`put_local_meta`, `mark_meta_item_deleted` and `undo_deletion` do not take `operation_lock`) and
`Faults`. A PUT is carried out at the step that sends it or never; one that comes late, after its
pass has given up, is in HttpCas only, where `StaleStaysStale` says when it is without effect.

### SharedMeta: what the three objects promise together

The abstract specification that MetaSync implements (`SharedBucket`, by `INSTANCE SharedMeta WITH
position <- progress.st, known <- ... tombstones, behind <- ... applied, listed <- ...`): one
shared register per book, no requests and no passes. `Move` puts a position whose stamp is not
older, `Learn` adds to what is known of the deletions, `Publish` replaces the list of marks by
one whose author knew at least what the author of the old list knew, had put all of that in the
bucket before, and lists nothing that is deleted.

### CasRegister and FileCas: the conditional write

`CasRegister` says what `RemoteStorage::write_object_conditional` promises (`storage/mod.rs`
36-44). `MetaSync` uses exactly that register. `FileCas` is its implementation in
`storage/file.rs` 57-174: a lock file made with `create_new`, waiters that inspect its age and
remove it when it is older than thirty seconds, comparison, temporary file, rename, removal of
the lock. `Fail` cuts a call at any step and leaves what it has done; `ReadError` is the one
error path that removes the lock; `GrowOld` is the passing of thirty seconds. It is not enabled
while some call is between creation and removal of the lock: a call is taken to need less
(a suspended process is a further way to break the lock of a live writer, not modelled).
`Process` gives each writer the process id that names its temporary file; ids coincide for two
instances of one process, or for processes of two hosts. `MCFileCas` gives it a value for TLC.

### KekRotation: changing the key-encryption key

| state | code |
|---|---|
| `marker` | the namespace in `_active_namespace.json`; 0 when there is none |
| `bucket[s][o]`, `nsKey[s]` | book `o` under prefix `s`: an edit and the key it is wrapped for; the key the prefix was made for |
| `ns[d]`, `key[d]`, `rows[d]` | `active_remote_namespace`, the key in use, the table `kek_versions` |
| `local[d]`, `task[d]` | the edits in the cache; the running pass or rotation |

| action | code |
|---|---|
| `Sync`, `ReadObject`, `WriteObject` | a pass: refresh of the namespace (1320-1344), GET and decryption, conditional PUT (1137-1159, 1430-1527) |
| `Rotate`, `List`, `Copy`, `ReadMarker`, `Switch` | `rotate_envelope_kek_inner` (1067-1135): refresh, listing, one copy per object, read and conditional PUT of the marker |
| `Install` | registration of the version and the new key (871-897); the registration can be refused |
| `SwitchUnanswered`, `Fail`, `Crash` | the marker is written but the answer lost; a request fails; the process dies and starts again |
| `Reopen` | the app closes the instance and calls `create` with the configuration that fits |

`operation_lock` keeps the operations of one instance apart, so `task[d]` is one operation. A
book is one object whose pass keeps the newer edit: what a pass does in detail is MetaSync's
subject. A configuration is the version and the id of a key. `Informed` says that an app runs
passes only with the key of the active namespace; nothing in the code sees to it, and without it
keys mix (`KekMixedKeys`). A copy stands at the time of its download, because nobody reads the
target before the switch.

### HttpCas: the conditional write over HTTP

| state | code |
|---|---|
| `server` | kind of server: WebDAV with ETags, without (`bare`), without the collection of the base URL (`rootless`), S3 |
| `object`, `requests` | the object, as the set of the calls whose data it holds; the PUTs on their way, sent once each and never forgotten |
| `call[w]` | the running call: number, request, what it has read, the server's reply, the answer of the last call |

| action | code |
|---|---|
| `Read` | `read_object_versioned` (`webdav.rs` 222-247; `s3.rs`) |
| `Put`, `Receive`, `Retry`, `Refused` | `write_object_conditional` (`webdav.rs` 249-302, `s3.rs` 145-170) with `send_with_retry` (96-126), `ensure_parent_dirs` (128-154), the mapping of a status to an error (579-592) |
| `Serve` | the server, external: the condition is compared and the object replaced in one step |

A lost answer is `Retry` while the request is still in `requests`: the server may carry it out
before the next one, after it, after the call has ended, or never. An ETag is the content of the
object, for every call writes data of its own. WebDAV sends up to four requests; the model has
`MaxAttempts`. For S3 the code calls `object_store` once, outside of `with_retry`, and the model
sends the request once; whether that library repeats a failed conditional PUT is decided outside
of this repository (if it does, S3 is as the other three kinds). Objects are not removed: nothing calls
`remove` on them.

`LateRegister` is the abstract specification: an object and the writes that may still be carried
out, each at most once (`Apply` voids all that is left of its call) and only on the object its
caller has read. HttpCas implements it (`CarriedOutOnce`) with `Pending`, the requests under way
of calls that the object does not contain, as its open writes. It is the counterpart of
`CasRegister` for a caller that may not hear the answer: there a call is carried out before it
returns, here perhaps after. `MCHttpCas` adds the symmetry of the devices.

### BlobSync: the file of one book

| state | code |
|---|---|
| `setup` | back end (directory: times; S3: ETags; WebDAV without either) and encryption |
| `remote` | `books/<hash>`: the right file, another one, an edited one, one that is cut, mixed or has a hole (`"torn"`), none |
| `cache[d]`, `given[d]` | `blobs/<hash>.epub`; the file that `put_local_book` has named |
| `row[d]` | `blob_index`: which path, what `stat` said, `adopted_remote`; `blind` is history: the transfer behind the row was disturbed |
| `pending[d]` | an open row of `conflict_log` |
| `task[d]` | the running operation, the request it makes next, what it has read to be uploaded; `old`, `mine`, `edited` are history |

| action | code |
|---|---|
| `PutLocalBook` | 361-383; takes no `operation_lock` |
| `BeginSource`, `BeginPull` | `sync_book_inner` up to its first request (1571-1584, 1669), in the three modes; the source is hashed here |
| `StatUnchanged`, `StatChanged` | the row's ETag or time against `stat` (1585-1613) |
| `Absent` | no object: the source is read and encrypted for the upload (1614, 1650, 1693-1700) |
| `Exists`, `CompareSame`, `Conflict` | look, download and hash (1635-1648, 1709-1745); a conflict ends the pass well |
| `SourceGone` | the source is not there any more when it is read or copied |
| `Upload`; `OpenRemote`, `WritePart`, `FinishUpload` | upload in one request; `FileStorage` truncates and writes in place (`file.rs` 219-237) |
| `Copy` | after the transfer the caller's file, as it is now, is copied into the cache (1616-1621, 1652-1657, 790-795) |
| `Lookup`, `FetchSame` | pull side (1669-1686) |
| `ResolveLocal`, `ResolveRemote`, `Find`, `Adopt`, `Flag`, `Clear` | `resolve_blob_conflict` (754-842) |
| `Stamp` | `stat` after the transfer and the upsert of the row |
| `DownloadError`, `Fail` | an object that vanished or does not decrypt; a failed request, carried out or not, or a crash |
| `TouchGiven`, `TouchRemote` | the user and other tools |

Each request is a step. A file on the device's own disk and its row belong to the step of the
request beside them: the hash of the source and, when no request lies between, what is read of it
are one step (an edit within them has the effect of one just after the hash). Writes to an object
make every stored version of it older (`Aged`). The namespace prefix is constant (KekRotation has
its moves).

The caller's file is not the library's: `TouchGiven` edits or removes it at any time, also
between the hash and the upload or the copy. `edited` remembers that of a running operation whose
source it is; the properties about cache and bucket say that this is the only way, beside
adoption, in which content with another hash gets there.

A directory is written in place. `OpenRemote` truncates; each writer goes on at its own offset in
whatever file has the name, or in one that is already unlinked. `mine` is true from the
truncation on until somebody else, another device or another tool, truncates, writes, replaces or
removes the object, also one that then fails or dies; writers of the same plain bytes do not
disturb each other once both are writing (`Same`). An upload that was disturbed (`Mixed`) ends in
one of three ways: all its content, a torn object (a mixture, or a hole in front of what it wrote
last; an encrypted one does not decrypt), or the object of the other one. It ends well in the
code in every case, and its row is `blind`, as is that of a transfer followed by a foreign write
before its `stat` and that of one whose source was edited. What is blind to the code is known
to the model only: the code has no such column. It is forgotten when the row's time is overtaken:
such a row matches nothing any more.

### SyncAll: one instance's sync_all

| state | code |
|---|---|
| `network`, `paused`, `limit` | `SchedulerState` (111-126) |
| `meta[b]`, `file[b]`, `object[b]`, `row[b]`, `conflict` | what there is of book `b`, here and in the bucket |
| `task` | the operation under `operation_lock`: its list, what is left of it, the limit it has read, bytes estimated and moved; `result` and `told`, what the last operation has returned and the paused event sent before |
| `permitted`, `touched` | history: whether the policy permitted books since the beginning; books that somebody else wrote since |

| action | code |
|---|---|
| `SetNetworkType`, `SetBlobByteLimit`, `SetPaused` | the five setters (319-359) |
| `SyncAllStart`, `SyncSingleMeta`, `SyncBook` | 232-317 |
| `ListMetas`, `MetaStep`, `MetaError` | `discover_meta_pairs` (1757-1830), one metadata file after the other (1007-1013) |
| `Policy`, `ListBooks`, `EstimateBook`, `Complete` | policy and limit, read once (1019-1031), `discover_book_hashes` (1832-1866), the estimate (2251-2264), the end (1056-1064) |
| `Pause` | the two ways out with `Ok(())` and books undone: an event with the state "paused" and the reason (1020-1030, 1041-1051), after which `sync_all` reports success (242-251) |
| `BookUnchanged`, `Upload`, `Download`, `Conflict`, `BookError` | `sync_book_inner` as one step (1571-1691) |
| `Fail` | any request fails |
| `PutLocalBook`, `PutLocalMeta`, `TouchFile`, `TouchObject`, `RemoteMeta`, `BreakMeta` | what the app and others write in the middle of it |

A book is its place in the order of hashes (the set the code iterates over is a `BTreeSet`).
The passes are one step each because `operation_lock` keeps the operations of the instance
apart, and what others do in the middle of one is the subject of MetaSync and BlobSync.

### NativeCalls: the way of a call through the wrapper

| state | code |
|---|---|
| `registered`, `attached`, `closed` | `HANDLES` (`ffi.rs` 16-22); the callback's registry; the bridge's flag or null handle |
| `mutex`, `nslock` | `nativeCallMutex` of `KmoSync.kt`; the lock of the iOS bridge |
| `shared`, `local[t]` | `last_error` of the handle, `THREAD_LAST_ERROR` of thread `t` |
| `task[t]` | what thread `t` is doing |

| action | code |
|---|---|
| `Begin`, `TakeMutex`, `Deliver` | `KmoSync.kt` 24-107: suspend functions take the mutex, pause, resume, setters and getters do not |
| `Enter`, `ConvertError`, `EnterLocked` | the bridges: Android and JVM straight into C, an argument that cannot be converted (the early returns of `jni_android.rs` 156-341), iOS under its lock (`...ios.kt` 81-97) |
| `GetHandle`, `Succeed`, `Fail` | `with_handle`, `get_handle`, `set_last_error` (`ffi.rs` 422-472) |
| `LastError` | `resultFromCode`: a second native call fetches the text (`ffi.rs` 352-376) |
| `BeginClose`, `Close`, `CloseDestroy`, `CloseDetach`, `CloseLocked` | `close` of the three bridges, `kmo_sync_destroy` (`ffi.rs` 62-79), the JNI callback registry |

One instance; a thread that has ended a call may start the next. `get_handle` clones the `Arc`,
so an operation outlives the removal of its handle. On Android and JVM `close` does not wait for
calls, on iOS it does.

## Runs

| run | instance | result |
|---|---|---|
| `MetaSafety` | two devices, one item, arbitrary clocks, faults, content versions, three app calls, one attempt | `TypeOK`, `CacheInv`, `RemoteProgressLww`, `DeletionSticks`, `ItemsKept` hold |
| `MetaRaces` | two devices, two items, revivals, bidirectional and pull-only passes, two attempts, app calls in the middle of passes | `BucketInv`, `SharedBucket` (refinement of `SharedMeta`), `NoResurrection`, `PassAgrees` hold |
| `MetaConvergence` | two devices, one item, clocks that agree, fair | `Convergence` holds for marks, deletions and revivals |
| `MetaPingPong` | the same with positions | `Convergence` is violated |
| `FileCas` | two writers with one process id, one call cut at any step, fair | `TypeOK`, `HolderInv`, `AtomicUntilCut` (refinement of `CasRegister` until the cut), `LockRemoved` hold |
| `FileCasTakeover` | two writers, one call cut | `Atomic` is violated |
| `KekRotation` | two devices, one book, two edits, two rotations, one failure, `Informed`, fair | `TypeOK`, `NamespaceReady`, `OneKey`, `OnlyForward`, `EditsReachActive` hold |
| `KekMixedKeys` | one device, two books, one rotation, one failure | `Unmixed` is violated |
| `BlobSync` | two devices, one of which has the book's file, a directory (plain or encrypted), S3 or WebDAV without ETags, one failure, one foreign write or edit of the source, fair | `TypeOK`, `IndexHonest`, `NoClobber`, `PassSettles`, `CacheGuarded`, `ResolvedIsDone`, `ResolutionSticks`, `Settles` hold |
| `SyncAll` | two books of sizes 1 and 2, three modes, limit none or 2, two writes of others, one failure, fair | `TypeOK`, `LimitKept`, `PolicyRespected`, `BehindIsDone`, `CompleteIsDone`, `Reached` hold |
| `HttpCas` | two interchangeable devices with two calls each, three requests per call, four kinds of server | `TypeOK`, `AnswersTrue`, `CarriedOutOnce` (refinement of `LateRegister`) hold |
| `NativeCalls` | two threads, two error texts, three platforms, fair | `TypeOK`, `OwnText`, `CallbackLives`, `Returns` hold |

Bounds. Every property of MetaSync is about a conflict of two parties, so two devices show it;
three app calls are enough for one deletion and its revival, or for two deletions, against a
stale reader; two attempts let a pass lose a race and succeed afterwards, and one attempt makes
the last-attempt path happen at every race. Arbitrary clocks include regressions and ties. Two
rotations overlap, beat each other and follow each other; one failure can hit either; two edits
put one write on each side of a copy. In BlobSync a conflict needs one foreign object and one
device with a file, an overtaking needs a second device; one failure can hit any request of
either, and is what the hole needs: one device truncates and fails, the other is in mid-write.
One edit of the source hits any place of an operation. The bucket has the book at the beginning or
nothing; a foreign object comes from `TouchRemote`, at the beginning or later, so that in the run
it excludes an edit of the source (the theorems combine them). Encryption matters where a mixture
does not decrypt, so only the directory has it. In SyncAll a limit of 2 admits either book but not both, a foreign object of size 3 is
larger than the limit, and two writes make one book stale before and one in the middle of an
operation. In HttpCas two calls per device leave a late request of the first to meet the second;
three requests have a first, a middle and a last. Calls are bounded, so that run may stop
(`CHECK_DEADLOCK FALSE`). In NativeCalls every property is about a thread and one other. The
runs do not combine everything (revivals with faults, three devices): the theorems do. For each
property of a passing run `PROJECT.json` names a mutated definition under which TLC finds it
violated.

Fairness. `FairSpec` of MetaSync: weak fairness of starting a pass and of the steps of a running
pass, per device: the app and its scheduler call sync again and again, and a request ends.
There is no fairness of the app's edits, and the runs with it have no faults. `FairSpec` of
FileCas: callers call again, a running call goes on, and time passes; the number of cut calls
is bounded by `MaxFailures`, because nobody can take a lock over if every call is cut.
`FairSpec` of KekRotation: running operations go on, an instance whose key does not fit is opened
again, and every book is synchronised again and again, strongly fair because the passes of other
books and rotations come in between. Edits, rotations and failures end by their bounds. `FairSpec` of
BlobSync: running operations go on, and every device runs a bidirectional pass again and again,
strongly fair because calls of `put_local_book` and resolutions by the user come in between; no
fairness of these. `FairSpec` of SyncAll: a running operation goes on and the app calls
`sync_all` again and again, among other operations. `FairSpec` of NativeCalls: a thread that is
not waiting goes on, an operation ends, and a thread that waits for a lock which is free again
and again gets it: Kotlin's `Mutex` is first come, first served; of `NSLock` it is an
assumption. HttpCas states no fairness.

### What the violations show

- `MetaPingPong`. `put_local_meta` is also used for the result of a merge. It stamps the
  envelope it sees changed with the metadata's single clock, which the merge has set to the
  newer of *both* envelopes. Two devices end up with equal stamps for different positions, none
  adopts the other's, and each writes its own again. `README.md` 442 promises convergence.
- `FileCasTakeover`. Age check and removal of the lock file are two steps, so the removal can
  hit a lock that is new, and two writers both succeed, against `storage/mod.rs` 36-38.
- `KekMixedKeys`. A namespace is tied to no key: the refresh asks only whether the instance uses
  envelopes at all. When the answer to the marker's PUT is lost, the rotation reports an error,
  the instance keeps the old key, and its next pass puts a new book under the old key beside the
  objects of the new one, what `CHANGELOG.md` 35 says is fixed. Another device that has not heard
  of the rotation does the same.

### Known deviations without a run

Found while the models were written; each is a consequence of code that is easy to point at,
and the models contain the behaviour (the properties exempt it by name where it would matter).

- *A position is lost.* The first write on a device has no previous file to compare with, so a
  bookmark also stamps the absent position, against the comment at `facade.rs` 403-407, and the
  next pass replaces an older position in the bucket by none.
- *Marks are dropped.* With a strictly newer local stamp the merge ignores the remote items, so
  ids only the bucket has are dropped, against `README.md` 161 and `CHANGELOG.md` 46.
- *A deleted mark is back for a moment.* A directory without encryption tells versions by the
  hash of the content (`file.rs` 50-55), so `bookmarks.json` can return to a version a pass has
  read. With a clock that stands still: an item is published and deleted; a pass reads the empty
  list; the deletion is undone and the list written as it was; the item is deleted again, with
  the same stamp, and the list is the empty one that the pass has read; its PUT succeeds and
  brings the item back while `tombstones.json` says it is deleted. The next pass takes it away.
  `NoResurrection` is false with `ContentVersions` and an arbitrary clock (one reading, four app
  calls with `undo_deletion`); it holds, and is proved, when versions do not repeat. Encrypted
  objects never repeat, because every encryption draws a new nonce.
- *A key version is refused.* The key version is registered after the switch, and the table refuses a second
  version with the same `kek_id` (or with none, "default"). The rotation then fails with the
  marker switched: the instance has the old key in the new namespace, and `create` with the new
  key is refused for the same cache directory. `README.md` 444 calls the switch the last step.
- *"false" after an own write.* A conditional PUT whose answer was lost is sent again and gets
  412 from what it has itself written; the caller is told "false", against `storage/mod.rs`
  36-38 ("Returns `false` when another writer won the race"). The pass merges once more and
  nothing is lost (`NothingLost`). A 409 for a missing base collection is "false" as well
  (`FalseHasReason` in `AnswersTrue` names both).
- *The text of a conversion error.* When JNI cannot convert an argument, the call returns code 5
  and sets no text; the second call then fetches the text of an earlier failure (`converted` in
  `OwnText`), against `CHANGELOG.md` 24.
- *Blind row.* After its transfer a pass writes into the index what `stat` says then. If another
  writer has replaced the object in between, the row vouches for content nobody here has seen
  (`blind` in `IndexHonest`).
- *A hole in a directory's book.* `FileStorage::upload_large` truncates the named file and writes
  in place (`file.rs` 227-234), where the conditional PUT has a temporary file and a rename.
  Device A is writing, B truncates the file and dies or fails, A goes on at its offset: the first
  part of the object is a hole. A's upload reports success, `stat` has the right size and a time,
  the row matches from then on, and `resolve_blob_conflict("local")` closes the conflict over it.
  With both alive their bytes mix, and an encrypted mixture decrypts for nobody. `mine` and
  `blind` mark these in `IndexHonest`, `PassSettles` and `ResolvedIsDone`.
- *The source changes under a pass.* The caller's file is hashed at 1579, read again for the
  upload (1615, 1650) and copied into the cache (1602, 1620, 1656) after requests, without
  another look at its hash. An edit in between puts content with another hash into bucket and
  cache under the name of the right one, the row names the cache and matches, and the pass ends
  well. From the next pass on this device reports a hash mismatch (1580-1584) until the app calls
  `put_local_book` again; other devices record a conflict. `edited` marks it in `PassSettles`,
  `CacheGuarded` and `ResolvedIsDone`.
- *An upload overwrites what has just been put there.* The upload of a book is unconditional; an
  object that appears after the look at the bucket is replaced and nobody is told (`NoClobber` is
  about the object of the beginning).
- *Success with books undone.* While paused, off Wi-Fi or at the byte limit `sync_all_inner`
  returns `Ok(())` (1030, 1051), and `sync_all` emits the phase "complete" and
  `SyncComplete {success: true}` (242-251). Only the event with the state "paused" before it says
  that books are left (`told` in `CompleteIsDone`).
- *A row with the ETag of a foreign object.* `resolve_blob_conflict` for the remote version
  stores the file, writes the row and then sets the adopted flag (815-829). If it is cut before
  the flag, the row names a foreign object without saying so. A second resolution that
  downloads the book itself, put there in the meantime, and is cut before its row leaves the
  right file beside that row; if the foreign object then returns with its ETag, the device takes
  it for the book. This needs two failures and ETags; the run has one failure, and the theorem
  about `IndexHonest` excludes ETags. For the same reason that about `PassSettles` does.
- *A torn encrypted book.* It does not decrypt, every pass reports an error, and no conflict is
  recorded that a user could resolve (exempted in `Settles`).
- *Adopted for good.* `adopted_remote` outlives `put_local_book`, and an adopted device never
  takes a better remote file. A pull-only pass records a conflict about an adopted object again.
- *One failure stops all.* `sync_all` ends at the first error: a metadata object that does not
  decode keeps all later metadata and all books from being synchronised, and a book whose row
  names a removed file, while the bucket has none, ends the loop every time. `Clear` in
  `Reached` says exactly when a book is reached.
- *The estimate counts what needs no transfer*, so that with a byte limit later books may never
  be reached although earlier ones are up to date; and the download of a foreign object for
  comparison, which the estimate does not see, may exceed the limit (exempted in `LimitKept`).

Two comments contradict the code without affecting it: `facade.rs` 144 ("no CAS, no tombstones")
and 586-588 ("Tombstones are kept local-only").

## Proofs

All theorems are for any constants that satisfy the assumptions in the modules: any finite or
infinite set of devices, items and clock readings, any number of app calls and attempts.

`MetaSyncProofs`: `TypeCorrect`, type correctness by one step per action, and the lemmas on the
types of the merge operators.

`MetaSafetyProofs`: `BucketSafe` proves the inductive invariant `BucketInv`. `NoResurrection`
alone is not inductive: a pass may be about to write items whose deletion it has not seen. The
invariant says of every pass (`PassSafe`) that what it read is still in the bucket as long as
its version is current; that it has seen the deletions behind `bookmarks.json` if it may still
replace the file; and that its own deletions are in the bucket before it writes position or
items. Of the bucket it says that the author's deletions are in `tombstones.json`. From it
follow `PositionLww`, `TombstonesGrow` and `DeletedStaysDeleted`. Hypotheses: `ReadsRemote`, no
push_only pass, because a push_only pass uses the versions it reads but not the content and
overwrites by design; and, for `DeletedStaysDeleted`, versions that do not repeat
(`~ContentVersions`). With content hashes a bookmarks file can return to what a pass has read
while tombstones have moved on, and the property is false (see the known deviations).

`BucketIsShared`, under both hypotheses, is the refinement of `SharedMeta`. A PUT of the
position is `Move`, one of the tombstones `Learn`, one of the bookmarks `Publish`, heard or not;
every other step of a pass, of the app, of a failing request or a dying process is a stutter.
That `Publish` comes after its `Learn` is the last part of `PassSafe`; that its author knows what
the author of the replaced list knew is the part about the version of `bookmarks.json`.

`UndisturbedPassAgrees`, under the same hypotheses: a bidirectional pass that ends without
failure, and that nobody disturbed, leaves device and bucket with the same position, items and
deletions (`PassAgrees`). Each pass decides at three places that a PUT can be skipped, from
comparisons with what it has read; a comparison that overlooks a difference would leave device
and bucket apart for ever, each pass content. The invariant is `SkipInv` (`SkipsAreHonest`,
which needs versions that do not repeat alone): an object that is still as the pass has read it,
past the stage that would write it, has the content of the merge; and what is absent is empty.
This is the safety half of convergence: what remains to keep devices apart is that they disturb
each other for ever, as they do in `MetaPingPong`.

Of the merge itself, for all inputs: `DeletionsMergeInAnyOrder` (in their times, deletions and
revivals form a semilattice under `TombstoneSet::merge`, so the order in which devices hear of
each other does not matter), `PositionMergeCommutes` (with different stamps two devices choose
the same position; with equal ones each keeps its own), and `MergedItemsExactly`, which says
without a hypothesis what a merge keeps, and so that a strictly newer base drops the items only
the bucket has.

The same module proves, by `CacheFresh`, `CacheInv`: what a pass has read of the cache is
what is there; from it `NoPassUndeletes` and `NoPassDropsItems`, under `AppSerialized`.

`FileCasProofs`: `TypeCorrect` (whatever fails), `LockHolds` (the inductive invariant
`HolderInv`: as long as no call was cut there is one holder, no stale lock, and what the holder
compared with is still there at the rename) and `ConditionalWriteIsAtomic`: until a call is cut
the protocol implements `CasRegister`. A write takes effect at the rename, a lost race at the
comparison; all else is a stutter. After a cut it is false, as `FileCasTakeover` shows.

`HttpCasProofs`: `HttpTypes`, `AnswersAreTrue`, `NothingLost`, `HttpCasIsLateRegister`,
`StaleStaysStale`, for any number of devices, calls and requests, and every kind of server. None of the properties is
inductive alone: a late request of an old call may be taken for one of the present call. The
invariant says that requests under way with the identity of the present call carry what that
call has read (`Same`), that none belongs to a call to come (`Known`), that what a call has read
is still part of the object (`SeenKept`) and what a reply on its way back means (`Replied`).
For the refinement of `LateRegister` it also says that the object holds no call still to come
and that no request has read the result of its own call (`Fresh`): so a call that has been
carried out voids all its requests. A request that is sent is `Ask`, one that is served `Apply`
or `Void`, and a repetition of what is still open, or done already, a stutter. `StaleStaysStale`
follows: once anybody has written, an older request can do nothing any more, so a late PUT of a
pass that has given up can only replace the very object that pass has read.

`KekRotationProofs`: `KekTypes`, `ReadyBeforeSwitch`, `NeverBack` without hypotheses, `KeyIsOne`
under `Informed`. The invariant: a running pass has the key of the namespace it began in
(`Pass`); the target of a rotation is reached by nobody else, neither by the marker nor by an
instance nor by another rotation (`Private`); what is listed and no longer to do is in the
target (`Copying`); no object lies in a namespace that has not been begun (`Store`).

`BlobSyncProofs`: `BookTypes`, `NothingClobbered`, `CacheIsGuarded`, `ResolvedMeansDone` for any
devices, back ends, modes and numbers of failures and of edits, `ResolutionIsKept` for apps that
do not use pull_only (which records the conflict again by design). The invariant: an operation
that has decided to upload saw no object (`NoOld`); what it may read or copy from its source has
the right hash, or the row is adopted, or the user has touched the named file (`Sound`); how far
a resolution has come, and that what it has uploaded is there as long as nobody else has written
(`Done`); a pass that goes on to look at the object, and finds the one it began with, has a row
that does not match (`Looks`). A write to the object acts on all other operations at once: they
lose `old` and `mine` and keep all else, unless they write the same bytes (`Disturbed`,
`Writers`). `IndexIsHonest` has the hypothesis `NoEtags`: stat says a time or nothing. On top of
the invariant it needs that a row that matches and names the cache vouches for the file there
(`Vouches`), what an operation in the middle has seen of the object it will write into the row
(`Reads`), and that a transfer that nobody has disturbed has moved the book or its adopted
replacement (`Moved`). With ETags it is false after two failures (see above). `PassesSettle` has
the same hypothesis and needs in addition that a pass which comes to its last `stat` has left the
right file in the cache, unless the row is adopted or the source was edited (`Ready`);
`PassEnds` says which steps end a pass without an error.

`SyncAllProofs`: `AllTypes`, `LimitIsKept`, `PolicyIsRespected`, `NothingSkipped`,
`SuccessIsComplete` for any number of books, sizes and limits, without hypotheses. The
properties are not inductive: the limit is kept because what was moved is within the estimates
and these are within the limit, unless a foreign object or a writer came in between (`Within`);
a success has done what it claims because the metadata behind its loop is the same here and
there (`MetasDone`), what was not listed was not there, and what is behind the loop is done
(`Progress`); it comes from `Complete` or from one of the two `Pause`s, and from nothing else; a row that is fresh names a good object (`FreshIsGood`); the loop has a
book in hand, whose place in the order is the least of what is left (`Shape`, `FirstIn`, from
the well-foundedness of `<` on the naturals).

`NativeCallsProofs`: `CallTypes`, `LocksExclusive`, `TextIsOwn`, `CallbackIsAlive` for any
number of threads. The invariant has a part per thread, its locks and where the text of its
failure is (`Good`), and a part for the instance: unregistered means closed, and on iOS a call
inside means not closed (`Instance`).

Only model-checked: everything about liveness (`Convergence`, `LockRemoved`, `EditsReachActive`,
`Settles`, `Reached`, `Returns`), which is out of the prover's reach, `IndexHonest` and
`PassSettles` with ETags (one failure), and the three violations.

## Not modelled

Tombstone expiry after ninety days and the wall clock stamps of tombstones, `last_modified_ts`
(a difference in it alone causes one more PUT of the same tombstones), the edit history and its
archive (two local files that no other part reads), torn writes of local files, the ciphers, the
listing of leftover lock and temporary files by a rotation (which then fails to re-wrap them),
the passage from an unencrypted bucket to envelopes, what events say, the order of lists beyond
"may compare either way", the migration of the local database, the app's read-modify-write as
more than one step, WebDAV's PROPFIND and the parts of an S3 upload.
`resolve_meta_conflict` and `resolve_tombstone_revival` need a conflict row that no code creates
any more; without one they do nothing, or run the pull-only pass that `MetaRaces` contains.
Push-only passes of the metadata are modelled but used by no run of MetaSync, for they overwrite
by design. The three modes of books are in `BlobSync` and its proofs; its run has the
bidirectional one. Parts with status `not_modelled` in `PROJECT.json` have their reason there.

## Plan

What is left, in this order:

1. MetaSync: tombstone expiry with a wall clock; `ListOrder`, the order of lists and whether it
   settles.
2. `Migration` (two processes), `HistoryArchive` (two files and a crash).
3. `NoResurrection` with content versions and clocks that run forward; abstract specifications
   of the rotation (a store that changes its key in one step) and of `sync_all`.
