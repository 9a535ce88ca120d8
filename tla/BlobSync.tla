------------------------------- MODULE BlobSync -------------------------------
(***************************************************************************)
(* The file of one book: the object books/<hash> in the bucket, the cached *)
(* and the caller's file of every device, its row in blob_index (what the  *)
(* remote object looked like last time) and its row in conflict_log.  A    *)
(* pass makes several requests; other devices, other tools and, without    *)
(* the mutex of the Kotlin wrapper, put_local_book come in between, and    *)
(* the user may edit or remove the caller's file at any time.              *)
(*                                                                         *)
(* An object is its content.  Whether it is still the version that a row   *)
(* or an operation knows is kept beside these and falls with every write.  *)
(***************************************************************************)
EXTENDS Naturals

CONSTANTS
    Devices,        \* instances, each with its cache directory and database
    Owners,         \* those whose app has a file of the book of its own
    Setups,         \* configurations: the kind of bucket (see Stat), is it encrypted?
    Modes,          \* modes the app uses
    MaxFailures,    \* bound on failed requests and crashes
    MaxOutside      \* bound on what other tools do to bucket and files

ASSUME OwnerAssumption == Owners \subseteq Devices
ASSUME SetupAssumption == Setups \subseteq [backend : {"file", "etag", "bare"}, encrypted : BOOLEAN]
ASSUME ModeAssumption  == Modes \subseteq {"both", "push", "pull"}
ASSUME BoundAssumption == MaxFailures \in Nat /\ MaxOutside \in Nat

\* "good" hashes to book_hash; "foreign" and "edited" do not; "torn" is cut short.
Contents == {"good", "foreign", "edited", "torn"}
Files    == Contents \cup {"missing"}

\* What stat says: an ETag, which is a function of the content, or a
\* modification time, of the object that is there or of an earlier one, or nothing.
Stats == Contents \cup {"current", "earlier", "none"}

NoRow == [path |-> "none", stat |-> "none", adopted |-> FALSE, blind |-> FALSE]

VARIABLES
    setup,      \* the configuration of storage and encryption
    remote,     \* the object books/<hash>
    cache,      \* cache[d]: blobs/<hash>.epub of d
    given,      \* given[d]: the file that put_local_book has named
    row,        \* row[d]: blob_index; blind is history, see IndexHonest
    pending,    \* pending[d]: conflict_log has an open row for the book
    task,       \* task[d]: the running operation of d
    failures, outside

disk   == <<cache, given>>
bounds == <<failures, outside>>
vars   == <<setup, remote, disk, row, pending, task, bounds>>

Stages == {"idle", "stat", "exists", "compare", "upload", "writing", "copy", "lookup", "fetch",
           "find", "adopt", "stamp", "flag", "clear"}

Row  == [path : {"none", "cache", "given"}, stat : Stats, adopted : BOOLEAN, blind : BOOLEAN]

\* content: what has been read, and perhaps encrypted, to be uploaded.  The rest
\* is history.  old: the object that a pass found at the beginning is still
\* there; mine: nobody else has written into the object that the operation has
\* transferred; edited: the source file has been touched since its hash was taken.
Task == [pc : Stages, op : {"none", "sync", "local", "remote"}, src : {"cache", "given"},
         stat : Stats, blind : BOOLEAN, content : Files, old : BOOLEAN, mine : BOOLEAN,
         edited : BOOLEAN]

Idle == [pc |-> "idle", op |-> "none", src |-> "cache", stat |-> "none", blind |-> FALSE,
         content |-> "missing", old |-> FALSE, mine |-> FALSE, edited |-> FALSE]

\* Whatever else the bucket has at the beginning comes with TouchRemote.
Init ==
    /\ setup    \in Setups
    /\ remote   \in {"missing", "good"}
    /\ cache    = [d \in Devices |-> "missing"]
    /\ given    = [d \in Devices |-> "missing"]
    /\ row      = [d \in Devices |-> NoRow]
    /\ pending  = [d \in Devices |-> FALSE]
    /\ task     = [d \in Devices |-> Idle]
    /\ failures = 0
    /\ outside  = 0

-----------------------------------------------------------------------------
(* Helpers *)

\* FileStorage has times and no ETags, S3 has ETags, a WebDAV server may have neither.
Stat == IF setup.backend = "etag" THEN remote ELSE IF setup.backend = "file" THEN "current" ELSE "none"

\* Neither an ETag nor a time is never a match.
Matches(stat) == remote # "missing" /\ stat # "none" /\ stat = Stat

\* A cut ciphertext does not decrypt, and nothing is compared.
Readable == remote # "missing" /\ ~(setup.encrypted /\ remote = "torn")

\* Variant with a fault: the row is taken to be there.
SourceUnindexed(d) == row[d].path

Source(d) == IF row[d] = NoRow THEN "cache" ELSE row[d].path

FileAt(d, path) == IF path = "given" THEN given[d] ELSE cache[d]

Goto(d, stage) == task' = [task EXCEPT ![d].pc = stage]

End(d) == task' = [task EXCEPT ![d] = Idle]

\* The source file, as it is now.
SourceNow(d) == FileAt(d, task[d].src)

\* The caller's file is copied into the cache; its hash is not taken again.
CopySource(d) ==
    /\ SourceNow(d) # "missing"
    /\ cache' = [cache EXCEPT ![d] = SourceNow(d)]

\* upload_book_file reads and encrypts the source before its first request.
ToUpload(d) ==
    /\ SourceNow(d) # "missing"
    /\ task' = [task EXCEPT ![d].pc = "upload", ![d].content = SourceNow(d),
                            ![d].stat = "none", ![d].blind = FALSE]

\* The upsert leaves adopted_remote alone.
Upsert(d, path, stat, blind) ==
    row' = [row EXCEPT ![d] = [path |-> path, stat |-> stat, adopted |-> @.adopted, blind |-> blind]]

Aged(stat) == IF stat = "current" THEN "earlier" ELSE stat

\* A row that will never match again vouches for nothing: its blind is forgotten.
AgedRow(r) == [r EXCEPT !.stat = Aged(r.stat), !.blind = @ /\ r.stat # "current"]

AgedTask(t) == [t EXCEPT !.stat = Aged(t.stat), !.blind = @ /\ t.stat # "current",
                         !.old = FALSE, !.mine = FALSE]

\* The object is written or removed: nobody knows the new version yet.
Replace(content) ==
    /\ remote' = content
    /\ row' = [d \in Devices |-> AgedRow(row[d])]

\* Operation t has transferred the object; the copy of the caller's file and
\* the stat come next.
Transferred(t, mine) ==
    [Idle EXCEPT !.pc = IF t.src = "given" THEN "copy" ELSE "stamp", !.op = t.op, !.src = t.src,
                 !.mine = mine, !.edited = t.edited]

-----------------------------------------------------------------------------
(* The caller and other tools *)

\* put_local_book with a file that has the right hash; it takes no operation_lock.
PutLocalBook(d) ==
    /\ d \in Owners
    /\ given' = [given EXCEPT ![d] = "good"]
    /\ Upsert(d, "given", "none", FALSE)
    /\ UNCHANGED <<setup, remote, cache, pending, task, bounds>>

\* The user edits or removes the named file, also between two requests of an
\* operation that is about to read or copy it.
TouchGiven(d, content) ==
    /\ outside < MaxOutside
    /\ given[d] = "good"
    /\ given' = [given EXCEPT ![d] = content]
    /\ task' = [task EXCEPT ![d].edited = @ \/ task[d].src = "given"]
    /\ outside' = outside + 1
    /\ UNCHANGED <<setup, remote, cache, row, pending, failures>>

\* Another tool replaces or removes the object.
TouchRemote(content) ==
    /\ outside < MaxOutside
    /\ remote # "missing"
    /\ Replace(content)
    /\ task' = [d \in Devices |-> AgedTask(task[d])]
    /\ outside' = outside + 1
    /\ UNCHANGED <<setup, disk, pending, failures>>

Outside ==
    \/ \E d \in Devices, content \in {"edited", "missing"} : TouchGiven(d, content)
    \/ \E content \in {"foreign", "missing"} : TouchRemote(content)

-----------------------------------------------------------------------------
(* sync_book: begin *)

Started(d, op, stage) ==
    [Idle EXCEPT !.pc = stage, !.op = op, !.src = Source(d),
              !.old = (op = "sync" /\ remote # "missing")]

\* Push side: the source file exists and hashes to book_hash, or is adopted.
BeginSource(d, mode) ==
    /\ task[d].pc = "idle"
    /\ mode # "pull"
    /\ FileAt(d, Source(d)) # "missing"
    /\ FileAt(d, Source(d)) = "good" \/ row[d].adopted
    /\ task' = [task EXCEPT ![d] =
           [Started(d, "sync", IF row[d] = NoRow THEN "exists" ELSE "stat") EXCEPT
               !.stat = row[d].stat, !.blind = row[d].blind]]
    /\ UNCHANGED <<setup, remote, disk, row, pending, bounds>>

\* Pull side: no source file, or a pull_only pass.
BeginPull(d, mode) ==
    /\ task[d].pc = "idle"
    /\ mode # "push"
    /\ mode = "pull" \/ FileAt(d, Source(d)) = "missing"
    /\ task' = [task EXCEPT ![d] = [Started(d, "sync", "lookup") EXCEPT !.src = "cache"]]
    /\ UNCHANGED <<setup, remote, disk, row, pending, bounds>>

Begin(d, mode) == BeginSource(d, mode) \/ BeginPull(d, mode)

-----------------------------------------------------------------------------
(* sync_book: push side *)

\* Variant with a fault: a row without ETag and time is a match.
StatLax(d) ==
    /\ task[d].pc = "stat"
    /\ remote # "missing"
    /\ task[d].stat \in {Stat, "none"}
    /\ CopySource(d)
    /\ Upsert(d, "cache", Stat, task[d].blind)
    /\ End(d)
    /\ UNCHANGED <<setup, remote, given, pending, bounds>>

\* The object is as the row says: nothing is transferred.
StatUnchanged(d) ==
    /\ task[d].pc = "stat"
    /\ Matches(task[d].stat)
    /\ CopySource(d)
    /\ Upsert(d, "cache", Stat, task[d].blind)
    /\ End(d)
    /\ UNCHANGED <<setup, remote, given, pending, bounds>>

\* Variant with a fault: the row is not looked at.
StatIgnored(d) ==
    /\ task[d].pc = "stat"
    /\ remote # "missing"
    /\ task' = [task EXCEPT ![d].pc = "exists", ![d].stat = "none", ![d].blind = FALSE]
    /\ UNCHANGED <<setup, remote, disk, row, pending, bounds>>

\* It has changed: what it is now is compared.
StatChanged(d) ==
    /\ task[d].pc = "stat"
    /\ remote # "missing"
    /\ ~Matches(task[d].stat)
    /\ task' = [task EXCEPT ![d].pc = "exists", ![d].stat = "none", ![d].blind = FALSE]
    /\ UNCHANGED <<setup, remote, disk, row, pending, bounds>>

\* Variant with a fault: the book is uploaded without a look.
AbsentBlindly(d) ==
    /\ task[d].pc = "exists"
    /\ ToUpload(d)
    /\ UNCHANGED <<setup, remote, disk, row, pending, bounds>>

\* It is gone, or was never there: it is uploaded.
Absent(d) ==
    /\ task[d].pc \in {"stat", "exists"}
    /\ remote = "missing"
    /\ ToUpload(d)
    /\ UNCHANGED <<setup, remote, disk, row, pending, bounds>>

Exists(d) ==
    /\ task[d].pc = "exists"
    /\ remote # "missing"
    /\ Goto(d, "compare")
    /\ UNCHANGED <<setup, remote, disk, row, pending, bounds>>

\* Variant with a fault: the caller's file is not copied into the cache.
CompareSameUncopied(d) ==
    /\ task[d].pc = "compare"
    /\ remote = "good"
    /\ task' = [task EXCEPT ![d] = [Transferred(@, TRUE) EXCEPT !.pc = "stamp"]]
    /\ UNCHANGED <<setup, remote, disk, row, pending, bounds>>

\* The download has the right content.
CompareSame(d) ==
    /\ task[d].pc = "compare"
    /\ remote = "good"
    /\ task' = [task EXCEPT ![d] = Transferred(@, TRUE)]
    /\ UNCHANGED <<setup, remote, disk, row, pending, bounds>>

\* The source was there at the beginning and is not when it is read or copied:
\* the operation reports an error.
SourceGone(d) ==
    /\ SourceNow(d) = "missing"
    /\ \/ task[d].pc = "copy"
       \/ task[d].pc = "stat" /\ Matches(task[d].stat)
       \/ task[d].pc \in {"stat", "exists"} /\ remote = "missing"
    /\ End(d)
    /\ UNCHANGED <<setup, remote, disk, row, pending, bounds>>

\* Variant with a fault: the older row is deleted, the new one not inserted.
ConflictDropped(d, stage) ==
    /\ task[d].pc = stage
    /\ Readable
    /\ remote # "good"
    /\ pending' = [pending EXCEPT ![d] = FALSE]
    /\ End(d)
    /\ UNCHANGED <<setup, remote, disk, row, bounds>>

\* It has not: the conflict is recorded in place of an older open one, and the
\* pass ends well.
Conflict(d, stage) ==
    /\ task[d].pc = stage
    /\ Readable
    /\ remote # "good"
    /\ pending' = [pending EXCEPT ![d] = TRUE]
    /\ End(d)
    /\ UNCHANGED <<setup, remote, disk, row, bounds>>

\* The object has vanished, or does not decrypt: the operation reports an error.
DownloadError(d) ==
    /\ task[d].pc \in {"compare", "fetch", "adopt"}
    /\ ~Readable
    /\ End(d)
    /\ UNCHANGED <<setup, remote, disk, row, pending, bounds>>

-----------------------------------------------------------------------------
(* Uploads, of sync_book and of resolve_blob_conflict("local") *)

\* Two writers in place whose bytes are the same; ciphertexts never are.
Same(d, e) ==
    /\ task[d].pc = "writing" /\ task[e].pc = "writing"
    /\ ~setup.encrypted
    /\ task[d].content = task[e].content

\* d has put content in the place of the object and goes on as x: for all the
\* others it is another object now, unless they write the same bytes.
Wrote(d, content, x) ==
    /\ Replace(content)
    /\ task' = [e \in Devices |-> IF e = d THEN x
                                  ELSE IF Same(d, e) THEN task[e]
                                  ELSE AgedTask(task[e])]

\* FileStorage cuts the file and writes it in place, each writer at an offset
\* of its own.
OpenRemote(d) ==
    /\ task[d].pc = "upload"
    /\ setup.backend = "file"
    /\ Wrote(d, "torn", [task[d] EXCEPT !.pc = "writing", !.old = FALSE, !.mine = TRUE])
    /\ UNCHANGED <<setup, disk, pending, bounds>>

\* d is not alone in the file.  Another writes other bytes; or another has cut
\* or replaced it since d began, and the right bytes are not all there: what d
\* wrote before is gone, what it still writes lies behind a hole.
Mixed(d) ==
    \/ \E e \in Devices \ {d} : task[e].pc = "writing" /\ ~Same(d, e)
    \/ ~task[d].mine /\ (setup.encrypted \/ remote # task[d].content)

\* Some bytes of d land among those of another.
WritePart(d) ==
    /\ task[d].pc = "writing"
    /\ Mixed(d)
    /\ remote # "missing"
    /\ Wrote(d, "torn", task[d])
    /\ UNCHANGED <<setup, disk, pending, bounds>>

\* The last byte is written: the object is what d has read, or a mixture, or
\* what others have made of it, with the bytes of d in a file that is gone.
FinishUpload(d) ==
    /\ task[d].pc = "writing"
    /\ LET x == Transferred(task[d], ~Mixed(d)) IN
       \/ remote # "missing" /\ Wrote(d, task[d].content, x)
       \/ remote # "missing" /\ Mixed(d) /\ Wrote(d, "torn", x)
       \/ Mixed(d) /\ task' = [task EXCEPT ![d] = x] /\ UNCHANGED <<remote, row>>
    /\ UNCHANGED <<setup, disk, pending, bounds>>

\* The other back ends replace the object in one request.
Upload(d) ==
    /\ task[d].pc = "upload"
    /\ setup.backend # "file"
    /\ Wrote(d, task[d].content, Transferred(task[d], TRUE))
    /\ UNCHANGED <<setup, disk, pending, bounds>>

\* The answer is there; what is copied is the caller's file of now.
Copy(d) ==
    /\ task[d].pc = "copy"
    /\ CopySource(d)
    /\ task' = [task EXCEPT ![d].pc = "stamp", ![d].src = "cache"]
    /\ UNCHANGED <<setup, remote, given, row, pending, bounds>>

-----------------------------------------------------------------------------
(* sync_book: pull side *)

Lookup(d) ==
    /\ task[d].pc = "lookup"
    /\ IF remote = "missing" THEN End(d) ELSE Goto(d, "fetch")
    /\ UNCHANGED <<setup, remote, disk, row, pending, bounds>>

\* Variant with a fault: the download moves into the cache before it is compared.
FetchAny(d) ==
    /\ task[d].pc = "fetch"
    /\ Readable
    /\ cache' = [cache EXCEPT ![d] = remote]
    /\ task' = [task EXCEPT ![d] = Transferred(@, TRUE)]
    /\ UNCHANGED <<setup, remote, given, row, pending, bounds>>

\* The download moves into the cache only when its hash is right.
FetchSame(d) ==
    /\ task[d].pc = "fetch"
    /\ remote = "good"
    /\ cache' = [cache EXCEPT ![d] = "good"]
    /\ task' = [task EXCEPT ![d] = Transferred(@, TRUE)]
    /\ UNCHANGED <<setup, remote, given, row, pending, bounds>>

-----------------------------------------------------------------------------
(* resolve_blob_conflict *)

\* Variant with a fault: the conflict is closed first.
ResolveLocalFirst(d) ==
    /\ task[d].pc = "idle"
    /\ pending[d]
    /\ FileAt(d, Source(d)) = "good"
    /\ pending' = [pending EXCEPT ![d] = FALSE]
    /\ task' = [task EXCEPT ![d] = [Started(d, "local", "upload") EXCEPT !.content = "good"]]
    /\ UNCHANGED <<setup, remote, disk, row, bounds>>

\* "local": the source is there and has the right hash.
ResolveLocal(d) ==
    /\ task[d].pc = "idle"
    /\ pending[d]
    /\ FileAt(d, Source(d)) = "good"
    /\ task' = [task EXCEPT ![d] = [Started(d, "local", "upload") EXCEPT !.content = "good"]]
    /\ UNCHANGED <<setup, remote, disk, row, pending, bounds>>

ResolveRemote(d) ==
    /\ task[d].pc = "idle"
    /\ pending[d]
    /\ task' = [task EXCEPT ![d] = [Idle EXCEPT !.pc = "find", !.op = "remote"]]
    /\ UNCHANGED <<setup, remote, disk, row, pending, bounds>>

\* Nothing there: the conflict is closed all the same.
Find(d) ==
    /\ task[d].pc = "find"
    /\ Goto(d, IF remote = "missing" THEN "clear" ELSE "adopt")
    /\ UNCHANGED <<setup, remote, disk, row, pending, bounds>>

\* The remote content goes into the cache, whatever its hash.
Adopt(d) ==
    /\ task[d].pc = "adopt"
    /\ Readable
    /\ cache' = [cache EXCEPT ![d] = remote]
    /\ task' = [task EXCEPT ![d] = Transferred(@, TRUE)]
    /\ UNCHANGED <<setup, remote, given, row, pending, bounds>>

\* mark_blob_adopted or mark_blob_not_adopted.
Flag(d) ==
    /\ task[d].pc = "flag"
    /\ row' = [row EXCEPT ![d].adopted = (task[d].op = "remote")]
    /\ Goto(d, "clear")
    /\ UNCHANGED <<setup, remote, disk, pending, bounds>>

\* mark_conflict_resolved.
Clear(d) ==
    /\ task[d].pc = "clear"
    /\ pending' = [pending EXCEPT ![d] = FALSE]
    /\ End(d)
    /\ UNCHANGED <<setup, remote, disk, row, bounds>>

-----------------------------------------------------------------------------
(* The end of an operation *)

\* stat after the transfer, and the row; the object may be another one by now.
Stamp(d) ==
    /\ task[d].pc = "stamp"
    /\ IF remote = "missing"
       THEN End(d) /\ UNCHANGED row
       ELSE /\ Upsert(d, "cache", Stat, ~task[d].mine \/ task[d].edited)
            /\ IF task[d].op = "sync" THEN End(d) ELSE Goto(d, "flag")
    /\ UNCHANGED <<setup, remote, disk, pending, bounds>>

\* A request fails, carried out or not, or the process dies; what was done stays.
Fail(d) ==
    /\ task[d].pc # "idle"
    /\ failures < MaxFailures
    /\ failures' = failures + 1
    /\ End(d)
    /\ UNCHANGED <<setup, remote, disk, row, pending, outside>>

Step(d) ==
    \/ StatUnchanged(d) \/ StatChanged(d) \/ Absent(d) \/ Exists(d) \/ CompareSame(d)
    \/ Conflict(d, "compare") \/ Conflict(d, "fetch") \/ DownloadError(d) \/ SourceGone(d)
    \/ OpenRemote(d) \/ FinishUpload(d) \/ Upload(d) \/ Copy(d)
    \/ Lookup(d) \/ FetchSame(d)
    \/ Find(d) \/ Adopt(d) \/ Stamp(d) \/ Flag(d) \/ Clear(d)

Next ==
    \/ \E d \in Devices :
          \/ PutLocalBook(d)
          \/ \E mode \in Modes : Begin(d, mode)
          \/ ResolveLocal(d) \/ ResolveRemote(d)
          \/ Step(d)
          \/ WritePart(d)
          \/ Fail(d)
    \/ Outside

Spec == Init /\ [][Next]_vars

\* Every step and every beginning of an operation changes task.
FairSpec ==
    /\ Spec
    /\ \A d \in Devices : WF_task(Step(d)) /\ SF_task(Begin(d, "both"))

-----------------------------------------------------------------------------
(* Properties *)

TypeOK ==
    /\ setup \in Setups
    /\ remote \in Files
    /\ cache \in [Devices -> Files] /\ given \in [Devices -> Files]
    /\ row \in [Devices -> Row]
    /\ pending \in [Devices -> BOOLEAN]
    /\ task \in [Devices -> Task]
    /\ failures \in 0..MaxFailures /\ outside \in 0..MaxOutside

\* A device that has the right file and a row that matches the remote object
\* will not look at the object's content again.  So the content is right,
\* unless the device has adopted another or has a conflict to resolve, or its
\* last transfer was disturbed (blind): somebody else cut or wrote the object
\* between the beginning of the upload and the stat that followed, or the user
\* touched the source between the hash and the copy.
IndexHonest ==
    \A d \in Devices :
        /\ FileAt(d, Source(d)) = "good"
        /\ Matches(row[d].stat)
        /\ ~row[d].adopted /\ ~row[d].blind /\ ~pending[d]
        => remote = "good"

\* sync_book overwrites no object that was there when it began, whatever its content.
NoClobber ==
    [][\A d \in Devices :
          /\ task[d].op = "sync" /\ task[d].pc = "upload"
          /\ task'[d].pc \in {"writing", "copy", "stamp"}
          /\ remote # "missing"
          => ~task[d].old]_vars

\* A pass that ends without an error has done its work: the right content is
\* in cache and bucket and the row says so; or there is no object, or one that
\* does not decrypt; or the device has a conflict to resolve, or has adopted
\* what is there.  Two things make it end well with other content, in the
\* bucket or in the cache: somebody else has written into the object since the
\* upload began (blind), or the user has touched the source since its hash was
\* taken.
PassSettles ==
    [][\A d \in Devices :
          task[d].op = "sync" /\ task'[d].op = "none" /\ failures' = failures =>
              \/ remote = "missing" \/ ~Readable \/ SourceGone(d)
              \/ pending'[d] \/ row'[d].adopted \/ row'[d].blind \/ task[d].edited
              \/ /\ remote' = "good" /\ cache'[d] = "good"
                 /\ row'[d].path = "cache" /\ row'[d].stat = Stat']_vars

\* Content with another hash gets into the cache only by resolve_blob_conflict,
\* on a device whose row says so, or from a source that the user has touched
\* since its hash was taken: never from the bucket by a pass.
CacheGuarded ==
    [][\A d \in Devices :
          cache'[d] # cache[d] =>
              \/ cache'[d] = "good" \/ task[d].op = "remote" \/ row[d].adopted
              \/ task[d].edited /\ cache'[d] = given[d]]_vars

\* A conflict is closed by a resolution that has been carried out: the right
\* content is in the bucket, unless somebody else has cut or written the object
\* since the upload began, and in the cache, unless the user has touched the
\* source meanwhile; or the remote content is adopted, or there was none.
ResolvedIsDone ==
    [][\A d \in Devices :
          pending[d] /\ ~pending'[d] =>
              \/ /\ task[d].op = "local"
                 /\ cache[d] = "good" \/ task[d].edited
                 /\ remote = "good" \/ ~task[d].mine
              \/ task[d].op = "remote" /\ (row[d].adopted \/ ~task[d].mine)]_vars

\* A resolution for the remote version sticks: no pass during which the object
\* stays the one that was adopted records the conflict again.
ResolutionSticks ==
    [][\A d \in Devices :
          ~pending[d] /\ pending'[d] =>
              ~(task[d].old /\ row[d].adopted /\ Matches(row[d].stat) /\ cache[d] = remote)]_vars

\* In the end the bucket has the right content, or nobody has it, or somebody
\* knows: a conflict, an adoption, a blind row, or an object nobody can decrypt.
Settles ==
    <>[](\/ remote = "good"
         \/ remote = "missing" /\ \A d \in Devices : FileAt(d, Source(d)) # "good"
         \/ remote # "missing" /\ ~Readable
         \/ \E d \in Devices : pending[d] \/ row[d].adopted \/ row[d].blind)
=============================================================================
