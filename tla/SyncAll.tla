------------------------------- MODULE SyncAll -------------------------------
(***************************************************************************)
(* sync_all of one instance: first the metadata of every book, then, as    *)
(* far as the scheduler's policy and byte limit allow, the files, one book *)
(* after the other in the order of their hashes; the first error ends it.  *)
(* The setters of the scheduler, put_local_book, put_local_meta and other  *)
(* devices do not wait for it.  What happens inside the pass of one        *)
(* metadata file or of one book is the subject of MetaSync and BlobSync:   *)
(* here each is one step.                                                  *)
(***************************************************************************)
EXTENDS Integers, FiniteSets, FiniteSetsExt, Functions

CONSTANTS
    N,              \* number of books; a book is its place in the order
    Modes,          \* modes the app uses
    Networks,       \* network types it reports
    Limits,         \* byte limits it sets; a negative one is none
    FileSize,       \* size of the right file of a book
    ForeignSize,    \* size of another object in its place
    MaxFailures,    \* bound on failed requests
    MaxOutside      \* bound on what the app and other devices write

Books == 1..N

ASSUME CountAssumption == N \in Nat
ASSUME ModeAssumption  == Modes \subseteq {"both", "push", "pull"}
ASSUME NetAssumption   == Networks \subseteq {"wifi", "cellular", "unknown"}
ASSUME LimitAssumption == Limits \subseteq Int
ASSUME SizeAssumption  == FileSize \in [Books -> Nat] /\ ForeignSize \in Nat
ASSUME BoundAssumption == MaxFailures \in Nat /\ MaxOutside \in Nat

\* Where the metadata is: only a cached file, only objects, both and not
\* the same, both the same, an object that cannot be read.
Metas == {"none", "local", "remote", "both", "same", "broken"}

\* blob_index: no row, the caller's file, an object that has changed since, this object.
Rows == {"none", "given", "stale", "fresh"}

NoLimit == -1

VARIABLES
    network, paused, limit,     \* SchedulerState
    meta,       \* meta[b]: the metadata of b, here and in the bucket
    file,       \* file[b]: the source file of b
    object,     \* object[b]: the object of b
    row,        \* row[b]
    conflict,   \* the books with an open row in conflict_log
    task,       \* the operation that holds operation_lock
    permitted,  \* history: the policy has permitted books since the operation began
    touched,    \* history: the books somebody else has written since then
    failures, outside

scheduler == <<network, paused, limit>>
data      == <<meta, file, object, row, conflict>>
history   == <<permitted, touched>>
vars      == <<scheduler, data, task, history, failures, outside>>

Stages == {"idle", "refresh", "metas", "list", "estimate", "transfer"}

\* limit and spent are what the loop compares, moved is what was transferred;
\* result: what the last operation has returned, "ok" with the event
\* SyncComplete; told: sync_all has sent the event that the books are paused,
\* by the policy or by the byte limit, before it returned "ok".
Task == [pc : Stages, op : {"none", "all", "meta", "book"}, mode : {"both", "push", "pull"},
         listed : SUBSET Books, todo : SUBSET Books, limit : Int, spent : Nat, guess : Nat,
         moved : Nat, result : {"none", "ok", "error"}, told : {"no", "policy", "byte_limit"}]

Idle == [pc |-> "idle", op |-> "none", mode |-> "both", listed |-> {}, todo |-> {},
         limit |-> NoLimit, spent |-> 0, guess |-> 0, moved |-> 0, result |-> "none", told |-> "no"]

Init ==
    /\ network = "wifi" /\ paused = FALSE /\ limit = NoLimit
    /\ meta = [b \in Books |-> "none"]
    /\ object = [b \in Books |-> IF b = N THEN "good" ELSE "none"]   \* from another device
    /\ file = [b \in Books |-> "none"]
    /\ row = [b \in Books |-> "none"]
    /\ conflict = {}
    /\ task = Idle
    /\ permitted = FALSE /\ touched = {}
    /\ failures = 0 /\ outside = 0

-----------------------------------------------------------------------------
(* Helpers *)

SizeOf(b, content) ==
    CASE content = "none" -> 0
      [] content = "good" -> FileSize[b]
      [] OTHER -> ForeignSize

\* blob_policy_decision: not while paused, and only over Wi-Fi.
Allowed(net, stop) == ~stop /\ net = "wifi"

\* discover_meta_pairs: cached files and, unless it only pushes, objects and books.
MetaPairs(mode) ==
    {b \in Books : meta[b] \in {"local", "both", "same", "broken"}}
    \cup IF mode = "push" THEN {}
         ELSE {b \in Books : meta[b] = "remote" \/ object[b] # "none"}

\* Variant with a fault: only the rows.
HashesIndexed(mode) == {b \in Books : row[b] # "none"}

\* discover_book_hashes: rows and, unless it only pushes, objects.
BookHashes(mode) ==
    {b \in Books : row[b] # "none"}
    \cup IF mode = "push" THEN {} ELSE {b \in Books : object[b] # "none"}

\* estimate_book_transfer_size: the source file's size if there is one to
\* push, transferred or not; else the object's.
Estimate(b, mode) ==
    IF mode # "pull" /\ file[b] # "none" THEN SizeOf(b, file[b])
    ELSE IF mode # "push" THEN SizeOf(b, object[b])
    ELSE 0

First == Min(task.todo)

End(result, told) ==
    /\ task' = [Idle EXCEPT !.result = result, !.told = told]
    /\ permitted' = FALSE
    /\ touched' = {}

\* sync_all leaves books alone, says why, and reports success all the same.
Pause(reason) == End("ok", reason)

Begin(op, mode, stage, todo) ==
    /\ task.pc = "idle"
    /\ task' = [Idle EXCEPT !.pc = stage, !.op = op, !.mode = mode, !.listed = todo, !.todo = todo]
    /\ permitted' = Allowed(network, paused)
    /\ touched' = {}

-----------------------------------------------------------------------------
(* The scheduler: the setters do not wait for the operation. *)

Permit(net, stop) ==
    permitted' = (permitted \/ (task.pc # "idle" /\ Allowed(net, stop)))

SetNetworkType(net) ==
    /\ network' = net
    /\ Permit(net, paused)
    /\ UNCHANGED <<paused, limit, data, task, touched, failures, outside>>

\* Variant with a fault: a negative limit is kept.
SetLimitRaw(bytes) ==
    /\ limit' = bytes
    /\ UNCHANGED <<network, paused, data, task, history, failures, outside>>

SetBlobByteLimit(bytes) ==
    /\ limit' = IF bytes < 0 THEN NoLimit ELSE bytes
    /\ UNCHANGED <<network, paused, data, task, history, failures, outside>>

\* pause and resume.
SetPaused(stop) ==
    /\ paused' = stop
    /\ Permit(network, stop)
    /\ UNCHANGED <<network, limit, data, task, touched, failures, outside>>

Scheduling ==
    \/ \E net \in Networks : SetNetworkType(net)
    \/ \E bytes \in Limits : SetBlobByteLimit(bytes)
    \/ \E stop \in BOOLEAN : SetPaused(stop)

-----------------------------------------------------------------------------
(* What the app and other devices write *)

Write(b) ==
    /\ outside < MaxOutside
    /\ outside' = outside + 1
    /\ touched' = IF task.pc = "idle" THEN {} ELSE touched \cup {b}
    /\ UNCHANGED <<scheduler, task, permitted, failures>>

PutLocalBook(b) ==
    /\ Write(b)
    /\ file' = [file EXCEPT ![b] = "good"]
    /\ row' = [row EXCEPT ![b] = "given"]
    /\ UNCHANGED <<meta, object, conflict>>

\* The user edits or removes the file that put_local_book has named.
TouchFile(b, content) ==
    /\ Write(b)
    /\ row[b] = "given"
    /\ file[b] = "good"
    /\ file' = [file EXCEPT ![b] = content]
    /\ UNCHANGED <<meta, object, row, conflict>>

TouchObject(b, content) ==
    /\ Write(b)
    /\ object[b] # content
    /\ object' = [object EXCEPT ![b] = content]
    /\ row' = [row EXCEPT ![b] = IF @ = "fresh" THEN "stale" ELSE @]
    /\ UNCHANGED <<meta, file, conflict>>

PutLocalMeta(b) ==
    /\ Write(b)
    /\ meta' = [meta EXCEPT ![b] = CASE @ = "none" -> "local"
                                     [] @ \in {"remote", "same"} -> "both"
                                     [] OTHER -> @]
    /\ UNCHANGED <<file, object, row, conflict>>

\* Another device writes the objects, also over ones that could not be read.
RemoteMeta(b) ==
    /\ Write(b)
    /\ meta' = [meta EXCEPT ![b] = IF @ \in {"none", "remote"} THEN "remote" ELSE "both"]
    /\ UNCHANGED <<file, object, row, conflict>>

\* The objects are damaged, or of a version or key that this instance has not got.
BreakMeta(b) ==
    /\ Write(b)
    /\ meta[b] # "broken"
    /\ meta' = [meta EXCEPT ![b] = "broken"]
    /\ UNCHANGED <<file, object, row, conflict>>

Writing(b) ==
    \/ PutLocalBook(b) \/ PutLocalMeta(b) \/ RemoteMeta(b) \/ BreakMeta(b)
    \/ \E content \in {"bad", "none"} : TouchFile(b, content)
    \/ \E content \in {"good", "foreign", "none"} : TouchObject(b, content)

-----------------------------------------------------------------------------
(* The operations *)

SyncAllStart(mode) ==
    /\ Begin("all", mode, "refresh", {})
    /\ UNCHANGED <<scheduler, data, failures, outside>>

SyncSingleMeta(b) ==
    /\ Begin("meta", "both", "metas", {b})
    /\ UNCHANGED <<scheduler, data, failures, outside>>

\* The byte limit is not looked at.
SyncBook(b) ==
    /\ IF Allowed(network, paused)
       THEN Begin("book", "both", "transfer", {b})
       ELSE task.pc = "idle" /\ End("error", "no")
    /\ UNCHANGED <<scheduler, data, failures, outside>>

ListMetas ==
    /\ task.pc = "refresh"
    /\ task' = [task EXCEPT !.pc = "metas", !.todo = MetaPairs(task.mode)]
    /\ UNCHANGED <<scheduler, data, history, failures, outside>>

\* What sync_single_meta_inner makes of metadata that can be read: push_only
\* puts the cached file over the objects, pull_only the other way round.
Synced(m, mode) ==
    IF m = "none" \/ (m = "local" /\ mode = "pull") THEN m ELSE "same"

MetaStep ==
    /\ task.pc = "metas"
    /\ task.todo # {}
    /\ meta[First] # "broken"
    /\ meta' = [meta EXCEPT ![First] = Synced(@, task.mode)]
    /\ IF task.op = "meta" THEN End("ok", "no")
       ELSE task' = [task EXCEPT !.todo = @ \ {First}] /\ UNCHANGED history
    /\ UNCHANGED <<scheduler, file, object, row, conflict, failures, outside>>

\* An object of the metadata does not decode: the operation ends here.
MetaError ==
    /\ task.pc = "metas"
    /\ task.todo # {}
    /\ meta[First] = "broken"
    /\ End("error", "no")
    /\ UNCHANGED <<scheduler, data, failures, outside>>

\* Variant with a fault: the policy is not looked at.
PolicyIgnored ==
    /\ task.pc = "metas"
    /\ task.todo = {}
    /\ task' = [task EXCEPT !.pc = "list", !.limit = limit]
    /\ UNCHANGED <<scheduler, data, history, failures, outside>>

\* The policy is read once, with its limit.
Policy ==
    /\ task.pc = "metas"
    /\ task.todo = {}
    /\ IF Allowed(network, paused)
       THEN task' = [task EXCEPT !.pc = "list", !.limit = limit] /\ UNCHANGED history
       ELSE Pause("policy")
    /\ UNCHANGED <<scheduler, data, failures, outside>>

ListBooks ==
    /\ task.pc = "list"
    /\ LET hashes == BookHashes(task.mode)
       IN  task' = [task EXCEPT !.pc = "estimate", !.listed = hashes, !.todo = hashes]
    /\ UNCHANGED <<scheduler, data, history, failures, outside>>

\* Variant with a fault: the limit is compared with what has been spent so far.
EstimateLate ==
    /\ task.pc = "estimate"
    /\ task.todo # {}
    /\ IF task.limit # NoLimit /\ task.spent > task.limit
       THEN Pause("byte_limit")
       ELSE /\ task' = [task EXCEPT !.pc = "transfer", !.guess = Estimate(First, task.mode)]
            /\ UNCHANGED history
    /\ UNCHANGED <<scheduler, data, failures, outside>>

EstimateBook ==
    /\ task.pc = "estimate"
    /\ task.todo # {}
    /\ LET guess == Estimate(First, task.mode)
       IN  IF task.limit # NoLimit /\ task.spent + guess > task.limit
           THEN Pause("byte_limit")
           ELSE task' = [task EXCEPT !.pc = "transfer", !.guess = guess] /\ UNCHANGED history
    /\ UNCHANGED <<scheduler, data, failures, outside>>

Complete ==
    /\ task.pc = "estimate"
    /\ task.todo = {}
    /\ End("ok", "no")
    /\ UNCHANGED <<scheduler, data, failures, outside>>

-----------------------------------------------------------------------------
(* sync_book_inner, as one step; see BlobSync for its requests *)

\* The operation goes on to the next book, the estimate counted as spent.
BookDone(bytes) ==
    IF task.op = "book" THEN End("ok", "no")
    ELSE /\ task' = [task EXCEPT !.pc = "estimate", !.todo = @ \ {First}, !.guess = 0,
                                 !.spent = @ + task.guess, !.moved = @ + bytes]
         /\ UNCHANGED history

Pushes == task.mode # "pull" /\ file[First] # "none"
Pulls  == task.mode # "push" /\ ~Pushes /\ object[First] # "none"

\* The row matches the object.
BookUnchanged ==
    /\ task.pc = "transfer"
    /\ Pushes /\ file[First] = "good"
    /\ row[First] = "fresh" /\ object[First] # "none"
    /\ BookDone(0)
    /\ UNCHANGED <<scheduler, data, failures, outside>>

Upload ==
    /\ task.pc = "transfer"
    /\ Pushes /\ file[First] = "good"
    /\ object[First] = "none"
    /\ object' = [object EXCEPT ![First] = "good"]
    /\ row' = [row EXCEPT ![First] = "fresh"]
    /\ BookDone(FileSize[First])
    /\ UNCHANGED <<scheduler, meta, file, conflict, failures, outside>>

\* Variant with a fault: the row is not written.
DownloadUnindexed ==
    /\ task.pc = "transfer"
    /\ \/ Pushes /\ file[First] = "good" /\ row[First] # "fresh"
       \/ Pulls
    /\ object[First] = "good"
    /\ file' = [file EXCEPT ![First] = "good"]
    /\ BookDone(FileSize[First])
    /\ UNCHANGED <<scheduler, meta, object, row, conflict, failures, outside>>

\* The object is downloaded, to be compared or to be kept: it is the book.
Download ==
    /\ task.pc = "transfer"
    /\ \/ Pushes /\ file[First] = "good" /\ row[First] # "fresh"
       \/ Pulls
    /\ object[First] = "good"
    /\ file' = [file EXCEPT ![First] = "good"]
    /\ row' = [row EXCEPT ![First] = "fresh"]
    /\ BookDone(FileSize[First])
    /\ UNCHANGED <<scheduler, meta, object, conflict, failures, outside>>

\* Variant with a fault: the object is not the book, and nobody is told.
ConflictUnrecorded ==
    /\ task.pc = "transfer"
    /\ \/ Pushes /\ file[First] = "good" /\ row[First] # "fresh"
       \/ Pulls
    /\ object[First] = "foreign"
    /\ BookDone(ForeignSize)
    /\ UNCHANGED <<scheduler, data, failures, outside>>

\* It is not: a conflict is recorded, and the operation goes on.
Conflict ==
    /\ task.pc = "transfer"
    /\ \/ Pushes /\ file[First] = "good" /\ row[First] # "fresh"
       \/ Pulls
    /\ object[First] = "foreign"
    /\ conflict' = conflict \cup {First}
    /\ BookDone(ForeignSize)
    /\ UNCHANGED <<scheduler, meta, file, object, row, failures, outside>>

\* The file has another hash, or there is nothing to push or to pull.
Stuck(b, mode) ==
    \/ mode # "pull" /\ file[b] = "bad"
    \/ mode # "pull" /\ file[b] = "none" /\ (mode = "push" \/ object[b] = "none")
    \/ mode = "pull" /\ object[b] = "none"

BookError ==
    /\ task.pc = "transfer"
    /\ Stuck(First, task.mode)
    /\ End("error", "no")
    /\ UNCHANGED <<scheduler, data, failures, outside>>

\* A request fails: the operation reports the error and ends.
Fail ==
    /\ task.pc # "idle"
    /\ failures < MaxFailures
    /\ failures' = failures + 1
    /\ End("error", "no")
    /\ UNCHANGED <<scheduler, data, outside>>

Step ==
    \/ ListMetas \/ MetaStep \/ MetaError \/ Policy \/ ListBooks \/ EstimateBook \/ Complete
    \/ BookUnchanged \/ Upload \/ Download \/ Conflict \/ BookError

Next ==
    \/ Scheduling
    \/ \E b \in Books : Writing(b) \/ SyncSingleMeta(b) \/ SyncBook(b)
    \/ \E mode \in Modes : SyncAllStart(mode)
    \/ Step
    \/ Fail

Spec == Init /\ [][Next]_vars

FairSpec == Spec /\ WF_vars(Step) /\ SF_vars(SyncAllStart("both"))

-----------------------------------------------------------------------------
(* Properties *)

TypeOK ==
    /\ network \in {"wifi", "cellular", "unknown"} /\ paused \in BOOLEAN
    /\ limit \in Int /\ limit >= NoLimit
    /\ meta \in [Books -> Metas]
    /\ file \in [Books -> {"none", "good", "bad"}]
    /\ object \in [Books -> {"none", "good", "foreign"}]
    /\ row \in [Books -> Rows]
    /\ conflict \subseteq Books
    /\ task \in Task /\ task.todo \subseteq task.listed \cup Books
    /\ permitted \in BOOLEAN /\ touched \subseteq Books
    /\ failures \in 0..MaxFailures /\ outside \in 0..MaxOutside

\* sync_all transfers no more bytes of books than the limit it has read, unless
\* somebody writes a book meanwhile or it downloads an object that is not the book.
LimitKept ==
    task.op = "all" /\ task.limit # NoLimit =>
        \/ task.moved <= task.limit
        \/ touched # {}
        \/ \E b \in task.listed \ task.todo : object[b] = "foreign"

\* No operation goes for a book's file when, from its beginning on, the app
\* was paused or not on Wi-Fi all the time.
PolicyRespected == task.pc = "transfer" => permitted

Settled(b) ==
    \/ file[b] = "good" /\ object[b] = "good" /\ row[b] = "fresh"
    \/ object[b] = "foreign" /\ b \in conflict

\* What is behind the loop is done: the file is the same here and there, or the
\* conflict is recorded, unless somebody has written the book meanwhile.
BehindIsDone ==
    task.op = "all" /\ task.pc \in {"estimate", "transfer"} =>
        \A b \in task.listed \ task.todo : b \in touched \/ Settled(b)

\* When a bidirectional sync_all reports success, the metadata of every book is
\* the same here and there, and every book that anybody has is done, except what
\* somebody has written meanwhile: all of them, unless the app has been told
\* before that the policy keeps the books back; or those in front of the one
\* that the byte limit has stopped, of which it has been told as well.
CompleteIsDone ==
    [][task.op = "all" /\ task.mode = "both" /\ task'.result = "ok" =>
          \A b \in Books \ touched :
              /\ meta[b] \in {"none", "same"}
              /\ \/ Settled(b)
                 \/ row[b] = "none" /\ object[b] = "none"
                 \/ task'.told = "policy"
                 \/ task'.told = "byte_limit" /\ b \in task.todo]_vars

\* No metadata that cannot be read, no book up to b over which sync_all gives
\* up, and the estimates up to b within the limit: nothing is in the way of b.
Clear(b) ==
    /\ \A c \in Books : meta[c] # "broken"
    /\ Allowed(network, paused)
    /\ \A c \in 1..b : c \in BookHashes("both") => ~Stuck(c, "both")
    /\ limit = NoLimit \/ FoldFunctionOnSet(+, 0, [c \in Books |-> Estimate(c, "both")], 1..b) <= limit

\* Every book that stays in reach of sync_all is done in the end.
Reached ==
    \A b \in Books :
        <>[](Clear(b) /\ b \in BookHashes("both")) => <>[]Settled(b)
=============================================================================
