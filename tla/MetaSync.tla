------------------------------- MODULE MetaSync -------------------------------
(***************************************************************************)
(* The reading metadata of one book, kept by several devices that share    *)
(* three objects of one storage bucket: the position (progress.json), the  *)
(* marks (bookmarks.json) and the deletions (tombstones.json).  A device   *)
(* caches the metadata and the deletions in local files.  The app edits    *)
(* the cache; a sync pass reads the three remote objects one request at a  *)
(* time, merges, writes back what differs with a conditional PUT per       *)
(* object, and starts over when a PUT finds that the object has moved.     *)
(*                                                                         *)
(* Content is abstract.  Every edit the app makes has a number; a position *)
(* is the number of the edit that produced it (0: none), an item (bookmark,*)
(* highlight or note) the number of its last edit and its create_ts.  Item *)
(* lists are functions from item ids; where the code compares lists, which *)
(* also compares their order, the model lets equal lists of two or more    *)
(* entries compare either way.                                             *)
(***************************************************************************)
EXTENDS Naturals, FiniteSets

CONSTANTS
    Devices,        \* device ids: positive numbers, ordered as the code orders the strings
    Items,          \* ids of the items of the book
    Clocks,         \* wall clock readings
    ClockModel,     \* "synchronised", "monotonic" (per device) or "arbitrary"
    CreateTs,       \* create_ts values an item may carry
    Modes,          \* sync modes in use
    AppOps,         \* what the app does: "progress", "item", "both", "delete", "undo"
    MaxEdits,       \* bound on the number of app operations
    MaxAttempts,    \* MAX_CAS_ATTEMPTS
    ContentVersions, \* TRUE: an object's version is the hash of its content
    AppSerialized,  \* TRUE: app operations wait for a running pass, as in KmoSync.kt
    Faults          \* TRUE: passes may fail half-way, deletions may be cut by a crash

SyncModes == {"bidirectional", "push_only", "pull_only"}

ASSUME DevicesAssumption  == Devices \subseteq Nat \ {0}
ASSUME ClocksAssumption   == Clocks \subseteq Nat \ {0}
ASSUME CreateTsAssumption == CreateTs \subseteq Nat
ASSUME ModesAssumption    == Modes \subseteq SyncModes
ASSUME BoundsAssumption   == MaxEdits \in Nat /\ MaxAttempts \in Nat \ {0}
ASSUME FlagsAssumption    == {AppSerialized, Faults, ContentVersions} \subseteq BOOLEAN

-----------------------------------------------------------------------------
(* Data *)

Stamp    == [t : Nat, d : Nat]                \* (last_write_ts, writer device); 0 is ""
Position == Nat
Item     == [n : Nat, c : Nat]
Meta     == [has : BOOLEAN, prog : Position, pst : Stamp, items : [Items -> Item],
             bst : Stamp, wall : Nat, dev : Nat, logical : Nat]
Tomb     == [del : Nat, snap : Item, rev : Nat] \* logical times of deletion and revival; 0: none

TombSet  == [Items -> Tomb]

Progress  == [has : BOOLEAN, prog : Position, st : Stamp]
Bookmarks == [has : BOOLEAN, items : [Items -> Item], st : Stamp]

NoStamp     == [t |-> 0, d |-> 0]
NoPosition  == 0
NoItem      == [n |-> 0, c |-> 0]
NoItems     == [i \in Items |-> NoItem]
NoMeta      == [has |-> FALSE, prog |-> NoPosition, pst |-> NoStamp, items |-> NoItems,
                bst |-> NoStamp, wall |-> 0, dev |-> 0, logical |-> 0]
NoTombs     == [i \in Items |-> [del |-> 0, snap |-> NoItem, rev |-> 0]]
NoProgress  == [has |-> FALSE, prog |-> NoPosition, st |-> NoStamp]
NoBookmarks == [has |-> FALSE, items |-> NoItems, st |-> NoStamp]

Larger(m, n) == IF m >= n THEN m ELSE n

\* remote_pair_wins(b, a): b is strictly newer than a, ties broken by device id.
StampLess(a, b) == a.t < b.t \/ (a.t = b.t /\ a.d < b.d)

Present(item) == item.n > 0

\* A tombstone that no later revival undoes.
Dead(tomb) == tomb.del > 0 /\ tomb.rev <= tomb.del

NoneSet(tombs) == \A i \in Items : tombs[i].del = 0 /\ tombs[i].rev = 0

Several(entries) == Cardinality(entries) > 1

ItemsDiffer(x, y, reordered) ==
    x # y \/ (reordered /\ Several({i \in Items : Present(x[i])}))

\* Variant with a fault: a set that differs by a revival alone is not written.
TombsDifferInDeletions(x, y, reordered) == \E i \in Items : x[i].del # y[i].del

TombsDiffer(x, y, reordered) ==
    \/ x # y
    \/ reordered /\ \/ Several({i \in Items : x[i].del > 0})
                    \/ Several({i \in Items : x[i].rev > 0})

-----------------------------------------------------------------------------
(* Merging *)

\* normalize_meta_pairs: an envelope without a writer pair takes the single clock.
Normalize(m) ==
    [m EXCEPT !.pst = IF @ = NoStamp THEN [t |-> m.wall, d |-> m.dev] ELSE @,
              !.bst = IF @ = NoStamp THEN [t |-> m.wall, d |-> m.dev] ELSE @]

\* put_local_meta: what is written when meta is put over previous.
Put(previous, meta, reordered) ==
    LET m     == Normalize(meta)
        p     == Normalize(previous)
        wall  == Larger(p.wall, m.wall)
        stamp == [t |-> wall, d |-> m.dev]
    IN  IF ~previous.has THEN m
        ELSE [m EXCEPT !.wall    = wall,
                       !.logical = Larger(p.logical, m.logical),
                       !.pst = IF p.prog = m.prog THEN p.pst ELSE stamp,
                       !.bst = IF ItemsDiffer(p.items, m.items, reordered)
                               THEN stamp ELSE p.bst]

\* Variant with a fault: the snapshot of the newer writer replaces the list.
SnapshotOnly(x, y) == x

\* append_missing_*: the items of x, and those of y that x does not have.
AppendMissing(x, y) == [i \in Items |-> IF Present(x[i]) THEN x[i] ELSE y[i]]

\* merge_*_list: every item of either; of two versions, y's unless it is older.
Union(x, y) ==
    [i \in Items |->
        IF Present(y[i]) /\ (Present(x[i]) => y[i].c >= x[i].c) THEN y[i] ELSE x[i]]

\* The items that follow from a remote snapshot rb that is newer than base, has
\* the same writer pair, or is older.
MergeItems(base, rb) ==
    IF rb.has /\ StampLess(base.bst, rb.st) THEN AppendMissing(rb.items, base.items)
    ELSE IF rb.has /\ rb.st = base.bst THEN Union(base.items, rb.items)
    ELSE base.items

\* merge_meta_with_remote: position and items are two LWW registers; the single
\* clock of the metadata is the newer of their two stamps.
MergeMeta(base, rp, rb) ==
    LET adopt  == rp.has /\ StampLess(base.pst, rp.st)
        pst    == IF adopt THEN rp.st ELSE base.pst
        bst    == IF rb.has /\ StampLess(base.bst, rb.st) THEN rb.st ELSE base.bst
        newest == IF StampLess(pst, bst) THEN bst ELSE pst
    IN  [base EXCEPT !.has   = TRUE,
                     !.prog  = IF adopt THEN rp.prog ELSE @,
                     !.pst   = pst,
                     !.items = MergeItems(base, rb),
                     !.bst   = bst,
                     !.wall  = newest.t,
                     !.dev   = newest.d]

\* Variant with a fault: a revival that only the other side knows is dropped.
MergeTombForgetting(x, y) ==
    [del  |-> Larger(y.del, x.del),
     snap |-> IF y.del >= x.del THEN y.snap ELSE x.snap,
     rev  |-> x.rev]

\* TombstoneSet::merge: per item the later deletion and the later revival.
MergeTomb(x, y) ==
    [del  |-> Larger(y.del, x.del),
     snap |-> IF y.del >= x.del THEN y.snap ELSE x.snap,
     rev  |-> Larger(y.rev, x.rev)]

MergeTombs(x, y) == [i \in Items |-> MergeTomb(x[i], y[i])]

ApplyTombs(items, tombs) ==
    [i \in Items |-> IF Dead(tombs[i]) THEN NoItem ELSE items[i]]

-----------------------------------------------------------------------------
(* State *)

VARIABLES
    local,       \* local[d]: the cached metadata file of device d
    tombs,       \* tombs[d]: its tombstone file
    progress,    \* the remote objects
    bookmarks,
    tombstones,
    task,        \* task[d]: the sync pass device d is running
    clock,       \* clock[d]: the last reading of d's wall clock
    edits,       \* number of app operations so far
    born,        \* item ids already given out (they are UUIDs)
    applied      \* history: the deletions the author of bookmarks had applied

vars == <<local, tombs, progress, bookmarks, tombstones, task, clock, edits, born, applied>>

Objects == {"progress", "bookmarks", "tombstones"}

Stages == {"idle", "start", "readBookmarks", "readTombstones",
           "casTombstones", "casProgress", "casBookmarks", "putLocal"}

\* A pass keeps what it has read; current holds the objects whose version, as
\* read (absence included), is the version in the bucket: a conditional PUT
\* succeeds exactly on those.
Task == [pc : Stages, mode : SyncModes, left : Nat, base : Meta,
         rp : Progress, rb : Bookmarks, lt : TombSet, rt : TombSet,
         current : SUBSET Objects]

IdleTask == [pc |-> "idle", mode |-> "bidirectional", left |-> 0, base |-> NoMeta,
             rp |-> NoProgress, rb |-> NoBookmarks, lt |-> NoTombs, rt |-> NoTombs,
             current |-> {}]

Init ==
    /\ local      = [d \in Devices |-> NoMeta]
    /\ tombs      = [d \in Devices |-> NoTombs]
    /\ progress   = NoProgress
    /\ bookmarks  = NoBookmarks
    /\ tombstones = NoTombs
    /\ task       = [d \in Devices |-> IdleTask]
    /\ clock      = [d \in Devices |-> 0]
    /\ edits      = 0
    /\ born       = {}
    /\ applied    = NoTombs

-----------------------------------------------------------------------------
(* Operations of the app on the local cache *)

\* now_millis() on d reads t.
ReadClock(d, t) ==
    /\ ClockModel = "monotonic"    => t > clock[d]
    /\ ClockModel = "synchronised" => \A e \in Devices : t > clock[e]
    /\ clock' = IF ClockModel = "arbitrary" THEN clock ELSE [clock EXCEPT ![d] = t]

\* Variant with a fault: a call that does not wait for the mutex.
AppMayRunAnyTime(d, op) ==
    /\ op \in AppOps
    /\ edits < MaxEdits
    /\ edits' = edits + 1

AppMayRun(d, op) ==
    /\ op \in AppOps
    /\ edits < MaxEdits
    /\ AppSerialized => task[d].pc = "idle"
    /\ edits' = edits + 1

\* put_local_meta by the app: a new position, ...
EditProgress(d, t) ==
    /\ AppMayRun(d, "progress")
    /\ ReadClock(d, t)
    /\ LET m == [local[d] EXCEPT !.has = TRUE, !.prog = edits + 1, !.wall = t, !.dev = d]
       IN  local' = [local EXCEPT ![d] = Put(local[d], m, FALSE)]
    /\ UNCHANGED <<tombs, progress, bookmarks, tombstones, task, born, applied>>

\* ... a new or changed item, with or without a new position.
EditItem(d, t, i, c, op) ==
    /\ op \in {"item", "both"}
    /\ AppMayRun(d, op)
    /\ ReadClock(d, t)
    /\ Present(local[d].items[i]) \/ i \notin born
    /\ born' = born \cup {i}
    /\ LET m == [local[d] EXCEPT !.has = TRUE, !.wall = t, !.dev = d,
                                 !.items[i] = [n |-> edits + 1, c |-> c],
                                 !.prog = IF op = "both" THEN edits + 1 ELSE @]
       IN  local' = [local EXCEPT ![d] = Put(local[d], m, FALSE)]
    /\ UNCHANGED <<tombs, progress, bookmarks, tombstones, task, applied>>

\* One more than the largest of the logical times in known.
IsNext(l, known) == (\A k \in known : k < l) /\ l - 1 \in known

\* mark_meta_item_deleted writes the metadata, then the tombstone; a crash
\* between the two leaves an item that is gone without a tombstone.
MarkDeleted(d, t, i, finished) ==
    LET known == {local[d].logical} \cup {tombs[d][j].del : j \in Items}
                                    \cup {tombs[d][j].rev : j \in Items}
    IN  /\ AppMayRun(d, "delete")
        /\ ReadClock(d, t)
        /\ local[d].has /\ Present(local[d].items[i])
        /\ \E l \in 1..MaxEdits :
             /\ IsNext(l, known)
             /\ LET m == [local[d] EXCEPT !.items[i] = NoItem, !.logical = l,
                                          !.wall = t, !.dev = d]
                IN  local' = [local EXCEPT ![d] = Put(local[d], m, FALSE)]
             /\ tombs' = IF finished
                         THEN [tombs EXCEPT ![d][i].del = l,
                                            ![d][i].snap = local[d].items[i]]
                         ELSE tombs
        /\ UNCHANGED <<progress, bookmarks, tombstones, task, born, applied>>

\* undo_deletion restores the item from the tombstone's snapshot, then replaces
\* the tombstone with a revival; a crash in between leaves the tombstone.
UndoDeletion(d, t, i, finished) ==
    LET l == Larger(local[d].logical, tombs[d][i].del) + 1
        m == [local[d] EXCEPT !.items[i] = tombs[d][i].snap, !.logical = l,
                              !.wall = t, !.dev = d]
    IN  /\ AppMayRun(d, "undo")
        /\ ReadClock(d, t)
        /\ local[d].has /\ tombs[d][i].del > 0
        /\ \E o \in BOOLEAN : local' = [local EXCEPT ![d] = Put(local[d], m, o)]
        /\ tombs' = IF finished
                    THEN [tombs EXCEPT ![d][i] =
                            [del |-> 0, snap |-> NoItem, rev |-> Larger(l, tombs[d][i].rev)]]
                    ELSE tombs
        /\ UNCHANGED <<progress, bookmarks, tombstones, task, born, applied>>

-----------------------------------------------------------------------------
(* A sync pass.  A local read or write is part of the step of the request it *)
(* stands next to in the code: other devices cannot tell the two apart.      *)

\* What the mode lets the pass see of what it read.
SeenProgress(k)  == IF k.mode = "push_only" THEN NoProgress ELSE k.rp
SeenBookmarks(k) == IF k.mode = "push_only" THEN NoBookmarks ELSE k.rb
SeenTombs(k)     == IF k.mode = "push_only" THEN NoTombs ELSE k.rt

MergedTombs(k) == MergeTombs(k.lt, SeenTombs(k))

\* Variant with a fault: deletions are applied to the cache, not to the merge.
MergedAfterFiltering(k) ==
    MergeMeta([k.base EXCEPT !.items = ApplyTombs(@, MergedTombs(k))],
              SeenProgress(k), SeenBookmarks(k))

Merged(k) ==
    LET m == MergeMeta(k.base, SeenProgress(k), SeenBookmarks(k))
    IN  [m EXCEPT !.items = ApplyTombs(@, MergedTombs(k))]

\* The local read and the first request of an attempt.
StartAttempt(d, mode, left) ==
    task' = [task EXCEPT ![d] =
        [IdleTask EXCEPT !.pc = "readBookmarks", !.mode = mode, !.left = left,
                         !.base = IF mode = "pull_only" THEN NoMeta ELSE Normalize(local[d]),
                         !.rp = progress,
                         !.current = {"progress"}]]

Sync(d, mode) ==
    /\ task[d].pc = "idle"
    /\ StartAttempt(d, mode, MaxAttempts)
    /\ UNCHANGED <<local, tombs, progress, bookmarks, tombstones, clock, edits, born, applied>>

Retry(d) ==
    /\ task[d].pc = "start"
    /\ StartAttempt(d, task[d].mode, task[d].left)
    /\ UNCHANGED <<local, tombs, progress, bookmarks, tombstones, clock, edits, born, applied>>

ReadBookmarks(d) ==
    /\ task[d].pc = "readBookmarks"
    /\ task' = [task EXCEPT ![d].pc = "readTombstones", ![d].rb = bookmarks, ![d].lt = tombs[d],
                            ![d].current = @ \cup {"bookmarks"}]
    /\ UNCHANGED <<local, tombs, progress, bookmarks, tombstones, clock, edits, born, applied>>

\* The task in stage pc; a finished pass keeps nothing.
At(k, pc) == IF pc = "idle" THEN IdleTask ELSE [k EXCEPT !.pc = pc]

\* The position and the marks the pass would write.
NewProgress(k)  == [has |-> TRUE, prog |-> Merged(k).prog, st |-> Merged(k).pst]
NewBookmarks(k) == [has |-> TRUE, items |-> Merged(k).items, st |-> Merged(k).bst]

ProgressMatches(k) ==
    LET m == Merged(k)
        r == SeenProgress(k)
    IN  IF r.has THEN r.prog = m.prog /\ r.st = m.pst ELSE m.prog = NoPosition

\* Variant with a fault: equal stamps are taken for equal lists.
BookmarksMatchByStamp(k, reordered) ==
    LET m == Merged(k)
        r == SeenBookmarks(k)
    IN  IF r.has THEN r.st = m.bst ELSE m.items = NoItems

BookmarksMatch(k, reordered) ==
    LET m == Merged(k)
        r == SeenBookmarks(k)
    IN  IF r.has THEN ~ItemsDiffer(r.items, m.items, reordered) /\ r.st = m.bst
                 ELSE m.items = NoItems

LocalMatches(k, reordered) ==
    /\ k.base.has
    /\ ~ItemsDiffer(k.base.items, Merged(k).items, reordered)
    /\ k.base = Merged(k)

Writes(k) == k.mode # "pull_only"

\* The stage a pass goes to once the bookmarks, the progress or the tombstones are done.
AfterBookmarks(k, o) ==
    IF k.mode # "push_only" /\ ~LocalMatches(k, o) THEN "putLocal" ELSE "idle"

AfterProgress(k, o) ==
    IF Writes(k) /\ ~BookmarksMatch(k, o) THEN "casBookmarks" ELSE AfterBookmarks(k, o)

AfterTombstones(k, o) ==
    IF Writes(k) /\ ~ProgressMatches(k) THEN "casProgress" ELSE AfterProgress(k, o)

\* Nothing on either side: the pass ends without creating anything.
NothingExists(k) ==
    ~k.base.has /\ ~k.rp.has /\ ~k.rb.has /\ NoneSet(MergedTombs(k))

\* Variant with a fault: tombstones stay on the device, as the comment in
\* mark_meta_item_deleted still says.
ReadTombstonesLocalOnly(d) ==
    LET k == [task[d] EXCEPT !.rt = tombstones, !.current = @ \cup {"tombstones"}]
    IN  /\ task[d].pc = "readTombstones"
        /\ tombs' = [tombs EXCEPT ![d] = IF NothingExists(k) THEN @ ELSE MergedTombs(k)]
        /\ task' = [task EXCEPT ![d] =
               At(k, IF NothingExists(k) THEN "idle" ELSE AfterTombstones(k, FALSE))]
        /\ UNCHANGED <<local, progress, bookmarks, tombstones, clock, edits, born, applied>>

ReadTombstones(d) ==
    LET k == [task[d] EXCEPT !.rt = tombstones, !.current = @ \cup {"tombstones"}]
    IN  /\ task[d].pc = "readTombstones"
        /\ tombs' = [tombs EXCEPT ![d] = IF NothingExists(k) THEN @ ELSE MergedTombs(k)]
        /\ \E o \in BOOLEAN :
             task' = [task EXCEPT ![d] =
                 At(k, IF NothingExists(k) THEN "idle"
                       ELSE IF Writes(k) /\ TombsDiffer(SeenTombs(k), MergedTombs(k), o)
                            THEN "casTombstones" ELSE AfterTombstones(k, o))]
        /\ UNCHANGED <<local, progress, bookmarks, tombstones, clock, edits, born, applied>>

\* With content hashes for versions, a pass does not notice that an object was
\* changed and changed back to what it has read.
AsRead(k, object) ==
    /\ ContentVersions
    /\ \/ object = "progress"   /\ k.rp = progress'
       \/ object = "bookmarks"  /\ k.rb = bookmarks'
       \/ object = "tombstones" /\ k.rt = tombstones'

AfterWrite(k, object) ==
    [k EXCEPT !.current = IF AsRead(k, object) THEN @ \cup {object} ELSE @ \ {object}]

\* A conditional PUT of object by d succeeds, and d goes on to stage pc.
Written(d, object, pc) ==
    /\ object \in task[d].current
    /\ task' = [e \in Devices |-> IF e = d THEN At(AfterWrite(task[d], object), pc)
                                  ELSE AfterWrite(task[e], object)]

\* The PUT is carried out but its answer is lost: the HTTP client sends it again
\* and finds the version it has made itself, which LoseRace takes for another's.
Unheard(d, object) == Faults /\ Written(d, object, task[d].pc)

\* Variants with a fault: a PUT without If-Match.
Overwritten(d, pc) == task' = [task EXCEPT ![d] = At(@, pc)]

WriteProgressBlindly(d) ==
    /\ task[d].pc = "casProgress"
    /\ Overwritten(d, AfterProgress(task[d], FALSE))
    /\ progress' = NewProgress(task[d])
    /\ UNCHANGED <<local, tombs, bookmarks, tombstones, clock, edits, born, applied>>

WriteBookmarksBlindly(d) ==
    /\ task[d].pc = "casBookmarks"
    /\ Overwritten(d, AfterBookmarks(task[d], FALSE))
    /\ bookmarks' = NewBookmarks(task[d])
    /\ applied' = MergedTombs(task[d])
    /\ UNCHANGED <<local, tombs, progress, tombstones, clock, edits, born>>

WriteTombstones(d) ==
    LET k == task[d]
    IN  /\ k.pc = "casTombstones"
        /\ tombstones' = MergedTombs(k)
        /\ \/ \E o \in BOOLEAN : Written(d, "tombstones", AfterTombstones(k, o))
           \/ Unheard(d, "tombstones")
        /\ UNCHANGED <<local, tombs, progress, bookmarks, clock, edits, born, applied>>

WriteProgress(d) ==
    LET k == task[d]
    IN  /\ k.pc = "casProgress"
        /\ progress' = NewProgress(k)
        /\ \/ \E o \in BOOLEAN : Written(d, "progress", AfterProgress(k, o))
           \/ Unheard(d, "progress")
        /\ UNCHANGED <<local, tombs, bookmarks, tombstones, clock, edits, born, applied>>

WriteBookmarks(d) ==
    LET k == task[d]
    IN  /\ k.pc = "casBookmarks"
        /\ bookmarks' = NewBookmarks(k)
        /\ \/ \E o \in BOOLEAN : Written(d, "bookmarks", AfterBookmarks(k, o))
           \/ Unheard(d, "bookmarks")
        /\ applied' = MergedTombs(k)
        /\ UNCHANGED <<local, tombs, progress, tombstones, clock, edits, born>>

\* The object a pass is about to write.
Target(k) == CASE k.pc = "casTombstones" -> {"tombstones"}
               [] k.pc = "casProgress"   -> {"progress"}
               [] k.pc = "casBookmarks"  -> {"bookmarks"}
               [] OTHER                  -> {}

\* Variant with a fault: one attempt too many.
LoseRaceOnceMore(d) ==
    /\ Target(task[d]) # {} /\ Target(task[d]) \cap task[d].current = {}
    /\ task' = [task EXCEPT ![d] =
           IF @.left = 0 THEN IdleTask
           ELSE [IdleTask EXCEPT !.pc = "start", !.mode = task[d].mode,
                                 !.left = task[d].left - 1]]
    /\ UNCHANGED <<local, tombs, progress, bookmarks, tombstones, clock, edits, born, applied>>

\* A conditional PUT finds another version: the attempt is given up, and after
\* the last one the pass fails with Conflict.
LoseRace(d) ==
    LET k == task[d]
    IN  /\ Target(k) # {} /\ Target(k) \cap k.current = {}
        /\ task' = [task EXCEPT ![d] =
               IF k.left = 1 THEN IdleTask
               ELSE [IdleTask EXCEPT !.pc = "start", !.mode = k.mode, !.left = k.left - 1]]
        /\ UNCHANGED <<local, tombs, progress, bookmarks, tombstones, clock, edits, born, applied>>

PutLocal(d) ==
    /\ task[d].pc = "putLocal"
    /\ \E o \in BOOLEAN :
         local' = [local EXCEPT ![d] = Put(local[d], Merged(task[d]), o)]
    /\ task' = [task EXCEPT ![d] = IdleTask]
    /\ UNCHANGED <<tombs, progress, bookmarks, tombstones, clock, edits, born, applied>>

\* A request fails, with or without having been carried out, or the process
\* dies: the pass is gone and what it has written stays.
Abort(d) ==
    /\ Faults
    /\ task[d].pc # "idle"
    /\ task' = [task EXCEPT ![d] = IdleTask]
    /\ UNCHANGED <<local, tombs, progress, bookmarks, tombstones, clock, edits, born, applied>>

-----------------------------------------------------------------------------
Finishes == IF Faults THEN BOOLEAN ELSE {TRUE}

App(d) ==
    \E t \in Clocks :
        \/ EditProgress(d, t)
        \/ \E i \in Items :
             \/ \E c \in CreateTs, op \in {"item", "both"} : EditItem(d, t, i, c, op)
             \/ \E f \in Finishes : MarkDeleted(d, t, i, f)
             \/ \E f \in Finishes : UndoDeletion(d, t, i, f)

Step(d) ==
    \/ Retry(d)
    \/ ReadBookmarks(d)
    \/ ReadTombstones(d)
    \/ WriteTombstones(d)
    \/ WriteProgress(d)
    \/ WriteBookmarks(d)
    \/ LoseRace(d)
    \/ PutLocal(d)

Next ==
    \E d \in Devices :
        \/ App(d)
        \/ \E mode \in Modes : Sync(d, mode)
        \/ Step(d)
        \/ Abort(d)

Spec == Init /\ [][Next]_vars

\* The scheduler and the app call sync again and again, and a request ends.
Fairness ==
    \A d \in Devices : WF_vars(\E mode \in Modes : Sync(d, mode)) /\ WF_vars(Step(d))

FairSpec == Spec /\ Fairness

-----------------------------------------------------------------------------
(* Properties *)

TypeOK ==
    /\ local \in [Devices -> Meta]
    /\ tombs \in [Devices -> TombSet]
    /\ progress \in Progress
    /\ bookmarks \in Bookmarks
    /\ tombstones \in TombSet
    /\ task \in [Devices -> Task]
    /\ clock \in [Devices -> Nat]
    /\ edits \in Nat
    /\ born \subseteq Items
    /\ applied \in TombSet
    /\ \A d \in Devices : task[d].pc = "idle" <=> task[d].left = 0
    /\ \A d \in Devices : task[d].left <= MaxAttempts

Has(items, i) == Present(items[i])

\* Conditional writes and LWW: the position in the bucket is never replaced by
\* one with an older stamp, whatever the clocks and however passes interleave
\* (merge_meta_with_remote, write_remote_progress_conditional).
RemoteProgressLww == [][~StampLess(progress'.st, progress.st)]_vars

\* What is known of a deletion: x knows no more than y.
TombLeq(x, y) == x.del <= y.del /\ x.rev <= y.rev

\* No pass takes a deletion or a revival away that another device has put in
\* tombstones.json: concurrent additions survive (TombstoneSet::merge and the
\* conditional write of the merged set).
RemoteTombstonesGrow ==
    [][\A i \in Items : TombLeq(tombstones[i], tombstones'[i])]_vars

\* An item whose deletion has reached bookmarks.json comes back there only by a
\* revival later than that deletion, never from the stale cache or the stale
\* reads of another device.  It takes the order of the requests: bookmarks are
\* read before tombstones and written after them.
NoResurrection ==
    [][\A i \in Items : Dead(applied[i]) /\ Has(bookmarks'.items, i)
                            => tombstones'[i].rev > applied[i].del]_vars

\* What the bucket is to the devices together: the stamp of the position, the
\* logical times of the deletions, and the list with the deletions behind it.
DeletionTimes(set) == [i \in Items |-> [del |-> set[i].del, rev |-> set[i].rev]]

Shared == INSTANCE SharedMeta WITH
    position <- progress.st,
    known    <- DeletionTimes(tombstones),
    behind   <- DeletionTimes(applied),
    listed   <- {i \in Items : Present(bookmarks.items[i])}

\* The three objects and their conditional PUTs implement SharedMeta: no pass
\* works against what another one has put in the bucket.
SharedBucket == Shared!Spec

\* The strengthening that the safety properties of the bucket follow from, for
\* modes that read it (the code's push_only ignores what it has read).
ReadsRemote == "push_only" \notin Modes

Writing == {"casTombstones", "casProgress", "casBookmarks"}

AllLeq(x, y) == \A i \in Items : TombLeq(x[i], y[i])

\* What a pass has read is still there as long as its version is current; it has
\* seen the deletions behind bookmarks.json when it may still replace the file
\* (if a file cannot come back to an earlier version), and its own deletions are
\* in the bucket before it writes anything else.
PassSafe(k) ==
    /\ k.mode # "push_only"
    /\ "progress" \in k.current => k.rp = progress
    /\ "tombstones" \in k.current => k.rt = tombstones
    /\ k.pc \in Writing /\ "bookmarks" \in k.current /\ ~ContentVersions
          => AllLeq(applied, k.rt)
    /\ k.pc \in {"casProgress", "casBookmarks"} => AllLeq(MergedTombs(k), tombstones)

\* Whoever wrote bookmarks.json had put every deletion it applied there in
\* tombstones.json first: no reader finds an item gone without finding why
\* (the order of the requests in sync_single_meta_attempt).
AppliedIsRemote == AllLeq(applied, tombstones)

BucketInv ==
    /\ \A d \in Devices : PassSafe(task[d])
    /\ AppliedIsRemote
    /\ \A i \in Items : Has(bookmarks.items, i) => ~Dead(applied[i])
    /\ ~progress.has => progress.st = NoStamp

\* While app operations wait for a running pass (KmoSync.kt), the pass works on
\* the cache as it is: what it has read of it does not get stale.
CacheInv ==
    AppSerialized => \A d \in Devices :
        /\ task[d].pc \in Stages \ {"idle", "start"} /\ task[d].mode # "pull_only"
              => task[d].base = Normalize(local[d])
        /\ task[d].pc \in Writing \cup {"putLocal"} => tombs[d] = MergedTombs(task[d])

\* No pass brings an item that is deleted on a device back there while the
\* device's own tombstone for it stands.
DeletionSticks ==
    [][edits' = edits => \A d \in Devices, i \in Items :
          Dead(tombs[d][i]) /\ ~Has(local[d].items, i) /\ Has(local'[d].items, i)
             => ~Dead(tombs'[d][i])]_vars

\* A pass that reads the cache takes an item from a device only because of a
\* deletion: merging keeps the items the other side does not have
\* (merge_meta_with_remote, apply_tombstones_to_meta, the PUT of the result).
ItemsKept ==
    [][edits' = edits => \A d \in Devices, i \in Items :
          task[d].mode # "pull_only" /\ Has(local[d].items, i) /\ ~Has(local'[d].items, i)
             => Dead(tombs'[d][i])]_vars

\* The last step of a pass that does not fail.
Finish(d) ==
    /\ task[d].pc # "idle" /\ task'[d].pc = "idle"
    /\ PutLocal(d) \/ ReadTombstones(d) \/ WriteTombstones(d) \/ WriteProgress(d)
                   \/ WriteBookmarks(d)

\* What the pass has read or written is in the bucket, and the cache is what it
\* has worked on.
Undisturbed(d) ==
    LET k == task[d]
    IN  /\ k.base = Normalize(local[d])
        /\ tombs[d] = IF k.pc = "readTombstones" THEN k.lt ELSE MergedTombs(k)
        /\ \/ "progress" \in k.current
           \/ k.pc # "readTombstones" /\ progress = NewProgress(k)
        /\ \/ "bookmarks" \in k.current
           \/ k.pc # "readTombstones" /\ bookmarks = NewBookmarks(k)
        /\ \/ "tombstones" \in k.current
           \/ k.pc = "readTombstones"
           \/ tombstones = MergedTombs(k)

\* Device and bucket hold the same position, items and deletions.
Agrees(l, ts, p, b, rts) ==
    /\ l.prog = p.prog
    /\ l.items = b.items
    /\ AllLeq(ts, rts) /\ AllLeq(rts, ts)

\* A pass in both directions that nobody disturbed leaves its device and the
\* bucket in agreement: the comparisons that decide which PUTs are skipped
\* overlook nothing (sync_single_meta_attempt).  What keeps devices apart for
\* ever is thus only that they disturb each other for ever.
PassAgrees ==
    [][\A d \in Devices :
          Finish(d) /\ task[d].mode = "bidirectional" /\ Undisturbed(d)
             => Agrees(local'[d], tombs'[d], progress', bookmarks', tombstones')]_vars

\* The strengthening it follows from: an object that is as a pass has read it is
\* one the pass did not write, because it found that there is nothing to write.
SkipsHonest(k) ==
    /\ "bookmarks" \in k.current => k.rb = bookmarks
    /\ ~k.rp.has => k.rp = NoProgress
    /\ ~k.rb.has => k.rb = NoBookmarks
    /\ k.mode = "bidirectional" =>
         /\ k.pc \in {"casProgress", "casBookmarks", "putLocal"}
              => ("tombstones" \in k.current => k.rt = MergedTombs(k))
         /\ k.pc \in {"casBookmarks", "putLocal"}
              => ("progress" \in k.current => k.rp.prog = Merged(k).prog)
         /\ k.pc = "putLocal"
              => ("bookmarks" \in k.current => k.rb.items = Merged(k).items)

SkipInv ==
    /\ \A d \in Devices : SkipsHonest(task[d]) /\ (~local[d].has => local[d] = NoMeta)
    /\ ~progress.has => progress = NoProgress
    /\ ~bookmarks.has => bookmarks = NoBookmarks

\* When the edits stop, every device and the bucket come to agree and stay so
\* (sync_single_meta_inner, called again and again).
Convergence == <>[](\A d \in Devices :
    local[d].prog = progress.prog /\ local[d].items = bookmarks.items)

=============================================================================
