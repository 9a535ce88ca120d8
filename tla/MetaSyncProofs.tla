---------------------------- MODULE MetaSyncProofs ----------------------------
(***************************************************************************)
(* Proofs about MetaSync, for any devices, items, clocks and bounds.       *)
(***************************************************************************)
EXTENDS MetaSync, TLAPS

-----------------------------------------------------------------------------
(* The operators of the model keep to their types. *)

\* The empty values have their types.
LEMMA EmptyTypes ==
    /\ NoStamp \in Stamp /\ NoPosition \in Position /\ NoItem \in Item
    /\ NoItems \in [Items -> Item]
    /\ NoMeta \in Meta /\ NoTombs \in TombSet
    /\ NoProgress \in Progress /\ NoBookmarks \in Bookmarks
    /\ IdleTask \in Task
<1>1. NoStamp \in Stamp /\ NoPosition \in Position /\ NoItem \in Item
  BY DEF NoStamp, Stamp, NoPosition, Position, NoItem, Item
<1>2. NoItems \in [Items -> Item]
  BY <1>1 DEF NoItems
<1>3. NoMeta \in Meta
  BY <1>1, <1>2 DEF NoMeta, Meta
<1>4. NoTombs \in TombSet
  BY <1>1 DEF NoTombs, TombSet, Tomb
<1>5. NoProgress \in Progress /\ NoBookmarks \in Bookmarks
  BY <1>1, <1>2 DEF NoProgress, NoBookmarks, Progress, Bookmarks
<1>6. IdleTask \in Task
  BY <1>3, <1>4, <1>5 DEF IdleTask, Task, Stages, SyncModes
<1> QED
  BY <1>1, <1>2, <1>3, <1>4, <1>5, <1>6

\* Filling in the writer pairs of a metadata record gives a metadata record.
LEMMA NormalizeType ==
    ASSUME NEW m \in Meta
    PROVE  Normalize(m) \in Meta
BY EmptyTypes DEF Normalize, Meta, Stamp

\* What put_local_meta writes is a metadata record.
LEMMA PutType ==
    ASSUME NEW p \in Meta, NEW m \in Meta, NEW o
    PROVE  Put(p, m, o) \in Meta
<1> DEFINE nm == Normalize(m)
           np == Normalize(p)
<1>1. nm \in Meta /\ np \in Meta
  BY NormalizeType
<1> HIDE DEF nm, np
<1>2. /\ Larger(np.wall, nm.wall) \in Nat
      /\ Larger(np.logical, nm.logical) \in Nat
  BY <1>1 DEF Larger, Meta
<1>3. [t |-> Larger(np.wall, nm.wall), d |-> nm.dev] \in Stamp
  BY <1>1, <1>2 DEF Meta, Stamp
<1> QED
  BY <1>1, <1>2, <1>3 DEF Put, Meta, nm, np

\* Merging item lists gives an item list.
LEMMA ItemsType ==
    ASSUME NEW x \in [Items -> Item], NEW y \in [Items -> Item], NEW ts
    PROVE  /\ AppendMissing(x, y) \in [Items -> Item]
           /\ Union(x, y) \in [Items -> Item]
           /\ ApplyTombs(x, ts) \in [Items -> Item]
BY EmptyTypes DEF AppendMissing, Union, ApplyTombs

\* Merging tombstone sets gives a tombstone set that knows what either knew.
LEMMA MergeTombsType ==
    ASSUME NEW x \in TombSet, NEW y \in TombSet
    PROVE  /\ MergeTombs(x, y) \in TombSet
           /\ \A i \in Items : /\ TombLeq(x[i], MergeTombs(x, y)[i])
                               /\ TombLeq(y[i], MergeTombs(x, y)[i])
<1>1. ASSUME NEW i \in Items
      PROVE  /\ MergeTomb(x[i], y[i]) \in Tomb
             /\ TombLeq(x[i], MergeTomb(x[i], y[i]))
             /\ TombLeq(y[i], MergeTomb(x[i], y[i]))
  <2>1. x[i] \in Tomb /\ y[i] \in Tomb
    BY DEF TombSet
  <2> QED
    BY <2>1 DEF MergeTomb, Tomb, TombLeq, Larger
<1> QED
  BY <1>1 DEF MergeTombs, TombSet

\* merge_meta_with_remote gives a metadata record whose position is at least as
\* new as the remote one it has seen.
LEMMA MergeMetaType ==
    ASSUME NEW b \in Meta, NEW rp \in Progress, NEW rb \in Bookmarks
    PROVE  /\ MergeMeta(b, rp, rb) \in Meta
           /\ rp.has => ~StampLess(MergeMeta(b, rp, rb).pst, rp.st)
<1>1. MergeItems(b, rb) \in [Items -> Item]
  BY ItemsType DEF MergeItems, Meta, Bookmarks
<1>2. b.pst \in Stamp /\ b.bst \in Stamp /\ rp.st \in Stamp /\ rb.st \in Stamp
      /\ rp.prog \in Position /\ b.prog \in Position
  BY DEF Meta, Progress, Bookmarks
<1>3. MergeMeta(b, rp, rb) \in Meta
  BY <1>1, <1>2 DEF MergeMeta, Meta, Stamp
<1>4. rp.has => ~StampLess(MergeMeta(b, rp, rb).pst, rp.st)
  <2>1. MergeMeta(b, rp, rb).pst = IF rp.has /\ StampLess(b.pst, rp.st) THEN rp.st ELSE b.pst
    BY DEF MergeMeta, Meta
  <2> QED
    BY <1>2, <2>1 DEF StampLess, Stamp
<1> QED
  BY <1>3, <1>4

\* What a pass merges from what it has read is well-typed.
LEMMA MergedType ==
    ASSUME NEW k \in Task
    PROVE  /\ Merged(k) \in Meta
           /\ MergedTombs(k) \in TombSet
<1>1. k.base \in Meta /\ k.lt \in TombSet
  BY DEF Task
<1>2. SeenProgress(k) \in Progress /\ SeenBookmarks(k) \in Bookmarks /\ SeenTombs(k) \in TombSet
  BY EmptyTypes DEF Task, SeenProgress, SeenBookmarks, SeenTombs
<1>3. MergedTombs(k) \in TombSet
  BY <1>1, <1>2, MergeTombsType DEF MergedTombs
<1> DEFINE m == MergeMeta(k.base, SeenProgress(k), SeenBookmarks(k))
<1>4. m \in Meta
  BY <1>1, <1>2, MergeMetaType
<1> HIDE DEF m
<1>5. ApplyTombs(m.items, MergedTombs(k)) \in [Items -> Item]
  BY <1>4, ItemsType DEF Meta
<1>6. Merged(k) = [m EXCEPT !.items = ApplyTombs(m.items, MergedTombs(k))]
  BY DEF Merged, m
<1>7. Merged(k) \in Meta
  BY <1>4, <1>5, <1>6 DEF Meta
<1> QED
  BY <1>3, <1>7

\* The stages that may follow each stage of a pass, and what they imply.
LEMMA StageType ==
    ASSUME NEW k \in Task, NEW o
    PROVE  /\ AfterBookmarks(k, o) \in {"putLocal", "idle"}
           /\ AfterProgress(k, o) \in {"casBookmarks", "putLocal", "idle"}
           /\ AfterTombstones(k, o) \in {"casProgress", "casBookmarks", "putLocal", "idle"}
           /\ AfterTombstones(k, o) \in {"casProgress", "casBookmarks"} => Writes(k)
           /\ AfterProgress(k, o) = "casBookmarks" => Writes(k)
BY DEF AfterBookmarks, AfterProgress, AfterTombstones

\* The task a pass is left with in stage pc: idle tasks have no attempt left.
LEMMA AtType ==
    ASSUME NEW k \in Task, NEW pc \in Stages
    PROVE  /\ At(k, pc) \in Task
           /\ At(k, pc).pc = pc
           /\ pc # "idle" => At(k, pc) = [k EXCEPT !.pc = pc]
           /\ At(k, "idle") = IdleTask
<1>1. CASE pc = "idle"
  BY <1>1, EmptyTypes DEF At, IdleTask
<1>2. CASE pc # "idle"
  BY <1>2 DEF At, Task
<1> QED
  BY <1>1, <1>2 DEF At

-----------------------------------------------------------------------------
(* Type correctness *)

\* The attempt counter: it is zero exactly in idle tasks.
Counted(k) == (k.pc = "idle" <=> k.left = 0) /\ k.left <= MaxAttempts

LEMMA TypeOKSplit ==
    TypeOK <=> /\ local \in [Devices -> Meta]
               /\ tombs \in [Devices -> TombSet]
               /\ progress \in Progress
               /\ bookmarks \in Bookmarks
               /\ tombstones \in TombSet
               /\ task \in [Devices -> Task]
               /\ clock \in [Devices -> Nat]
               /\ edits \in Nat
               /\ born \subseteq Items
               /\ applied \in TombSet
               /\ \A d \in Devices : Counted(task[d])
BY DEF TypeOK, Counted

\* Starting an attempt with attempts left keeps the tasks well-typed.
LEMMA StartType ==
    ASSUME TypeOK, NEW d \in Devices, NEW mode \in SyncModes, NEW left \in 1..MaxAttempts,
           StartAttempt(d, mode, left)
    PROVE  task' \in [Devices -> Task] /\ \A e \in Devices : Counted(task'[e])
<1>1. local[d] \in Meta /\ progress \in Progress
  BY DEF TypeOK
<1> DEFINE base == IF mode = "pull_only" THEN NoMeta ELSE Normalize(local[d])
           k == [IdleTask EXCEPT !.pc = "readBookmarks", !.mode = mode, !.left = left,
                                 !.base = base, !.rp = progress, !.current = {"progress"}]
<1>2. base \in Meta
  BY <1>1, NormalizeType, EmptyTypes
<1> HIDE DEF base
<1>3. k \in Task /\ Counted(k)
  <2>1. left \in Nat /\ left # 0 /\ left <= MaxAttempts
    BY BoundsAssumption
  <2>2. k \in Task
    BY <1>1, <1>2, <2>1, EmptyTypes DEF Task, Stages, Objects
  <2>3. k.pc = "readBookmarks" /\ k.left = left
    BY EmptyTypes DEF Task
  <2> QED
    BY <2>1, <2>2, <2>3 DEF Counted
<1>4. task' = [task EXCEPT ![d] = k]
  BY DEF StartAttempt, base
<1> HIDE DEF k
<1> QED
  BY <1>3, <1>4, TypeOKSplit

\* A pass that moves on, its task still counted, keeps the tasks well-typed.
LEMMA MoveType ==
    ASSUME TypeOK, NEW d \in Devices, NEW k \in Task, Counted(k),
           task' = [task EXCEPT ![d] = k]
    PROVE  task' \in [Devices -> Task] /\ \A e \in Devices : Counted(task'[e])
BY TypeOKSplit

\* A pass with an attempt left stays counted in any other stage.
LEMMA AtCounted ==
    ASSUME NEW k \in Task, NEW pc \in Stages, k.left # 0, Counted(k)
    PROVE  Counted(At(k, pc))
BY AtType, BoundsAssumption DEF Counted, IdleTask, Task

\* A write of an object changes only what is current for a pass.
LEMMA AfterWriteType ==
    ASSUME NEW k \in Task, NEW object \in Objects
    PROVE  /\ AfterWrite(k, object) \in Task
           /\ AfterWrite(k, object).pc = k.pc /\ AfterWrite(k, object).mode = k.mode
           /\ AfterWrite(k, object).left = k.left /\ AfterWrite(k, object).base = k.base
           /\ AfterWrite(k, object).rp = k.rp /\ AfterWrite(k, object).rb = k.rb
           /\ AfterWrite(k, object).lt = k.lt /\ AfterWrite(k, object).rt = k.rt
           /\ AfterWrite(k, object).current = IF AsRead(k, object) THEN k.current \cup {object}
                                              ELSE k.current \ {object}
<1> DEFINE c == IF AsRead(k, object) THEN k.current \cup {object} ELSE k.current \ {object}
<1>1. c \in SUBSET Objects
  BY DEF Task
<1>2. AfterWrite(k, object) = [k EXCEPT !.current = c]
  BY DEF AfterWrite
<1> HIDE DEF c
<1>3. /\ [k EXCEPT !.current = c] \in Task
      /\ [k EXCEPT !.current = c].pc = k.pc /\ [k EXCEPT !.current = c].mode = k.mode
      /\ [k EXCEPT !.current = c].left = k.left /\ [k EXCEPT !.current = c].base = k.base
      /\ [k EXCEPT !.current = c].rp = k.rp /\ [k EXCEPT !.current = c].rb = k.rb
      /\ [k EXCEPT !.current = c].lt = k.lt /\ [k EXCEPT !.current = c].rt = k.rt
      /\ [k EXCEPT !.current = c].current = c
  BY <1>1 DEF Task
<1> QED
  BY <1>2, <1>3 DEF c

\* A conditional PUT that succeeds keeps the tasks well-typed.
LEMMA WrittenType ==
    ASSUME TypeOK, NEW d \in Devices, NEW object \in Objects, NEW pc \in Stages,
           task[d].pc # "idle", Written(d, object, pc)
    PROVE  task' \in [Devices -> Task] /\ \A e \in Devices : Counted(task'[e])
<1>1. \A e \in Devices : task[e] \in Task /\ Counted(task[e])
  BY TypeOKSplit
<1>2. \A e \in Devices : /\ AfterWrite(task[e], object) \in Task
                         /\ Counted(AfterWrite(task[e], object))
  <2> TAKE e \in Devices
  <2>1. task[e] \in Task /\ Counted(task[e])
    BY <1>1
  <2>2. /\ AfterWrite(task[e], object) \in Task
        /\ AfterWrite(task[e], object).pc = task[e].pc
        /\ AfterWrite(task[e], object).left = task[e].left
    BY <2>1, AfterWriteType
  <2> QED
    BY <2>1, <2>2 DEF Counted
<1>3. /\ At(AfterWrite(task[d], object), pc) \in Task
      /\ Counted(At(AfterWrite(task[d], object), pc))
  <2> DEFINE k == AfterWrite(task[d], object)
  <2>1. k \in Task /\ Counted(k) /\ k.left # 0
    BY <1>1, <1>2, AfterWriteType DEF Counted
  <2> HIDE DEF k
  <2>2. At(k, pc) \in Task /\ Counted(At(k, pc))
    BY <2>1, AtType, AtCounted
  <2> QED
    BY <2>2 DEF k
<1> QED
  BY <1>2, <1>3 DEF Written

\* What an operation of the app does to the caches: it puts metadata over those of
\* its own device.
LEMMA AppMeta ==
    ASSUME TypeOK, NEW d \in Devices, App(d)
    PROVE  \E m \in Meta, o \in BOOLEAN :
              m.has /\ local' = [local EXCEPT ![d] = Put(local[d], m, o)]
<1> PICK t \in Clocks :
        \/ EditProgress(d, t)
        \/ \E i \in Items :
             \/ \E c \in CreateTs, op \in {"item", "both"} : EditItem(d, t, i, c, op)
             \/ \E f \in Finishes : MarkDeleted(d, t, i, f)
             \/ \E f \in Finishes : UndoDeletion(d, t, i, f)
  BY DEF App
<1>1. t \in Nat /\ d \in Nat
  BY ClocksAssumption, DevicesAssumption
<1>2. local[d] \in Meta /\ tombs[d] \in TombSet /\ edits + 1 \in Position
  BY DEF TypeOK, Position
<1>3. CASE EditProgress(d, t)
  <2> DEFINE m == [local[d] EXCEPT !.has = TRUE, !.prog = edits + 1, !.wall = t, !.dev = d]
  <2>1. m \in Meta /\ m.has = TRUE
    BY <1>1, <1>2 DEF Meta
  <2>2. local' = [local EXCEPT ![d] = Put(local[d], m, FALSE)]
    BY <1>3 DEF EditProgress
  <2> HIDE DEF m
  <2> QED
    BY <2>1, <2>2
<1>4. ASSUME NEW i \in Items, NEW c \in CreateTs, NEW op \in {"item", "both"},
             EditItem(d, t, i, c, op)
      PROVE  \E m \in Meta, o \in BOOLEAN :
                m.has /\ local' = [local EXCEPT ![d] = Put(local[d], m, o)]
  <2> DEFINE m == [local[d] EXCEPT !.has = TRUE, !.wall = t, !.dev = d,
                        !.items[i] = [n |-> edits + 1, c |-> c],
                        !.prog = IF op = "both" THEN edits + 1 ELSE local[d].prog]
  <2>1. [n |-> edits + 1, c |-> c] \in Item
    BY <1>2, CreateTsAssumption DEF Item, Position
  <2>2. m \in Meta /\ m.has = TRUE
    BY <1>1, <1>2, <2>1 DEF Meta
  <2>3. local' = [local EXCEPT ![d] = Put(local[d], m, FALSE)]
    BY <1>4 DEF EditItem
  <2> HIDE DEF m
  <2> QED
    BY <2>2, <2>3
<1>5. ASSUME NEW i \in Items, NEW f \in Finishes, MarkDeleted(d, t, i, f)
      PROVE  \E m \in Meta, o \in BOOLEAN :
                m.has /\ local' = [local EXCEPT ![d] = Put(local[d], m, o)]
  <2> PICK l \in 1..MaxEdits :
        local' = [local EXCEPT ![d] =
               Put(local[d], [local[d] EXCEPT !.items[i] = NoItem, !.logical = l,
                                              !.wall = t, !.dev = d], FALSE)]
    BY <1>5 DEF MarkDeleted
  <2> DEFINE m == [local[d] EXCEPT !.items[i] = NoItem, !.logical = l,
                                   !.wall = t, !.dev = d]
  <2>1. l \in Nat
    BY BoundsAssumption
  <2>2. m \in Meta /\ m.has = local[d].has
    BY <1>1, <1>2, <2>1, EmptyTypes DEF Meta
  <2>3. local' = [local EXCEPT ![d] = Put(local[d], m, FALSE)]
    OBVIOUS
  <2> HIDE DEF m
  <2>4. local[d].has
    BY <1>5 DEF MarkDeleted
  <2> QED
    BY <2>2, <2>3, <2>4
<1>6. ASSUME NEW i \in Items, NEW f \in Finishes, UndoDeletion(d, t, i, f)
      PROVE  \E m \in Meta, o \in BOOLEAN :
                m.has /\ local' = [local EXCEPT ![d] = Put(local[d], m, o)]
  <2> DEFINE l == Larger(local[d].logical, tombs[d][i].del) + 1
             m == [local[d] EXCEPT !.items[i] = tombs[d][i].snap, !.logical = l,
                                   !.wall = t, !.dev = d]
  <2>1. tombs[d][i] \in Tomb
    BY <1>2 DEF TombSet
  <2>2. l \in Nat
    BY <1>2, <2>1 DEF Larger, Meta, Tomb
  <2> HIDE DEF l
  <2>3. m \in Meta /\ m.has = local[d].has
    BY <1>1, <1>2, <2>1, <2>2 DEF Meta, Tomb
  <2>4. \E o \in BOOLEAN : local' = [local EXCEPT ![d] = Put(local[d], m, o)]
    BY <1>6 DEF UndoDeletion, l
  <2> HIDE DEF m
  <2>5. local[d].has
    BY <1>6 DEF UndoDeletion
  <2> QED
    BY <2>3, <2>4, <2>5
<1> QED
  BY <1>3, <1>4, <1>5, <1>6

\* Every operation of the app keeps the state well-typed.
LEMMA AppType ==
    ASSUME TypeOK, NEW d \in Devices, App(d)
    PROVE  TypeOK'
<1> PICK t \in Clocks :
        \/ EditProgress(d, t)
        \/ \E i \in Items :
             \/ \E c \in CreateTs, op \in {"item", "both"} : EditItem(d, t, i, c, op)
             \/ \E f \in Finishes : MarkDeleted(d, t, i, f)
             \/ \E f \in Finishes : UndoDeletion(d, t, i, f)
  BY DEF App
<1>1. t \in Nat
  BY ClocksAssumption
<1>2. /\ local \in [Devices -> Meta] /\ tombs \in [Devices -> TombSet]
      /\ clock \in [Devices -> Nat] /\ edits \in Nat /\ local[d] \in Meta
  BY DEF TypeOK
<1>3. ASSUME ReadClock(d, t)
      PROVE  clock' \in [Devices -> Nat]
  BY <1>1, <1>2, <1>3 DEF ReadClock
<1>4. ASSUME NEW op, AppMayRun(d, op)
      PROVE  edits' \in Nat
  BY <1>2, <1>4 DEF AppMayRun
<1>5. local' \in [Devices -> Meta]
  BY <1>2, AppMeta, PutType
<1>6. CASE EditProgress(d, t)
  BY <1>3, <1>4, <1>5, <1>6, TypeOKSplit DEF EditProgress, TypeOK
<1>7. ASSUME NEW i \in Items, NEW c \in CreateTs, NEW op \in {"item", "both"},
             EditItem(d, t, i, c, op)
      PROVE  TypeOK'
  BY <1>3, <1>4, <1>5, <1>7 DEF EditItem, TypeOK
<1>8. ASSUME NEW i \in Items, NEW f \in Finishes, MarkDeleted(d, t, i, f)
      PROVE  TypeOK'
  <2> PICK l \in 1..MaxEdits :
        tombs' = IF f THEN [tombs EXCEPT ![d][i].del = l, ![d][i].snap = local[d].items[i]]
                 ELSE tombs
    BY <1>8 DEF MarkDeleted
  <2>1. l \in Nat
    BY BoundsAssumption
  <2>2. tombs[d][i] \in Tomb /\ local[d].items[i] \in Item
    BY <1>2 DEF TombSet, Meta
  <2>3. [tombs[d][i] EXCEPT !.del = l, !.snap = local[d].items[i]] \in Tomb
    BY <2>1, <2>2 DEF Tomb
  <2>4. tombs' = IF f THEN [tombs EXCEPT ![d] =
                     [tombs[d] EXCEPT ![i] =
                        [tombs[d][i] EXCEPT !.del = l, !.snap = local[d].items[i]]]]
                 ELSE tombs
    BY <1>2 DEF TombSet
  <2> DEFINE x == [tombs[d][i] EXCEPT !.del = l, !.snap = local[d].items[i]]
  <2>5. [tombs[d] EXCEPT ![i] = x] \in TombSet
    BY <1>2, <2>3 DEF TombSet
  <2>6. tombs' = IF f THEN [tombs EXCEPT ![d] = [tombs[d] EXCEPT ![i] = x]] ELSE tombs
    BY <2>4
  <2> HIDE DEF x
  <2>7. tombs' \in [Devices -> TombSet]
    BY <1>2, <2>5, <2>6
  <2> QED
    BY <1>3, <1>4, <1>5, <1>8, <2>7 DEF MarkDeleted, TypeOK
<1>9. ASSUME NEW i \in Items, NEW f \in Finishes, UndoDeletion(d, t, i, f)
       PROVE  TypeOK'
  <2> DEFINE l == Larger(local[d].logical, tombs[d][i].del) + 1
  <2>1. tombs[d] \in TombSet /\ tombs[d][i] \in Tomb
    BY <1>2 DEF TombSet
  <2>2. l \in Nat
    BY <1>2, <2>1 DEF Larger, Meta, Tomb
  <2> HIDE DEF l
  <2>3. tombs' = IF f THEN [tombs EXCEPT ![d][i] =
                              [del |-> 0, snap |-> NoItem, rev |-> Larger(l, tombs[d][i].rev)]]
                      ELSE tombs
    BY <1>9 DEF UndoDeletion, l
  <2>4. [del |-> 0, snap |-> NoItem, rev |-> Larger(l, tombs[d][i].rev)] \in Tomb
    BY <2>1, <2>2, EmptyTypes DEF Tomb, Larger
  <2>5. tombs' \in [Devices -> TombSet]
    BY <1>2, <2>3, <2>4 DEF TombSet
  <2> QED
    BY <1>3, <1>4, <1>5, <1>9, <2>5 DEF UndoDeletion, TypeOK
<1> QED
  BY <1>6, <1>7, <1>8, <1>9

\* The task of a pass that has just read the tombstones, the last of the three reads.
ReadTask(d) == [task[d] EXCEPT !.rt = tombstones, !.current = @ \cup {"tombstones"}]

\* Where ReadTombstones leaves the pass.
LEMMA ReadTombstonesStep ==
    ASSUME TypeOK, NEW d \in Devices, ReadTombstones(d)
    PROVE  /\ ReadTask(d) \in Task
           /\ ReadTask(d).rt = tombstones
           /\ \E pc \in {"idle", "casTombstones", "casProgress", "casBookmarks", "putLocal"} :
                 /\ task' = [task EXCEPT ![d] = At(ReadTask(d), pc)]
                 /\ pc \in {"casTombstones", "casProgress", "casBookmarks"} => Writes(ReadTask(d))
                 /\ pc \in {"casProgress", "casBookmarks"} =>
                      \E o \in BOOLEAN : ~TombsDiffer(SeenTombs(ReadTask(d)),
                                                      MergedTombs(ReadTask(d)), o)
                 /\ pc # "idle" => ~NothingExists(ReadTask(d))
<1> DEFINE k == ReadTask(d)
<1>1. k \in Task /\ k.rt = tombstones
  BY DEF ReadTask, TypeOK, Task, Objects
<1>2. PICK o \in BOOLEAN :
        task' = [task EXCEPT ![d] =
                   At(k, IF NothingExists(k) THEN "idle"
                         ELSE IF Writes(k) /\ TombsDiffer(SeenTombs(k), MergedTombs(k), o)
                              THEN "casTombstones" ELSE AfterTombstones(k, o))]
  BY DEF ReadTombstones, ReadTask
<1> HIDE DEF k
<1>3. CASE NothingExists(k)
  BY <1>1, <1>2, <1>3 DEF k
<1>4. CASE ~NothingExists(k) /\ Writes(k) /\ TombsDiffer(SeenTombs(k), MergedTombs(k), o)
  BY <1>1, <1>2, <1>4 DEF k
<1>5. CASE ~NothingExists(k) /\ ~(Writes(k) /\ TombsDiffer(SeenTombs(k), MergedTombs(k), o))
  <2>1. AfterTombstones(k, o) \in {"casProgress", "casBookmarks", "putLocal", "idle"}
    BY <1>1, StageType
  <2>2. AfterTombstones(k, o) \in {"casProgress", "casBookmarks"} => Writes(k)
    BY <1>1, StageType
  <2>3. task' = [task EXCEPT ![d] = At(k, AfterTombstones(k, o))]
    BY <1>2, <1>5
  <2> QED
    BY <1>1, <1>5, <2>1, <2>2, <2>3 DEF k
<1> QED
  BY <1>3, <1>4, <1>5

\* Every step of a pass keeps the state well-typed.
LEMMA StepType ==
    ASSUME TypeOK, NEW d \in Devices, Step(d)
    PROVE  TypeOK'
<1>1. /\ task \in [Devices -> Task] /\ task[d] \in Task /\ Counted(task[d])
      /\ Merged(task[d]) \in Meta /\ MergedTombs(task[d]) \in TombSet
      /\ local[d] \in Meta /\ tombs[d] \in TombSet
  BY TypeOKSplit, MergedType
<1>2. CASE Retry(d)
  <2>1. task[d].mode \in SyncModes /\ task[d].left \in 1..MaxAttempts
    BY <1>1, <1>2, BoundsAssumption DEF Retry, Task, Counted
  <2>2. task' \in [Devices -> Task] /\ \A e \in Devices : Counted(task'[e])
    BY <1>2, <2>1, StartType DEF Retry
  <2> QED
    BY <1>2, <2>2, TypeOKSplit DEF Retry, TypeOK, Counted
<1>3. CASE ReadBookmarks(d)
  <2> DEFINE k == [task[d] EXCEPT !.pc = "readTombstones", !.rb = bookmarks, !.lt = tombs[d],
                                  !.current = @ \cup {"bookmarks"}]
  <2>1. bookmarks \in Bookmarks
    BY DEF TypeOK
  <2>2. k \in Task /\ Counted(k)
    BY <1>1, <1>3, <2>1 DEF ReadBookmarks, Task, Stages, Objects, Counted
  <2>3. task' = [task EXCEPT ![d] = k]
    BY <1>3 DEF ReadBookmarks
  <2> HIDE DEF k
  <2> QED
    BY <1>3, <2>2, <2>3, MoveType DEF ReadBookmarks, TypeOK, Counted
<1>4. CASE ReadTombstones(d)
  <2>1. PICK pc \in Stages : task' = [task EXCEPT ![d] = At(ReadTask(d), pc)]
    BY <1>4, ReadTombstonesStep DEF Stages
  <2>2. ReadTask(d) \in Task /\ MergedTombs(ReadTask(d)) \in TombSet
    BY <1>4, ReadTombstonesStep, MergedType
  <2>3. Counted(ReadTask(d)) /\ ReadTask(d).left # 0
    BY <1>1, <1>4 DEF ReadTask, ReadTombstones, Task, Counted
  <2>4. At(ReadTask(d), pc) \in Task /\ Counted(At(ReadTask(d), pc))
    BY <2>2, <2>3, AtType, AtCounted
  <2>5. task' \in [Devices -> Task] /\ \A e \in Devices : Counted(task'[e])
    BY <2>1, <2>4, MoveType
  <2>6. tombs' \in [Devices -> TombSet]
    BY <1>1, <1>4, <2>2 DEF ReadTombstones, ReadTask, TypeOK
  <2> QED
    BY <1>4, <2>5, <2>6 DEF ReadTombstones, TypeOK, Counted
<1>5. CASE WriteTombstones(d)
  <2>1. PICK pc \in Stages : Written(d, "tombstones", pc)
    BY <1>1, <1>5, StageType DEF WriteTombstones, Unheard, Task, Stages
  <2>2. task' \in [Devices -> Task] /\ \A e \in Devices : Counted(task'[e])
    BY <1>5, <2>1, WrittenType DEF WriteTombstones, Objects
  <2> QED
    BY <1>1, <1>5, <2>2 DEF WriteTombstones, TypeOK, Counted
<1>6. CASE WriteProgress(d)
  <2>1. PICK pc \in Stages : Written(d, "progress", pc)
    BY <1>1, <1>6, StageType DEF WriteProgress, Unheard, Task, Stages
  <2>2. task' \in [Devices -> Task] /\ \A e \in Devices : Counted(task'[e])
    BY <1>6, <2>1, WrittenType DEF WriteProgress, Objects
  <2>3. progress' \in Progress
    BY <1>1, <1>6 DEF WriteProgress, NewProgress, Progress, Meta
  <2> QED
    BY <1>6, <2>2, <2>3 DEF WriteProgress, TypeOK, Counted
<1>7. CASE WriteBookmarks(d)
  <2>1. PICK pc \in Stages : Written(d, "bookmarks", pc)
    BY <1>1, <1>7, StageType DEF WriteBookmarks, Unheard, Task, Stages
  <2>2. task' \in [Devices -> Task] /\ \A e \in Devices : Counted(task'[e])
    BY <1>7, <2>1, WrittenType DEF WriteBookmarks, Objects
  <2>3. bookmarks' \in Bookmarks
    BY <1>1, <1>7 DEF WriteBookmarks, NewBookmarks, Bookmarks, Meta
  <2> QED
    BY <1>1, <1>7, <2>2, <2>3 DEF WriteBookmarks, TypeOK, Counted
<1>8. CASE LoseRace(d)
  <2> DEFINE k == [IdleTask EXCEPT !.pc = "start", !.mode = task[d].mode,
                                   !.left = task[d].left - 1]
  <2>1. task[d].left # 0
    BY <1>1, <1>8 DEF LoseRace, Target, Counted
  <2>2. task[d].left # 1 => k \in Task /\ Counted(k)
    <3> SUFFICES ASSUME task[d].left # 1 PROVE k \in Task /\ Counted(k)
      OBVIOUS
    <3>1. task[d].left - 1 \in Nat /\ task[d].left - 1 # 0 /\ task[d].left - 1 <= MaxAttempts
      BY <1>1, <2>1, BoundsAssumption DEF Task, Counted
    <3>2. k \in Task
      BY <1>1, <3>1, EmptyTypes DEF Task, Stages
    <3>3. k.pc = "start" /\ k.left = task[d].left - 1
      BY EmptyTypes DEF Task
    <3> QED
      BY <3>1, <3>2, <3>3 DEF Counted
  <2>3. IdleTask \in Task /\ Counted(IdleTask)
    BY EmptyTypes, BoundsAssumption DEF IdleTask, Counted
  <2>4. task' = [task EXCEPT ![d] = IF task[d].left = 1 THEN IdleTask ELSE k]
    BY <1>8 DEF LoseRace
  <2> HIDE DEF k
  <2>5. task' \in [Devices -> Task] /\ \A e \in Devices : Counted(task'[e])
    BY <2>2, <2>3, <2>4, TypeOKSplit
  <2> QED
    BY <1>8, <2>5 DEF LoseRace, TypeOK, Counted
<1>9. CASE PutLocal(d)
  <2>1. local' \in [Devices -> Meta]
    BY <1>1, <1>9, PutType DEF PutLocal, TypeOK
  <2>2. IdleTask \in Task /\ Counted(IdleTask)
    BY EmptyTypes, BoundsAssumption DEF IdleTask, Counted
  <2>3. task' \in [Devices -> Task] /\ \A e \in Devices : Counted(task'[e])
    BY <1>9, <2>2, MoveType DEF PutLocal
  <2> QED
    BY <1>9, <2>1, <2>3 DEF PutLocal, TypeOK, Counted
<1> QED
  BY <1>2, <1>3, <1>4, <1>5, <1>6, <1>7, <1>8, <1>9 DEF Step

\* Every step keeps the state well-typed.
LEMMA NextType == TypeOK /\ [Next]_vars => TypeOK'
<1> SUFFICES ASSUME TypeOK, [Next]_vars
             PROVE  TypeOK'
  OBVIOUS
<1>1. ASSUME NEW d \in Devices, NEW mode \in Modes, Sync(d, mode)
      PROVE  TypeOK'
  <2>1. mode \in SyncModes /\ MaxAttempts \in 1..MaxAttempts
    BY ModesAssumption, BoundsAssumption
  <2>2. task' \in [Devices -> Task] /\ \A e \in Devices : Counted(task'[e])
    BY <1>1, <2>1, StartType DEF Sync
  <2> QED
    BY <1>1, <2>2 DEF Sync, TypeOK, Counted
<1>2. ASSUME NEW d \in Devices, Abort(d)
      PROVE  TypeOK'
  <2>1. IdleTask \in Task /\ Counted(IdleTask)
    BY EmptyTypes, BoundsAssumption DEF IdleTask, Counted
  <2>2. task' \in [Devices -> Task] /\ \A e \in Devices : Counted(task'[e])
    BY <1>2, <2>1, MoveType DEF Abort
  <2> QED
    BY <1>2, <2>2 DEF Abort, TypeOK, Counted
<1>3. CASE UNCHANGED vars
  BY <1>3 DEF vars, TypeOK
<1> QED
  BY <1>1, <1>2, <1>3, AppType, StepType DEF Next

\* The initial state is well-typed.
LEMMA InitType == Init => TypeOK
<1>1. Counted(IdleTask)
  BY BoundsAssumption DEF Counted, IdleTask
<1>2. SUFFICES ASSUME Init PROVE TypeOK
  OBVIOUS
<1>3. \A d \in Devices : Counted(task[d])
  BY <1>1, <1>2 DEF Init
<1> QED
  BY <1>2, <1>3, EmptyTypes, TypeOKSplit DEF Init

\* Type correctness: every component of the state keeps its type, and a pass
\* never runs out of the attempts it was given (sync_single_meta_inner).
THEOREM TypeCorrect == Spec => []TypeOK
<1>1. Init => TypeOK
  BY InitType
<1>2. TypeOK /\ [Next]_vars => TypeOK'
  BY NextType
<1> QED
  BY <1>1, <1>2, PTL DEF Spec

=============================================================================
