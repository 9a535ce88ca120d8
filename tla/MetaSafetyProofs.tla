--------------------------- MODULE MetaSafetyProofs ---------------------------
(***************************************************************************)
(* The safety of the bucket and of the caches, for any number of devices,  *)
(* items, edits and attempts, any clocks, with requests that fail and      *)
(* processes that die: the inductive invariants BucketInv and CacheInv of  *)
(* MetaSync and the action properties that follow from them; that MetaSync *)
(* implements SharedMeta; that a pass which nobody disturbs ends with its  *)
(* device and the bucket in agreement (SkipInv); and the algebra of the    *)
(* merges those passes use.                                                *)
(***************************************************************************)
EXTENDS MetaSyncProofs

-----------------------------------------------------------------------------
(* Facts about the operators *)

\* The order on what is known of the deletions is transitive.
LEMMA LeqTrans ==
    ASSUME NEW x \in TombSet, NEW y \in TombSet, NEW z \in TombSet,
           AllLeq(x, y), AllLeq(y, z)
    PROVE  AllLeq(x, z)
<1>1. ASSUME NEW i \in Items
      PROVE  TombLeq(x[i], z[i])
  <2>1. x[i] \in Tomb /\ y[i] \in Tomb /\ z[i] \in Tomb
    BY DEF TombSet
  <2>2. TombLeq(x[i], y[i]) /\ TombLeq(y[i], z[i])
    BY DEF AllLeq
  <2> QED
    BY <2>1, <2>2 DEF TombLeq, Tomb
<1> QED
  BY <1>1 DEF AllLeq

\* Every tombstone set knows what it knows.
LEMMA LeqRefl == ASSUME NEW x \in TombSet PROVE AllLeq(x, x)
<1>1. ASSUME NEW i \in Items
      PROVE  TombLeq(x[i], x[i])
  <2>1. x[i] \in Tomb
    BY DEF TombSet
  <2> QED
    BY <2>1 DEF TombLeq, Tomb
<1> QED
  BY <1>1 DEF AllLeq

\* The merged deletions of a pass hold what it has read of the remote ones.
LEMMA MergedLeq ==
    ASSUME NEW k \in Task, k.mode # "push_only"
    PROVE  AllLeq(k.rt, MergedTombs(k))
<1>1. k.lt \in TombSet /\ k.rt \in TombSet
  BY DEF Task
<1>2. MergedTombs(k) = MergeTombs(k.lt, k.rt)
  BY DEF MergedTombs, SeenTombs
<1> QED
  BY <1>1, <1>2, MergeTombsType DEF AllLeq

\* If the merged deletions need no write, the bucket already holds them.
LEMMA SameTombs ==
    ASSUME NEW k \in Task, NEW o, k.mode # "push_only",
           ~TombsDiffer(SeenTombs(k), MergedTombs(k), o)
    PROVE  MergedTombs(k) = k.rt
BY DEF TombsDiffer, SeenTombs

\* The items a pass writes are those its deletions leave.
LEMMA MergedFiltered ==
    ASSUME NEW k \in Task, NEW i \in Items, Has(Merged(k).items, i)
    PROVE  ~Dead(MergedTombs(k)[i])
<1> DEFINE m == MergeMeta(k.base, SeenProgress(k), SeenBookmarks(k))
<1>1. m \in Meta
  <2>1. k.base \in Meta /\ SeenProgress(k) \in Progress /\ SeenBookmarks(k) \in Bookmarks
    BY EmptyTypes DEF Task, SeenProgress, SeenBookmarks
  <2> QED
    BY <2>1, MergeMetaType
<1> HIDE DEF m
<1>2. Merged(k) = [m EXCEPT !.items = ApplyTombs(m.items, MergedTombs(k))]
  BY DEF Merged, m
<1>3. Merged(k).items = ApplyTombs(m.items, MergedTombs(k))
  BY <1>1, <1>2 DEF Meta
<1> QED
  BY <1>3 DEF ApplyTombs, Has, Present, NoItem

-----------------------------------------------------------------------------
(* The invariant of the bucket *)

\* PassSafe of a bucket with position p, deletions ts and applied deletions ap.
Safe(k, p, ts, ap) ==
    /\ k.mode # "push_only"
    /\ "progress" \in k.current => k.rp = p
    /\ "tombstones" \in k.current => k.rt = ts
    /\ k.pc \in Writing /\ "bookmarks" \in k.current /\ ~ContentVersions => AllLeq(ap, k.rt)
    /\ k.pc \in {"casProgress", "casBookmarks"} => AllLeq(MergedTombs(k), ts)

\* Safe is PassSafe, now and after a step.
LEMMA SafeIsPassSafe ==
    /\ \A k : PassSafe(k) <=> Safe(k, progress, tombstones, applied)
    /\ BucketInv' <=> /\ \A d \in Devices : Safe(task'[d], progress', tombstones', applied')
                      /\ AllLeq(applied', tombstones')
                      /\ \A i \in Items : Has(bookmarks'.items, i) => ~Dead(applied'[i])
                      /\ ~progress'.has => progress'.st = NoStamp
BY DEF PassSafe, Safe, BucketInv, AppliedIsRemote

\* A pass stays safe while one object of the bucket changes under it, if the
\* deletions only grow: the object is not current for it any more, unless it is
\* as the pass has read it.
LEMMA SafeKept ==
    ASSUME NEW k \in Task, NEW object \in Objects,
           tombstones \in TombSet, tombstones' \in TombSet,
           Safe(k, progress, tombstones, applied),
           progress' # progress => object = "progress",
           tombstones' # tombstones => object = "tombstones",
           applied' # applied => object = "bookmarks",
           AllLeq(tombstones, tombstones')
    PROVE  Safe(AfterWrite(k, object), progress', tombstones', applied')
<1> DEFINE k2 == AfterWrite(k, object)
<1>1. /\ k2.mode = k.mode /\ k2.pc = k.pc /\ k2.rp = k.rp /\ k2.rt = k.rt /\ k2.lt = k.lt
      /\ k2.current = IF AsRead(k, object) THEN k.current \cup {object}
                      ELSE k.current \ {object}
  BY AfterWriteType
<1> HIDE DEF k2
<1>2. MergedTombs(k2) = MergedTombs(k) /\ MergedTombs(k) \in TombSet
  BY <1>1, MergedType DEF MergedTombs, SeenTombs
<1>3. k2.pc \in {"casProgress", "casBookmarks"} => AllLeq(MergedTombs(k2), tombstones')
  BY <1>1, <1>2, LeqTrans DEF Safe
<1>4. "progress" \in k2.current => k2.rp = progress'
  BY <1>1 DEF Safe, AsRead
<1>5. "tombstones" \in k2.current => k2.rt = tombstones'
  BY <1>1 DEF Safe, AsRead
<1>6. k2.pc \in Writing /\ "bookmarks" \in k2.current /\ ~ContentVersions
         => AllLeq(applied', k2.rt)
  BY <1>1 DEF Safe, AsRead
<1>7. Safe(k2, progress', tombstones', applied')
  BY <1>1, <1>3, <1>4, <1>5, <1>6 DEF Safe
<1> QED
  BY <1>7 DEF k2

\* A step that leaves the bucket alone keeps the invariant if the task it
\* leaves behind is safe.
LEMMA QuietStep ==
    ASSUME TypeOK, BucketInv, NEW d \in Devices, NEW k,
           UNCHANGED <<progress, bookmarks, tombstones, applied>>,
           task' = [task EXCEPT ![d] = k],
           Safe(k, progress, tombstones, applied)
    PROVE  BucketInv'
<1>1. \A e \in Devices : Safe(task'[e], progress, tombstones, applied)
  BY SafeIsPassSafe DEF TypeOK, BucketInv
<1> QED
  BY <1>1, SafeIsPassSafe DEF BucketInv, AppliedIsRemote

\* A task that has nothing current and is not writing is safe.
LEMMA BlankSafe ==
    ASSUME NEW k, k.mode # "push_only", k.current = {}, k.pc \notin Writing
    PROVE  Safe(k, progress, tombstones, applied)
BY DEF Safe, Writing

\* A pass that starts an attempt is safe.
LEMMA StartSafe ==
    ASSUME TypeOK, BucketInv, NEW d \in Devices, NEW mode, mode # "push_only", NEW left,
           StartAttempt(d, mode, left),
           UNCHANGED <<progress, bookmarks, tombstones, applied>>
    PROVE  BucketInv'
<1> DEFINE base == IF mode = "pull_only" THEN NoMeta ELSE Normalize(local[d])
           k == [IdleTask EXCEPT !.pc = "readBookmarks", !.mode = mode, !.left = left,
                                 !.base = base, !.rp = progress, !.current = {"progress"}]
<1>1. task' = [task EXCEPT ![d] = k]
  BY DEF StartAttempt
<1> HIDE DEF base
<1>2. /\ k.mode = mode /\ k.rp = progress /\ k.current = {"progress"}
      /\ k.pc = "readBookmarks"
  BY DEF IdleTask
<1>3. Safe(k, progress, tombstones, applied)
  BY <1>2 DEF Safe, Writing
<1> HIDE DEF k
<1> QED
  BY <1>1, <1>3, QuietStep

\* The stage a pass is put in by At, seen from Safe.
LEMMA SafeAt ==
    ASSUME NEW k \in Task, NEW pc \in Stages, NEW p, NEW ts, NEW ap,
           k.mode # "push_only",
           pc # "idle" => Safe([k EXCEPT !.pc = pc], p, ts, ap)
    PROVE  Safe(At(k, pc), p, ts, ap)
<1>1. CASE pc = "idle"
  BY <1>1, AtType DEF IdleTask, Safe, Writing
<1>2. CASE pc # "idle"
  BY <1>2, AtType
<1> QED
  BY <1>1, <1>2

\* Reading the tombstones and deciding what to write keeps the invariant: with
\* nothing to add, the bucket already holds the merged deletions.
LEMMA ReadTombstonesSafe ==
    ASSUME TypeOK, BucketInv, NEW d \in Devices, ReadTombstones(d)
    PROVE  BucketInv'
<1> DEFINE k == ReadTask(d)
<1>1. /\ task[d] \in Task /\ tombstones \in TombSet /\ applied \in TombSet
      /\ Safe(task[d], progress, tombstones, applied)
  BY SafeIsPassSafe DEF TypeOK, BucketInv
<1>2. /\ k \in Task /\ k.mode = task[d].mode /\ k.rp = task[d].rp /\ k.rt = tombstones
      /\ "progress" \in k.current => "progress" \in task[d].current
  BY <1>1, ReadTombstonesStep DEF ReadTask, Task
<1>3. PICK pc \in {"idle", "casTombstones", "casProgress", "casBookmarks", "putLocal"} :
        /\ task' = [task EXCEPT ![d] = At(k, pc)]
        /\ pc \in {"casProgress", "casBookmarks"} =>
             \E o \in BOOLEAN : ~TombsDiffer(SeenTombs(k), MergedTombs(k), o)
  BY ReadTombstonesStep
<1> HIDE DEF k
<1>4. k.mode # "push_only"
  BY <1>1, <1>2 DEF Safe
<1>5. pc \in {"casProgress", "casBookmarks"} => AllLeq(MergedTombs(k), tombstones)
  BY <1>1, <1>2, <1>3, <1>4, SameTombs, LeqRefl
<1>6. Safe([k EXCEPT !.pc = pc], progress, tombstones, applied)
  <2> DEFINE j == [k EXCEPT !.pc = pc]
  <2>1. /\ j.mode = k.mode /\ j.rp = k.rp /\ j.rt = k.rt /\ j.lt = k.lt /\ j.pc = pc
        /\ j.current = k.current
    BY <1>2 DEF Task
  <2> HIDE DEF j
  <2>2. MergedTombs(j) = MergedTombs(k)
    BY <2>1 DEF MergedTombs, SeenTombs
  <2>3. AllLeq(applied, tombstones)
    BY DEF BucketInv, AppliedIsRemote
  <2>4. Safe(j, progress, tombstones, applied)
    BY <1>1, <1>2, <1>4, <1>5, <2>1, <2>2, <2>3 DEF Safe
  <2> QED
    BY <2>4 DEF j
<1>7. Safe(At(k, pc), progress, tombstones, applied)
  BY <1>2, <1>4, <1>6, SafeAt DEF Stages
<1> QED
  BY <1>3, <1>7, QuietStep DEF ReadTombstones

\* A conditional PUT of object keeps every pass safe, if the deletions in the
\* bucket only grow, hold those of the writer, and if what is applied changes
\* only with the bookmarks.
LEMMA WrittenSafe ==
    ASSUME TypeOK, TypeOK', BucketInv, NEW d \in Devices,
           NEW object \in Objects, NEW pc \in Stages,
           pc \in {"casProgress", "casBookmarks", "putLocal", "idle"} \/ pc = task[d].pc,
           Written(d, object, pc),
           object = "bookmarks" => pc \in {"putLocal", "idle"} \/ pc = task[d].pc,
           progress' # progress => object = "progress",
           tombstones' # tombstones => object = "tombstones",
           applied' # applied => object = "bookmarks",
           AllLeq(tombstones, tombstones'),
           AllLeq(MergedTombs(task[d]), tombstones'),
           task[d].pc \in Writing
    PROVE  \A e \in Devices : Safe(task'[e], progress', tombstones', applied')
<1>1. /\ \A e \in Devices : task[e] \in Task /\ Safe(task[e], progress, tombstones, applied)
      /\ tombstones \in TombSet /\ tombstones' \in TombSet
  BY SafeIsPassSafe DEF TypeOK, BucketInv
<1>2. \A e \in Devices : Safe(AfterWrite(task[e], object),
                              progress', tombstones', applied')
  BY <1>1, SafeKept
<1> DEFINE k == AfterWrite(task[d], object)
           j == [k EXCEPT !.pc = pc]
<1>3. k \in Task /\ k.pc \in Writing /\ Safe(k, progress', tombstones', applied')
  BY <1>1, <1>2, AfterWriteType
<1>4. MergedTombs(k) = MergedTombs(task[d])
  BY <1>1, AfterWriteType DEF MergedTombs, SeenTombs
<1> HIDE DEF k
<1>5. /\ j.mode = k.mode /\ j.rp = k.rp /\ j.rt = k.rt /\ j.lt = k.lt /\ j.pc = pc
      /\ j.current = k.current
  BY <1>3 DEF Task
<1> HIDE DEF j
<1>6. MergedTombs(j) = MergedTombs(k)
  BY <1>5 DEF MergedTombs, SeenTombs
<1>7. Safe(j, progress', tombstones', applied')
  <2>1. k.pc = task[d].pc
    BY <1>1, AfterWriteType DEF k
  <2> QED
    BY <1>3, <1>4, <1>5, <1>6, <2>1 DEF Safe, Writing
<1>8. Safe(At(k, pc), progress', tombstones', applied')
  <2>1. k.mode # "push_only"
    BY <1>3 DEF Safe
  <2> QED
    BY <1>3, <1>7, <2>1, SafeAt DEF j
<1>9. \A e \in Devices : task'[e] = IF e = d THEN At(k, pc)
                                    ELSE AfterWrite(task[e], object)
  BY DEF Written, k
<1> QED
  BY <1>2, <1>8, <1>9

\* Writing the tombstones keeps the invariant.
LEMMA WriteTombstonesSafe ==
    ASSUME TypeOK, TypeOK', BucketInv, NEW d \in Devices, WriteTombstones(d)
    PROVE  BucketInv' /\ AllLeq(tombstones, tombstones')
<1>1. /\ task[d] \in Task /\ task[d].pc = "casTombstones" /\ "tombstones" \in task[d].current
      /\ Safe(task[d], progress, tombstones, applied)
      /\ tombstones \in TombSet /\ applied \in TombSet
      /\ MergedTombs(task[d]) \in TombSet /\ tombstones' = MergedTombs(task[d])
  BY SafeIsPassSafe, MergedType DEF TypeOK, BucketInv, WriteTombstones, Written, Unheard
<1>2. AllLeq(tombstones, tombstones')
  BY <1>1, MergedLeq DEF Safe
<1>3. PICK pc \in {"casTombstones", "casProgress", "casBookmarks", "putLocal", "idle"} :
        Written(d, "tombstones", pc)
  BY <1>1, StageType DEF WriteTombstones, Unheard
<1>4. AllLeq(MergedTombs(task[d]), tombstones')
  BY <1>1, LeqRefl
<1>5. \A e \in Devices : Safe(task'[e], progress', tombstones', applied')
  BY <1>1, <1>2, <1>3, <1>4, WrittenSafe DEF WriteTombstones, Objects, Writing, Stages
<1>6. AllLeq(applied', tombstones')
  <2>1. AllLeq(applied, tombstones)
    BY DEF BucketInv, AppliedIsRemote
  <2> QED
    BY <1>1, <1>2, <2>1, LeqTrans DEF WriteTombstones
<1> QED
  BY <1>2, <1>5, <1>6, SafeIsPassSafe DEF WriteTombstones, BucketInv

\* Writing the position keeps the invariant and never takes the stamp back.
LEMMA WriteProgressSafe ==
    ASSUME TypeOK, TypeOK', BucketInv, NEW d \in Devices, WriteProgress(d)
    PROVE  BucketInv' /\ ~StampLess(progress'.st, progress.st)
<1>1. /\ task[d] \in Task /\ task[d].pc = "casProgress" /\ "progress" \in task[d].current
      /\ Safe(task[d], progress, tombstones, applied)
      /\ tombstones \in TombSet /\ Merged(task[d]) \in Meta /\ progress \in Progress
  BY SafeIsPassSafe, MergedType DEF TypeOK, BucketInv, WriteProgress, Written, Unheard
<1>2. PICK pc \in {"casProgress", "casBookmarks", "putLocal", "idle"} :
        Written(d, "progress", pc)
  BY <1>1, StageType DEF WriteProgress, Unheard
<1>3. AllLeq(MergedTombs(task[d]), tombstones') /\ AllLeq(tombstones, tombstones')
  BY <1>1, LeqRefl DEF Safe, WriteProgress
<1>4. \A e \in Devices : Safe(task'[e], progress', tombstones', applied')
  BY <1>1, <1>2, <1>3, WrittenSafe DEF WriteProgress, Objects, Writing, Stages
<1>5. progress'.has /\ progress'.st = Merged(task[d]).pst
  BY DEF WriteProgress, NewProgress
<1>6. BucketInv'
  BY <1>4, <1>5, SafeIsPassSafe DEF WriteProgress, BucketInv, AppliedIsRemote
<1>7. ~StampLess(progress'.st, progress.st)
  <2> DEFINE k == task[d]
             m == MergeMeta(k.base, SeenProgress(k), SeenBookmarks(k))
  <2>1. k.base \in Meta /\ SeenProgress(k) = progress /\ SeenBookmarks(k) \in Bookmarks
    BY <1>1 DEF Task, SeenProgress, SeenBookmarks, Safe
  <2>2. m \in Meta /\ (progress.has => ~StampLess(m.pst, progress.st))
    BY <1>1, <2>1, MergeMetaType
  <2>3. Merged(k) = [m EXCEPT !.items = ApplyTombs(m.items, MergedTombs(k))]
    BY DEF Merged
  <2> HIDE DEF m
  <2>4. Merged(k).pst = m.pst
    BY <2>2, <2>3 DEF Meta
  <2>5. CASE progress.has
    BY <1>5, <2>2, <2>4, <2>5
  <2>6. CASE ~progress.has
    <3>1. progress.st = NoStamp
      BY <2>6 DEF BucketInv
    <3>2. m.pst \in Stamp
      BY <2>2 DEF Meta
    <3> QED
      BY <1>5, <2>4, <3>1, <3>2 DEF StampLess, NoStamp, Stamp
  <2> QED
    BY <2>5, <2>6
<1> QED
  BY <1>6, <1>7

\* Writing the bookmarks keeps the invariant, and an item whose deletion was
\* applied comes back only with a later revival.
LEMMA WriteBookmarksSafe ==
    ASSUME TypeOK, TypeOK', BucketInv, NEW d \in Devices, WriteBookmarks(d)
    PROVE  /\ BucketInv'
           /\ ~ContentVersions => AllLeq(applied, applied')
           /\ \A i \in Items : Dead(applied[i]) /\ Has(bookmarks'.items, i)
                                  /\ ~ContentVersions => tombstones'[i].rev > applied[i].del
<1> DEFINE k == task[d]
<1>1. /\ k \in Task /\ k.pc = "casBookmarks" /\ "bookmarks" \in k.current
      /\ Safe(k, progress, tombstones, applied)
      /\ tombstones \in TombSet /\ applied \in TombSet
      /\ MergedTombs(k) \in TombSet /\ k.rt \in TombSet
      /\ applied' = MergedTombs(k) /\ tombstones' = tombstones
      /\ bookmarks'.items = Merged(k).items
  BY SafeIsPassSafe, MergedType
     DEF TypeOK, BucketInv, WriteBookmarks, NewBookmarks, Written, Unheard, Task
<1>2. PICK pc \in {"casBookmarks", "putLocal", "idle"} : Written(d, "bookmarks", pc)
  BY <1>1, StageType DEF WriteBookmarks, Unheard
<1>3. AllLeq(MergedTombs(k), tombstones) /\ AllLeq(tombstones, tombstones)
  BY <1>1, LeqRefl DEF Safe
<1>4. \A e \in Devices : Safe(task'[e], progress', tombstones', applied')
  BY <1>1, <1>2, <1>3, WrittenSafe DEF WriteBookmarks, Objects, Writing, Stages
<1>5. \A i \in Items : Has(bookmarks'.items, i) => ~Dead(MergedTombs(k)[i])
  BY <1>1, MergedFiltered
<1>6. BucketInv'
  BY <1>1, <1>3, <1>4, <1>5, SafeIsPassSafe DEF WriteBookmarks, BucketInv
<1>7. ~ContentVersions => AllLeq(applied, MergedTombs(k))
  <2>1. (~ContentVersions => AllLeq(applied, k.rt)) /\ AllLeq(k.rt, MergedTombs(k))
    BY <1>1, MergedLeq DEF Safe, Writing
  <2> QED
    BY <1>1, <2>1, LeqTrans
<1> HIDE DEF k
<1>8. ASSUME NEW i \in Items, Dead(applied[i]), Has(bookmarks'.items, i), ~ContentVersions
      PROVE  tombstones'[i].rev > applied[i].del
  <2>1. applied[i] \in Tomb /\ MergedTombs(k)[i] \in Tomb /\ tombstones[i] \in Tomb
    BY <1>1 DEF TombSet
  <2>2. TombLeq(applied[i], MergedTombs(k)[i]) /\ TombLeq(MergedTombs(k)[i], tombstones[i])
    BY <1>3, <1>7, <1>8 DEF AllLeq
  <2>3. ~Dead(MergedTombs(k)[i])
    BY <1>5, <1>8
  <2> QED
    BY <1>1, <1>8, <2>1, <2>2, <2>3 DEF Dead, TombLeq, Tomb
<1>9. ~ContentVersions => AllLeq(applied, applied')
  BY <1>1, <1>7
<1> QED
  BY <1>6, <1>8, <1>9

\* The other steps of a pass leave the bucket alone and keep the invariant.
LEMMA QuietSafe ==
    ASSUME TypeOK, BucketInv, ReadsRemote, NEW d \in Devices,
           \/ App(d)
           \/ \E mode \in Modes : Sync(d, mode)
           \/ Retry(d) \/ ReadBookmarks(d) \/ LoseRace(d) \/ PutLocal(d) \/ Abort(d)
    PROVE  BucketInv' /\ UNCHANGED <<progress, bookmarks, tombstones, applied>>
<1>1. task[d] \in Task /\ Safe(task[d], progress, tombstones, applied)
  BY SafeIsPassSafe DEF TypeOK, BucketInv
<1>2. task[d].mode # "push_only"
  BY <1>1 DEF Safe
<1>3. CASE App(d)
  <2>1. UNCHANGED <<progress, bookmarks, tombstones, applied, task>>
    BY <1>3 DEF App, EditProgress, EditItem, MarkDeleted, UndoDeletion
  <2>2. \A e \in Devices : Safe(task[e], progress, tombstones, applied)
    BY SafeIsPassSafe DEF BucketInv
  <2> QED
    BY <2>1, <2>2, SafeIsPassSafe DEF BucketInv, AppliedIsRemote
<1>4. CASE \E mode \in Modes : Sync(d, mode)
  BY <1>4, StartSafe DEF Sync, ReadsRemote
<1>5. CASE Retry(d)
  BY <1>2, <1>5, StartSafe DEF Retry
<1>6. CASE ReadBookmarks(d)
  <2> DEFINE k == [task[d] EXCEPT !.pc = "readTombstones", !.rb = bookmarks, !.lt = tombs[d],
                                  !.current = @ \cup {"bookmarks"}]
  <2>1. /\ k.mode = task[d].mode /\ k.rp = task[d].rp /\ k.rt = task[d].rt
        /\ k.pc = "readTombstones" /\ k.current = task[d].current \cup {"bookmarks"}
    BY <1>1 DEF Task
  <2>2. Safe(k, progress, tombstones, applied)
    BY <1>1, <2>1 DEF Safe, Writing
  <2>3. task' = [task EXCEPT ![d] = k]
    BY <1>6 DEF ReadBookmarks
  <2> HIDE DEF k
  <2> QED
    BY <1>6, <2>2, <2>3, QuietStep DEF ReadBookmarks
<1>7. Safe(IdleTask, progress, tombstones, applied)
  BY BlankSafe DEF IdleTask, Writing
<1>8. CASE LoseRace(d)
  <2> DEFINE k == [IdleTask EXCEPT !.pc = "start", !.mode = task[d].mode,
                                   !.left = task[d].left - 1]
  <2>1. k.mode = task[d].mode /\ k.current = {} /\ k.pc = "start"
    BY DEF IdleTask
  <2>2. Safe(k, progress, tombstones, applied)
    BY <1>2, <2>1, BlankSafe DEF Writing
  <2>3. task' = [task EXCEPT ![d] = IF task[d].left = 1 THEN IdleTask ELSE k]
    BY <1>8 DEF LoseRace
  <2> HIDE DEF k
  <2> QED
    BY <1>7, <1>8, <2>2, <2>3, QuietStep DEF LoseRace
<1>9. CASE PutLocal(d)
  BY <1>7, <1>9, QuietStep DEF PutLocal
<1>10. CASE Abort(d)
  BY <1>7, <1>10, QuietStep DEF Abort
<1> QED
  BY <1>3, <1>4, <1>5, <1>6, <1>8, <1>9, <1>10

\* What a step may not do to the bucket.
StepSafe ==
    /\ ~StampLess(progress'.st, progress.st)
    /\ \A i \in Items : TombLeq(tombstones[i], tombstones'[i])
    /\ ~ContentVersions => \A i \in Items :
          Dead(applied[i]) /\ Has(bookmarks'.items, i) => tombstones'[i].rev > applied[i].del

\* A step that leaves the bucket alone does nothing it may not do.
LEMMA QuietStepSafe ==
    ASSUME TypeOK, BucketInv, UNCHANGED <<progress, bookmarks, tombstones, applied>>
    PROVE  StepSafe
<1>1. ~StampLess(progress'.st, progress.st)
  <2>1. progress.st \in Stamp
    BY DEF TypeOK, Progress
  <2> QED
    BY <2>1 DEF StampLess, Stamp
<1>2. \A i \in Items : TombLeq(tombstones[i], tombstones'[i])
  BY LeqRefl DEF AllLeq, TypeOK
<1>3. \A i \in Items : Has(bookmarks'.items, i) => ~Dead(applied[i])
  BY DEF BucketInv
<1> QED
  BY <1>1, <1>2, <1>3 DEF StepSafe

\* Every step keeps the invariant of the bucket and is safe.
LEMMA NextSafe ==
    ASSUME ReadsRemote
    PROVE  TypeOK /\ TypeOK' /\ BucketInv /\ [Next]_vars => BucketInv' /\ StepSafe
<1> SUFFICES ASSUME TypeOK, TypeOK', BucketInv, [Next]_vars
             PROVE  BucketInv' /\ StepSafe
  OBVIOUS
<1>1. ASSUME NEW d \in Devices,
             \/ App(d)
             \/ \E mode \in Modes : Sync(d, mode)
             \/ Retry(d) \/ ReadBookmarks(d) \/ LoseRace(d) \/ PutLocal(d) \/ Abort(d)
      PROVE  BucketInv' /\ StepSafe
  BY <1>1, QuietSafe, QuietStepSafe
<1>2. ASSUME NEW d \in Devices, ReadTombstones(d)
      PROVE  BucketInv' /\ StepSafe
  BY <1>2, ReadTombstonesSafe, QuietStepSafe DEF ReadTombstones
<1>3. ASSUME NEW d \in Devices, WriteTombstones(d)
      PROVE  BucketInv' /\ StepSafe
  <2>1. ~StampLess(progress'.st, progress.st)
    BY <1>3, QuietStepSafe DEF WriteTombstones, StampLess, TypeOK, Progress, Stamp
  <2>2. \A i \in Items : Has(bookmarks'.items, i) => ~Dead(applied[i])
    BY <1>3 DEF WriteTombstones, BucketInv
  <2> QED
    BY <1>3, <2>1, <2>2, WriteTombstonesSafe DEF StepSafe, AllLeq
<1>4. ASSUME NEW d \in Devices, WriteProgress(d)
      PROVE  BucketInv' /\ StepSafe
  <2>1. \A i \in Items : TombLeq(tombstones[i], tombstones'[i])
    BY <1>4, LeqRefl DEF WriteProgress, AllLeq, TypeOK
  <2>2. \A i \in Items : Has(bookmarks'.items, i) => ~Dead(applied[i])
    BY <1>4 DEF WriteProgress, BucketInv
  <2> QED
    BY <1>4, <2>1, <2>2, WriteProgressSafe DEF StepSafe
<1>5. ASSUME NEW d \in Devices, WriteBookmarks(d)
      PROVE  BucketInv' /\ StepSafe
  <2>1. ~StampLess(progress'.st, progress.st)
    BY <1>5 DEF WriteBookmarks, StampLess, TypeOK, Progress, Stamp
  <2>2. \A i \in Items : TombLeq(tombstones[i], tombstones'[i])
    BY <1>5, LeqRefl DEF WriteBookmarks, AllLeq, TypeOK
  <2> QED
    BY <1>5, <2>1, <2>2, WriteBookmarksSafe DEF StepSafe
<1>6. CASE UNCHANGED vars
  <2>1. BucketInv'
    <3>1. \A e \in Devices : Safe(task[e], progress, tombstones, applied)
      BY SafeIsPassSafe DEF BucketInv
    <3> QED
      BY <1>6, <3>1, SafeIsPassSafe DEF vars, BucketInv, AppliedIsRemote
  <2> QED
    BY <1>6, <2>1, QuietStepSafe DEF vars
<1> QED
  BY <1>1, <1>2, <1>3, <1>4, <1>5, <1>6 DEF Next, Step

\* The invariant of the bucket holds at the start.
LEMMA InitSafe == Init => BucketInv
<1> SUFFICES ASSUME Init PROVE BucketInv
  OBVIOUS
<1>1. \A d \in Devices : PassSafe(task[d])
  BY DEF Init, PassSafe, IdleTask, Writing
<1>2. AppliedIsRemote
  BY EmptyTypes, LeqRefl DEF Init, AppliedIsRemote
<1>3. \A i \in Items : ~Has(bookmarks.items, i)
  BY DEF Init, NoBookmarks, NoItems, NoItem, Has, Present
<1> QED
  BY <1>1, <1>2, <1>3 DEF Init, BucketInv, NoProgress

-----------------------------------------------------------------------------
(* The theorems about the bucket *)

\* Every pass relies only on what is still true of the bucket, and whoever
\* wrote bookmarks.json had put the deletions it applied in tombstones.json
\* first (sync_single_meta_attempt).
THEOREM BucketSafe == ReadsRemote => (Spec => []BucketInv)
<1> SUFFICES ASSUME ReadsRemote PROVE Spec => []BucketInv
  OBVIOUS
<1>1. Init => TypeOK /\ BucketInv
  BY InitType, InitSafe
<1>2. TypeOK /\ BucketInv /\ [Next]_vars => TypeOK' /\ BucketInv'
  BY NextType, NextSafe
<1> QED
  BY <1>1, <1>2, PTL DEF Spec

\* The position in the bucket never goes back to an older stamp
\* (merge_meta_with_remote with conditional writes).
THEOREM PositionLww == ReadsRemote => (Spec => RemoteProgressLww)
<1> SUFFICES ASSUME ReadsRemote PROVE Spec => RemoteProgressLww
  OBVIOUS
<1>1. TypeOK /\ TypeOK' /\ BucketInv /\ [Next]_vars
                => [~StampLess(progress'.st, progress.st)]_vars
  BY NextSafe DEF StepSafe
<1> QED
  BY <1>1, BucketSafe, TypeCorrect, PTL DEF Spec, RemoteProgressLww

\* Deletions and revivals in the bucket only accumulate (TombstoneSet::merge).
THEOREM TombstonesGrow == ReadsRemote => (Spec => RemoteTombstonesGrow)
<1> SUFFICES ASSUME ReadsRemote PROVE Spec => RemoteTombstonesGrow
  OBVIOUS
<1>1. TypeOK /\ TypeOK' /\ BucketInv /\ [Next]_vars
                => [\A i \in Items : TombLeq(tombstones[i], tombstones'[i])]_vars
  BY NextSafe DEF StepSafe
<1> QED
  BY <1>1, BucketSafe, TypeCorrect, PTL DEF Spec, RemoteTombstonesGrow

\* An item whose deletion has reached bookmarks.json comes back there only by a
\* later revival, whatever passes race, fail or are retried, if every write of
\* an object gives it a version it never had.
THEOREM DeletedStaysDeleted ==
    ReadsRemote /\ ~ContentVersions => (Spec => NoResurrection)
<1> SUFFICES ASSUME ReadsRemote, ~ContentVersions PROVE Spec => NoResurrection
  OBVIOUS
<1>1. TypeOK /\ TypeOK' /\ BucketInv /\ [Next]_vars
                => [\A i \in Items : Dead(applied[i]) /\ Has(bookmarks'.items, i)
                        => tombstones'[i].rev > applied[i].del]_vars
  BY NextSafe DEF StepSafe
<1> QED
  BY <1>1, BucketSafe, TypeCorrect, PTL DEF Spec, NoResurrection
-----------------------------------------------------------------------------
(* The bucket implements SharedMeta *)

\* What SharedMeta sees of two sets of deletions compares as the sets do.
LEMMA TimesCompare ==
    ASSUME NEW x \in TombSet, NEW y \in TombSet
    PROVE  /\ DeletionTimes(x) \in [Items -> Shared!Times]
           /\ Shared!KnowsAll(DeletionTimes(x), DeletionTimes(y)) <=> AllLeq(x, y)
<1>1. \A i \in Items : /\ x[i].del \in Nat /\ x[i].rev \in Nat
                       /\ DeletionTimes(x)[i].del = x[i].del
                       /\ DeletionTimes(x)[i].rev = x[i].rev
                       /\ DeletionTimes(y)[i].del = y[i].del
                       /\ DeletionTimes(y)[i].rev = y[i].rev
  BY DEF DeletionTimes, TombSet, Tomb
<1>2. DeletionTimes(x) \in [Items -> Shared!Times]
  BY <1>1 DEF DeletionTimes, Shared!Times
<1>3. Shared!KnowsAll(DeletionTimes(x), DeletionTimes(y)) <=> AllLeq(x, y)
  BY <1>1 DEF Shared!KnowsAll, AllLeq, TombLeq
<1> QED
  BY <1>2, <1>3

\* The bucket starts as SharedMeta does.
LEMMA SharedInit == Init => Shared!Init
<1> SUFFICES ASSUME Init PROVE Shared!Init
  OBVIOUS
<1>1. DeletionTimes(NoTombs) = [i \in Items |-> [del |-> 0, rev |-> 0]]
  BY DEF DeletionTimes, NoTombs
<1>2. {i \in Items : Present(NoBookmarks.items[i])} = {}
  BY DEF NoBookmarks, NoItems, NoItem, Present
<1>3. progress.st = [t |-> 0, d |-> 0]
  BY DEF Init, NoProgress, NoStamp
<1> QED
  BY <1>1, <1>2, <1>3 DEF Init, Shared!Init

\* Every step is one of SharedMeta's or leaves alone what it sees.
LEMMA SharedStep ==
    ASSUME ReadsRemote, ~ContentVersions, TypeOK, TypeOK', BucketInv, [Next]_vars
    PROVE  [Shared!Next]_(Shared!shared)
<1>1. /\ progress \in Progress /\ progress' \in Progress
      /\ tombstones \in TombSet /\ tombstones' \in TombSet
      /\ applied \in TombSet /\ applied' \in TombSet
  BY DEF TypeOK
<1>2. ASSUME UNCHANGED <<progress, bookmarks, tombstones, applied>>
      PROVE  UNCHANGED Shared!shared
  BY <1>2 DEF Shared!shared, DeletionTimes
<1>3. ASSUME NEW d \in Devices, WriteProgress(d)
      PROVE  Shared!Move
  <2>1. ~StampLess(progress'.st, progress.st)
    BY <1>3, WriteProgressSafe
  <2>2. UNCHANGED <<bookmarks, tombstones, applied>>
    BY <1>3 DEF WriteProgress
  <2>3. progress'.st \in Shared!Stamps
    BY <1>1 DEF Progress, Stamp, Shared!Stamps
  <2> QED
    BY <2>1, <2>2, <2>3 DEF Shared!Move, Shared!Older, StampLess, DeletionTimes
<1>4. ASSUME NEW d \in Devices, WriteTombstones(d)
      PROVE  Shared!Learn
  <2>1. AllLeq(tombstones, tombstones')
    BY <1>4, WriteTombstonesSafe
  <2>2. /\ DeletionTimes(tombstones') \in [Items -> Shared!Times]
        /\ Shared!KnowsAll(DeletionTimes(tombstones), DeletionTimes(tombstones'))
    BY <1>1, <2>1, TimesCompare
  <2>3. UNCHANGED <<progress, bookmarks, applied>>
    BY <1>4 DEF WriteTombstones
  <2> QED
    BY <2>2, <2>3 DEF Shared!Learn, DeletionTimes
<1>5. ASSUME NEW d \in Devices, WriteBookmarks(d)
      PROVE  Shared!Publish
  <2>1. BucketInv' /\ AllLeq(applied, applied')
    BY <1>5, WriteBookmarksSafe
  <2>2. UNCHANGED <<progress, tombstones>>
    BY <1>5 DEF WriteBookmarks
  <2>3. /\ AllLeq(applied', tombstones)
        /\ \A i \in Items : Has(bookmarks'.items, i) => ~Dead(applied'[i])
    BY <2>1, <2>2, SafeIsPassSafe
  <2>4. /\ DeletionTimes(applied') \in [Items -> Shared!Times]
        /\ Shared!KnowsAll(DeletionTimes(applied), DeletionTimes(applied'))
        /\ Shared!KnowsAll(DeletionTimes(applied'), DeletionTimes(tombstones))
    BY <1>1, <2>1, <2>3, TimesCompare
  <2>5. {i \in Items : Present(bookmarks'.items[i])}
            \subseteq {i \in Items : ~Shared!Deleted(DeletionTimes(applied')[i])}
    BY <2>3 DEF Has, Dead, Shared!Deleted, DeletionTimes
  <2> QED
    BY <2>2, <2>4, <2>5 DEF Shared!Publish, DeletionTimes
<1>6. ASSUME NEW d \in Devices,
             \/ App(d)
             \/ \E mode \in Modes : Sync(d, mode)
             \/ Retry(d) \/ ReadBookmarks(d) \/ LoseRace(d) \/ PutLocal(d) \/ Abort(d)
      PROVE  UNCHANGED Shared!shared
  BY <1>2, <1>6, QuietSafe
<1>7. ASSUME NEW d \in Devices, ReadTombstones(d)
      PROVE  UNCHANGED Shared!shared
  BY <1>2, <1>7 DEF ReadTombstones
<1>8. CASE UNCHANGED vars
  BY <1>2, <1>8 DEF vars
<1> QED
  BY <1>3, <1>4, <1>5, <1>6, <1>7, <1>8 DEF Next, Step, Shared!Next

\* However passes race, fail and are retried, the three objects and their
\* conditional PUTs are one shared record of the book: its position never gets
\* older, what it knows of the deletions only grows, and whoever replaces the
\* list knows at least what the author of the one before knew.
THEOREM BucketIsShared ==
    ReadsRemote /\ ~ContentVersions => (Spec => SharedBucket)
<1> SUFFICES ASSUME ReadsRemote, ~ContentVersions PROVE Spec => SharedBucket
  OBVIOUS
<1>1. TypeOK /\ TypeOK' /\ BucketInv /\ [Next]_vars => [Shared!Next]_(Shared!shared)
  BY SharedStep
<1> QED
  BY <1>1, SharedInit, BucketSafe, TypeCorrect, PTL DEF Spec, SharedBucket, Shared!Spec

-----------------------------------------------------------------------------
(* What a sync pass may do to the cache of its device, when the app waits for *)
(* a running pass: CacheInv, DeletionSticks and ItemsKept.                    *)


\* put_local_meta stores the items it is given.
LEMMA PutItems ==
    ASSUME NEW p \in Meta, NEW m \in Meta, NEW o
    PROVE  Put(p, m, o).items = m.items
<1> DEFINE nm == Normalize(m)
           np == Normalize(p)
<1>1. nm \in Meta /\ nm.items = m.items
  BY NormalizeType DEF Normalize, Meta
<1> HIDE DEF nm, np
<1>2. Put(p, m, o).items = nm.items
  BY <1>1 DEF Put, Meta, nm, np
<1> QED
  BY <1>1, <1>2

\* Merging a remote list keeps the items of the base.
LEMMA MergeKeeps ==
    ASSUME NEW b \in Meta, NEW rb \in Bookmarks, NEW i \in Items, Has(b.items, i)
    PROVE  Has(MergeItems(b, rb), i)
<1>1. b.items \in [Items -> Item] /\ rb.items \in [Items -> Item]
  BY DEF Meta, Bookmarks
<1>2. Has(AppendMissing(rb.items, b.items), i)
  BY DEF AppendMissing, Has
<1>3. Has(Union(b.items, rb.items), i)
  BY DEF Union, Has
<1> QED
  BY <1>2, <1>3 DEF MergeItems

\* The items of a merge are those of MergeItems that no deletion takes away.
LEMMA MergedItems ==
    ASSUME NEW k \in Task, NEW i \in Items
    PROVE  Merged(k).items[i] =
               IF Dead(MergedTombs(k)[i]) THEN NoItem
               ELSE MergeItems(k.base, SeenBookmarks(k))[i]
<1> DEFINE m == MergeMeta(k.base, SeenProgress(k), SeenBookmarks(k))
<1>1. /\ k.base \in Meta /\ SeenProgress(k) \in Progress /\ SeenBookmarks(k) \in Bookmarks
  BY EmptyTypes DEF Task, SeenProgress, SeenBookmarks
<1>2. m \in Meta
  BY <1>1, MergeMetaType
<1>3. m.items = MergeItems(k.base, SeenBookmarks(k))
  BY <1>1 DEF MergeMeta, Meta
<1> HIDE DEF m
<1>4. Merged(k) = [m EXCEPT !.items = ApplyTombs(m.items, MergedTombs(k))]
  BY DEF Merged, m
<1>5. Merged(k).items = ApplyTombs(m.items, MergedTombs(k))
  BY <1>2, <1>4 DEF Meta
<1> QED
  BY <1>3, <1>5 DEF ApplyTombs

-----------------------------------------------------------------------------
(* The invariant of the cache *)

\* What a pass k has read of the metadata l and the deletions ts of its device
\* is what is there.
Fresh(k, l, ts) ==
    /\ k.pc \in Stages \ {"idle", "start"} /\ k.mode # "pull_only" => k.base = Normalize(l)
    /\ k.pc \in Writing \cup {"putLocal"} => ts = MergedTombs(k)

\* CacheInv is Fresh of every device, now and after a step.
LEMMA FreshIsCacheInv ==
    /\ CacheInv <=> (AppSerialized => \A d \in Devices : Fresh(task[d], local[d], tombs[d]))
    /\ CacheInv' <=> (AppSerialized => \A d \in Devices : Fresh(task'[d], local'[d], tombs'[d]))
BY DEF CacheInv, Fresh

\* A pass that is over or about to start again has read nothing.
LEMMA FreshBlank ==
    ASSUME NEW k, k.pc \in {"idle", "start"}, NEW l, NEW ts
    PROVE  Fresh(k, l, ts)
BY DEF Fresh, Writing

\* What is current in the bucket has no part in it.
LEMMA FreshKept ==
    ASSUME NEW k \in Task, NEW l, NEW ts, NEW object \in Objects, Fresh(k, l, ts)
    PROVE  Fresh(AfterWrite(k, object), l, ts)
<1> DEFINE j == AfterWrite(k, object)
<1>1. j.pc = k.pc /\ j.mode = k.mode /\ j.base = k.base /\ j.lt = k.lt /\ j.rt = k.rt
  BY AfterWriteType
<1> HIDE DEF j
<1>2. MergedTombs(j) = MergedTombs(k)
  BY <1>1 DEF MergedTombs, SeenTombs
<1>3. Fresh(j, l, ts)
  BY <1>1, <1>2 DEF Fresh
<1> QED
  BY <1>3 DEF j

\* A pass in its last stages may go on to any later one.
LEMMA FreshAt ==
    ASSUME NEW k \in Task, NEW l, NEW ts, NEW pc \in Stages,
           k.mode # "pull_only" => k.base = Normalize(l),
           pc # "idle" => ts = MergedTombs(k)
    PROVE  Fresh(At(k, pc), l, ts)
<1>1. CASE pc = "idle"
  BY <1>1, AtType, FreshBlank DEF IdleTask
<1>2. CASE pc # "idle"
  <2> DEFINE j == [k EXCEPT !.pc = pc]
  <2>1. At(k, pc) = j
    BY <1>2, AtType
  <2>2. j.pc = pc /\ j.mode = k.mode /\ j.base = k.base /\ j.lt = k.lt /\ j.rt = k.rt
    BY DEF Task
  <2> HIDE DEF j
  <2>3. MergedTombs(j) = MergedTombs(k)
    BY <2>2 DEF MergedTombs, SeenTombs
  <2> QED
    BY <1>2, <2>1, <2>2, <2>3 DEF Fresh
<1> QED
  BY <1>1, <1>2

\* A conditional PUT leaves every pass fresh.
LEMMA FreshWritten ==
    ASSUME TypeOK, NEW d \in Devices, NEW object \in Objects, NEW pc \in Stages,
           \A e \in Devices : Fresh(task[e], local[e], tombs[e]),
           task[d].pc \in Writing, Written(d, object, pc), UNCHANGED <<local, tombs>>
    PROVE  \A e \in Devices : Fresh(task'[e], local'[e], tombs'[e])
<1>1. \A e \in Devices : task[e] \in Task
  BY DEF TypeOK
<1>2. \A e \in Devices : Fresh(AfterWrite(task[e], object), local[e], tombs[e])
  BY <1>1, FreshKept
<1> DEFINE k == AfterWrite(task[d], object)
<1>3. k \in Task /\ k.pc \in Writing /\ Fresh(k, local[d], tombs[d])
  BY <1>1, <1>2, AfterWriteType
<1> HIDE DEF k
<1>4. Fresh(At(k, pc), local[d], tombs[d])
  <2>1. (k.mode # "pull_only" => k.base = Normalize(local[d])) /\ tombs[d] = MergedTombs(k)
    BY <1>3 DEF Fresh, Writing, Stages
  <2> QED
    BY <1>3, <2>1, FreshAt
<1>5. \A e \in Devices : task'[e] = IF e = d THEN At(k, pc)
                                    ELSE AfterWrite(task[e], object)
  BY DEF Written, k
<1> QED
  BY <1>2, <1>4, <1>5

\* A step of d that changes only the task, the metadata and the deletions of d
\* leaves every pass fresh if it leaves that of d fresh.
LEMMA FreshStep ==
    ASSUME NEW d \in Devices, NEW k, TypeOK,
           \A e \in Devices : Fresh(task[e], local[e], tombs[e]),
           task' = [task EXCEPT ![d] = k],
           \A e \in Devices \ {d} : local'[e] = local[e] /\ tombs'[e] = tombs[e],
           Fresh(k, local'[d], tombs'[d])
    PROVE  \A e \in Devices : Fresh(task'[e], local'[e], tombs'[e])
BY DEF TypeOK

\* Every step of a pass leaves every pass fresh.
LEMMA StepFresh ==
    ASSUME TypeOK, AppSerialized, NEW d \in Devices,
           \A e \in Devices : Fresh(task[e], local[e], tombs[e]), Step(d)
    PROVE  \A e \in Devices : Fresh(task'[e], local'[e], tombs'[e])
<1>1. /\ task \in [Devices -> Task] /\ task[d] \in Task /\ Fresh(task[d], local[d], tombs[d])
      /\ local \in [Devices -> Meta] /\ tombs \in [Devices -> TombSet]
  BY DEF TypeOK
<1>2. CASE Retry(d)
  <2> DEFINE base == IF task[d].mode = "pull_only" THEN NoMeta ELSE Normalize(local[d])
             k == [IdleTask EXCEPT !.pc = "readBookmarks", !.mode = task[d].mode,
                                   !.left = task[d].left, !.base = base, !.rp = progress,
                                   !.current = {"progress"}]
  <2>1. task' = [task EXCEPT ![d] = k]
    BY <1>2 DEF Retry, StartAttempt
  <2>2. k.pc = "readBookmarks" /\ k.mode = task[d].mode /\ k.base = base
    BY DEF IdleTask
  <2>3. Fresh(k, local'[d], tombs'[d])
    BY <1>2, <2>2 DEF Fresh, Writing, Retry
  <2> HIDE DEF k, base
  <2> QED
    BY <1>2, <2>1, <2>3, FreshStep DEF Retry
<1>3. CASE ReadBookmarks(d)
  <2> DEFINE k == [task[d] EXCEPT !.pc = "readTombstones", !.rb = bookmarks, !.lt = tombs[d],
                                  !.current = @ \cup {"bookmarks"}]
  <2>1. k.pc = "readTombstones" /\ k.mode = task[d].mode /\ k.base = task[d].base
    BY <1>1 DEF Task
  <2>2. Fresh(k, local'[d], tombs'[d])
    BY <1>1, <1>3, <2>1 DEF Fresh, Writing, ReadBookmarks, Stages
  <2>3. task' = [task EXCEPT ![d] = k]
    BY <1>3 DEF ReadBookmarks
  <2> HIDE DEF k
  <2> QED
    BY <1>3, <2>2, <2>3, FreshStep DEF ReadBookmarks
<1>4. CASE ReadTombstones(d)
  <2>1. PICK pc \in {"idle", "casTombstones", "casProgress", "casBookmarks", "putLocal"} :
          /\ task' = [task EXCEPT ![d] = At(ReadTask(d), pc)]
          /\ pc # "idle" => ~NothingExists(ReadTask(d))
    BY <1>4, ReadTombstonesStep
  <2>2. ReadTask(d) \in Task
    BY <1>4, ReadTombstonesStep
  <2>3. ReadTask(d).mode = task[d].mode /\ ReadTask(d).base = task[d].base
    BY <1>1 DEF ReadTask, Task
  <2>4. /\ UNCHANGED local
        /\ tombs' = [tombs EXCEPT ![d] = IF NothingExists(ReadTask(d)) THEN tombs[d]
                                         ELSE MergedTombs(ReadTask(d))]
    BY <1>4 DEF ReadTombstones, ReadTask
  <2>5. pc # "idle" => tombs'[d] = MergedTombs(ReadTask(d))
    BY <1>1, <2>1, <2>4
  <2>6. Fresh(At(ReadTask(d), pc), local'[d], tombs'[d])
    <3>1. task[d].mode # "pull_only" => task[d].base = Normalize(local[d])
      BY <1>1, <1>4 DEF Fresh, ReadTombstones, Stages
    <3>2. pc \in Stages
      BY DEF Stages
    <3> QED
      BY <2>2, <2>3, <2>4, <2>5, <3>1, <3>2, FreshAt
  <2> QED
    BY <1>1, <2>1, <2>4, <2>6, FreshStep
<1>5. CASE WriteTombstones(d)
  <2>1. PICK pc \in Stages : Written(d, "tombstones", pc)
    BY <1>1, <1>5, StageType DEF WriteTombstones, Unheard, Task, Stages
  <2> QED
    BY <1>1, <1>5, <2>1, FreshWritten DEF WriteTombstones, Writing, Objects
<1>6. CASE WriteProgress(d)
  <2>1. PICK pc \in Stages : Written(d, "progress", pc)
    BY <1>1, <1>6, StageType DEF WriteProgress, Unheard, Task, Stages
  <2> QED
    BY <1>1, <1>6, <2>1, FreshWritten DEF WriteProgress, Writing, Objects
<1>7. CASE WriteBookmarks(d)
  <2>1. PICK pc \in Stages : Written(d, "bookmarks", pc)
    BY <1>1, <1>7, StageType DEF WriteBookmarks, Unheard, Task, Stages
  <2> QED
    BY <1>1, <1>7, <2>1, FreshWritten DEF WriteBookmarks, Writing, Objects
<1>8. Fresh(IdleTask, local'[d], tombs'[d])
  BY FreshBlank DEF IdleTask
<1>9. CASE LoseRace(d)
  <2> DEFINE k == [IdleTask EXCEPT !.pc = "start", !.mode = task[d].mode,
                                   !.left = task[d].left - 1]
  <2>0. k.pc = "start"
    BY DEF IdleTask
  <2> HIDE DEF k
  <2>1. Fresh(k, local'[d], tombs'[d])
    BY <2>0, FreshBlank
  <2>2. task' = [task EXCEPT ![d] = IF task[d].left = 1 THEN IdleTask ELSE k]
    BY <1>9 DEF LoseRace, k
  <2> QED
    BY <1>8, <1>9, <2>1, <2>2, FreshStep DEF LoseRace
<1>10. CASE PutLocal(d)
  BY <1>1, <1>8, <1>10, FreshStep DEF PutLocal
<1> QED
  BY <1>2, <1>3, <1>4, <1>5, <1>6, <1>7, <1>9, <1>10 DEF Step

\* The app edits, and changes the cache of its own device only.
LEMMA AppStep ==
    ASSUME TypeOK, NEW d \in Devices, App(d)
    PROVE  /\ edits' # edits /\ UNCHANGED task
           /\ AppSerialized => task[d].pc = "idle"
           /\ \A e \in Devices \ {d} : local'[e] = local[e] /\ tombs'[e] = tombs[e]
<1>1. /\ local \in [Devices -> Meta] /\ tombs \in [Devices -> TombSet] /\ edits \in Nat
  BY DEF TypeOK
<1>2. PICK t \in Clocks :
        \/ EditProgress(d, t)
        \/ \E i \in Items :
             \/ \E c \in CreateTs, op \in {"item", "both"} : EditItem(d, t, i, c, op)
             \/ \E f \in Finishes : MarkDeleted(d, t, i, f)
             \/ \E f \in Finishes : UndoDeletion(d, t, i, f)
  BY DEF App
<1>3. CASE EditProgress(d, t)
  BY <1>1, <1>3 DEF EditProgress, AppMayRun
<1>4. ASSUME NEW i \in Items, NEW c \in CreateTs, NEW op, EditItem(d, t, i, c, op)
      PROVE  /\ edits' # edits /\ UNCHANGED task
             /\ AppSerialized => task[d].pc = "idle"
             /\ \A e \in Devices \ {d} : local'[e] = local[e] /\ tombs'[e] = tombs[e]
  BY <1>1, <1>4 DEF EditItem, AppMayRun
<1>5. ASSUME NEW i \in Items, NEW f, MarkDeleted(d, t, i, f)
      PROVE  /\ edits' # edits /\ UNCHANGED task
             /\ AppSerialized => task[d].pc = "idle"
             /\ \A e \in Devices \ {d} : local'[e] = local[e] /\ tombs'[e] = tombs[e]
  BY <1>1, <1>5 DEF MarkDeleted, AppMayRun
<1>6. ASSUME NEW i \in Items, NEW f, UndoDeletion(d, t, i, f)
      PROVE  /\ edits' # edits /\ UNCHANGED task
             /\ AppSerialized => task[d].pc = "idle"
             /\ \A e \in Devices \ {d} : local'[e] = local[e] /\ tombs'[e] = tombs[e]
  BY <1>1, <1>6 DEF UndoDeletion, AppMayRun
<1> QED
  BY <1>2, <1>3, <1>4, <1>5, <1>6

\* Every step keeps the invariant of the caches.
LEMMA NextFresh == TypeOK /\ CacheInv /\ [Next]_vars => CacheInv'
<1> SUFFICES ASSUME TypeOK, AppSerialized, [Next]_vars,
                    \A e \in Devices : Fresh(task[e], local[e], tombs[e])
             PROVE  \A e \in Devices : Fresh(task'[e], local'[e], tombs'[e])
  BY FreshIsCacheInv
<1>1. /\ task \in [Devices -> Task] /\ local \in [Devices -> Meta]
      /\ tombs \in [Devices -> TombSet]
  BY DEF TypeOK
<1>2. ASSUME NEW d \in Devices, App(d)
      PROVE  \A e \in Devices : Fresh(task'[e], local'[e], tombs'[e])
  <2>1. task[d].pc = "idle" /\ UNCHANGED task
    BY <1>2, AppStep
  <2>2. \A e \in Devices \ {d} : local'[e] = local[e] /\ tombs'[e] = tombs[e]
    BY <1>2, AppStep
  <2>3. Fresh(task'[d], local'[d], tombs'[d])
    BY <2>1, FreshBlank
  <2> QED
    BY <2>1, <2>2, <2>3
<1>3. ASSUME NEW d \in Devices, NEW mode \in Modes, Sync(d, mode)
      PROVE  \A e \in Devices : Fresh(task'[e], local'[e], tombs'[e])
  <2> DEFINE base == IF mode = "pull_only" THEN NoMeta ELSE Normalize(local[d])
             k == [IdleTask EXCEPT !.pc = "readBookmarks", !.mode = mode,
                                   !.left = MaxAttempts, !.base = base, !.rp = progress,
                                   !.current = {"progress"}]
  <2>1. task' = [task EXCEPT ![d] = k]
    BY <1>3 DEF Sync, StartAttempt
  <2>2. k.pc = "readBookmarks" /\ k.mode = mode /\ k.base = base
    BY DEF IdleTask
  <2>3. Fresh(k, local'[d], tombs'[d])
    BY <1>3, <2>2 DEF Fresh, Writing, Sync
  <2> HIDE DEF k, base
  <2> QED
    BY <1>3, <2>1, <2>3, FreshStep DEF Sync
<1>4. ASSUME NEW d \in Devices, Abort(d)
      PROVE  \A e \in Devices : Fresh(task'[e], local'[e], tombs'[e])
  <2>1. Fresh(IdleTask, local'[d], tombs'[d])
    BY FreshBlank DEF IdleTask
  <2> QED
    BY <1>4, <2>1, FreshStep DEF Abort
<1>5. CASE UNCHANGED vars
  BY <1>5 DEF vars
<1> QED
  BY <1>2, <1>3, <1>4, <1>5, StepFresh DEF Next

\* The invariant of the caches holds at the start.
LEMMA InitFresh == Init => CacheInv
BY FreshIsCacheInv, FreshBlank DEF Init, IdleTask

-----------------------------------------------------------------------------
(* The theorems about the caches *)

\* A step that is not the app's leaves the cache alone unless it is the last
\* step of a pass, which stores what the pass has merged.
LEMMA OnlyPutLocal ==
    ASSUME TypeOK, [Next]_vars, edits' = edits, NEW d \in Devices, local'[d] # local[d]
    PROVE  /\ task[d] \in Task /\ task[d].pc = "putLocal" /\ tombs' = tombs
           /\ local'[d].items = Merged(task[d]).items
<1>1. /\ edits \in Nat /\ local \in [Devices -> Meta] /\ task[d] \in Task
      /\ Merged(task[d]) \in Meta
  BY MergedType DEF TypeOK
<1>2. ASSUME NEW e \in Devices
      PROVE  ~App(e)
  BY AppStep
<1>3. PICK e \in Devices : PutLocal(e)
  BY <1>2 DEF Next, Step, vars, Sync, Retry, ReadBookmarks, ReadTombstones, WriteTombstones,
              WriteProgress, WriteBookmarks, LoseRace, Abort
<1>4. e = d
  BY <1>1, <1>3 DEF PutLocal
<1>5. PICK o \in BOOLEAN : local' = [local EXCEPT ![d] = Put(local[d], Merged(task[d]), o)]
  BY <1>3, <1>4 DEF PutLocal
<1>6. local'[d].items = Merged(task[d]).items
  BY <1>1, <1>5, PutItems
<1> QED
  BY <1>1, <1>3, <1>4, <1>6 DEF PutLocal

\* What a pass has read of the cache of its device is still there when it
\* writes (nativeCallMutex of KmoSync.kt around every call).
THEOREM CacheFresh == Spec => []CacheInv
<1>1. Init => TypeOK /\ CacheInv
  BY InitType, InitFresh
<1>2. TypeOK /\ CacheInv /\ [Next]_vars => TypeOK' /\ CacheInv'
  BY NextType, NextFresh
<1> QED
  BY <1>1, <1>2, PTL DEF Spec

\* No pass brings an item back to a device whose tombstone for it stands.
THEOREM NoPassUndeletes == AppSerialized => (Spec => DeletionSticks)
<1> SUFFICES ASSUME AppSerialized PROVE Spec => DeletionSticks
  OBVIOUS
<1>1. TypeOK /\ CacheInv /\ [Next]_vars =>
        [edits' = edits => \A d \in Devices, i \in Items :
          Dead(tombs[d][i]) /\ ~Has(local[d].items, i) /\ Has(local'[d].items, i)
             => ~Dead(tombs'[d][i])]_vars
  <2> SUFFICES ASSUME TypeOK, CacheInv, [Next]_vars, edits' = edits,
                      NEW d \in Devices, NEW i \in Items,
                      ~Has(local[d].items, i), Has(local'[d].items, i)
               PROVE  ~Dead(tombs'[d][i])
    OBVIOUS
  <2>1. /\ task[d] \in Task /\ task[d].pc = "putLocal" /\ tombs' = tombs
        /\ local'[d].items = Merged(task[d]).items
    BY OnlyPutLocal
  <2>2. tombs[d] = MergedTombs(task[d])
    BY <2>1 DEF CacheInv
  <2> QED
    BY <2>1, <2>2, MergedItems DEF Has, Present, NoItem
<1> QED
  BY <1>1, CacheFresh, TypeCorrect, PTL DEF Spec, DeletionSticks

\* A pass that reads the cache takes an item from it only because of a deletion.
THEOREM NoPassDropsItems == AppSerialized => (Spec => ItemsKept)
<1> SUFFICES ASSUME AppSerialized PROVE Spec => ItemsKept
  OBVIOUS
<1>1. TypeOK /\ CacheInv /\ [Next]_vars =>
        [edits' = edits => \A d \in Devices, i \in Items :
          task[d].mode # "pull_only" /\ Has(local[d].items, i) /\ ~Has(local'[d].items, i)
             => Dead(tombs'[d][i])]_vars
  <2> SUFFICES ASSUME TypeOK, CacheInv, [Next]_vars, edits' = edits,
                      NEW d \in Devices, NEW i \in Items, task[d].mode # "pull_only",
                      Has(local[d].items, i), ~Has(local'[d].items, i)
               PROVE  Dead(tombs'[d][i])
    OBVIOUS
  <2>1. /\ task[d] \in Task /\ task[d].pc = "putLocal" /\ tombs' = tombs
        /\ local'[d].items = Merged(task[d]).items
    BY OnlyPutLocal
  <2>2. tombs[d] = MergedTombs(task[d]) /\ task[d].base = Normalize(local[d])
    BY <2>1 DEF CacheInv, Stages
  <2>3. local[d] \in Meta /\ Normalize(local[d]) \in Meta
    BY NormalizeType DEF TypeOK
  <2>4. task[d].base.items = local[d].items
    BY <2>2, <2>3 DEF Normalize, Meta
  <2>5. SeenBookmarks(task[d]) \in Bookmarks /\ task[d].base \in Meta
    BY <2>1, EmptyTypes DEF SeenBookmarks, Task
  <2>6. Has(MergeItems(task[d].base, SeenBookmarks(task[d])), i)
    BY <2>4, <2>5, MergeKeeps
  <2> QED
    BY <2>1, <2>2, <2>6, MergedItems DEF Has
<1> QED
  BY <1>1, CacheFresh, TypeCorrect, PTL DEF Spec, ItemsKept

-----------------------------------------------------------------------------
(* What a pass skips (SkipInv), and the agreement a pass leaves behind *)

\* SkipsHonest in a bucket with the bookmarks b.
Honest(k, b) ==
    /\ "bookmarks" \in k.current => k.rb = b
    /\ ~k.rp.has => k.rp = NoProgress
    /\ ~k.rb.has => k.rb = NoBookmarks
    /\ k.mode = "bidirectional" =>
         /\ k.pc \in {"casProgress", "casBookmarks", "putLocal"}
              => ("tombstones" \in k.current => k.rt = MergedTombs(k))
         /\ k.pc \in {"casBookmarks", "putLocal"}
              => ("progress" \in k.current => k.rp.prog = Merged(k).prog)
         /\ k.pc = "putLocal"
              => ("bookmarks" \in k.current => k.rb.items = Merged(k).items)

\* What is not there holds nothing: a cache, the position, the bookmarks.
NothingHidden(l, p, b) ==
    /\ \A d \in Devices : ~l[d].has => l[d] = NoMeta
    /\ ~p.has => p = NoProgress
    /\ ~b.has => b = NoBookmarks

\* SkipInv in these terms, now and after a step.
LEMMA HonestIsSkipInv ==
    /\ SkipInv <=> /\ \A d \in Devices : Honest(task[d], bookmarks)
                   /\ NothingHidden(local, progress, bookmarks)
    /\ SkipInv' <=> /\ \A d \in Devices : Honest(task'[d], bookmarks')
                    /\ NothingHidden(local', progress', bookmarks')
BY DEF SkipInv, SkipsHonest, Honest, NothingHidden

\* A merge depends on what the pass has read, not on its stage.
LEMMA SameMerge ==
    ASSUME NEW k, NEW j, j.mode = k.mode, j.base = k.base, j.rp = k.rp, j.rb = k.rb,
           j.lt = k.lt, j.rt = k.rt
    PROVE  MergedTombs(j) = MergedTombs(k) /\ Merged(j) = Merged(k)
<1>1. SeenProgress(j) = SeenProgress(k) /\ SeenBookmarks(j) = SeenBookmarks(k)
  BY DEF SeenProgress, SeenBookmarks
<1>2. MergedTombs(j) = MergedTombs(k)
  BY DEF MergedTombs, SeenTombs
<1> QED
  BY <1>1, <1>2 DEF Merged

\* What a pass in both directions has found when it skips a stage.
LEMMA SkippedStages ==
    ASSUME NEW k \in Task, NEW o, k.mode = "bidirectional",
           ~k.rp.has => k.rp = NoProgress, ~k.rb.has => k.rb = NoBookmarks
    PROVE  /\ AfterBookmarks(k, o) = "idle" => k.base = Merged(k)
           /\ AfterProgress(k, o) = "idle" => k.base = Merged(k)
           /\ AfterProgress(k, o) # "casBookmarks" => k.rb.items = Merged(k).items
           /\ AfterTombstones(k, o) = "idle" => k.base = Merged(k)
           /\ AfterTombstones(k, o) # "casProgress" => k.rp.prog = Merged(k).prog
           /\ AfterTombstones(k, o) \notin {"casProgress", "casBookmarks"}
                 => k.rb.items = Merged(k).items
<1>1. Writes(k) /\ SeenProgress(k) = k.rp /\ SeenBookmarks(k) = k.rb
  BY DEF Writes, SeenProgress, SeenBookmarks
<1>2. AfterBookmarks(k, o) = "idle" => k.base = Merged(k)
  BY DEF AfterBookmarks, LocalMatches
<1>3. BookmarksMatch(k, o) => k.rb.items = Merged(k).items
  BY <1>1 DEF BookmarksMatch, ItemsDiffer, NoBookmarks
<1>4. ProgressMatches(k) => k.rp.prog = Merged(k).prog
  BY <1>1 DEF ProgressMatches, NoProgress
<1>5. /\ AfterProgress(k, o) = "idle" => k.base = Merged(k)
      /\ AfterProgress(k, o) # "casBookmarks" => k.rb.items = Merged(k).items
  BY <1>1, <1>2, <1>3 DEF AfterProgress
<1> QED
  BY <1>1, <1>2, <1>4, <1>5 DEF AfterTombstones

\* A pass put in stage pc by At.
LEMMA HonestAt ==
    ASSUME NEW k \in Task, NEW pc \in Stages, NEW b,
           "bookmarks" \in k.current => k.rb = b,
           ~k.rp.has => k.rp = NoProgress, ~k.rb.has => k.rb = NoBookmarks,
           k.mode = "bidirectional" /\ pc \in {"casProgress", "casBookmarks", "putLocal"}
               => ("tombstones" \in k.current => k.rt = MergedTombs(k)),
           k.mode = "bidirectional" /\ pc \in {"casBookmarks", "putLocal"}
               => ("progress" \in k.current => k.rp.prog = Merged(k).prog),
           k.mode = "bidirectional" /\ pc = "putLocal"
               => ("bookmarks" \in k.current => k.rb.items = Merged(k).items)
    PROVE  Honest(At(k, pc), b)
<1>1. CASE pc = "idle"
  BY <1>1, AtType DEF IdleTask, Honest
<1>2. CASE pc # "idle"
  <2> DEFINE j == [k EXCEPT !.pc = pc]
  <2>1. At(k, pc) = j
    BY <1>2, AtType
  <2>2. /\ j.pc = pc /\ j.mode = k.mode /\ j.base = k.base /\ j.rp = k.rp /\ j.rb = k.rb
        /\ j.lt = k.lt /\ j.rt = k.rt /\ j.current = k.current
    BY DEF Task
  <2> HIDE DEF j
  <2>3. MergedTombs(j) = MergedTombs(k) /\ Merged(j) = Merged(k)
    BY <2>2, SameMerge
  <2> QED
    BY <2>1, <2>2, <2>3 DEF Honest
<1> QED
  BY <1>1, <1>2

\* A pass stays honest while an object changes under it: that object is not
\* current for it any more.
LEMMA HonestKept ==
    ASSUME ~ContentVersions, NEW k \in Task, NEW object \in Objects,
           Honest(k, bookmarks), bookmarks' # bookmarks => object = "bookmarks"
    PROVE  Honest(AfterWrite(k, object), bookmarks')
<1> DEFINE j == AfterWrite(k, object)
<1>1. /\ j.pc = k.pc /\ j.mode = k.mode /\ j.base = k.base /\ j.rp = k.rp /\ j.rb = k.rb
      /\ j.lt = k.lt /\ j.rt = k.rt /\ j.current = k.current \ {object}
  BY AfterWriteType DEF AsRead
<1> HIDE DEF j
<1>2. MergedTombs(j) = MergedTombs(k) /\ Merged(j) = Merged(k)
  BY <1>1, SameMerge
<1>3. Honest(j, bookmarks')
  BY <1>1, <1>2 DEF Honest
<1> QED
  BY <1>3 DEF j

\* The same after a conditional PUT of d, which may go on to every stage that
\* follows from what it has found.
LEMMA HonestWritten ==
    ASSUME ~ContentVersions, TypeOK, NEW d \in Devices, NEW object \in Objects,
           NEW pc \in Stages, Written(d, object, pc),
           \A e \in Devices : Honest(task[e], bookmarks),
           bookmarks' # bookmarks => object = "bookmarks",
           pc = task[d].pc
             \/ task[d].mode = "bidirectional" =>
                 /\ object = "tombstones" \/ task[d].pc \in {"casProgress", "casBookmarks"}
                 /\ \/ object = "progress" \/ task[d].pc = "casBookmarks"
                    \/ pc \in {"casBookmarks", "putLocal"}
                         => task[d].rp.prog = Merged(task[d]).prog
                 /\ object = "bookmarks" \/ (pc = "putLocal"
                                               => task[d].rb.items = Merged(task[d]).items)
    PROVE  \A e \in Devices : Honest(task'[e], bookmarks')
<1>1. \A e \in Devices : task[e] \in Task
  BY DEF TypeOK
<1>2. \A e \in Devices : Honest(AfterWrite(task[e], object), bookmarks')
  BY <1>1, HonestKept
<1> DEFINE k == task[d]
           j == AfterWrite(k, object)
<1>3. /\ j \in Task /\ j.pc = k.pc /\ j.mode = k.mode /\ j.base = k.base /\ j.rp = k.rp
      /\ j.rb = k.rb /\ j.lt = k.lt /\ j.rt = k.rt /\ j.current = k.current \ {object}
  BY <1>1, AfterWriteType DEF AsRead
<1>4. \A e \in Devices : task'[e] = IF e = d THEN At(j, pc) ELSE AfterWrite(task[e], object)
  BY DEF Written
<1>5. Honest(j, bookmarks')
  BY <1>2
<1>6. pc = k.pc
        \/ k.mode = "bidirectional" =>
             /\ object = "tombstones" \/ k.pc \in {"casProgress", "casBookmarks"}
             /\ \/ object = "progress" \/ k.pc = "casBookmarks"
                \/ pc \in {"casBookmarks", "putLocal"} => k.rp.prog = Merged(k).prog
             /\ object = "bookmarks" \/ (pc = "putLocal" => k.rb.items = Merged(k).items)
  OBVIOUS
<1> HIDE DEF j, k
<1>7. Merged(j) = Merged(k) /\ MergedTombs(j) = MergedTombs(k)
  BY <1>3, SameMerge
<1>8. /\ "bookmarks" \in j.current => j.rb = bookmarks'
      /\ ~j.rp.has => j.rp = NoProgress
      /\ ~j.rb.has => j.rb = NoBookmarks
  BY <1>5 DEF Honest
<1>9. j.mode = "bidirectional" /\ pc \in {"casProgress", "casBookmarks", "putLocal"}
         => ("tombstones" \in j.current => j.rt = MergedTombs(j))
  BY <1>3, <1>5, <1>6 DEF Honest
<1>10. j.mode = "bidirectional" /\ pc \in {"casBookmarks", "putLocal"}
         => ("progress" \in j.current => j.rp.prog = Merged(j).prog)
  BY <1>3, <1>5, <1>6, <1>7 DEF Honest
<1>11. j.mode = "bidirectional" /\ pc = "putLocal"
         => ("bookmarks" \in j.current => j.rb.items = Merged(j).items)
  BY <1>3, <1>5, <1>6, <1>7 DEF Honest
<1>12. Honest(At(j, pc), bookmarks')
  BY <1>3, <1>8, <1>9, <1>10, <1>11, HonestAt
<1> QED
  BY <1>2, <1>4, <1>12

\* What a device puts in its cache has metadata if what is put has.
LEMMA PutFields ==
    ASSUME NEW p \in Meta, NEW m \in Meta, NEW o
    PROVE  Put(p, m, o).has = m.has /\ Put(p, m, o).prog = m.prog
<1> DEFINE nm == Normalize(m)
           np == Normalize(p)
<1>1. nm \in Meta /\ nm.has = m.has /\ nm.prog = m.prog
  BY NormalizeType DEF Normalize, Meta
<1> HIDE DEF nm, np
<1>2. Put(p, m, o).has = nm.has /\ Put(p, m, o).prog = nm.prog
  BY <1>1 DEF Put, Meta, nm, np
<1> QED
  BY <1>1, <1>2

\* What a pass stores is there.
LEMMA MergedHas == ASSUME NEW k \in Task PROVE Merged(k).has
<1> DEFINE m == MergeMeta(k.base, SeenProgress(k), SeenBookmarks(k))
<1>1. /\ k.base \in Meta /\ SeenProgress(k) \in Progress /\ SeenBookmarks(k) \in Bookmarks
  BY EmptyTypes DEF Task, SeenProgress, SeenBookmarks
<1>2. m \in Meta
  BY <1>1, MergeMetaType
<1>3. m.has = TRUE
  BY <1>1 DEF MergeMeta, Meta
<1> HIDE DEF m
<1>4. Merged(k) = [m EXCEPT !.items = ApplyTombs(m.items, MergedTombs(k))]
  BY DEF Merged, m
<1> QED
  BY <1>2, <1>3, <1>4 DEF Meta

\* An edit leaves metadata in the cache.
LEMMA AppHas ==
    ASSUME TypeOK, TypeOK', NEW d \in Devices, App(d)
    PROVE  /\ local'[d].has
           /\ \A e \in Devices \ {d} : local'[e] = local[e]
           /\ UNCHANGED <<progress, bookmarks, task>>
<1>1. PICK m \in Meta, o \in BOOLEAN :
        m.has /\ local' = [local EXCEPT ![d] = Put(local[d], m, o)]
  BY AppMeta
<1>2. local \in [Devices -> Meta] /\ local[d] \in Meta
  BY DEF TypeOK
<1>3. local'[d] = Put(local[d], m, o) /\ \A e \in Devices \ {d} : local'[e] = local[e]
  BY <1>1, <1>2
<1>4. UNCHANGED <<progress, bookmarks, task>>
  BY DEF App, EditProgress, EditItem, MarkDeleted, UndoDeletion
<1> QED
  BY <1>1, <1>2, <1>3, <1>4, PutFields

\* A step of d that leaves the bookmarks alone.
LEMMA QuietHonest ==
    ASSUME TypeOK, NEW d \in Devices, NEW k, UNCHANGED bookmarks,
           \A e \in Devices : Honest(task[e], bookmarks),
           task' = [task EXCEPT ![d] = k], Honest(k, bookmarks)
    PROVE  \A e \in Devices : Honest(task'[e], bookmarks')
BY DEF TypeOK

\* The start of an attempt.
LEMMA StartHonest ==
    ASSUME TypeOK, NEW d \in Devices, NEW mode, NEW left, StartAttempt(d, mode, left),
           UNCHANGED bookmarks, \A e \in Devices : Honest(task[e], bookmarks),
           NothingHidden(local, progress, bookmarks)
    PROVE  \A e \in Devices : Honest(task'[e], bookmarks')
<1> DEFINE base == IF mode = "pull_only" THEN NoMeta ELSE Normalize(local[d])
           k == [IdleTask EXCEPT !.pc = "readBookmarks", !.mode = mode, !.left = left,
                                 !.base = base, !.rp = progress, !.current = {"progress"}]
<1>1. task' = [task EXCEPT ![d] = k]
  BY DEF StartAttempt
<1> HIDE DEF base
<1>2. /\ k.pc = "readBookmarks" /\ k.rp = progress /\ k.rb = NoBookmarks
      /\ k.current = {"progress"}
  BY DEF IdleTask
<1>3. Honest(k, bookmarks)
  BY <1>2 DEF Honest, NothingHidden
<1> HIDE DEF k
<1> QED
  BY <1>1, <1>3, QuietHonest

\* The decisions taken when the last object has been read.
LEMMA DecideHonest ==
    ASSUME TypeOK, NEW d \in Devices, ReadTombstones(d),
           \A e \in Devices : Honest(task[e], bookmarks)
    PROVE  \A e \in Devices : Honest(task'[e], bookmarks')
<1> DEFINE k == ReadTask(d)
<1>1. task[d] \in Task /\ k \in Task
  BY ReadTombstonesStep DEF TypeOK
<1>2. /\ k.mode = task[d].mode /\ k.rp = task[d].rp /\ k.rb = task[d].rb
      /\ "bookmarks" \in k.current => "bookmarks" \in task[d].current
  BY <1>1 DEF ReadTask, Task
<1>3. PICK o \in BOOLEAN :
        task' = [task EXCEPT ![d] =
                   At(k, IF NothingExists(k) THEN "idle"
                         ELSE IF Writes(k) /\ TombsDiffer(SeenTombs(k), MergedTombs(k), o)
                              THEN "casTombstones" ELSE AfterTombstones(k, o))]
  BY DEF ReadTombstones, ReadTask
<1> HIDE DEF k
<1>4. /\ "bookmarks" \in k.current => k.rb = bookmarks
      /\ ~k.rp.has => k.rp = NoProgress
      /\ ~k.rb.has => k.rb = NoBookmarks
  BY <1>2 DEF Honest
<1> DEFINE pc == IF NothingExists(k) THEN "idle"
                 ELSE IF Writes(k) /\ TombsDiffer(SeenTombs(k), MergedTombs(k), o)
                      THEN "casTombstones" ELSE AfterTombstones(k, o)
<1>5. pc \in Stages
  BY <1>1, StageType DEF Stages
<1>6. k.mode = "bidirectional" /\ pc \in {"casProgress", "casBookmarks", "putLocal"}
         => /\ k.rt = MergedTombs(k)
            /\ pc # "casProgress" => k.rp.prog = Merged(k).prog
            /\ pc = "putLocal" => k.rb.items = Merged(k).items
  <2> SUFFICES ASSUME k.mode = "bidirectional",
                      pc \in {"casProgress", "casBookmarks", "putLocal"}
               PROVE  /\ k.rt = MergedTombs(k)
                      /\ pc # "casProgress" => k.rp.prog = Merged(k).prog
                      /\ pc = "putLocal" => k.rb.items = Merged(k).items
    OBVIOUS
  <2>1. pc = AfterTombstones(k, o) /\ ~TombsDiffer(SeenTombs(k), MergedTombs(k), o)
    BY DEF Writes
  <2>2. k.rt = MergedTombs(k)
    BY <1>1, <2>1, SameTombs
  <2> QED
    BY <1>1, <1>4, <2>1, <2>2, SkippedStages
<1>7. task' = [task EXCEPT ![d] = At(k, pc)]
  BY <1>3
<1> HIDE DEF pc
<1>8. Honest(At(k, pc), bookmarks)
  BY <1>1, <1>4, <1>5, <1>6, HonestAt
<1> QED
  BY <1>7, <1>8, QuietHonest DEF ReadTombstones

\* The three conditional PUTs.
LEMMA WriteHonest ==
    ASSUME ~ContentVersions, TypeOK, NEW d \in Devices,
           WriteTombstones(d) \/ WriteProgress(d) \/ WriteBookmarks(d),
           \A e \in Devices : Honest(task[e], bookmarks)
    PROVE  \A e \in Devices : Honest(task'[e], bookmarks')
<1> DEFINE k == task[d]
<1>1. k \in Task /\ k.pc \in Stages /\ (~k.rp.has => k.rp = NoProgress)
      /\ (~k.rb.has => k.rb = NoBookmarks)
  BY DEF TypeOK, Task, Honest
<1>2. CASE WriteTombstones(d)
  <2>1. CASE Unheard(d, "tombstones")
    BY <1>1, <1>2, <2>1, HonestWritten DEF WriteTombstones, Unheard, Objects
  <2>2. ASSUME NEW o \in BOOLEAN, Written(d, "tombstones", AfterTombstones(k, o))
        PROVE  \A e \in Devices : Honest(task'[e], bookmarks')
    <3>1. AfterTombstones(k, o) \in Stages
      BY <1>1, StageType DEF Stages
    <3>2. k.mode = "bidirectional" =>
            /\ AfterTombstones(k, o) # "casProgress" => k.rp.prog = Merged(k).prog
            /\ AfterTombstones(k, o) = "putLocal" => k.rb.items = Merged(k).items
      BY <1>1, SkippedStages
    <3> QED
      BY <1>2, <2>2, <3>1, <3>2, HonestWritten DEF WriteTombstones, Objects
  <2> QED
    BY <1>2, <2>1, <2>2 DEF WriteTombstones
<1>3. CASE WriteProgress(d)
  <2>1. CASE Unheard(d, "progress")
    BY <1>1, <1>3, <2>1, HonestWritten DEF WriteProgress, Unheard, Objects
  <2>2. ASSUME NEW o \in BOOLEAN, Written(d, "progress", AfterProgress(k, o))
        PROVE  \A e \in Devices : Honest(task'[e], bookmarks')
    <3>1. AfterProgress(k, o) \in Stages
      BY <1>1, StageType DEF Stages
    <3>2. k.mode = "bidirectional" =>
            (AfterProgress(k, o) = "putLocal" => k.rb.items = Merged(k).items)
      BY <1>1, SkippedStages
    <3> QED
      BY <1>3, <2>2, <3>1, <3>2, HonestWritten DEF WriteProgress, Objects
  <2> QED
    BY <1>3, <2>1, <2>2 DEF WriteProgress
<1>4. CASE WriteBookmarks(d)
  <2>1. PICK pc \in Stages : Written(d, "bookmarks", pc)
    BY <1>1, <1>4, StageType DEF WriteBookmarks, Unheard, Stages
  <2> QED
    BY <1>4, <2>1, HonestWritten DEF WriteBookmarks, Objects
<1> QED
  BY <1>2, <1>3, <1>4

\* Nothing is hidden where there is nothing, after every step.
LEMMA NextHidden ==
    ASSUME TypeOK, TypeOK', [Next]_vars, NothingHidden(local, progress, bookmarks)
    PROVE  NothingHidden(local', progress', bookmarks')
<1>1. ASSUME NEW d \in Devices, App(d)
      PROVE  NothingHidden(local', progress', bookmarks')
  BY <1>1, AppHas DEF NothingHidden
<1>2. ASSUME NEW d \in Devices, WriteProgress(d)
      PROVE  NothingHidden(local', progress', bookmarks')
  BY <1>2 DEF WriteProgress, NewProgress, NothingHidden
<1>3. ASSUME NEW d \in Devices, WriteBookmarks(d)
      PROVE  NothingHidden(local', progress', bookmarks')
  BY <1>3 DEF WriteBookmarks, NewBookmarks, NothingHidden
<1>4. ASSUME NEW d \in Devices, PutLocal(d)
      PROVE  NothingHidden(local', progress', bookmarks')
  <2>1. PICK o \in BOOLEAN : local' = [local EXCEPT ![d] = Put(local[d], Merged(task[d]), o)]
    BY <1>4 DEF PutLocal
  <2>2. local \in [Devices -> Meta] /\ task[d] \in Task /\ Merged(task[d]) \in Meta
    BY MergedType DEF TypeOK
  <2>3. Put(local[d], Merged(task[d]), o).has
    BY <2>2, MergedHas, PutFields
  <2>4. local'[d].has /\ \A e \in Devices \ {d} : local'[e] = local[e]
    BY <2>1, <2>2, <2>3
  <2> QED
    BY <1>4, <2>4 DEF PutLocal, NothingHidden
<1>5. ASSUME UNCHANGED <<local, progress, bookmarks>>
      PROVE  NothingHidden(local', progress', bookmarks')
  BY <1>5
<1> QED
  BY <1>1, <1>2, <1>3, <1>4, <1>5 DEF Next, Step, vars, Sync, Retry, ReadBookmarks,
     ReadTombstones, WriteTombstones, LoseRace, Abort

\* Every step keeps SkipInv.
LEMMA NextSkip ==
    ASSUME ~ContentVersions
    PROVE  TypeOK /\ TypeOK' /\ SkipInv /\ [Next]_vars => SkipInv'
<1> SUFFICES ASSUME TypeOK, TypeOK', [Next]_vars,
                    \A e \in Devices : Honest(task[e], bookmarks),
                    NothingHidden(local, progress, bookmarks)
             PROVE  \A e \in Devices : Honest(task'[e], bookmarks')
  BY HonestIsSkipInv, NextHidden
<1>1. ASSUME NEW d \in Devices, App(d)
      PROVE  \A e \in Devices : Honest(task'[e], bookmarks')
  BY <1>1, AppHas
<1>2. ASSUME NEW d \in Devices, \E mode \in Modes : Sync(d, mode)
      PROVE  \A e \in Devices : Honest(task'[e], bookmarks')
  BY <1>2, StartHonest DEF Sync
<1>3. ASSUME NEW d \in Devices, Retry(d)
      PROVE  \A e \in Devices : Honest(task'[e], bookmarks')
  BY <1>3, StartHonest DEF Retry
<1>4. ASSUME NEW d \in Devices, ReadBookmarks(d)
      PROVE  \A e \in Devices : Honest(task'[e], bookmarks')
  <2> DEFINE k == [task[d] EXCEPT !.pc = "readTombstones", !.rb = bookmarks, !.lt = tombs[d],
                                  !.current = @ \cup {"bookmarks"}]
  <2>1. k.pc = "readTombstones" /\ k.rb = bookmarks /\ k.rp = task[d].rp
    BY DEF TypeOK, Task
  <2>2. Honest(k, bookmarks)
    BY <2>1 DEF Honest, NothingHidden
  <2>3. task' = [task EXCEPT ![d] = k]
    BY <1>4 DEF ReadBookmarks
  <2> HIDE DEF k
  <2> QED
    BY <1>4, <2>2, <2>3, QuietHonest DEF ReadBookmarks
<1>5. ASSUME NEW d \in Devices, LoseRace(d) \/ PutLocal(d) \/ Abort(d)
      PROVE  \A e \in Devices : Honest(task'[e], bookmarks')
  <2> DEFINE k == [IdleTask EXCEPT !.pc = "start", !.mode = task[d].mode,
                                   !.left = task[d].left - 1]
  <2>1. Honest(IdleTask, bookmarks)
    BY DEF IdleTask, Honest
  <2>2. k.pc = "start" /\ k.rp = NoProgress /\ k.rb = NoBookmarks /\ k.current = {}
    BY DEF IdleTask
  <2>3. Honest(k, bookmarks)
    BY <2>2 DEF Honest
  <2>4. task' = [task EXCEPT ![d] = IdleTask] \/ task' = [task EXCEPT ![d] = k]
    BY <1>5 DEF LoseRace, PutLocal, Abort
  <2>5. UNCHANGED bookmarks
    BY <1>5 DEF LoseRace, PutLocal, Abort
  <2> HIDE DEF k
  <2> QED
    BY <2>1, <2>3, <2>4, <2>5, QuietHonest
<1>6. CASE UNCHANGED vars
  BY <1>6 DEF vars
<1> QED
  BY <1>1, <1>2, <1>3, <1>4, <1>5, <1>6, DecideHonest, WriteHonest DEF Next, Step

\* SkipInv holds at the start.
LEMMA InitSkip == Init => SkipInv
BY HonestIsSkipInv DEF Init, Honest, NothingHidden, IdleTask

\* Where a device and the bucket agree, the deletions are the same sets.
LEMMA SameAgree ==
    ASSUME NEW l, NEW p, NEW b, NEW ts \in TombSet, l.prog = p.prog, l.items = b.items
    PROVE  Agrees(l, ts, p, b, ts)
BY LeqRefl DEF Agrees

\* What an undisturbed pass past its reads relies on: the bucket is what the pass
\* has merged where it has nothing more to write.
LEMMA StandsStill ==
    ASSUME TypeOK, BucketInv, SkipInv, NEW d \in Devices, Undisturbed(d),
           task[d].mode = "bidirectional", task[d].pc # "readTombstones"
    PROVE  /\ tombs[d] = MergedTombs(task[d])
           /\ task[d].base = Normalize(local[d])
           /\ task[d].rp.prog = Merged(task[d]).prog => progress.prog = Merged(task[d]).prog
           /\ task[d].rb.items = Merged(task[d]).items
                 => bookmarks.items = Merged(task[d]).items
           /\ task[d].pc \in {"casProgress", "casBookmarks", "putLocal"}
                 => tombstones = MergedTombs(task[d])
           /\ task[d].pc \in {"casBookmarks", "putLocal"}
                 => progress.prog = Merged(task[d]).prog
           /\ task[d].pc = "putLocal" => bookmarks.items = Merged(task[d]).items
<1> DEFINE k == task[d]
<1>1. Safe(k, progress, tombstones, applied) /\ Honest(k, bookmarks)
  BY SafeIsPassSafe, HonestIsSkipInv DEF BucketInv
<1>2. tombs[d] = MergedTombs(k) /\ k.base = Normalize(local[d])
  BY DEF Undisturbed
<1>3. "progress" \in k.current \/ progress.prog = Merged(k).prog
  BY DEF Undisturbed, NewProgress
<1>4. "bookmarks" \in k.current \/ bookmarks.items = Merged(k).items
  BY DEF Undisturbed, NewBookmarks
<1>5. "tombstones" \in k.current \/ tombstones = MergedTombs(k)
  BY DEF Undisturbed
<1> HIDE DEF k
<1>6. k.rp.prog = Merged(k).prog => progress.prog = Merged(k).prog
  BY <1>1, <1>3 DEF Safe
<1>7. k.rb.items = Merged(k).items => bookmarks.items = Merged(k).items
  BY <1>1, <1>4 DEF Honest
<1>8. k.mode = "bidirectional"
         => /\ k.pc \in {"casProgress", "casBookmarks", "putLocal"} => tombstones = MergedTombs(k)
            /\ k.pc \in {"casBookmarks", "putLocal"} => progress.prog = Merged(k).prog
            /\ k.pc = "putLocal" => bookmarks.items = Merged(k).items
  BY <1>1, <1>3, <1>4, <1>5 DEF Safe, Honest
<1> QED
  BY <1>2, <1>6, <1>7, <1>8 DEF k

\* Where a conditional PUT of d leaves its pass.
LEMMA WrittenStage ==
    ASSUME TypeOK, NEW d \in Devices, NEW object \in Objects, NEW pc \in Stages,
           Written(d, object, pc)
    PROVE  task'[d].pc = pc
<1>1. AfterWrite(task[d], object) \in Task
  BY AfterWriteType DEF TypeOK
<1>2. task'[d] = At(AfterWrite(task[d], object), pc)
  BY DEF Written
<1> QED
  BY <1>1, <1>2, AtType

\* The last step of an undisturbed pass in both directions.
LEMMA FinishAgrees ==
    ASSUME TypeOK, BucketInv, SkipInv, NEW d \in Devices, Finish(d),
           task[d].mode = "bidirectional", Undisturbed(d)
    PROVE  Agrees(local'[d], tombs'[d], progress', bookmarks', tombstones')
<1> DEFINE k == task[d]
           n == Merged(k)
<1>1. /\ k \in Task /\ n \in Meta /\ MergedTombs(k) \in TombSet /\ local[d] \in Meta
      /\ local \in [Devices -> Meta] /\ tombs \in [Devices -> TombSet]
      /\ tombs[d] \in TombSet /\ tombstones \in TombSet
      /\ Safe(k, progress, tombstones, applied) /\ Honest(k, bookmarks)
  BY MergedType, SafeIsPassSafe, HonestIsSkipInv DEF TypeOK, BucketInv
<1>2. k.base.prog = local[d].prog /\ k.base.items = local[d].items /\ k.base.has = local[d].has
  BY <1>1 DEF Undisturbed, Normalize, Meta
<1>3. (~k.rp.has => k.rp = NoProgress) /\ (~k.rb.has => k.rb = NoBookmarks)
  BY <1>1 DEF Honest
<1>4. CASE PutLocal(d)
  <2>1. PICK o \in BOOLEAN : local' = [local EXCEPT ![d] = Put(local[d], n, o)]
    BY <1>4 DEF PutLocal
  <2>2. local'[d].prog = n.prog /\ local'[d].items = n.items
    BY <1>1, <2>1, PutFields, PutItems
  <2>3. /\ progress.prog = n.prog /\ bookmarks.items = n.items
        /\ tombstones = MergedTombs(k) /\ tombs[d] = MergedTombs(k)
    BY <1>4, StandsStill DEF PutLocal
  <2>4. UNCHANGED <<tombs, progress, bookmarks, tombstones>>
    BY <1>4 DEF PutLocal
  <2> QED
    BY <1>1, <2>2, <2>3, <2>4, SameAgree
<1>5. ASSUME NEW p, NEW b, k.base = n, p.prog = n.prog, b.items = n.items,
             local' = local, tombs' = tombs, tombs[d] = MergedTombs(k),
             progress' = p, bookmarks' = b, tombstones' = MergedTombs(k)
      PROVE  Agrees(local'[d], tombs'[d], progress', bookmarks', tombstones')
  BY <1>1, <1>2, <1>5, SameAgree
<1>6. CASE WriteTombstones(d)
  <2>1. PICK pc \in Stages : /\ Written(d, "tombstones", pc)
                             /\ pc = k.pc \/ \E o \in BOOLEAN : pc = AfterTombstones(k, o)
    BY <1>1, <1>6, StageType DEF WriteTombstones, Unheard, Stages
  <2>2. pc = "idle"
    BY <2>1, WrittenStage DEF Finish, Objects
  <2>3. PICK o \in BOOLEAN : AfterTombstones(k, o) = "idle"
    BY <1>6, <2>1, <2>2 DEF WriteTombstones
  <2>4. k.base = n /\ k.rp.prog = n.prog /\ k.rb.items = n.items
    BY <1>1, <1>3, <2>3, SkippedStages
  <2>5. progress.prog = n.prog /\ bookmarks.items = n.items /\ tombs[d] = MergedTombs(k)
    BY <1>6, <2>4, StandsStill DEF WriteTombstones
  <2> QED
    BY <1>5, <1>6, <2>4, <2>5 DEF WriteTombstones
<1>7. CASE WriteProgress(d)
  <2>1. PICK pc \in Stages : /\ Written(d, "progress", pc)
                             /\ pc = k.pc \/ \E o \in BOOLEAN : pc = AfterProgress(k, o)
    BY <1>1, <1>7, StageType DEF WriteProgress, Unheard, Stages
  <2>2. pc = "idle"
    BY <2>1, WrittenStage DEF Finish, Objects
  <2>3. PICK o \in BOOLEAN : AfterProgress(k, o) = "idle"
    BY <1>7, <2>1, <2>2 DEF WriteProgress
  <2>4. k.base = n /\ k.rb.items = n.items
    BY <1>1, <1>3, <2>3, SkippedStages
  <2>5. bookmarks.items = n.items /\ tombs[d] = MergedTombs(k) /\ tombstones = MergedTombs(k)
    BY <1>7, <2>4, StandsStill DEF WriteProgress
  <2>6. progress'.prog = n.prog
    BY <1>7 DEF WriteProgress, NewProgress
  <2> QED
    BY <1>5, <1>7, <2>4, <2>5, <2>6 DEF WriteProgress
<1>8. CASE WriteBookmarks(d)
  <2>1. PICK pc \in Stages : /\ Written(d, "bookmarks", pc)
                             /\ pc = k.pc \/ \E o \in BOOLEAN : pc = AfterBookmarks(k, o)
    BY <1>1, <1>8, StageType DEF WriteBookmarks, Unheard, Stages
  <2>2. pc = "idle"
    BY <2>1, WrittenStage DEF Finish, Objects
  <2>3. PICK o \in BOOLEAN : AfterBookmarks(k, o) = "idle"
    BY <1>8, <2>1, <2>2 DEF WriteBookmarks
  <2>4. k.base = n
    BY <1>1, <1>3, <2>3, SkippedStages
  <2>5. progress.prog = n.prog /\ tombs[d] = MergedTombs(k) /\ tombstones = MergedTombs(k)
    BY <1>8, StandsStill DEF WriteBookmarks
  <2>6. bookmarks'.items = n.items
    BY <1>8 DEF WriteBookmarks, NewBookmarks
  <2> QED
    BY <1>5, <1>8, <2>4, <2>5, <2>6 DEF WriteBookmarks
<1>9. CASE ReadTombstones(d)
  <2> DEFINE j == ReadTask(d)
  <2>1. j \in Task /\ j.rt = tombstones
    BY <1>9, ReadTombstonesStep
  <2>2. j.mode = k.mode /\ j.base = k.base /\ j.rp = k.rp /\ j.rb = k.rb /\ j.lt = k.lt
    BY <1>1 DEF ReadTask, Task
  <2>3. k.rp = progress /\ k.rb = bookmarks /\ tombs[d] = k.lt
    BY <1>1, <1>9 DEF Undisturbed, ReadTombstones, Safe, Honest
  <2>4. PICK o \in BOOLEAN :
          task' = [task EXCEPT ![d] =
                     At(j, IF NothingExists(j) THEN "idle"
                           ELSE IF Writes(j) /\ TombsDiffer(SeenTombs(j), MergedTombs(j), o)
                                THEN "casTombstones" ELSE AfterTombstones(j, o))]
    BY <1>9 DEF ReadTombstones, ReadTask
  <2>5. tombs' = [tombs EXCEPT ![d] = IF NothingExists(j) THEN tombs[d] ELSE MergedTombs(j)]
    BY <1>9 DEF ReadTombstones, ReadTask
  <2>6. UNCHANGED <<local, progress, bookmarks, tombstones>>
    BY <1>9 DEF ReadTombstones
  <2> HIDE DEF j, k
  <2>7. MergedTombs(j) \in TombSet /\ Merged(j) \in Meta
    BY <2>1, MergedType
  <2>8. CASE NothingExists(j)
    <3>1. ~local[d].has /\ ~progress.has /\ ~bookmarks.has /\ NoneSet(MergedTombs(j))
      BY <1>2, <2>2, <2>3, <2>8 DEF NothingExists
    <3>2. local[d] = NoMeta /\ progress = NoProgress /\ bookmarks = NoBookmarks
      BY <3>1 DEF SkipInv
    <3>3. local[d].prog = progress.prog /\ local[d].items = bookmarks.items
      BY <3>2 DEF NoMeta, NoProgress, NoBookmarks
    <3>4. MergedTombs(j) = MergeTombs(tombs[d], tombstones)
      BY <2>1, <2>2, <2>3 DEF MergedTombs, SeenTombs, k
    <3>5. AllLeq(tombs[d], MergedTombs(j)) /\ AllLeq(tombstones, MergedTombs(j))
      BY <1>1, <3>4, MergeTombsType DEF AllLeq
    <3>6. \A i \in Items : /\ tombs[d][i].del = 0 /\ tombs[d][i].rev = 0
                           /\ tombstones[i].del = 0 /\ tombstones[i].rev = 0
      <4> TAKE i \in Items
      <4>1. tombs[d][i] \in Tomb /\ tombstones[i] \in Tomb
        BY <1>1 DEF TombSet
      <4>2. TombLeq(tombs[d][i], MergedTombs(j)[i]) /\ TombLeq(tombstones[i], MergedTombs(j)[i])
        BY <3>5 DEF AllLeq
      <4>3. MergedTombs(j)[i].del = 0 /\ MergedTombs(j)[i].rev = 0
        BY <3>1 DEF NoneSet
      <4> QED
        BY <4>1, <4>2, <4>3 DEF TombLeq, Tomb
    <3>7. AllLeq(tombs[d], tombstones) /\ AllLeq(tombstones, tombs[d])
      BY <3>6 DEF AllLeq, TombLeq
    <3> QED
      BY <1>1, <2>5, <2>6, <2>8, <3>3, <3>7 DEF Agrees
  <2>9. CASE ~NothingExists(j)
    <3> DEFINE pc == IF Writes(j) /\ TombsDiffer(SeenTombs(j), MergedTombs(j), o)
                     THEN "casTombstones" ELSE AfterTombstones(j, o)
    <3>1. pc \in Stages
      BY <2>1, StageType DEF Stages
    <3>2. task'[d] = At(j, pc)
      BY <2>4, <2>9 DEF TypeOK
    <3>3. pc = "idle"
      BY <2>1, <3>1, <3>2, AtType DEF Finish
    <3>4. AfterTombstones(j, o) = "idle" /\ ~TombsDiffer(SeenTombs(j), MergedTombs(j), o)
      BY <2>2, <3>3 DEF Writes, k
    <3>5. MergedTombs(j) = tombstones
      BY <2>1, <2>2, <3>4, SameTombs DEF k
    <3>6. j.base = Merged(j) /\ j.rp.prog = Merged(j).prog /\ j.rb.items = Merged(j).items
      BY <1>3, <2>1, <2>2, <3>4, SkippedStages DEF k
    <3>7. tombs'[d] = tombstones
      BY <1>1, <2>5, <2>9, <3>5
    <3> QED
      BY <1>1, <1>2, <2>2, <2>3, <2>6, <3>6, <3>7, SameAgree
  <2> QED
    BY <2>8, <2>9
<1> QED
  BY <1>4, <1>6, <1>7, <1>8, <1>9 DEF Finish

\* An object that is as a pass has read it is one the pass had no reason to write.
THEOREM SkipsAreHonest == ~ContentVersions => (Spec => []SkipInv)
<1> SUFFICES ASSUME ~ContentVersions PROVE Spec => []SkipInv
  OBVIOUS
<1>1. Init => SkipInv
  BY InitSkip
<1>2. TypeOK /\ TypeOK' /\ SkipInv /\ [Next]_vars => SkipInv'
  BY NextSkip
<1> QED
  BY <1>1, <1>2, TypeCorrect, PTL DEF Spec

\* A pass in both directions that ends without failure and that nobody disturbed
\* leaves its device and the bucket with the same position, items and deletions.
THEOREM UndisturbedPassAgrees ==
    ReadsRemote /\ ~ContentVersions => (Spec => PassAgrees)
<1> SUFFICES ASSUME ReadsRemote, ~ContentVersions PROVE Spec => PassAgrees
  OBVIOUS
<1>1. TypeOK /\ BucketInv /\ SkipInv =>
        [\A d \in Devices :
           Finish(d) /\ task[d].mode = "bidirectional" /\ Undisturbed(d)
              => Agrees(local'[d], tombs'[d], progress', bookmarks', tombstones')]_vars
  BY FinishAgrees
<1> QED
  BY <1>1, BucketSafe, SkipsAreHonest, TypeCorrect, PTL DEF PassAgrees

-----------------------------------------------------------------------------
(* Merging, as an algebra: why the order of passes does not matter for the *)
(* deletions, and when it does not for the position *)

\* The logical times of merged deletions, item by item.
LEMMA MergedTimes ==
    ASSUME NEW x \in TombSet, NEW y \in TombSet, NEW i \in Items
    PROVE  /\ DeletionTimes(MergeTombs(x, y))[i] = [del |-> Larger(y[i].del, x[i].del),
                                                    rev |-> Larger(y[i].rev, x[i].rev)]
           /\ MergeTombs(x, y)[i].del = Larger(y[i].del, x[i].del)
           /\ MergeTombs(x, y)[i].rev = Larger(y[i].rev, x[i].rev)
           /\ x[i].del \in Nat /\ x[i].rev \in Nat /\ y[i].del \in Nat /\ y[i].rev \in Nat
BY DEF DeletionTimes, MergeTombs, MergeTomb, TombSet, Tomb

\* Sets of deletions with equal times, item by item.
LEMMA EqualTimes ==
    ASSUME NEW x \in TombSet, NEW y \in TombSet,
           \A i \in Items : x[i].del = y[i].del /\ x[i].rev = y[i].rev
    PROVE  DeletionTimes(x) = DeletionTimes(y)
BY DEF DeletionTimes

\* Deletions and revivals may be merged in any order, any number of times: what
\* is known in the end is the least that covers every side (TombstoneSet::merge).
\* So the deletions of all devices agree once each has heard of each, whatever
\* the passes in between.
THEOREM DeletionsMergeInAnyOrder ==
    \A x, y, z \in TombSet :
        /\ DeletionTimes(MergeTombs(x, x)) = DeletionTimes(x)
        /\ DeletionTimes(MergeTombs(x, y)) = DeletionTimes(MergeTombs(y, x))
        /\ DeletionTimes(MergeTombs(MergeTombs(x, y), z))
              = DeletionTimes(MergeTombs(x, MergeTombs(y, z)))
        /\ AllLeq(x, MergeTombs(x, y)) /\ AllLeq(y, MergeTombs(x, y))
        /\ AllLeq(x, z) /\ AllLeq(y, z) => AllLeq(MergeTombs(x, y), z)
<1> TAKE x, y, z \in TombSet
<1>1. /\ MergeTombs(x, x) \in TombSet /\ MergeTombs(x, y) \in TombSet
      /\ MergeTombs(y, x) \in TombSet /\ MergeTombs(y, z) \in TombSet
      /\ MergeTombs(MergeTombs(x, y), z) \in TombSet
      /\ MergeTombs(x, MergeTombs(y, z)) \in TombSet
  BY MergeTombsType
<1>2. DeletionTimes(MergeTombs(x, x)) = DeletionTimes(x)
  <2>1. \A i \in Items : /\ MergeTombs(x, x)[i].del = x[i].del
                         /\ MergeTombs(x, x)[i].rev = x[i].rev
    BY MergedTimes DEF Larger
  <2> QED
    BY <1>1, <2>1, EqualTimes
<1>3. DeletionTimes(MergeTombs(x, y)) = DeletionTimes(MergeTombs(y, x))
  <2>1. ASSUME NEW i \in Items
        PROVE  /\ MergeTombs(x, y)[i].del = MergeTombs(y, x)[i].del
               /\ MergeTombs(x, y)[i].rev = MergeTombs(y, x)[i].rev
    <3>1. /\ MergeTombs(x, y)[i].del = Larger(y[i].del, x[i].del)
          /\ MergeTombs(x, y)[i].rev = Larger(y[i].rev, x[i].rev)
          /\ x[i].del \in Nat /\ x[i].rev \in Nat /\ y[i].del \in Nat /\ y[i].rev \in Nat
      BY MergedTimes
    <3>2. /\ MergeTombs(y, x)[i].del = Larger(x[i].del, y[i].del)
          /\ MergeTombs(y, x)[i].rev = Larger(x[i].rev, y[i].rev)
      BY MergedTimes
    <3> QED
      BY <3>1, <3>2 DEF Larger
  <2> QED
    BY <1>1, <2>1, EqualTimes
<1>4. DeletionTimes(MergeTombs(MergeTombs(x, y), z))
         = DeletionTimes(MergeTombs(x, MergeTombs(y, z)))
  <2> DEFINE l == MergeTombs(MergeTombs(x, y), z)
             r == MergeTombs(x, MergeTombs(y, z))
  <2>1. ASSUME NEW i \in Items
        PROVE  l[i].del = r[i].del /\ l[i].rev = r[i].rev
    <3>1. /\ l[i].del = Larger(z[i].del, MergeTombs(x, y)[i].del)
          /\ l[i].rev = Larger(z[i].rev, MergeTombs(x, y)[i].rev)
      <4> DEFINE v == MergeTombs(x, y)
      <4>1. v \in TombSet
        BY <1>1
      <4> HIDE DEF v
      <4>2. /\ MergeTombs(v, z)[i].del = Larger(z[i].del, v[i].del)
            /\ MergeTombs(v, z)[i].rev = Larger(z[i].rev, v[i].rev)
        BY <4>1, MergedTimes
      <4> QED
        BY <4>2 DEF v
    <3>2. /\ r[i].del = Larger(MergeTombs(y, z)[i].del, x[i].del)
          /\ r[i].rev = Larger(MergeTombs(y, z)[i].rev, x[i].rev)
      <4> DEFINE v == MergeTombs(y, z)
      <4>1. v \in TombSet
        BY <1>1
      <4> HIDE DEF v
      <4>2. /\ MergeTombs(x, v)[i].del = Larger(v[i].del, x[i].del)
            /\ MergeTombs(x, v)[i].rev = Larger(v[i].rev, x[i].rev)
        BY <4>1, MergedTimes
      <4> QED
        BY <4>2 DEF v
    <3>3. /\ MergeTombs(x, y)[i].del = Larger(y[i].del, x[i].del)
          /\ MergeTombs(x, y)[i].rev = Larger(y[i].rev, x[i].rev)
          /\ MergeTombs(y, z)[i].del = Larger(z[i].del, y[i].del)
          /\ MergeTombs(y, z)[i].rev = Larger(z[i].rev, y[i].rev)
          /\ x[i].del \in Nat /\ x[i].rev \in Nat /\ y[i].del \in Nat /\ y[i].rev \in Nat
          /\ z[i].del \in Nat /\ z[i].rev \in Nat
      BY MergedTimes
    <3> QED
      BY <3>1, <3>2, <3>3 DEF Larger
  <2> HIDE DEF l, r
  <2>2. l \in TombSet /\ r \in TombSet
    BY <1>1 DEF l, r
  <2>3. DeletionTimes(l) = DeletionTimes(r)
    BY <2>1, <2>2, EqualTimes
  <2> QED
    BY <2>3 DEF l, r
<1>5. AllLeq(x, MergeTombs(x, y)) /\ AllLeq(y, MergeTombs(x, y))
  BY MergeTombsType DEF AllLeq
<1>6. ASSUME AllLeq(x, z), AllLeq(y, z)
      PROVE  AllLeq(MergeTombs(x, y), z)
  <2> SUFFICES ASSUME NEW i \in Items PROVE TombLeq(MergeTombs(x, y)[i], z[i])
    BY DEF AllLeq
  <2>1. TombLeq(x[i], z[i]) /\ TombLeq(y[i], z[i])
    BY <1>6 DEF AllLeq
  <2>2. /\ MergeTombs(x, y)[i].del = Larger(y[i].del, x[i].del)
        /\ MergeTombs(x, y)[i].rev = Larger(y[i].rev, x[i].rev)
    BY MergedTimes
  <2> QED
    BY <2>1, <2>2 DEF TombLeq, Larger
<1> QED
  BY <1>2, <1>3, <1>4, <1>5, <1>6

\* What a device with metadata m shows of its position.
PositionOf(m) == [has |-> TRUE, prog |-> m.prog, st |-> m.pst]

\* Two devices that merge each other's position, in either order, get the same
\* one, if their stamps differ: remote_pair_wins is a strict total order.  Equal
\* stamps on different positions (the hazard of a clock that stands still) are
\* the one case in which each keeps its own.
THEOREM PositionMergeCommutes ==
    \A m, n \in Meta, rb, rc \in Bookmarks : m.pst # n.pst =>
        /\ MergeMeta(m, PositionOf(n), rb).prog = MergeMeta(n, PositionOf(m), rc).prog
        /\ MergeMeta(m, PositionOf(n), rb).pst = MergeMeta(n, PositionOf(m), rc).pst
<1> TAKE m, n \in Meta, rb, rc \in Bookmarks
<1> HAVE m.pst # n.pst
<1>1. m.pst \in Stamp /\ n.pst \in Stamp
  BY DEF Meta
<1>2. StampLess(m.pst, n.pst) <=> ~StampLess(n.pst, m.pst)
  BY <1>1 DEF StampLess, Stamp
<1>3. ASSUME NEW a \in Meta, NEW b \in Meta, NEW r
      PROVE  /\ MergeMeta(a, PositionOf(b), r).prog =
                    IF StampLess(a.pst, b.pst) THEN b.prog ELSE a.prog
             /\ MergeMeta(a, PositionOf(b), r).pst =
                    IF StampLess(a.pst, b.pst) THEN b.pst ELSE a.pst
  BY DEF MergeMeta, PositionOf, Meta
<1> QED
  BY <1>2, <1>3

\* The items of a merge, exactly: those of the base and, unless the base is
\* strictly newer, those of the remote list, without the deleted ones.  A newer
\* base that has not seen an item of the remote list drops it.
THEOREM MergedItemsExactly ==
    \A k \in Task : k.mode = "bidirectional" /\ k.rb.has =>
        \A i \in Items : Has(Merged(k).items, i) <=>
            /\ ~Dead(MergedTombs(k)[i])
            /\ \/ Has(k.base.items, i)
               \/ ~StampLess(k.rb.st, k.base.bst) /\ Has(k.rb.items, i)
<1> TAKE k \in Task
<1> HAVE k.mode = "bidirectional" /\ k.rb.has
<1> TAKE i \in Items
<1>1. SeenBookmarks(k) = k.rb
  BY DEF SeenBookmarks
<1>2. /\ k.base.bst \in Stamp /\ k.rb.st \in Stamp
      /\ k.base.items \in [Items -> Item] /\ k.rb.items \in [Items -> Item]
  BY DEF Task, Meta, Bookmarks
<1>3. StampLess(k.rb.st, k.base.bst)
         <=> ~StampLess(k.base.bst, k.rb.st) /\ k.rb.st # k.base.bst
  BY <1>2 DEF StampLess, Stamp
<1>4. Has(AppendMissing(k.rb.items, k.base.items), i)
         <=> Has(k.base.items, i) \/ Has(k.rb.items, i)
  BY DEF AppendMissing, Has
<1>5. Has(Union(k.base.items, k.rb.items), i)
         <=> Has(k.base.items, i) \/ Has(k.rb.items, i)
  BY DEF Union, Has
<1>6. Has(MergeItems(k.base, k.rb), i)
         <=> \/ Has(k.base.items, i)
             \/ ~StampLess(k.rb.st, k.base.bst) /\ Has(k.rb.items, i)
  BY <1>3, <1>4, <1>5 DEF MergeItems
<1>7. Merged(k).items[i] = IF Dead(MergedTombs(k)[i]) THEN NoItem
                           ELSE MergeItems(k.base, k.rb)[i]
  BY <1>1, MergedItems
<1> QED
  BY <1>6, <1>7 DEF Has, Present, NoItem
=============================================================================
