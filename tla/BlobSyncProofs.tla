---------------------------- MODULE BlobSyncProofs ----------------------------
(***************************************************************************)
(* Proofs about BlobSync, for any number of devices, every kind of bucket  *)
(* and any number of failures.  An operation that has decided to upload    *)
(* saw no object (NoOld); what it uploads or copies into the cache has the *)
(* right hash, or is adopted, or the user has touched it since (Sound).    *)
(* The part about the index (IndexInv) and the one about the end of a pass *)
(* (ReadyInv) build on the rest.                                           *)
(***************************************************************************)
EXTENDS BlobSync, TLAPS

\* With no object there, nobody's beginning object is still there.
NoOld ==
    /\ remote = "missing" => \A d \in Devices : ~task[d].old
    /\ \A d \in Devices : task[d].op = "sync" /\ task[d].pc = "upload" => ~task[d].old
    /\ \A d \in Devices : task[d].pc = "writing" => ~task[d].old

SourceFits(d) == SourceNow(d) = "good"

Copies == {"stat", "exists", "compare", "upload", "writing", "copy"}

\* What an operation of d may read or copy from its source, or take from the bucket.
Sound(d) ==
    /\ task[d].op = "sync" /\ task[d].pc \in Copies =>
           SourceFits(d) \/ row[d].adopted \/ task[d].edited
    /\ task[d].pc \in {"stat", "exists", "compare"} => task[d].op = "sync"
    /\ task[d].op = "local" /\ task[d].pc \in Copies => SourceFits(d) \/ task[d].edited
    /\ task[d].pc \in Copies => task[d].op \in {"sync", "local"}
    /\ task[d].pc \in Copies /\ task[d].edited => task[d].src = "given"
    /\ task[d].pc \in {"lookup", "fetch"} => task[d].op = "sync" /\ task[d].src = "cache"
    /\ task[d].pc \in {"find", "adopt"} => task[d].op = "remote" /\ task[d].src = "cache"

\* What a resolution has done so far.
Done(d) ==
    /\ task[d].pc # "idle" => task[d].op # "none"
    /\ task[d].pc \in {"flag", "clear"} => task[d].op # "sync"
    /\ task[d].pc = "find" => ~task[d].mine
    /\ task[d].op = "local" /\ task[d].pc \in {"upload", "writing"} => task[d].content = "good"
    /\ task[d].op = "local" /\ task[d].pc \in {"copy", "stamp", "flag", "clear"} =>
           (task[d].mine => remote = "good")
    /\ task[d].op = "local" /\ task[d].pc \in {"stamp", "flag", "clear"} =>
           cache[d] = "good" \/ task[d].edited
    /\ task[d].op = "remote" /\ task[d].pc = "clear" => row[d].adopted \/ ~task[d].mine

\* A pass that goes on to look at the object has found it other than the row says.
Looks(d) ==
    /\ row[d].path = "none" => row[d] = NoRow
    /\ task[d].pc = "flag" => row[d].path # "none"
    /\ row[d].path = "given" => row[d].stat = "none"
    /\ task[d].pc = "stat" /\ task[d].old => row[d].stat \in {task[d].stat, "none"}
    /\ task[d].pc \in {"exists", "compare"} /\ task[d].old => ~Matches(row[d].stat)
    /\ "pull" \notin Modes /\ task[d].pc \in {"lookup", "fetch"} /\ task[d].old =>
           cache[d] = "missing" \/ ~Matches(row[d].stat)

Good(d) == Sound(d) /\ Done(d) /\ Looks(d)

Inv == TypeOK /\ NoOld /\ \A d \in Devices : Good(d)

-----------------------------------------------------------------------------
(* Types *)

LEMMA IdleType ==
    /\ Idle \in Task /\ Idle.pc = "idle" /\ Idle.op = "none" /\ Idle.old = FALSE
    /\ Idle.mine = FALSE /\ Idle.src = "cache" /\ Idle.edited = FALSE
  BY DEF Idle, Task, Stages, Stats, Contents, Files

LEMMA NoRowType == NoRow \in Row
  BY DEF NoRow, Row, Stats, Contents

LEMMA AgedType == ASSUME NEW x \in Stats PROVE Aged(x) \in Stats
  BY DEF Aged, Stats, Contents

LEMMA AgedTaskType ==
    ASSUME NEW x \in Task
    PROVE  /\ AgedTask(x) \in Task
           /\ AgedTask(x).pc = x.pc /\ AgedTask(x).op = x.op /\ AgedTask(x).src = x.src
           /\ AgedTask(x).old = FALSE /\ AgedTask(x).mine = FALSE
           /\ AgedTask(x).content = x.content /\ AgedTask(x).edited = x.edited
<1> DEFINE b == x.blind /\ x.stat # "current"
<1>1. Aged(x.stat) \in Stats /\ b \in BOOLEAN
  BY AgedType DEF Task
<1>2. AgedTask(x) = [x EXCEPT !.stat = Aged(x.stat), !.blind = b, !.old = FALSE, !.mine = FALSE]
  BY DEF AgedTask
<1> HIDE DEF b
<1> QED
  BY <1>1, <1>2 DEF Task

\* A row keeps everything but what it says of the object.
LEMMA AgedRowType ==
    ASSUME NEW r \in Row
    PROVE  /\ AgedRow(r) \in Row
           /\ AgedRow(r).path = r.path /\ AgedRow(r).stat = Aged(r.stat)
           /\ AgedRow(r).adopted = r.adopted
           /\ r = NoRow => AgedRow(r) = NoRow
<1> DEFINE b == r.blind /\ r.stat # "current"
<1>1. Aged(r.stat) \in Stats /\ b \in BOOLEAN
  BY AgedType DEF Row
<1>2. AgedRow(r) = [r EXCEPT !.stat = Aged(r.stat), !.blind = b]
  BY DEF AgedRow
<1>3. r = NoRow => Aged(r.stat) = "none" /\ b = FALSE /\ r.path = "none" /\ r.adopted = FALSE
  BY DEF NoRow, Aged
<1> HIDE DEF b
<1>4. /\ AgedRow(r) \in Row /\ AgedRow(r).path = r.path /\ AgedRow(r).blind = b
      /\ AgedRow(r).stat = Aged(r.stat) /\ AgedRow(r).adopted = r.adopted
  BY <1>1, <1>2 DEF Row
<1>5. ASSUME NEW x \in Row, x.path = "none", x.stat = "none", x.adopted = FALSE, x.blind = FALSE
      PROVE  x = NoRow
  BY <1>5 DEF Row, NoRow
<1> QED
  BY <1>3, <1>4, <1>5

LEMMA StatType == ASSUME TypeOK PROVE remote # "missing" => Stat \in Stats
  BY DEF TypeOK, Stat, Files, Stats

LEMMA InitInv == Init => Inv
<1> SUFFICES ASSUME Init PROVE Inv
  OBVIOUS
<1>1. TypeOK
  BY IdleType, NoRowType, BoundAssumption DEF Init, TypeOK, Files, Contents
<1>2. NoOld
  BY IdleType DEF Init, NoOld
<1>3. \A d \in Devices : Good(d)
  BY IdleType DEF Init, Good, Sound, Done, Looks, Copies, NoRow
<1> QED
  BY <1>1, <1>2, <1>3 DEF Inv

TypeFactsAt(d) ==
    /\ task[d] \in Task /\ row[d] \in Row /\ cache[d] \in Files /\ given[d] \in Files
    /\ task[d].stat \in Stats /\ task[d].src \in {"cache", "given"} /\ task[d].content \in Files
    /\ task[d].old \in BOOLEAN /\ task[d].mine \in BOOLEAN /\ task[d].edited \in BOOLEAN
    /\ row[d].path \in {"none", "cache", "given"} /\ row[d].stat \in Stats
    /\ row[d].adopted \in BOOLEAN /\ row[d].blind \in BOOLEAN

LEMMA TypeFacts ==
    ASSUME TypeOK, NEW d \in Devices
    PROVE  TypeFactsAt(d)
  BY DEF TypeOK, TypeFactsAt, Task, Row

-----------------------------------------------------------------------------
(* What the parts of a step do *)

Others(d) == \A e \in Devices : e # d => task'[e] = task[e]

LEMMA TaskSet ==
    ASSUME TypeOK, NEW d \in Devices, NEW x \in Task, task' = [task EXCEPT ![d] = x]
    PROVE  task' \in [Devices -> Task] /\ Others(d) /\ task'[d] = x
  BY DEF TypeOK, Others

LEMMA TaskPc ==
    ASSUME NEW x \in Task, NEW stage \in Stages
    PROVE  [x EXCEPT !.pc = stage] \in Task
  BY DEF Task

LEMMA GotoTask ==
    ASSUME TypeOK, NEW d \in Devices, NEW stage \in Stages, Goto(d, stage)
    PROVE  /\ task' \in [Devices -> Task] /\ Others(d)
           /\ task'[d].pc = stage /\ task'[d].op = task[d].op /\ task'[d].src = task[d].src
           /\ task'[d].stat = task[d].stat /\ task'[d].blind = task[d].blind
           /\ task'[d].content = task[d].content /\ task'[d].edited = task[d].edited
           /\ task'[d].old = task[d].old /\ task'[d].mine = task[d].mine
<1>1. task[d] \in Task /\ task \in [Devices -> Task]
  BY DEF TypeOK
<1>2. task' = [task EXCEPT ![d] = [task[d] EXCEPT !.pc = stage]]
  BY DEF Goto
<1>3. [task[d] EXCEPT !.pc = stage] \in Task
  BY <1>1, TaskPc
<1>4. task' \in [Devices -> Task] /\ Others(d) /\ task'[d] = [task[d] EXCEPT !.pc = stage]
  BY <1>2, <1>3, TaskSet
<1> QED
  BY <1>1, <1>4 DEF Task

LEMMA EndTask ==
    ASSUME TypeOK, NEW d \in Devices, End(d)
    PROVE  /\ task' \in [Devices -> Task] /\ Others(d)
           /\ task'[d].pc = "idle" /\ task'[d].op = "none" /\ task'[d].old = FALSE
<1>1. task' \in [Devices -> Task] /\ Others(d) /\ task'[d] = Idle
  BY IdleType, TaskSet DEF End
<1> QED
  BY <1>1, IdleType

AfterTransfer(src) == IF src = "given" THEN "copy" ELSE "stamp"

LEMMA TransferredType ==
    ASSUME NEW x \in Task, NEW mine \in BOOLEAN
    PROVE  /\ Transferred(x, mine) \in Task
           /\ Transferred(x, mine).pc = AfterTransfer(x.src) /\ Transferred(x, mine).op = x.op
           /\ Transferred(x, mine).src = x.src /\ Transferred(x, mine).edited = x.edited
           /\ Transferred(x, mine).mine = mine /\ Transferred(x, mine).old = FALSE
<1> DEFINE stage == AfterTransfer(x.src)
<1> DEFINE y == [Idle EXCEPT !.pc = stage, !.op = x.op, !.src = x.src, !.mine = mine,
                             !.edited = x.edited]
<1>1. /\ x.op \in {"none", "sync", "local", "remote"} /\ x.src \in {"cache", "given"}
      /\ x.edited \in BOOLEAN
  BY DEF Task
<1>2. stage \in Stages
  BY DEF Stages, AfterTransfer
<1>3. Transferred(x, mine) = y
  BY DEF Transferred, AfterTransfer
<1> HIDE DEF stage
<1>4. Idle \in Task /\ Idle.old = FALSE
  BY IdleType
<1>5. /\ y \in Task /\ y.pc = stage /\ y.op = x.op /\ y.src = x.src /\ y.edited = x.edited
      /\ y.mine = mine /\ y.old = FALSE
  BY <1>1, <1>2, <1>4 DEF Task
<1> HIDE DEF y
<1> QED
  BY <1>3, <1>5 DEF stage

LEMMA StartedTask ==
    ASSUME NEW d \in Devices, NEW op \in {"sync", "local", "remote"}, NEW stage \in Stages,
           Source(d) \in {"cache", "given"}
    PROVE  /\ Started(d, op, stage) \in Task
           /\ Started(d, op, stage).pc = stage /\ Started(d, op, stage).op = op
           /\ Started(d, op, stage).src = Source(d) /\ ~Started(d, op, stage).edited
           /\ remote = "missing" => ~Started(d, op, stage).old
<1>1. Idle \in Task
  BY IdleType
<1> DEFINE b == op = "sync" /\ remote # "missing"
<1>2. b \in BOOLEAN /\ (remote = "missing" => ~b)
  OBVIOUS
<1>3. Started(d, op, stage) =
          [Idle EXCEPT !.pc = stage, !.op = op, !.src = Source(d), !.old = b]
  BY DEF Started
<1> HIDE DEF b
<1> QED
  BY <1>1, <1>2, <1>3, IdleType DEF Task

LEMMA UpsertRow ==
    ASSUME TypeOK, NEW d \in Devices, NEW path \in {"cache", "given"}, NEW stat \in Stats,
           NEW blind \in BOOLEAN, Upsert(d, path, stat, blind)
    PROVE  /\ row' \in [Devices -> Row]
           /\ \A e \in Devices : e # d => row'[e] = row[e]
           /\ row'[d].path = path /\ row'[d].stat = stat /\ row'[d].blind = blind
           /\ row'[d].adopted = row[d].adopted
<1> DEFINE x == [path |-> path, stat |-> stat, adopted |-> row[d].adopted, blind |-> blind]
<1>1. x \in Row
  BY DEF TypeOK, Row
<1>2. row' = [row EXCEPT ![d] = x] /\ row \in [Devices -> Row]
  BY DEF Upsert, TypeOK
<1>3. /\ x.path = path /\ x.stat = stat /\ x.blind = blind /\ x.adopted = row[d].adopted
  OBVIOUS
<1> HIDE DEF x
<1> QED
  BY <1>1, <1>2, <1>3

LEMMA ReplaceRow ==
    ASSUME TypeOK, NEW content \in Files, Replace(content)
    PROVE  /\ remote' = content /\ remote' \in Files
           /\ row' \in [Devices -> Row]
           /\ \A e \in Devices :
                  /\ row'[e].path = row[e].path /\ row'[e].stat = Aged(row[e].stat)
                  /\ row'[e].adopted = row[e].adopted
                  /\ row[e] = NoRow => row'[e] = NoRow
<1>1. ASSUME NEW e \in Devices PROVE row[e] \in Row
  BY DEF TypeOK
<1>2. row' = [e \in Devices |-> AgedRow(row[e])] /\ remote' = content
  BY DEF Replace
<1> QED
  BY <1>1, <1>2, AgedRowType

\* What somebody else's write does to the operation of e.
Disturbed(e) ==
    \/ task'[e] = AgedTask(task[e])
    \/ task'[e] = task[e] /\ task[e].pc = "writing"

LEMMA WroteTasks ==
    ASSUME TypeOK, NEW d \in Devices, NEW x \in Task, NEW content, Wrote(d, content, x)
    PROVE  /\ task' \in [Devices -> Task] /\ task'[d] = x
           /\ \A e \in Devices : e # d => Disturbed(e)
<1>1. task' = [e \in Devices |-> IF e = d THEN x
                                  ELSE IF Same(d, e) THEN task[e]
                                  ELSE AgedTask(task[e])]
  BY DEF Wrote
<1>2. ASSUME NEW e \in Devices PROVE task[e] \in Task /\ AgedTask(task[e]) \in Task
  BY AgedTaskType DEF TypeOK
<1>3. ASSUME NEW e \in Devices, e # d PROVE Disturbed(e)
  <2>1. Same(d, e) => task[e].pc = "writing"
    BY DEF Same
  <2> QED
    BY <1>1, <1>3, <2>1 DEF Disturbed
<1> QED
  BY <1>1, <1>2, <1>3

-----------------------------------------------------------------------------
(* What a step may do to the other devices *)

Spared(e) ==
    /\ cache'[e] = cache[e] /\ given'[e] = given[e]
    /\ row'[e].path = row[e].path /\ row'[e].adopted = row[e].adopted
    /\ row[e] = NoRow => row'[e] = NoRow
    /\ task'[e].pc = task[e].pc /\ task'[e].op = task[e].op /\ task'[e].src = task[e].src
    /\ task'[e].content = task[e].content /\ task'[e].edited = task[e].edited
    /\ \/ remote' = remote /\ row'[e].stat = row[e].stat /\ task'[e] = task[e]
       \/ /\ row'[e].stat = Aged(row[e].stat) /\ ~task'[e].old
          /\ ~task'[e].mine \/ task[e].pc = "writing"

LEMMA SparedGood ==
    ASSUME Inv, NEW e \in Devices, Spared(e), setup' = setup
    PROVE  Good(e)'
<1>0. Sound(e) /\ Done(e) /\ Looks(e)
  BY DEF Inv, Good
<1>1. SourceNow(e)' = SourceNow(e)
  BY DEF Spared, FileAt, SourceNow
<1>2. Sound(e)'
  BY <1>0, <1>1 DEF Sound, SourceFits, Spared
<1>3. Done(e)'
  BY <1>0 DEF Done, Spared
<1>4. Looks(e)'
  <2>1. CASE remote' = remote /\ row'[e].stat = row[e].stat /\ task'[e] = task[e]
    BY <1>0, <2>1 DEF Looks, Spared, Matches, Stat
  <2>2. CASE row'[e].stat = Aged(row[e].stat) /\ ~task'[e].old
    BY <1>0, <2>2 DEF Looks, Spared, Aged
  <2> QED
    BY <2>1, <2>2 DEF Spared
<1> QED
  BY <1>2, <1>3, <1>4 DEF Good

\* Steps that leave the object and the other devices alone.
LEMMA LocalStep ==
    ASSUME Inv, NEW d \in Devices, UNCHANGED <<setup, remote>>, Others(d), TypeOK',
           \A e \in Devices : e # d =>
               row'[e] = row[e] /\ cache'[e] = cache[e] /\ given'[e] = given[e],
           remote = "missing" => ~task'[d].old,
           task'[d].op = "sync" /\ task'[d].pc = "upload" => ~task'[d].old,
           task'[d].pc = "writing" => ~task'[d].old,
           Good(d)'
    PROVE  Inv'
<1>1. ASSUME NEW e \in Devices, e # d
      PROVE  Good(e)' /\ task'[e] = task[e]
  <2>1. Spared(e) /\ task'[e] = task[e]
    BY <1>1 DEF Spared, Others
  <2> QED
    BY <2>1, SparedGood
<1>2. NoOld'
  BY <1>1 DEF Inv, NoOld
<1> QED
  BY <1>1, <1>2 DEF Inv

LEMMA IdleGood ==
    ASSUME NEW d \in Devices, task'[d].pc = "idle",
           row'[d].path = "given" => row'[d].stat = "none",
           row'[d].path = "none" => row'[d] = NoRow
    PROVE  Good(d)'
  BY DEF Good, Sound, Done, Looks, Copies

\* The operation ends, with its row as it was or stamped.
LEMMA EndStep ==
    ASSUME Inv, NEW d \in Devices, UNCHANGED <<setup, remote>>, End(d),
           row' \in [Devices -> Row], cache' \in [Devices -> Files], given' = given,
           pending' \in [Devices -> BOOLEAN],
           failures' \in 0..MaxFailures, outside' \in 0..MaxOutside,
           \A e \in Devices : e # d => row'[e] = row[e] /\ cache'[e] = cache[e],
           row'[d] = row[d] \/ row'[d].path = "cache"
    PROVE  Inv'
<1>0. TypeOK /\ Looks(d)
  BY DEF Inv, Good
<1>1. /\ task' \in [Devices -> Task] /\ Others(d)
      /\ task'[d].pc = "idle" /\ task'[d].op = "none" /\ task'[d].old = FALSE
  BY <1>0, EndTask
<1>2. TypeOK'
  BY <1>0, <1>1 DEF TypeOK
<1>3. Good(d)'
  BY <1>0, <1>1, IdleGood DEF Looks
<1> QED
  BY <1>1, <1>2, <1>3, LocalStep

-----------------------------------------------------------------------------
(* The caller, other tools, and the beginning of an operation *)

LEMMA Facts ==
    ASSUME Inv, NEW d \in Devices
    PROVE  /\ TypeOK /\ NoOld /\ Sound(d) /\ Done(d) /\ Looks(d) /\ TypeFactsAt(d)
           /\ task \in [Devices -> Task] /\ row \in [Devices -> Row]
           /\ cache \in [Devices -> Files] /\ given \in [Devices -> Files]
           /\ pending \in [Devices -> BOOLEAN]
           /\ failures \in 0..MaxFailures /\ outside \in 0..MaxOutside
  BY TypeFacts DEF Inv, Good, TypeOK

LEMMA SourceType ==
    ASSUME Inv, NEW d \in Devices
    PROVE  /\ Source(d) \in {"cache", "given"}
           /\ Source(d) = "given" => row[d].stat = "none"
<1>1. Looks(d) /\ TypeFactsAt(d)
  BY Facts
<1> QED
  BY <1>1 DEF Source, TypeFactsAt, Looks

LEMMA PutLocalBookStep ==
    ASSUME Inv, NEW d \in Devices, PutLocalBook(d)
    PROVE  Inv'
<1>0. /\ TypeOK /\ NoOld /\ Sound(d) /\ Done(d) /\ Looks(d) /\ given \in [Devices -> Files]
      /\ UNCHANGED <<setup, remote, cache, pending, task, failures, outside>>
      /\ given' = [given EXCEPT ![d] = "good"]
  BY Facts DEF PutLocalBook, bounds
<1>1. "given" \in {"cache", "given"} /\ "none" \in Stats /\ FALSE \in BOOLEAN /\ "good" \in Files
  BY DEF Stats, Files, Contents
<1>2. /\ row' \in [Devices -> Row]
      /\ \A e \in Devices : e # d => row'[e] = row[e]
      /\ row'[d].path = "given" /\ row'[d].stat = "none" /\ row'[d].adopted = row[d].adopted
  BY <1>0, <1>1, UpsertRow DEF PutLocalBook
<1>3. given' \in [Devices -> Files] /\ given'[d] = "good" /\ \A e \in Devices : e # d => given'[e] = given[e]
  BY <1>0, <1>1
<1>4. TypeOK'
  BY <1>0, <1>2, <1>3 DEF TypeOK
<1>5. SourceFits(d) => SourceFits(d)'
  BY <1>0, <1>3 DEF SourceFits, SourceNow, FileAt
<1>6. Sound(d)'
  BY <1>0, <1>2, <1>5 DEF Sound
<1>7. Done(d)'
  BY <1>0, <1>2 DEF Done
<1>8. Looks(d)'
  BY <1>0, <1>2 DEF Looks, Matches
<1> QED
  BY <1>0, <1>2, <1>3, <1>4, <1>6, <1>7, <1>8, LocalStep DEF Good, NoOld, Others

\* The operation that is about to use the caller's file, after the user has touched it.
LEMMA EditedTask ==
    ASSUME Inv, NEW d \in Devices, NEW content, TouchGiven(d, content)
    PROVE  /\ task' \in [Devices -> Task] /\ Others(d)
           /\ task'[d].pc = task[d].pc /\ task'[d].op = task[d].op /\ task'[d].src = task[d].src
           /\ task'[d].stat = task[d].stat /\ task'[d].blind = task[d].blind
           /\ task'[d].content = task[d].content
           /\ task'[d].old = task[d].old /\ task'[d].mine = task[d].mine
           /\ task'[d].edited = (task[d].edited \/ task[d].src = "given")
<1> DEFINE now == task[d].edited \/ task[d].src = "given"
<1> DEFINE x == [task[d] EXCEPT !.edited = now]
<1>1. TypeOK /\ task[d] \in Task
  BY Facts DEF TypeFactsAt
<1>2. now \in BOOLEAN
  OBVIOUS
<1>3. task' = [task EXCEPT ![d] = x]
  BY DEF TouchGiven
<1> HIDE DEF now
<1>4. /\ x \in Task /\ x.pc = task[d].pc /\ x.op = task[d].op /\ x.src = task[d].src
      /\ x.stat = task[d].stat /\ x.blind = task[d].blind /\ x.content = task[d].content
      /\ x.old = task[d].old /\ x.mine = task[d].mine /\ x.edited = now
  BY <1>1, <1>2 DEF Task
<1> HIDE DEF x
<1>5. task' \in [Devices -> Task] /\ Others(d) /\ task'[d] = x
  BY <1>1, <1>3, <1>4, TaskSet
<1> QED
  BY <1>4, <1>5 DEF now

LEMMA TouchGivenStep ==
    ASSUME Inv, NEW d \in Devices, NEW content \in {"edited", "missing"}, TouchGiven(d, content)
    PROVE  Inv'
<1>0. /\ TypeOK /\ NoOld /\ Sound(d) /\ Done(d) /\ Looks(d) /\ TypeFactsAt(d)
      /\ given \in [Devices -> Files] /\ outside \in 0..MaxOutside
      /\ UNCHANGED <<setup, remote, cache, row, pending, failures>>
      /\ given' = [given EXCEPT ![d] = content]
      /\ outside < MaxOutside /\ outside' = outside + 1
  BY Facts DEF TouchGiven
<1>1. given' \in [Devices -> Files] /\ \A e \in Devices : e # d => given'[e] = given[e]
  BY <1>0 DEF Files, Contents
<1>2. outside' \in 0..MaxOutside
  BY <1>0, BoundAssumption
<1>3. /\ task' \in [Devices -> Task] /\ Others(d)
      /\ task'[d].pc = task[d].pc /\ task'[d].op = task[d].op /\ task'[d].src = task[d].src
      /\ task'[d].stat = task[d].stat /\ task'[d].content = task[d].content
      /\ task'[d].old = task[d].old /\ task'[d].mine = task[d].mine
      /\ task'[d].edited = (task[d].edited \/ task[d].src = "given")
  BY EditedTask
<1>4. TypeOK'
  BY <1>0, <1>1, <1>2, <1>3 DEF TypeOK
<1>5. SourceFits(d) => SourceFits(d)' \/ task[d].src = "given"
  BY <1>0, <1>3 DEF SourceFits, SourceNow, FileAt, TypeFactsAt
<1>6. Sound(d)'
  BY <1>0, <1>3, <1>5 DEF Sound
<1>7. Done(d)'
  BY <1>0, <1>3 DEF Done
<1>8. Looks(d)'
  <2>1. \A stat : Matches(stat)' = Matches(stat)
    BY <1>0 DEF Matches, Stat
  <2> QED
    BY <1>0, <1>3, <2>1 DEF Looks
<1> QED
  BY <1>0, <1>1, <1>3, <1>4, <1>6, <1>7, <1>8, LocalStep DEF Good, NoOld

\* The object is replaced by somebody who runs no operation of e here.
LEMMA ReplaceSpares ==
    ASSUME Inv, NEW content \in Files, Replace(content), NEW e \in Devices,
           Disturbed(e), UNCHANGED <<setup, given>>, cache'[e] = cache[e]
    PROVE  Good(e)' /\ ~task'[e].old
<1>1. /\ row'[e].path = row[e].path /\ row'[e].stat = Aged(row[e].stat)
      /\ row'[e].adopted = row[e].adopted
      /\ row[e] = NoRow => row'[e] = NoRow
  BY ReplaceRow, Facts
<1>2. /\ task'[e].pc = task[e].pc /\ task'[e].op = task[e].op /\ task'[e].src = task[e].src
      /\ task'[e].content = task[e].content /\ task'[e].edited = task[e].edited
      /\ ~task'[e].old /\ (~task'[e].mine \/ task[e].pc = "writing")
  <2>1. task[e] \in Task /\ NoOld
    BY Facts DEF TypeFactsAt
  <2>2. CASE task'[e] = AgedTask(task[e])
    BY <2>1, <2>2, AgedTaskType
  <2>3. CASE task'[e] = task[e] /\ task[e].pc = "writing"
    BY <2>1, <2>3 DEF NoOld
  <2> QED
    BY <2>2, <2>3 DEF Disturbed
<1>3. Spared(e)
  BY <1>1, <1>2 DEF Spared
<1> QED
  BY <1>2, <1>3, SparedGood

LEMMA TouchRemoteStep ==
    ASSUME Inv, NEW content \in {"foreign", "missing"}, TouchRemote(content)
    PROVE  Inv'
<1>0. /\ TypeOK /\ outside \in 0..MaxOutside /\ content \in Files
      /\ Replace(content) /\ task' = [e \in Devices |-> AgedTask(task[e])]
      /\ outside < MaxOutside /\ outside' = outside + 1
      /\ UNCHANGED <<setup, cache, given, pending, failures>>
  BY DEF TouchRemote, disk, Inv, TypeOK, Files, Contents
<1>1. outside' \in 0..MaxOutside
  BY <1>0, BoundAssumption
<1>2. remote' \in Files /\ row' \in [Devices -> Row]
  BY <1>0, ReplaceRow
<1>3. task' \in [Devices -> Task]
  BY <1>0, AgedTaskType DEF TypeOK
<1>4. TypeOK'
  BY <1>0, <1>1, <1>2, <1>3 DEF TypeOK
<1>5. \A e \in Devices : Good(e)' /\ ~task'[e].old
  BY <1>0, ReplaceSpares DEF Disturbed
<1>6. NoOld'
  BY <1>5 DEF NoOld
<1> QED
  BY <1>4, <1>5, <1>6 DEF Inv

LEMMA BeginSourceStep ==
    ASSUME Inv, NEW d \in Devices, NEW mode \in Modes, BeginSource(d, mode)
    PROVE  Inv'
<1> DEFINE stage == IF row[d] = NoRow THEN "exists" ELSE "stat"
<1> DEFINE x == [Started(d, "sync", stage) EXCEPT !.stat = row[d].stat, !.blind = row[d].blind]
<1>0. /\ TypeOK /\ NoOld /\ Looks(d) /\ TypeFactsAt(d)
      /\ FileAt(d, Source(d)) = "good" \/ row[d].adopted
      /\ task' = [task EXCEPT ![d] = x]
      /\ UNCHANGED <<setup, remote, cache, given, row, pending, failures, outside>>
  BY Facts DEF BeginSource, disk, bounds
<1>1. stage \in Stages /\ stage \in {"exists", "stat"} /\ (stage = "exists" => row[d] = NoRow)
  BY DEF Stages
<1> HIDE DEF stage
<1>2. /\ Started(d, "sync", stage) \in Task
      /\ Started(d, "sync", stage).pc = stage /\ Started(d, "sync", stage).op = "sync"
      /\ Started(d, "sync", stage).src = Source(d) /\ ~Started(d, "sync", stage).edited
      /\ (remote = "missing" => ~Started(d, "sync", stage).old)
  <2>1. Source(d) \in {"cache", "given"}
    BY SourceType
  <2> QED
    BY <1>1, <2>1, StartedTask
<1>3. /\ x \in Task /\ x.pc = stage /\ x.op = "sync" /\ x.src = Source(d)
      /\ (remote = "missing" => ~x.old) /\ x.stat = row[d].stat /\ ~x.edited
  BY <1>0, <1>2 DEF Task, TypeFactsAt
<1> HIDE DEF x
<1>4. task' \in [Devices -> Task] /\ Others(d) /\ task'[d] = x
  BY <1>0, <1>3, TaskSet
<1>5. TypeOK'
  BY <1>0, <1>4 DEF TypeOK
<1>6. Sound(d)'
  <2>1. SourceFits(d)' \/ row'[d].adopted
    BY <1>0, <1>3, <1>4 DEF SourceFits, SourceNow, FileAt
  <2> QED
    BY <1>1, <1>3, <1>4, <2>1 DEF Sound
<1>7. Done(d)'
  BY <1>1, <1>3, <1>4 DEF Done
<1>8. Looks(d)'
  <2>1. row[d] = NoRow => row[d].stat = "none"
    BY DEF NoRow
  <2>2. stage = "exists" => ~Matches(row[d].stat)'
    BY <1>0, <1>1, <2>1 DEF Matches
  <2> QED
    BY <1>0, <1>1, <1>3, <1>4, <2>2 DEF Looks
<1>9. task'[d].pc \notin {"upload", "writing"} /\ (remote = "missing" => ~task'[d].old)
  BY <1>1, <1>3, <1>4
<1> QED
  BY <1>0, <1>4, <1>5, <1>6, <1>7, <1>8, <1>9, LocalStep DEF Good

LEMMA BeginPullStep ==
    ASSUME Inv, NEW d \in Devices, NEW mode \in Modes, BeginPull(d, mode)
    PROVE  Inv'
<1> DEFINE x == [Started(d, "sync", "lookup") EXCEPT !.src = "cache"]
<1>0. /\ TypeOK /\ NoOld /\ Looks(d) /\ TypeFactsAt(d)
      /\ mode = "pull" \/ FileAt(d, Source(d)) = "missing"
      /\ task' = [task EXCEPT ![d] = x]
      /\ UNCHANGED <<setup, remote, cache, given, row, pending, failures, outside>>
  BY Facts DEF BeginPull, disk, bounds
<1>1. "lookup" \in Stages
  BY DEF Stages
<1>2. /\ Started(d, "sync", "lookup") \in Task
      /\ Started(d, "sync", "lookup").pc = "lookup" /\ Started(d, "sync", "lookup").op = "sync"
      /\ (remote = "missing" => ~Started(d, "sync", "lookup").old)
  <2>1. Source(d) \in {"cache", "given"}
    BY SourceType
  <2> QED
    BY <1>1, <2>1, StartedTask
<1>3. /\ x \in Task /\ x.pc = "lookup" /\ x.op = "sync" /\ (remote = "missing" => ~x.old)
      /\ x.src = "cache"
  BY <1>2 DEF Task
<1> HIDE DEF x
<1>4. task' \in [Devices -> Task] /\ Others(d) /\ task'[d] = x
  BY <1>0, <1>3, TaskSet
<1>5. TypeOK'
  BY <1>0, <1>4 DEF TypeOK
<1>6. Sound(d)' /\ Done(d)'
  BY <1>3, <1>4 DEF Sound, Done, Copies
<1>7. Looks(d)'
  <2>1. "pull" \notin Modes => cache[d] = "missing" \/ ~Matches(row[d].stat)
    <3>1. Source(d) = "given" => row[d].stat = "none"
      BY SourceType
    <3> QED
      BY <1>0, <3>1, SourceType DEF FileAt, Matches
  <2>2. Matches(row[d].stat)' = Matches(row[d].stat)
    BY <1>0 DEF Matches, Stat
  <2> QED
    BY <1>0, <1>3, <1>4, <2>1, <2>2 DEF Looks
<1>8. task'[d].pc \notin {"upload", "writing"} /\ (remote = "missing" => ~task'[d].old)
  BY <1>3, <1>4
<1> QED
  BY <1>0, <1>4, <1>5, <1>6, <1>7, <1>8, LocalStep DEF Good

LEMMA ResolveLocalTask ==
    ASSUME Inv, NEW d \in Devices, ResolveLocal(d)
    PROVE  /\ task' \in [Devices -> Task] /\ Others(d)
           /\ task'[d].pc = "upload" /\ task'[d].op = "local" /\ task'[d].src = Source(d)
           /\ task'[d].content = "good" /\ ~task'[d].edited
           /\ remote = "missing" => ~task'[d].old
<1> DEFINE s == Started(d, "local", "upload")
<1> DEFINE x == [s EXCEPT !.content = "good"]
<1>1. "upload" \in Stages /\ Source(d) \in {"cache", "given"} /\ "good" \in Files /\ TypeOK
  BY SourceType, Facts DEF Stages, Files, Contents
<1>2. /\ s \in Task /\ s.pc = "upload" /\ s.op = "local" /\ s.src = Source(d)
      /\ (remote = "missing" => ~s.old) /\ ~s.edited
  BY <1>1, StartedTask
<1>3. task' = [task EXCEPT ![d] = x]
  BY DEF ResolveLocal
<1> HIDE DEF s
<1>4. /\ x \in Task /\ x.pc = "upload" /\ x.op = "local" /\ x.src = Source(d)
      /\ x.content = "good" /\ (remote = "missing" => ~x.old) /\ ~x.edited
  BY <1>1, <1>2 DEF Task
<1> HIDE DEF x
<1>5. task' \in [Devices -> Task] /\ Others(d) /\ task'[d] = x
  BY <1>1, <1>3, <1>4, TaskSet
<1> QED
  BY <1>4, <1>5

LEMMA ResolveLocalStep ==
    ASSUME Inv, NEW d \in Devices, ResolveLocal(d)
    PROVE  Inv'
<1>0. /\ TypeOK /\ Looks(d) /\ FileAt(d, Source(d)) = "good"
      /\ UNCHANGED <<setup, remote, cache, given, row, pending, failures, outside>>
  BY Facts DEF ResolveLocal, disk, bounds
<1>1. /\ task' \in [Devices -> Task] /\ Others(d)
      /\ task'[d].pc = "upload" /\ task'[d].op = "local" /\ task'[d].src = Source(d)
      /\ task'[d].content = "good" /\ ~task'[d].edited
      /\ remote = "missing" => ~task'[d].old
  BY ResolveLocalTask
<1>2. TypeOK'
  BY <1>0, <1>1 DEF TypeOK
<1>3. SourceFits(d)'
  BY <1>0, <1>1 DEF SourceFits, SourceNow, FileAt
<1>4. Sound(d)' /\ Done(d)' /\ Looks(d)'
  BY <1>0, <1>1, <1>3 DEF Sound, Done, Looks
<1> QED
  BY <1>0, <1>1, <1>2, <1>4, LocalStep DEF Good

LEMMA ResolveRemoteStep ==
    ASSUME Inv, NEW d \in Devices, ResolveRemote(d)
    PROVE  Inv'
<1> DEFINE x == [Idle EXCEPT !.pc = "find", !.op = "remote"]
<1>0. /\ TypeOK /\ Looks(d)
      /\ task' = [task EXCEPT ![d] = x]
      /\ UNCHANGED <<setup, remote, cache, given, row, pending, failures, outside>>
  BY Facts DEF ResolveRemote, disk, bounds
<1>1. /\ x \in Task /\ x.pc = "find" /\ x.op = "remote" /\ x.old = FALSE /\ x.mine = FALSE
      /\ x.src = "cache"
  BY IdleType DEF Task, Stages
<1> HIDE DEF x
<1>2. task' \in [Devices -> Task] /\ Others(d) /\ task'[d] = x
  BY <1>0, <1>1, TaskSet
<1>3. TypeOK'
  BY <1>0, <1>2 DEF TypeOK
<1>4. Sound(d)' /\ Done(d)' /\ Looks(d)'
  BY <1>0, <1>1, <1>2 DEF Sound, Done, Looks, Copies
<1> QED
  BY <1>0, <1>1, <1>2, <1>3, <1>4, LocalStep DEF Good

-----------------------------------------------------------------------------
(* sync_book *)

LEMMA CopySourceFile ==
    ASSUME Inv, NEW d \in Devices, CopySource(d)
    PROVE  /\ cache' \in [Devices -> Files] /\ cache'[d] = SourceNow(d)
           /\ \A e \in Devices : e # d => cache'[e] = cache[e]
<1>1. cache \in [Devices -> Files] /\ given \in [Devices -> Files]
  BY Facts
<1>2. SourceNow(d) \in Files
  BY <1>1 DEF FileAt, SourceNow
<1> QED
  BY <1>1, <1>2 DEF CopySource

LEMMA StatUnchangedStep ==
    ASSUME Inv, NEW d \in Devices, StatUnchanged(d)
    PROVE  Inv'
<1>0. /\ TypeOK /\ Matches(task[d].stat) /\ End(d) /\ CopySource(d)
      /\ Upsert(d, "cache", Stat, task[d].blind)
      /\ UNCHANGED <<setup, remote, given, pending, failures, outside>>
      /\ task[d].blind \in BOOLEAN /\ pending \in [Devices -> BOOLEAN]
      /\ failures \in 0..MaxFailures /\ outside \in 0..MaxOutside
  BY Facts DEF StatUnchanged, bounds, TypeFactsAt, Task
<1>1. Stat \in Stats /\ "cache" \in {"cache", "given"}
  BY <1>0, StatType DEF Matches
<1>2. /\ row' \in [Devices -> Row] /\ row'[d].path = "cache"
      /\ \A e \in Devices : e # d => row'[e] = row[e]
  BY <1>0, <1>1, UpsertRow
<1> QED
  BY <1>0, <1>2, CopySourceFile, EndStep

\* A pass goes on, and has forgotten its row when it has read the source.
OnTask(t, stage, c) == [t EXCEPT !.pc = stage, !.content = c, !.stat = "none", !.blind = FALSE]

LEMMA OnTaskType ==
    ASSUME NEW t \in Task, NEW stage \in Stages, NEW c \in Files
    PROVE  /\ OnTask(t, stage, c) \in Task
           /\ OnTask(t, stage, c).pc = stage /\ OnTask(t, stage, c).op = t.op
           /\ OnTask(t, stage, c).src = t.src /\ OnTask(t, stage, c).content = c
           /\ OnTask(t, stage, c).old = t.old /\ OnTask(t, stage, c).mine = t.mine
           /\ OnTask(t, stage, c).edited = t.edited
  BY DEF OnTask, Task, Stats

LEMMA StatChangedTask ==
    ASSUME Inv, NEW d \in Devices, StatChanged(d)
    PROVE  /\ task' \in [Devices -> Task] /\ Others(d)
           /\ task'[d].pc = "exists" /\ task'[d].op = task[d].op /\ task'[d].src = task[d].src
           /\ task'[d].old = task[d].old /\ task'[d].edited = task[d].edited
<1> DEFINE x == OnTask(task[d], "exists", task[d].content)
<1>1. TypeOK /\ task[d] \in Task /\ task \in [Devices -> Task]
  BY Facts DEF TypeFactsAt
<1>2. task[d].content \in Files /\ "exists" \in Stages
  BY <1>1 DEF Task, Stages
<1>3. task' = [task EXCEPT ![d] = x]
  <2>1. task' = [task EXCEPT ![d] = [task[d] EXCEPT !.pc = "exists", !.stat = "none", !.blind = FALSE]]
    BY <1>1 DEF StatChanged
  <2>2. [task[d] EXCEPT !.pc = "exists", !.stat = "none", !.blind = FALSE] = x
    BY <1>1 DEF Task, OnTask
  <2> QED
    BY <2>1, <2>2
<1>4. /\ x \in Task /\ x.pc = "exists" /\ x.op = task[d].op /\ x.src = task[d].src
      /\ x.old = task[d].old /\ x.edited = task[d].edited
  BY <1>1, <1>2, OnTaskType
<1> HIDE DEF x
<1>5. task' \in [Devices -> Task] /\ Others(d) /\ task'[d] = x
  BY <1>1, <1>3, <1>4, TaskSet
<1> QED
  BY <1>4, <1>5

LEMMA AbsentTask ==
    ASSUME Inv, NEW d \in Devices, Absent(d)
    PROVE  /\ task' \in [Devices -> Task] /\ Others(d)
           /\ task'[d].pc = "upload" /\ task'[d].op = task[d].op /\ task'[d].src = task[d].src
           /\ task'[d].content = SourceNow(d)
           /\ task'[d].old = task[d].old /\ task'[d].edited = task[d].edited
<1> DEFINE x == OnTask(task[d], "upload", SourceNow(d))
<1>1. /\ TypeOK /\ cache \in [Devices -> Files] /\ given \in [Devices -> Files]
      /\ task[d] \in Task /\ task \in [Devices -> Task]
  BY Facts DEF TypeFactsAt
<1>2. SourceNow(d) \in Files /\ "upload" \in Stages
  BY <1>1 DEF SourceNow, FileAt, Stages
<1>3. task' = [task EXCEPT ![d] = x]
  BY <1>1 DEF Absent, ToUpload, OnTask
<1>4. /\ x \in Task /\ x.pc = "upload" /\ x.op = task[d].op /\ x.src = task[d].src
      /\ x.content = SourceNow(d) /\ x.old = task[d].old /\ x.edited = task[d].edited
  BY <1>1, <1>2, OnTaskType
<1> HIDE DEF x
<1>5. task' \in [Devices -> Task] /\ Others(d) /\ task'[d] = x
  BY <1>1, <1>3, <1>4, TaskSet
<1> QED
  BY <1>4, <1>5

LEMMA StatChangedStep ==
    ASSUME Inv, NEW d \in Devices, StatChanged(d)
    PROVE  Inv'
<1>0. /\ TypeOK /\ NoOld /\ Sound(d) /\ Looks(d)
      /\ task[d].pc = "stat" /\ ~Matches(task[d].stat)
      /\ UNCHANGED <<setup, remote, cache, given, row, pending, failures, outside>>
  BY Facts DEF StatChanged, disk, bounds
<1>1. /\ task' \in [Devices -> Task] /\ Others(d)
      /\ task'[d].pc = "exists" /\ task'[d].op = task[d].op /\ task'[d].src = task[d].src
      /\ task'[d].old = task[d].old /\ task'[d].edited = task[d].edited
  BY StatChangedTask
<1>2. TypeOK'
  BY <1>0, <1>1 DEF TypeOK
<1>3. SourceFits(d) => SourceFits(d)'
  BY <1>0, <1>1 DEF SourceFits, SourceNow, FileAt
<1>4. Sound(d)' /\ Done(d)'
  BY <1>0, <1>1, <1>3 DEF Sound, Done, Copies
<1>5. Looks(d)'
  <2>1. task[d].old => ~Matches(row[d].stat)
    BY <1>0 DEF Looks, Matches
  <2>2. Matches(row[d].stat)' = Matches(row[d].stat)
    BY <1>0 DEF Matches, Stat
  <2> QED
    BY <1>0, <1>1, <2>1, <2>2 DEF Looks
<1>6. remote = "missing" => ~task'[d].old
  BY <1>0, <1>1 DEF NoOld
<1> QED
  BY <1>0, <1>1, <1>2, <1>4, <1>5, <1>6, LocalStep DEF Good

LEMMA AbsentStep ==
    ASSUME Inv, NEW d \in Devices, Absent(d)
    PROVE  Inv'
<1>0. /\ TypeOK /\ NoOld /\ Sound(d) /\ Looks(d) /\ remote = "missing"
      /\ task[d].pc \in {"stat", "exists"}
      /\ UNCHANGED <<setup, remote, cache, given, row, pending, failures, outside>>
  BY Facts DEF Absent, disk, bounds
<1>1. /\ task' \in [Devices -> Task] /\ Others(d)
      /\ task'[d].pc = "upload" /\ task'[d].op = task[d].op /\ task'[d].src = task[d].src
      /\ task'[d].old = task[d].old /\ task'[d].edited = task[d].edited
  BY AbsentTask
<1>2. TypeOK'
  BY <1>0, <1>1 DEF TypeOK
<1>3. SourceFits(d) => SourceFits(d)'
  BY <1>0, <1>1 DEF SourceFits, SourceNow, FileAt
<1>4. Sound(d)' /\ Done(d)'
  BY <1>0, <1>1, <1>3 DEF Sound, Done, Copies
<1>5. Looks(d)'
  BY <1>0, <1>1 DEF Looks
<1>6. ~task'[d].old
  BY <1>0, <1>1 DEF NoOld
<1> QED
  BY <1>0, <1>1, <1>2, <1>4, <1>5, <1>6, LocalStep DEF Good

LEMMA ExistsStep ==
    ASSUME Inv, NEW d \in Devices, Exists(d)
    PROVE  Inv'
<1>0. /\ TypeOK /\ NoOld /\ Sound(d) /\ Looks(d) /\ Goto(d, "compare") /\ "compare" \in Stages
      /\ task[d].pc = "exists"
      /\ UNCHANGED <<setup, remote, cache, given, row, pending, failures, outside>>
  BY Facts DEF Exists, disk, bounds, Stages
<1>1. /\ task' \in [Devices -> Task] /\ Others(d)
      /\ task'[d].pc = "compare" /\ task'[d].op = task[d].op /\ task'[d].src = task[d].src
      /\ task'[d].old = task[d].old /\ task'[d].edited = task[d].edited
  BY <1>0, GotoTask
<1>2. TypeOK'
  BY <1>0, <1>1 DEF TypeOK
<1>3. SourceFits(d) => SourceFits(d)'
  BY <1>0, <1>1 DEF SourceFits, SourceNow, FileAt
<1>4. Sound(d)' /\ Done(d)'
  BY <1>0, <1>1, <1>3 DEF Sound, Done, Copies
<1>5. Matches(row[d].stat)' = Matches(row[d].stat)
  BY <1>0 DEF Matches, Stat
<1>6. Looks(d)'
  BY <1>0, <1>1, <1>5 DEF Looks
<1>7. remote = "missing" => ~task'[d].old
  BY <1>0, <1>1 DEF NoOld
<1> QED
  BY <1>0, <1>1, <1>2, <1>4, <1>6, <1>7, LocalStep DEF Good

\* What is left to do after a transfer from or to the source of the operation.
LEMMA AfterSound ==
    ASSUME Inv, NEW d \in Devices, NEW mine \in BOOLEAN, task'[d] = Transferred(task[d], mine),
           task[d].pc \in {"compare", "writing", "upload", "fetch", "adopt"},
           cache'[d] = cache[d] \/ task[d].pc \in {"fetch", "adopt"}, given' = given,
           row'[d].adopted = row[d].adopted,
           task[d].op = "local" => (mine => remote' = "good")
    PROVE  Sound(d)' /\ Done(d)'
<1>0. Sound(d) /\ Done(d) /\ task[d] \in Task
  BY Facts DEF TypeFactsAt
<1>1. /\ task'[d].pc = AfterTransfer(task[d].src) /\ task'[d].op = task[d].op
      /\ task'[d].src = task[d].src /\ task'[d].edited = task[d].edited
      /\ task'[d].mine = mine
  <2> DEFINE x == Transferred(task[d], mine)
  <2>1. /\ x.pc = AfterTransfer(task[d].src) /\ x.op = task[d].op
        /\ x.src = task[d].src /\ x.edited = task[d].edited /\ x.mine = mine
    BY <1>0, TransferredType
  <2>2. task'[d] = x
    OBVIOUS
  <2> HIDE DEF x
  <2> QED
    BY <2>1, <2>2
<1>2. task'[d].pc \in {"copy", "stamp"}
  BY <1>1 DEF AfterTransfer
<1>3. CASE task[d].pc \in {"compare", "writing", "upload"}
  <2>1. SourceFits(d)' = SourceFits(d)
    BY <1>1, <1>3 DEF SourceFits, SourceNow, FileAt
  <2>2. Sound(d)'
    BY <1>0, <1>1, <1>2, <1>3, <2>1 DEF Sound, Copies
  <2>3. task'[d].pc = "stamp" => cache'[d] = SourceNow(d)
    BY <1>0, <1>1, <1>3 DEF AfterTransfer, SourceNow, FileAt, Task
  <2>4. task'[d].op = "local" /\ task'[d].pc = "stamp" => cache'[d] = "good" \/ task'[d].edited
    BY <1>0, <1>1, <1>3, <2>3 DEF Sound, SourceFits, Copies
  <2>5. task'[d].op # "none"
    BY <1>0, <1>1, <1>3 DEF Done
  <2>6. Done(d)'
    BY <1>1, <1>2, <2>4, <2>5 DEF Done
  <2> QED
    BY <2>2, <2>6
<1>4. CASE task[d].pc \in {"fetch", "adopt"}
  <2>1. task[d].op \in {"sync", "remote"} /\ task[d].src = "cache"
    BY <1>0, <1>4 DEF Sound
  <2>2. task'[d].pc = "stamp"
    BY <1>1, <2>1 DEF AfterTransfer
  <2> QED
    BY <1>1, <2>1, <2>2 DEF Sound, Done, Copies
<1> QED
  BY <1>3, <1>4

\* A transfer has succeeded and the object is as it was.
LEMMA TransferStep ==
    ASSUME Inv, NEW d \in Devices, NEW mine \in BOOLEAN,
           UNCHANGED <<setup, remote, given, row, pending, failures, outside>>,
           task' = [task EXCEPT ![d] = Transferred(task[d], mine)],
           task[d].pc \in {"compare", "writing", "fetch", "adopt"},
           cache' = cache \/ task[d].pc \in {"fetch", "adopt"},
           cache' \in [Devices -> Files], \A e \in Devices : e # d => cache'[e] = cache[e],
           task[d].op = "local" => ~mine
    PROVE  Inv'
<1>0. TypeOK /\ Looks(d) /\ task[d] \in Task
  BY Facts DEF TypeFactsAt
<1>1. /\ Transferred(task[d], mine) \in Task
      /\ Transferred(task[d], mine).pc = AfterTransfer(task[d].src)
      /\ Transferred(task[d], mine).old = FALSE
  BY <1>0, TransferredType
<1>2. /\ task' \in [Devices -> Task] /\ Others(d)
      /\ task'[d] = Transferred(task[d], mine)
  BY <1>0, <1>1, TaskSet
<1>3. task'[d].pc \in {"copy", "stamp"} /\ ~task'[d].old
  BY <1>1, <1>2 DEF AfterTransfer
<1>4. TypeOK'
  BY <1>0, <1>2 DEF TypeOK
<1>5. Sound(d)' /\ Done(d)'
  BY <1>2, AfterSound
<1>6. Looks(d)'
  BY <1>0, <1>3 DEF Looks
<1> QED
  BY <1>2, <1>3, <1>4, <1>5, <1>6, LocalStep DEF Good

LEMMA CompareSameStep ==
    ASSUME Inv, NEW d \in Devices, CompareSame(d)
    PROVE  Inv'
<1>1. /\ task[d].op # "local" /\ task[d].pc = "compare" /\ TRUE \in BOOLEAN
      /\ cache \in [Devices -> Files]
  BY Facts DEF CompareSame, Sound
<1>2. /\ UNCHANGED <<setup, remote, cache, given, row, pending, failures, outside>>
      /\ task' = [task EXCEPT ![d] = Transferred(task[d], TRUE)]
  BY DEF CompareSame, bounds, disk
<1> QED
  BY <1>1, <1>2, TransferStep

LEMMA FetchSameStep ==
    ASSUME Inv, NEW d \in Devices, FetchSame(d)
    PROVE  Inv'
<1>0. Sound(d)
  BY Facts
<1>1. /\ UNCHANGED <<setup, remote, given, row, pending, failures, outside>>
      /\ task' = [task EXCEPT ![d] = Transferred(task[d], TRUE)]
      /\ cache' = [cache EXCEPT ![d] = "good"] /\ task[d].pc = "fetch" /\ task[d].op # "local"
      /\ TRUE \in BOOLEAN
  BY <1>0 DEF FetchSame, bounds, Sound
<1>2. cache' \in [Devices -> Files] /\ \A e \in Devices : e # d => cache'[e] = cache[e]
  BY <1>1, Facts DEF Files, Contents
<1> QED
  BY <1>1, <1>2, TransferStep

LEMMA AdoptStep ==
    ASSUME Inv, NEW d \in Devices, Adopt(d)
    PROVE  Inv'
<1>0. task[d].op = "remote" /\ task[d].pc = "adopt" /\ TypeOK /\ TRUE \in BOOLEAN
  BY Facts DEF Adopt, Sound
<1>1. /\ UNCHANGED <<setup, remote, given, row, pending, failures, outside>>
      /\ task' = [task EXCEPT ![d] = Transferred(task[d], TRUE)]
      /\ cache' = [cache EXCEPT ![d] = remote]
  BY DEF Adopt, bounds
<1>2. cache' \in [Devices -> Files] /\ \A e \in Devices : e # d => cache'[e] = cache[e]
  BY <1>0, <1>1 DEF TypeOK
<1> QED
  BY <1>0, <1>1, <1>2, TransferStep

LEMMA CopyTask ==
    ASSUME Inv, NEW d \in Devices, Copy(d)
    PROVE  /\ task' \in [Devices -> Task] /\ Others(d)
           /\ task'[d].pc = "stamp" /\ task'[d].op = task[d].op
           /\ task'[d].old = task[d].old /\ task'[d].mine = task[d].mine
           /\ task'[d].edited = task[d].edited
<1> DEFINE x == [task[d] EXCEPT !.pc = "stamp", !.src = "cache"]
<1>1. TypeOK /\ task[d] \in Task /\ task \in [Devices -> Task]
  BY Facts DEF TypeFactsAt
<1>2. task' = [task EXCEPT ![d] = x]
  BY <1>1 DEF Copy
<1>3. /\ x \in Task /\ x.pc = "stamp" /\ x.op = task[d].op /\ x.old = task[d].old
      /\ x.mine = task[d].mine /\ x.edited = task[d].edited
  BY <1>1 DEF Task, Stages
<1> HIDE DEF x
<1>4. task' \in [Devices -> Task] /\ Others(d) /\ task'[d] = x
  BY <1>1, <1>2, <1>3, TaskSet
<1> QED
  BY <1>3, <1>4

LEMMA CopyStep ==
    ASSUME Inv, NEW d \in Devices, Copy(d)
    PROVE  Inv'
<1>0. /\ TypeOK /\ NoOld /\ Sound(d) /\ Done(d) /\ Looks(d) /\ CopySource(d)
      /\ task[d].pc = "copy"
      /\ UNCHANGED <<setup, remote, given, row, pending, failures, outside>>
  BY Facts DEF Copy, bounds
<1>1. /\ task' \in [Devices -> Task] /\ Others(d)
      /\ task'[d].pc = "stamp" /\ task'[d].op = task[d].op
      /\ task'[d].old = task[d].old /\ task'[d].mine = task[d].mine
      /\ task'[d].edited = task[d].edited
  BY CopyTask
<1>2. /\ cache' \in [Devices -> Files] /\ cache'[d] = SourceNow(d)
      /\ \A e \in Devices : e # d => cache'[e] = cache[e]
  BY <1>0, CopySourceFile
<1>3. TypeOK'
  BY <1>0, <1>1, <1>2 DEF TypeOK
<1>4. Sound(d)'
  BY <1>1 DEF Sound, Copies
<1>5. Done(d)'
  BY <1>0, <1>1, <1>2 DEF Done, Sound, SourceFits, Copies
<1>6. Looks(d)'
  BY <1>0, <1>1 DEF Looks
<1>7. remote = "missing" => ~task'[d].old
  BY <1>0, <1>1 DEF NoOld
<1> QED
  BY <1>0, <1>1, <1>2, <1>3, <1>4, <1>5, <1>6, <1>7, LocalStep DEF Good

LEMMA ConflictStep ==
    ASSUME Inv, NEW d \in Devices, NEW stage \in Stages, Conflict(d, stage)
    PROVE  Inv'
<1>0. /\ pending \in [Devices -> BOOLEAN] /\ row \in [Devices -> Row] /\ cache \in [Devices -> Files]
      /\ failures \in 0..MaxFailures /\ outside \in 0..MaxOutside
  BY Facts
<1>1. /\ UNCHANGED <<setup, remote, cache, given, row, failures, outside>>
      /\ pending' = [pending EXCEPT ![d] = TRUE] /\ End(d)
  BY DEF Conflict, disk, bounds
<1>2. pending' \in [Devices -> BOOLEAN]
  BY <1>0, <1>1
<1> QED
  BY <1>0, <1>1, <1>2, EndStep

\* The operation ends and changes nothing else.
LEMMA StopStep ==
    ASSUME Inv, NEW d \in Devices, End(d), failures' \in 0..MaxFailures,
           UNCHANGED <<setup, remote, cache, given, row, pending, outside>>
    PROVE  Inv'
  BY Facts, EndStep

LEMMA ErrorStep ==
    ASSUME Inv, NEW d \in Devices, DownloadError(d) \/ SourceGone(d)
    PROVE  Inv'
  BY Facts, StopStep DEF DownloadError, SourceGone, disk, bounds

LEMMA LookupStep ==
    ASSUME Inv, NEW d \in Devices, Lookup(d)
    PROVE  Inv'
<1>0. /\ TypeOK /\ NoOld /\ Sound(d) /\ Done(d) /\ Looks(d) /\ task[d].pc = "lookup"
      /\ failures \in 0..MaxFailures
      /\ UNCHANGED <<setup, remote, cache, given, row, pending, failures, outside>>
  BY Facts DEF Lookup, disk, bounds
<1>1. CASE End(d)
  BY <1>0, <1>1, StopStep
<1>2. CASE Goto(d, "fetch")
  <2>1. /\ task' \in [Devices -> Task] /\ Others(d) /\ task'[d].src = task[d].src
        /\ task'[d].pc = "fetch" /\ task'[d].op = task[d].op /\ task'[d].old = task[d].old
    BY <1>0, <1>2, GotoTask DEF Stages
  <2>2. TypeOK'
    BY <1>0, <2>1 DEF TypeOK
  <2>3. Sound(d)' /\ Done(d)'
    BY <1>0, <2>1 DEF Sound, Done, Copies
  <2>4. Matches(row[d].stat)' = Matches(row[d].stat)
    BY <1>0 DEF Matches, Stat
  <2>5. Looks(d)'
    BY <1>0, <2>1, <2>4 DEF Looks
  <2>6. remote = "missing" => ~task'[d].old
    BY <1>0, <2>1 DEF NoOld
  <2> QED
    BY <1>0, <2>1, <2>2, <2>3, <2>5, <2>6, LocalStep DEF Good
<1> QED
  BY <1>1, <1>2 DEF Lookup

-----------------------------------------------------------------------------
(* Uploads *)

\* Operation d writes the object and goes on as x.
LEMMA WriteStep ==
    ASSUME Inv, NEW d \in Devices, NEW content \in Files, NEW x \in Task, Wrote(d, content, x),
           UNCHANGED <<setup, cache, given, pending, failures, outside>>,
           ~x.old, x.pc \in {"writing", "copy", "stamp"}, Sound(d)', Done(d)'
    PROVE  Inv'
<1>0. TypeOK /\ Looks(d) /\ Replace(content)
  BY Facts DEF Wrote
<1>1. /\ task' \in [Devices -> Task] /\ task'[d] = x
      /\ \A e \in Devices : e # d => Disturbed(e)
  BY <1>0, WroteTasks
<1>2. /\ remote' \in Files /\ row' \in [Devices -> Row]
      /\ row'[d].path = row[d].path /\ row'[d].stat = Aged(row[d].stat)
      /\ row'[d].adopted = row[d].adopted
  BY <1>0, ReplaceRow
<1>3. row[d] = NoRow => row'[d] = NoRow
  BY <1>0, ReplaceRow
<1>4. TypeOK'
  BY <1>0, <1>1, <1>2 DEF TypeOK
<1>5. ASSUME NEW e \in Devices, e # d
      PROVE  Good(e)' /\ ~task'[e].old
  BY <1>0, <1>1, <1>5, ReplaceSpares
<1>6. Looks(d)'
  BY <1>0, <1>1, <1>2, <1>3 DEF Looks, Aged
<1>7. NoOld'
  BY <1>1, <1>5 DEF NoOld
<1> QED
  BY <1>4, <1>5, <1>6, <1>7 DEF Inv, Good

LEMMA OpenedTask ==
    ASSUME NEW t \in Task
    PROVE  LET x == [t EXCEPT !.pc = "writing", !.old = FALSE, !.mine = TRUE]
           IN  /\ x \in Task /\ x.pc = "writing" /\ ~x.old /\ x.op = t.op /\ x.src = t.src
               /\ x.content = t.content /\ x.edited = t.edited
  BY DEF Task, Stages

LEMMA OpenRemoteStep ==
    ASSUME Inv, NEW d \in Devices, OpenRemote(d)
    PROVE  Inv'
<1> DEFINE x == [task[d] EXCEPT !.pc = "writing", !.old = FALSE, !.mine = TRUE]
<1>0. /\ TypeOK /\ Sound(d) /\ Done(d) /\ task[d] \in Task
      /\ task[d].pc = "upload" /\ "torn" \in Files
      /\ UNCHANGED <<setup, given, cache, pending, outside, failures>>
  BY Facts DEF TypeFactsAt, OpenRemote, disk, bounds, Files, Contents
<1>1. Wrote(d, "torn", x)
  BY DEF OpenRemote
<1>2. /\ x \in Task /\ x.pc = "writing" /\ ~x.old /\ x.op = task[d].op /\ x.src = task[d].src
      /\ x.content = task[d].content /\ x.edited = task[d].edited
  BY <1>0, OpenedTask
<1> HIDE DEF x
<1>3. task'[d] = x
  BY <1>0, <1>1, <1>2, WroteTasks
<1>4. row'[d].adopted = row[d].adopted
  BY <1>0, <1>1, ReplaceRow DEF Wrote
<1>5. SourceFits(d)' = SourceFits(d)
  BY <1>0, <1>2, <1>3 DEF SourceFits, SourceNow, FileAt
<1>6. Sound(d)'
  BY <1>0, <1>2, <1>3, <1>4, <1>5 DEF Sound, Copies
<1>7. Done(d)'
  BY <1>0, <1>2, <1>3 DEF Done
<1> QED
  BY <1>0, <1>1, <1>2, <1>6, <1>7, WriteStep

LEMMA WritePartStep ==
    ASSUME Inv, NEW d \in Devices, WritePart(d)
    PROVE  Inv'
<1>0. /\ TypeOK /\ NoOld /\ Sound(d) /\ Done(d) /\ task[d] \in Task
      /\ task[d].pc = "writing" /\ "torn" \in Files /\ Wrote(d, "torn", task[d])
      /\ UNCHANGED <<setup, given, cache, pending, outside, failures>>
  BY Facts DEF TypeFactsAt, WritePart, disk, bounds, Files, Contents
<1>1. task'[d] = task[d]
  BY <1>0, WroteTasks
<1>2. row'[d].adopted = row[d].adopted
  BY <1>0, ReplaceRow DEF Wrote
<1>3. SourceFits(d)' = SourceFits(d)
  BY <1>0, <1>1 DEF SourceFits, SourceNow, FileAt
<1>4. Sound(d)' /\ Done(d)'
  BY <1>0, <1>1, <1>2, <1>3 DEF Sound, Done
<1>5. ~task[d].old
  BY <1>0 DEF NoOld
<1> QED
  BY <1>0, <1>4, <1>5, WriteStep

\* The last byte of the object has been written.
LEMMA WrittenStep ==
    ASSUME Inv, NEW d \in Devices, NEW content \in Files, NEW mine \in BOOLEAN,
           Wrote(d, content, Transferred(task[d], mine)),
           task[d].pc \in {"upload", "writing"},
           mine /\ task[d].op = "local" => content = "good",
           UNCHANGED <<setup, disk, pending, bounds>>
    PROVE  Inv'
<1> DEFINE x == Transferred(task[d], mine)
<1>0. /\ TypeOK /\ task[d] \in Task
      /\ UNCHANGED <<setup, given, cache, pending, outside, failures>>
  BY Facts DEF TypeFactsAt, disk, bounds
<1>1. x \in Task /\ x.pc = AfterTransfer(task[d].src) /\ ~x.old
  BY <1>0, TransferredType
<1>2. Wrote(d, content, x) /\ Transferred(task[d], mine) = x
  OBVIOUS
<1> HIDE DEF x
<1>3. x.pc \in {"copy", "stamp"}
  BY <1>1 DEF AfterTransfer
<1>4. task'[d] = x
  BY <1>0, <1>1, <1>2, WroteTasks
<1>5. remote' = content /\ row'[d].adopted = row[d].adopted
  BY <1>0, <1>2, ReplaceRow DEF Wrote
<1>6. Sound(d)' /\ Done(d)'
  BY <1>0, <1>2, <1>4, <1>5, AfterSound
<1> QED
  BY <1>0, <1>1, <1>2, <1>3, <1>6, WriteStep

LEMMA FinishUploadStep ==
    ASSUME Inv, NEW d \in Devices, FinishUpload(d)
    PROVE  Inv'
<1> DEFINE m == ~Mixed(d)
<1> DEFINE x == Transferred(task[d], m)
<1>0. /\ task[d].content \in Files /\ "torn" \in Files /\ Done(d) /\ cache \in [Devices -> Files]
      /\ task[d].pc = "writing" /\ UNCHANGED <<setup, disk, pending, bounds>>
  BY Facts DEF FinishUpload, TypeFactsAt, Files, Contents
<1>1. m \in BOOLEAN
  BY DEF Mixed
<1>2. \/ Wrote(d, task[d].content, x)
      \/ ~m /\ Wrote(d, "torn", x)
      \/ ~m /\ task' = [task EXCEPT ![d] = x] /\ UNCHANGED <<remote, row>>
  BY DEF FinishUpload
<1> HIDE DEF m
<1>3. CASE Wrote(d, task[d].content, x)
  <2>1. task[d].op = "local" => task[d].content = "good"
    BY <1>0 DEF Done
  <2> QED
    BY <1>0, <1>1, <1>3, <2>1, WrittenStep
<1>4. CASE ~m /\ Wrote(d, "torn", x)
  BY <1>0, <1>1, <1>4, WrittenStep
<1>5. CASE ~m /\ task' = [task EXCEPT ![d] = x] /\ UNCHANGED <<remote, row>>
  BY <1>0, <1>1, <1>5, TransferStep DEF disk, bounds
<1> QED
  BY <1>2, <1>3, <1>4, <1>5

LEMMA UploadStep ==
    ASSUME Inv, NEW d \in Devices, Upload(d)
    PROVE  Inv'
<1>0. /\ Done(d) /\ TRUE \in BOOLEAN /\ task[d].content \in Files /\ task[d].pc = "upload"
      /\ Wrote(d, task[d].content, Transferred(task[d], TRUE))
      /\ UNCHANGED <<setup, disk, pending, bounds>>
  BY Facts DEF Upload, TypeFactsAt
<1>1. task[d].op = "local" => task[d].content = "good"
  BY <1>0 DEF Done
<1> QED
  BY <1>0, <1>1, WrittenStep

-----------------------------------------------------------------------------
(* resolve_blob_conflict, and the end of an operation *)

LEMMA FindStep ==
    ASSUME Inv, NEW d \in Devices, Find(d)
    PROVE  Inv'
<1> DEFINE stage == IF remote = "missing" THEN "clear" ELSE "adopt"
<1>0. /\ TypeOK /\ NoOld /\ Sound(d) /\ Done(d) /\ Looks(d) /\ Goto(d, stage)
      /\ task[d].pc = "find"
      /\ UNCHANGED <<setup, remote, cache, given, row, pending, failures, outside>>
  BY Facts DEF Find, disk, bounds
<1>b. stage \in Stages /\ stage \in {"clear", "adopt"}
  BY DEF Stages
<1> HIDE DEF stage
<1>1. /\ task' \in [Devices -> Task] /\ Others(d)
      /\ task'[d].pc = stage /\ task'[d].op = task[d].op /\ task'[d].src = task[d].src
      /\ task'[d].old = task[d].old /\ task'[d].mine = task[d].mine
  BY <1>0, <1>b, GotoTask
<1>2. TypeOK'
  BY <1>0, <1>1 DEF TypeOK
<1>3. task[d].op = "remote" /\ ~task[d].mine /\ task[d].src = "cache"
  BY <1>0 DEF Sound, Done
<1>4. Sound(d)'
  BY <1>b, <1>1, <1>3 DEF Sound, Copies
<1>5. Done(d)'
  BY <1>b, <1>1, <1>3 DEF Done
<1>6. Looks(d)'
  BY <1>0, <1>b, <1>1 DEF Looks
<1>7. task'[d].pc \notin {"upload", "writing"} /\ (remote = "missing" => ~task'[d].old)
  BY <1>0, <1>b, <1>1 DEF NoOld
<1> QED
  BY <1>0, <1>1, <1>2, <1>4, <1>5, <1>6, <1>7, LocalStep DEF Good

LEMMA AdoptedRow ==
    ASSUME NEW r \in Row, NEW a \in BOOLEAN
    PROVE  /\ [r EXCEPT !.adopted = a] \in Row
           /\ [r EXCEPT !.adopted = a].path = r.path /\ [r EXCEPT !.adopted = a].stat = r.stat
           /\ a => [r EXCEPT !.adopted = a].adopted
  BY DEF Row

LEMMA FlagStep ==
    ASSUME Inv, NEW d \in Devices, Flag(d)
    PROVE  Inv'
<1> DEFINE a == task[d].op = "remote"
<1> DEFINE r == [row[d] EXCEPT !.adopted = a]
<1>0. /\ TypeOK /\ NoOld /\ Done(d) /\ Looks(d) /\ Goto(d, "clear") /\ "clear" \in Stages
      /\ task[d].pc = "flag" /\ row[d] \in Row /\ row \in [Devices -> Row]
      /\ UNCHANGED <<setup, remote, cache, given, pending, failures, outside>>
  BY Facts DEF Flag, disk, bounds, TypeFactsAt, Stages
<1>a. row' = [row EXCEPT ![d] = r]
  BY DEF Flag
<1>b. a \in BOOLEAN /\ (task[d].op = "remote" => a)
  OBVIOUS
<1> HIDE DEF a
<1>1. /\ task' \in [Devices -> Task] /\ Others(d)
      /\ task'[d].pc = "clear" /\ task'[d].op = task[d].op
      /\ task'[d].old = task[d].old /\ task'[d].mine = task[d].mine
      /\ task'[d].edited = task[d].edited
  BY <1>0, GotoTask
<1>2. r \in Row /\ r.path = row[d].path /\ r.stat = row[d].stat /\ (a => r.adopted)
  BY <1>0, <1>b, AdoptedRow
<1> HIDE DEF r
<1>3. /\ row' \in [Devices -> Row] /\ row'[d] = r
      /\ \A e \in Devices : e # d => row'[e] = row[e]
  BY <1>0, <1>a, <1>2
<1>4. TypeOK'
  BY <1>0, <1>1, <1>3 DEF TypeOK
<1>5. Sound(d)'
  BY <1>1 DEF Sound, Copies
<1>6. Done(d)'
  BY <1>0, <1>b, <1>1, <1>2, <1>3 DEF Done
<1>7. Looks(d)'
  BY <1>0, <1>1, <1>2, <1>3 DEF Looks
<1>8. task'[d].pc # "upload" /\ (remote = "missing" => ~task'[d].old)
  BY <1>0, <1>1 DEF NoOld
<1> QED
  BY <1>0, <1>1, <1>3, <1>4, <1>5, <1>6, <1>7, <1>8, LocalStep DEF Good

LEMMA ClearStep ==
    ASSUME Inv, NEW d \in Devices, Clear(d)
    PROVE  Inv'
<1>0. /\ pending \in [Devices -> BOOLEAN] /\ row \in [Devices -> Row] /\ cache \in [Devices -> Files]
      /\ failures \in 0..MaxFailures /\ outside \in 0..MaxOutside
  BY Facts
<1>1. /\ UNCHANGED <<setup, remote, cache, given, row, failures, outside>>
      /\ pending' = [pending EXCEPT ![d] = FALSE] /\ End(d)
  BY DEF Clear, disk, bounds
<1>2. pending' \in [Devices -> BOOLEAN]
  BY <1>0, <1>1
<1> QED
  BY <1>0, <1>1, <1>2, EndStep

LEMMA StampStep ==
    ASSUME Inv, NEW d \in Devices, Stamp(d)
    PROVE  Inv'
<1>0. /\ TypeOK /\ NoOld /\ Sound(d) /\ Done(d) /\ Looks(d)
      /\ row \in [Devices -> Row] /\ cache \in [Devices -> Files] /\ pending \in [Devices -> BOOLEAN]
      /\ failures \in 0..MaxFailures /\ outside \in 0..MaxOutside
      /\ task[d].pc = "stamp"
      /\ UNCHANGED <<setup, remote, cache, given, pending, failures, outside>>
  BY Facts DEF Stamp, disk, bounds
<1>1. CASE remote = "missing"
  BY <1>0, <1>1, StopStep DEF Stamp
<1>2. CASE remote # "missing"
  <2>1. /\ row' \in [Devices -> Row]
        /\ \A e \in Devices : e # d => row'[e] = row[e]
        /\ row'[d].path = "cache" /\ row'[d].adopted = row[d].adopted
    <3>1. /\ Stat \in Stats /\ "cache" \in {"cache", "given"}
          /\ (~task[d].mine \/ task[d].edited) \in BOOLEAN
      BY <1>0, <1>2, StatType
    <3>2. Upsert(d, "cache", Stat, ~task[d].mine \/ task[d].edited)
      BY <1>2 DEF Stamp
    <3> QED
      BY <1>0, <3>1, <3>2, UpsertRow
  <2>2. CASE End(d)
    BY <1>0, <2>1, <2>2, EndStep
  <2>3. CASE task[d].op # "sync" /\ Goto(d, "flag")
    <3>1. /\ task' \in [Devices -> Task] /\ Others(d)
          /\ task'[d].pc = "flag" /\ task'[d].op = task[d].op
          /\ task'[d].old = task[d].old /\ task'[d].mine = task[d].mine
          /\ task'[d].edited = task[d].edited
      BY <1>0, <2>3, GotoTask DEF Stages
    <3>2. TypeOK'
      BY <1>0, <2>1, <3>1 DEF TypeOK
    <3>3. Sound(d)'
      BY <3>1 DEF Sound, Copies
    <3>4. Done(d)'
      BY <1>0, <2>3, <3>1 DEF Done
    <3>5. Looks(d)'
      BY <2>1, <3>1 DEF Looks
    <3>6. task'[d].pc # "upload" /\ (remote = "missing" => ~task'[d].old)
      BY <1>0, <3>1 DEF NoOld
    <3> QED
      BY <1>0, <2>1, <3>1, <3>2, <3>3, <3>4, <3>5, <3>6, LocalStep DEF Good
  <2> QED
    BY <1>2, <2>2, <2>3 DEF Stamp
<1> QED
  BY <1>1, <1>2

LEMMA FailStep ==
    ASSUME Inv, NEW d \in Devices, Fail(d)
    PROVE  Inv'
<1>1. failures' \in 0..MaxFailures
  BY Facts, BoundAssumption DEF Fail
<1> QED
  BY <1>1, StopStep DEF Fail, disk

LEMMA StutterStep == ASSUME Inv, UNCHANGED vars PROVE Inv'
<1>0. UNCHANGED <<setup, remote, cache, given, row, pending, task, failures, outside>>
  BY DEF vars, disk, bounds
<1>1. TypeOK' /\ NoOld'
  BY <1>0 DEF Inv, TypeOK, NoOld
<1>2. ASSUME NEW e \in Devices
      PROVE  Good(e)'
  <2>1. Spared(e)
    BY <1>0 DEF Spared
  <2> QED
    BY <1>0, <2>1, SparedGood
<1> QED
  BY <1>1, <1>2 DEF Inv

LEMMA OneStep == ASSUME Inv, NEW d \in Devices, Step(d) PROVE Inv'
<1>1. "compare" \in Stages /\ "fetch" \in Stages
  BY DEF Stages
<1> QED
  BY <1>1, StatUnchangedStep, StatChangedStep, AbsentStep, ExistsStep, CompareSameStep,
     ConflictStep, ErrorStep, OpenRemoteStep, FinishUploadStep, UploadStep, CopyStep, LookupStep,
     FetchSameStep, FindStep, AdoptStep, StampStep, FlagStep, ClearStep DEF Step

LEMMA NextInv == ASSUME Inv, [Next]_vars PROVE Inv'
<1>1. ASSUME NEW d \in Devices, PutLocalBook(d) PROVE Inv'
  BY <1>1, PutLocalBookStep
<1>2. ASSUME NEW d \in Devices, NEW mode \in Modes, Begin(d, mode) PROVE Inv'
  BY <1>2, BeginSourceStep, BeginPullStep DEF Begin
<1>3. ASSUME NEW d \in Devices, ResolveLocal(d) \/ ResolveRemote(d) PROVE Inv'
  BY <1>3, ResolveLocalStep, ResolveRemoteStep
<1>4. ASSUME NEW d \in Devices, Step(d) \/ WritePart(d) \/ Fail(d) PROVE Inv'
  BY <1>4, OneStep, WritePartStep, FailStep
<1>5. CASE Outside
  BY <1>5, TouchGivenStep, TouchRemoteStep DEF Outside
<1>6. CASE UNCHANGED vars
  BY <1>6, StutterStep
<1> QED
  BY <1>1, <1>2, <1>3, <1>4, <1>5, <1>6 DEF Next

LEMMA SpecInv == Spec => []Inv
  BY InitInv, NextInv, PTL DEF Spec

-----------------------------------------------------------------------------
(* The properties *)

\* Every variable keeps its type, in every step of every operation.
THEOREM BookTypes == Spec => []TypeOK
<1>1. Inv => TypeOK
  BY DEF Inv
<1> QED
  BY <1>1, SpecInv, PTL

\* sync_book decides to upload when it has found no object, so what it overwrites
\* was not there when the pass began.
THEOREM NothingClobbered == Spec => NoClobber
<1>1. Inv => \A d \in Devices :
          /\ task[d].op = "sync" /\ task[d].pc = "upload"
          /\ task'[d].pc \in {"writing", "copy", "stamp"}
          /\ remote # "missing"
          => ~task[d].old
  BY DEF Inv, NoOld
<1> QED
  BY <1>1, SpecInv, PTL DEF NoClobber

Guarded(e) ==
    cache'[e] # cache[e] =>
        \/ cache'[e] = "good" \/ task[e].op = "remote" \/ row[e].adopted
        \/ task[e].edited /\ cache'[e] = given[e]

\* What gets into the cache of a device from its source.
LEMMA CopiesRight ==
    ASSUME Inv, NEW d \in Devices, CopySource(d), task[d].pc \in Copies, NEW e \in Devices
    PROVE  Guarded(e)
<1>1. /\ cache'[d] = SourceNow(d)
      /\ \A i \in Devices : i # d => cache'[i] = cache[i]
  BY CopySourceFile
<1>2. Sound(d)
  BY Facts
<1>3. task[d].op \in {"sync", "local"}
  BY <1>2 DEF Sound
<1>4. task[d].edited => cache'[d] = given[d]
  BY <1>1, <1>2 DEF Sound, SourceNow, FileAt
<1> QED
  BY <1>1, <1>2, <1>3, <1>4 DEF Sound, SourceFits, Guarded

LEMMA StepGuarded ==
    ASSUME Inv, NEW d \in Devices, Step(d), NEW e \in Devices
    PROVE  Guarded(e)
<1>1. CASE StatUnchanged(d) \/ Copy(d)
  <2>1. CopySource(d) /\ task[d].pc \in Copies
    BY <1>1 DEF StatUnchanged, Copy, Copies
  <2> QED
    BY <2>1, CopiesRight
<1>2. CASE FetchSame(d) \/ Adopt(d)
  <2>1. /\ \A i \in Devices : i # d => cache'[i] = cache[i]
        /\ cache'[d] = "good" \/ task[d].op = "remote"
    BY <1>2, Facts DEF FetchSame, Adopt, Sound
  <2> QED
    BY <2>1 DEF Guarded
<1>3. CASE StatChanged(d) \/ Absent(d) \/ Exists(d) \/ CompareSame(d) \/ Conflict(d, "compare")
           \/ Conflict(d, "fetch") \/ DownloadError(d) \/ SourceGone(d) \/ OpenRemote(d)
           \/ FinishUpload(d) \/ Upload(d) \/ Lookup(d) \/ Find(d) \/ Stamp(d) \/ Flag(d) \/ Clear(d)
  BY <1>3 DEF StatChanged, Absent, Exists, CompareSame, Conflict, DownloadError, SourceGone,
     OpenRemote, FinishUpload, Upload, Lookup, Find, Stamp, Flag, Clear, disk, Guarded
<1> QED
  BY <1>1, <1>2, <1>3 DEF Step

\* Nothing but a step of an operation writes the cache.
LEMMA OtherwiseUncached ==
    ASSUME [Next]_vars, ~(\E d \in Devices : Step(d))
    PROVE  cache' = cache
  BY DEF Next, PutLocalBook, Begin, BeginSource, BeginPull, ResolveLocal, ResolveRemote, WritePart,
     Fail, Outside, TouchGiven, TouchRemote, vars, disk

\* No pass moves content with another hash from the bucket into the cache of a
\* device that has not adopted it.  What it copies from the caller's file had the
\* right hash when check_book_hash read it; if it has another now the user has
\* touched the file since.
THEOREM CacheIsGuarded == Spec => CacheGuarded
<1>1. Inv /\ [Next]_vars => \A e \in Devices : Guarded(e)
  BY StepGuarded, OtherwiseUncached DEF Guarded
<1>2. Inv /\ [Next]_vars => [\A d \in Devices :
          cache'[d] # cache[d] =>
              \/ cache'[d] = "good" \/ task[d].op = "remote" \/ row[d].adopted
              \/ task[d].edited /\ cache'[d] = given[d]]_vars
  BY <1>1 DEF Guarded
<1> QED
  BY <1>2, SpecInv, PTL DEF Spec, CacheGuarded

-----------------------------------------------------------------------------
(* Conflicts *)

\* Only these two steps touch conflict_log.
LEMMA PendingSteps ==
    ASSUME Inv, [Next]_vars, NEW e \in Devices, pending'[e] # pending[e]
    PROVE  \/ Clear(e) /\ ~pending'[e]
           \/ Conflict(e, "compare") /\ pending'[e]
           \/ Conflict(e, "fetch") /\ pending'[e]
<1>0. pending \in [Devices -> BOOLEAN]
  BY Facts
<1>1. ASSUME NEW d \in Devices, Clear(d) PROVE d = e /\ ~pending'[e]
  BY <1>0, <1>1 DEF Clear
<1>2. ASSUME NEW d \in Devices, NEW stage, Conflict(d, stage) PROVE d = e /\ pending'[e]
  BY <1>0, <1>2 DEF Conflict
<1>3. ASSUME NEW d \in Devices, Step(d)
      PROVE  Clear(d) \/ Conflict(d, "compare") \/ Conflict(d, "fetch")
  BY <1>3 DEF Step, StatUnchanged, StatChanged, Absent, Exists, CompareSame, DownloadError,
     SourceGone, OpenRemote, FinishUpload, Upload, Copy, Lookup, FetchSame, Find, Adopt, Stamp, Flag
<1>4. \E d \in Devices : Step(d)
  BY DEF Next, PutLocalBook, Begin, BeginSource, BeginPull, ResolveLocal, ResolveRemote, WritePart,
     Fail, Outside, TouchGiven, TouchRemote, vars
<1> QED
  BY <1>1, <1>2, <1>3, <1>4

\* resolve_blob_conflict closes the conflict as its last step, after the upload,
\* the copy, and the stat, or after the download and the mark.  An upload in which
\* nobody has interfered has put the right content there, whichever other writer
\* of the file has died or gone on meanwhile.
THEOREM ResolvedMeansDone == Spec => ResolvedIsDone
<1> DEFINE Closed(d) ==
        \/ /\ task[d].op = "local"
           /\ cache[d] = "good" \/ task[d].edited
           /\ remote = "good" \/ ~task[d].mine
        \/ task[d].op = "remote" /\ (row[d].adopted \/ ~task[d].mine)
<1>1. ASSUME Inv, [Next]_vars, NEW d \in Devices, pending[d], ~pending'[d]
      PROVE  Closed(d)
  <2>1. Clear(d)
    BY <1>1, PendingSteps
  <2>2. task[d].pc = "clear" /\ Done(d) /\ task[d] \in Task
    BY <1>1, <2>1, Facts DEF Clear, TypeFactsAt
  <2>3. task[d].op \in {"local", "remote"}
    BY <2>2 DEF Done, Task
  <2> QED
    BY <2>2, <2>3 DEF Done
<1>2. Inv /\ [Next]_vars => [\A d \in Devices : pending[d] /\ ~pending'[d] => Closed(d)]_vars
  BY <1>1
<1> QED
  BY <1>2, SpecInv, PTL DEF Spec, ResolvedIsDone

\* An app that does not use pull_only: when a device has adopted the object and
\* knows its version, no pass records a conflict about it again.
THEOREM ResolutionIsKept == "pull" \notin Modes => (Spec => ResolutionSticks)
<1> SUFFICES ASSUME "pull" \notin Modes PROVE Spec => ResolutionSticks
  OBVIOUS
<1> DEFINE Known(d) == task[d].old /\ row[d].adopted /\ Matches(row[d].stat) /\ cache[d] = remote
<1>1. ASSUME Inv, [Next]_vars, NEW d \in Devices, ~pending[d], pending'[d]
      PROVE  ~Known(d)
  <2>1. Conflict(d, "compare") \/ Conflict(d, "fetch")
    BY <1>1, PendingSteps
  <2>2. task[d].pc \in {"compare", "fetch"} /\ remote # "missing" /\ Looks(d)
    BY <1>1, <2>1, Facts DEF Conflict, Readable
  <2> QED
    BY <2>2 DEF Looks
<1>2. Inv /\ [Next]_vars => [\A d \in Devices : ~pending[d] /\ pending'[d] => ~Known(d)]_vars
  BY <1>1
<1> QED
  BY <1>2, SpecInv, PTL DEF Spec, ResolutionSticks

-----------------------------------------------------------------------------
(* The index, in buckets that have times or nothing: a row that is not blind *)
(* and has the time of the object was written for this very object.          *)

NoEtags == \A s \in Setups : s.backend # "etag"

Right(stat) == stat = "current" => remote = "good"

\* The row of a device that has the right file and has adopted no other.
Vouches(d) ==
    row[d].path = "cache" /\ cache[d] = "good" /\ ~row[d].adopted /\ ~row[d].blind =>
        Right(row[d].stat)

\* What an operation has read of its row, and the file it may copy.
Reads(d) ==
    /\ task[d].pc = "stat" /\ SourceFits(d) /\ ~row[d].adopted /\ ~task[d].blind =>
           Right(task[d].stat)
    /\ task[d].pc = "stat" /\ task[d].src = "given" => task[d].stat = "none"
    /\ task[d].pc \in Copies /\ task[d].src = "given" => row[d].path = "given"

\* What an operation has transferred, as long as it is there.
Moved(d) ==
    /\ task[d].pc \in {"upload", "writing"} /\ task[d].op = "sync" /\ ~task[d].edited =>
           task[d].content = "good" \/ row[d].adopted
    /\ task[d].pc = "copy" /\ task[d].mine /\ ~task[d].edited =>
           remote = "good" \/ row[d].adopted
    /\ task[d].pc = "stamp" /\ task[d].mine /\ ~task[d].edited =>
           remote = "good" \/ cache[d] = remote \/ row[d].adopted
    /\ task[d].pc = "flag" /\ task[d].op = "local" /\ row[d].path = "cache" /\ ~row[d].blind =>
           Right(row[d].stat)

Index(d) == Vouches(d) /\ Reads(d) /\ Moved(d)

IndexInv == \A d \in Devices : Index(d)

\* A step that leaves object and device alone.
LEMMA IndexKept ==
    ASSUME NEW d \in Devices, Index(d), remote' = remote, row'[d] = row[d], cache'[d] = cache[d],
           given'[d] = given[d], task'[d] = task[d]
    PROVE  Index(d)'
<1>1. SourceFits(d)' = SourceFits(d)
  BY DEF SourceFits, SourceNow, FileAt
<1>2. Vouches(d)'
  BY DEF Index, Vouches, Right
<1>3. Reads(d)'
  BY <1>1 DEF Index, Reads, Right
<1>4. Moved(d)'
  BY DEF Index, Moved, Right
<1> QED
  BY <1>2, <1>3, <1>4 DEF Index

\* Once the object is replaced no row and no operation knows its time.
LEMMA IndexAged ==
    ASSUME Inv, NEW d \in Devices, Index(d), NEW content \in Files, Replace(content),
           cache'[d] = cache[d], given'[d] = given[d], Disturbed(d)
    PROVE  Index(d)'
<1>1. /\ row'[d].path = row[d].path /\ row'[d].stat = Aged(row[d].stat)
      /\ row'[d].adopted = row[d].adopted
  BY ReplaceRow, Facts
<1>2. \A stat : Right(Aged(stat))'
  BY DEF Right, Aged
<1>3. Vouches(d)'
  BY <1>1, <1>2 DEF Vouches
<1>4. CASE task'[d] = AgedTask(task[d])
  <2>1. /\ task'[d].pc = task[d].pc /\ task'[d].op = task[d].op /\ task'[d].src = task[d].src
        /\ task'[d].content = task[d].content /\ task'[d].stat = Aged(task[d].stat)
        /\ ~task'[d].mine /\ task'[d].edited = task[d].edited
    <3>1. task[d] \in Task
      BY Facts DEF TypeFactsAt
    <3>2. AgedTask(task[d]).stat = Aged(task[d].stat)
      BY <3>1 DEF AgedTask, Task
    <3> QED
      BY <1>4, <3>1, <3>2, AgedTaskType
  <2>2. Reads(d)'
    BY <1>1, <1>2, <2>1 DEF Index, Reads, Aged
  <2>3. Moved(d)'
    BY <1>1, <1>2, <2>1 DEF Index, Moved
  <2> QED
    BY <1>3, <2>2, <2>3 DEF Index
<1>5. CASE task'[d] = task[d] /\ task[d].pc = "writing"
  BY <1>1, <1>3, <1>5 DEF Index, Reads, Moved
<1> QED
  BY <1>4, <1>5 DEF Disturbed

LEMMA LocalIndex ==
    ASSUME IndexInv, NEW d \in Devices, remote' = remote, Others(d),
           \A e \in Devices : e # d =>
               row'[e] = row[e] /\ cache'[e] = cache[e] /\ given'[e] = given[e],
           Index(d)'
    PROVE  IndexInv'
<1>1. ASSUME NEW e \in Devices, e # d PROVE Index(e)'
  BY <1>1, IndexKept DEF IndexInv, Others
<1> QED
  BY <1>1 DEF IndexInv

LEMMA WriteIndex ==
    ASSUME Inv, IndexInv, NEW d \in Devices, NEW content \in Files, NEW x \in Task,
           Wrote(d, content, x), UNCHANGED <<cache, given>>, Reads(d)', Moved(d)'
    PROVE  IndexInv'
<1>0. TypeOK /\ Replace(content)
  BY Facts DEF Wrote
<1>1. \A e \in Devices : e # d => Disturbed(e)
  BY <1>0, WroteTasks
<1>2. ASSUME NEW e \in Devices, e # d PROVE Index(e)'
  BY <1>0, <1>1, <1>2, IndexAged DEF IndexInv
<1>3. row'[d].stat = Aged(row[d].stat)
  BY <1>0, ReplaceRow
<1>4. Vouches(d)'
  BY <1>3 DEF Vouches, Right, Aged
<1> QED
  BY <1>2, <1>4 DEF IndexInv, Index

\* The operation of d goes on, or has ended, at a stage that relies on nothing.
LEMMA QuietIndex ==
    ASSUME NEW d \in Devices, Vouches(d), remote' = remote, row'[d] = row[d],
           cache'[d] = cache[d], task'[d].pc \in {"idle", "lookup", "fetch", "find", "adopt", "clear"}
    PROVE  Index(d)'
<1>1. Vouches(d)'
  BY DEF Vouches, Right
<1>2. Reads(d)' /\ Moved(d)'
  BY DEF Reads, Moved, Copies
<1> QED
  BY <1>1, <1>2 DEF Index

LEMMA EndIndex ==
    ASSUME Inv, IndexInv, NEW d \in Devices, End(d), UNCHANGED <<remote, cache, given, row>>
    PROVE  IndexInv'
<1>1. Others(d) /\ task'[d].pc = "idle"
  BY EndTask, Facts
<1>2. Index(d)'
  BY <1>1, QuietIndex DEF IndexInv, Index
<1> QED
  BY <1>1, <1>2, LocalIndex

LEMMA PutLocalBookIndex ==
    ASSUME Inv, IndexInv, NEW d \in Devices, PutLocalBook(d)
    PROVE  IndexInv'
<1>0. /\ TypeOK /\ given \in [Devices -> Files] /\ given' = [given EXCEPT ![d] = "good"]
      /\ UNCHANGED <<remote, cache, task>> /\ Index(d)
  BY Facts DEF PutLocalBook, IndexInv
<1>1. "given" \in {"cache", "given"} /\ "none" \in Stats /\ FALSE \in BOOLEAN
  BY DEF Stats
<1>2. /\ \A e \in Devices : e # d => row'[e] = row[e]
      /\ row'[d].path = "given" /\ row'[d].adopted = row[d].adopted
  BY <1>0, <1>1, UpsertRow DEF PutLocalBook
<1>3. task[d].src # "given" => SourceFits(d)' = SourceFits(d)
  BY <1>0 DEF SourceFits, SourceNow, FileAt
<1>4. Vouches(d)' /\ Moved(d)'
  BY <1>0, <1>2 DEF Index, Vouches, Moved
<1>5. Reads(d)'
  BY <1>0, <1>2, <1>3 DEF Index, Reads, Right
<1> QED
  BY <1>0, <1>2, <1>4, <1>5, LocalIndex DEF Index, Others

LEMMA TouchGivenIndex ==
    ASSUME Inv, IndexInv, NEW d \in Devices, NEW content, TouchGiven(d, content)
    PROVE  IndexInv'
<1>1. /\ UNCHANGED <<remote, cache, row>> /\ Index(d)
      /\ given' = [given EXCEPT ![d] = content] /\ given \in [Devices -> Files]
  BY Facts DEF TouchGiven, IndexInv
<1>2. /\ Others(d)
      /\ task'[d].pc = task[d].pc /\ task'[d].op = task[d].op /\ task'[d].src = task[d].src
      /\ task'[d].stat = task[d].stat /\ task'[d].blind = task[d].blind
      /\ task'[d].content = task[d].content /\ task'[d].mine = task[d].mine
      /\ task'[d].edited = (task[d].edited \/ task[d].src = "given")
  BY EditedTask
<1>3. task[d].src # "given" => SourceFits(d)' = SourceFits(d)
  BY <1>1, <1>2 DEF SourceFits, SourceNow, FileAt
<1>4. Vouches(d)'
  BY <1>1 DEF Index, Vouches, Right
<1>5. Reads(d)'
  BY <1>1, <1>2, <1>3 DEF Index, Reads, Right
<1>6. Moved(d)'
  BY <1>1, <1>2 DEF Index, Moved, Right
<1> QED
  BY <1>1, <1>2, <1>4, <1>5, <1>6, LocalIndex DEF Index

LEMMA TouchRemoteIndex ==
    ASSUME Inv, IndexInv, NEW content \in {"foreign", "missing"}, TouchRemote(content)
    PROVE  IndexInv'
<1>1. ASSUME NEW e \in Devices PROVE Index(e)'
  BY IndexAged DEF TouchRemote, disk, IndexInv, Files, Contents, Disturbed
<1> QED
  BY <1>1 DEF IndexInv

LEMMA BeginSourceIndex ==
    ASSUME Inv, IndexInv, NEW d \in Devices, NEW mode \in Modes, BeginSource(d, mode)
    PROVE  IndexInv'
<1> DEFINE stage == IF row[d] = NoRow THEN "exists" ELSE "stat"
<1> DEFINE x == [Started(d, "sync", stage) EXCEPT !.stat = row[d].stat, !.blind = row[d].blind]
<1>0. /\ TypeOK /\ Looks(d) /\ TypeFactsAt(d) /\ Index(d)
      /\ task' = [task EXCEPT ![d] = x]
      /\ UNCHANGED <<remote, cache, given, row>>
  BY Facts DEF BeginSource, disk, IndexInv
<1>1. stage \in Stages /\ stage \in {"exists", "stat"} /\ (stage = "stat" => row[d] # NoRow)
  BY DEF Stages
<1> HIDE DEF stage
<1>2. /\ Started(d, "sync", stage) \in Task
      /\ Started(d, "sync", stage).pc = stage /\ Started(d, "sync", stage).op = "sync"
      /\ Started(d, "sync", stage).src = Source(d)
  BY <1>1, SourceType, StartedTask
<1>3. /\ x \in Task /\ x.pc = stage /\ x.op = "sync" /\ x.src = Source(d)
      /\ x.stat = row[d].stat /\ x.blind = row[d].blind
  BY <1>0, <1>2 DEF Task, TypeFactsAt
<1> HIDE DEF x
<1>4. Others(d) /\ task'[d] = x
  BY <1>0, <1>3, TaskSet
<1>5. Vouches(d)' /\ Moved(d)'
  BY <1>0, <1>1, <1>3, <1>4 DEF Index, Vouches, Moved, Right
<1>6. Reads(d)'
  <2>1. stage = "stat" => row[d].path = Source(d)
    BY <1>0, <1>1 DEF Source
  <2>2. Source(d) \in {"cache", "given"} /\ (Source(d) = "given" => row[d].stat = "none")
    BY SourceType
  <2>3. Source(d) = "given" => row[d].path = "given"
    BY DEF Source
  <2>4. SourceNow(d)' = FileAt(d, Source(d))
    BY <1>0, <1>3, <1>4 DEF SourceNow, FileAt
  <2>5. stage = "stat" /\ FileAt(d, Source(d)) = "good" /\ ~row[d].adopted /\ ~row[d].blind =>
            Right(row[d].stat)
    BY <1>0, <2>1, <2>2 DEF Index, Vouches, FileAt, Right
  <2> QED
    BY <1>0, <1>3, <1>4, <2>2, <2>3, <2>4, <2>5 DEF Reads, Right, SourceFits
<1> QED
  BY <1>0, <1>4, <1>5, <1>6, LocalIndex DEF Index

LEMMA BeginPullIndex ==
    ASSUME Inv, IndexInv, NEW d \in Devices, NEW mode \in Modes, BeginPull(d, mode)
    PROVE  IndexInv'
<1> DEFINE x == [Started(d, "sync", "lookup") EXCEPT !.src = "cache"]
<1>0. TypeOK /\ Vouches(d) /\ task' = [task EXCEPT ![d] = x] /\ UNCHANGED <<remote, cache, given, row>>
  BY Facts DEF BeginPull, disk, IndexInv, Index
<1>1. /\ Started(d, "sync", "lookup") \in Task /\ Started(d, "sync", "lookup").pc = "lookup"
  BY SourceType, StartedTask DEF Stages
<1>2. x \in Task /\ x.pc = "lookup"
  BY <1>1 DEF Task
<1> HIDE DEF x
<1>3. Others(d) /\ task'[d].pc = "lookup"
  BY <1>0, <1>2, TaskSet
<1> QED
  BY <1>0, <1>3, QuietIndex, LocalIndex

LEMMA ResolveLocalIndex ==
    ASSUME Inv, IndexInv, NEW d \in Devices, ResolveLocal(d)
    PROVE  IndexInv'
<1>0. Index(d) /\ UNCHANGED <<remote, cache, given, row>>
  BY DEF ResolveLocal, disk, IndexInv
<1>1. /\ Others(d)
      /\ task'[d].pc = "upload" /\ task'[d].op = "local" /\ task'[d].src = Source(d)
  BY ResolveLocalTask
<1>2. Source(d) = "given" => row[d].path = "given"
  BY DEF Source
<1>3. Vouches(d)' /\ Reads(d)' /\ Moved(d)'
  BY <1>0, <1>1, <1>2 DEF Index, Vouches, Reads, Moved, Right
<1> QED
  BY <1>0, <1>1, <1>3, LocalIndex DEF Index

LEMMA ResolveRemoteIndex ==
    ASSUME Inv, IndexInv, NEW d \in Devices, ResolveRemote(d)
    PROVE  IndexInv'
<1> DEFINE x == [Idle EXCEPT !.pc = "find", !.op = "remote"]
<1>0. TypeOK /\ Vouches(d) /\ task' = [task EXCEPT ![d] = x] /\ UNCHANGED <<remote, cache, given, row>>
  BY Facts DEF ResolveRemote, disk, IndexInv, Index
<1>1. x \in Task /\ x.pc = "find"
  BY IdleType DEF Task, Stages
<1> HIDE DEF x
<1>2. Others(d) /\ task'[d].pc = "find"
  BY <1>0, <1>1, TaskSet
<1> QED
  BY <1>0, <1>2, QuietIndex, LocalIndex

\* A source that is copied into the cache leaves the row without a word for it,
\* or is the cached file itself.
LEMMA CopyVouches ==
    ASSUME Inv, NEW d \in Devices, Index(d), CopySource(d), task[d].pc \in Copies,
           remote' = remote, row'[d] = row[d]
    PROVE  Vouches(d)'
<1>1. cache'[d] = SourceNow(d) /\ task[d].src \in {"cache", "given"}
  BY CopySourceFile, Facts DEF TypeFactsAt
<1>2. CASE task[d].src = "given"
  BY <1>2 DEF Index, Reads, Vouches
<1>3. CASE task[d].src = "cache"
  BY <1>1, <1>3 DEF Index, Vouches, SourceNow, FileAt, Right
<1> QED
  BY <1>1, <1>2, <1>3

LEMMA StatUnchangedIndex ==
    ASSUME Inv, IndexInv, NEW d \in Devices, StatUnchanged(d)
    PROVE  IndexInv'
<1>0. /\ TypeOK /\ Index(d) /\ task[d].pc = "stat" /\ Matches(task[d].stat) /\ End(d) /\ CopySource(d)
      /\ Upsert(d, "cache", Stat, task[d].blind)
      /\ UNCHANGED <<setup, remote, given>> /\ task[d].blind \in BOOLEAN
  BY Facts DEF StatUnchanged, TypeFactsAt, Task, IndexInv
<1>1. Stat \in Stats /\ "cache" \in {"cache", "given"}
  BY <1>0, StatType DEF Matches
<1>2. /\ row'[d].stat = Stat /\ row'[d].blind = task[d].blind /\ row'[d].adopted = row[d].adopted
      /\ \A e \in Devices : e # d => row'[e] = row[e]
  BY <1>0, <1>1, UpsertRow
<1>3. Others(d) /\ task'[d].pc = "idle"
  BY <1>0, EndTask
<1>4. /\ cache'[d] = SourceNow(d)
      /\ \A e \in Devices : e # d => cache'[e] = cache[e]
  BY <1>0, CopySourceFile
<1>5. Vouches(d)'
  BY <1>0, <1>2, <1>4 DEF Index, Reads, Vouches, Right, Matches, SourceFits
<1>6. Reads(d)' /\ Moved(d)'
  BY <1>3 DEF Reads, Moved, Copies
<1> QED
  BY <1>0, <1>2, <1>3, <1>4, <1>5, <1>6, LocalIndex DEF Index

\* A pass goes on and has forgotten what it read of its row.
LEMMA OnIndex ==
    ASSUME Inv, IndexInv, NEW d \in Devices, task[d].pc \in {"stat", "exists"}, Others(d),
           task'[d].pc \in {"exists", "compare", "upload"}, task'[d].src = task[d].src,
           task'[d].pc = "upload" /\ ~task'[d].edited => task'[d].content = "good" \/ row[d].adopted,
           UNCHANGED <<remote, cache, given, row>>
    PROVE  IndexInv'
<1>0. Index(d)
  BY DEF IndexInv
<1>1. Vouches(d)' /\ Moved(d)'
  BY <1>0 DEF Index, Vouches, Moved, Right
<1>2. Reads(d)'
  BY <1>0 DEF Index, Reads, Copies
<1> QED
  BY <1>1, <1>2, LocalIndex DEF Index

LEMMA StatChangedIndex ==
    ASSUME Inv, IndexInv, NEW d \in Devices, StatChanged(d)
    PROVE  IndexInv'
<1>1. task[d].pc = "stat" /\ UNCHANGED <<remote, cache, given, row>>
  BY DEF StatChanged, disk
<1>2. Others(d) /\ task'[d].pc = "exists" /\ task'[d].src = task[d].src
  BY StatChangedTask
<1> QED
  BY <1>1, <1>2, OnIndex

LEMMA AbsentIndex ==
    ASSUME Inv, IndexInv, NEW d \in Devices, Absent(d)
    PROVE  IndexInv'
<1>1. task[d].pc \in {"stat", "exists"} /\ UNCHANGED <<remote, cache, given, row>> /\ Sound(d)
  BY Facts DEF Absent, disk
<1>2. /\ Others(d) /\ task'[d].pc = "upload" /\ task'[d].src = task[d].src
      /\ task'[d].content = SourceNow(d) /\ task'[d].edited = task[d].edited
  BY AbsentTask
<1>3. SourceFits(d) \/ row[d].adopted \/ task[d].edited
  BY <1>1 DEF Sound, Copies
<1>4. ~task'[d].edited => task'[d].content = "good" \/ row[d].adopted
  BY <1>2, <1>3 DEF SourceFits
<1> QED
  BY <1>1, <1>2, <1>4, OnIndex

LEMMA ExistsIndex ==
    ASSUME Inv, IndexInv, NEW d \in Devices, Exists(d)
    PROVE  IndexInv'
<1>0. /\ TypeOK /\ Goto(d, "compare") /\ "compare" \in Stages /\ task[d].pc = "exists"
      /\ UNCHANGED <<remote, cache, given, row>>
  BY Facts DEF Exists, disk, Stages
<1>1. Others(d) /\ task'[d].pc = "compare" /\ task'[d].src = task[d].src
  BY <1>0, GotoTask
<1> QED
  BY <1>0, <1>1, OnIndex

\* What an operation that has transferred the object relies on next.
LEMMA AfterIndex ==
    ASSUME Inv, NEW d \in Devices, NEW mine \in BOOLEAN, task'[d] = Transferred(task[d], mine),
           task[d].src = "given" => row'[d].path = "given",
           mine /\ ~task[d].edited =>
               \/ remote' = "good" \/ row'[d].adopted
               \/ task[d].src = "cache" /\ cache'[d] = remote'
    PROVE  Reads(d)' /\ Moved(d)'
<1> DEFINE x == Transferred(task[d], mine)
<1>0. task[d] \in Task
  BY Facts DEF TypeFactsAt
<1>1. /\ x.pc = AfterTransfer(task[d].src) /\ x.src = task[d].src
      /\ x.edited = task[d].edited /\ x.mine = mine
  BY <1>0, TransferredType
<1>2. task'[d] = x
  OBVIOUS
<1> HIDE DEF x
<1>3. Reads(d)'
  BY <1>1, <1>2 DEF Reads, AfterTransfer
<1>4. Moved(d)'
  BY <1>1, <1>2 DEF Moved, AfterTransfer
<1> QED
  BY <1>3, <1>4

\* A transfer has succeeded and the object is as it was: what the cache has got, or
\* will get, fits the object.
LEMMA TransferIndex ==
    ASSUME Inv, IndexInv, NEW d \in Devices, NEW mine \in BOOLEAN,
           UNCHANGED <<remote, given, row>>,
           task' = [task EXCEPT ![d] = Transferred(task[d], mine)],
           task[d].pc \in {"compare", "writing", "fetch", "adopt"},
           \A e \in Devices : e # d => cache'[e] = cache[e], Vouches(d)',
           mine => remote = "good" \/ (task[d].src = "cache" /\ cache'[d] = remote)
    PROVE  IndexInv'
<1>0. TypeOK /\ task[d] \in Task /\ Reads(d) /\ Sound(d)
  BY Facts DEF TypeFactsAt, IndexInv, Index
<1>1. Transferred(task[d], mine) \in Task
  BY <1>0, TransferredType
<1>2. Others(d) /\ task'[d] = Transferred(task[d], mine)
  BY <1>0, <1>1, TaskSet
<1>3. task[d].src = "given" => row'[d].path = "given"
  BY <1>0 DEF Reads, Sound, Copies
<1>4. Reads(d)' /\ Moved(d)'
  BY <1>2, <1>3, AfterIndex
<1> QED
  BY <1>2, <1>4, LocalIndex DEF Index

LEMMA CompareSameIndex ==
    ASSUME Inv, IndexInv, NEW d \in Devices, CompareSame(d)
    PROVE  IndexInv'
<1>1. /\ UNCHANGED <<remote, cache, given, row>> /\ remote = "good" /\ TRUE \in BOOLEAN
      /\ task' = [task EXCEPT ![d] = Transferred(task[d], TRUE)]
      /\ task[d].pc = "compare" /\ Vouches(d)
  BY DEF CompareSame, disk, IndexInv, Index
<1>2. Vouches(d)'
  BY <1>1 DEF Vouches, Right
<1> QED
  BY <1>1, <1>2, TransferIndex

LEMMA FetchIndex ==
    ASSUME Inv, IndexInv, NEW d \in Devices, FetchSame(d) \/ Adopt(d)
    PROVE  IndexInv'
<1>0. Sound(d) /\ TRUE \in BOOLEAN
  BY Facts
<1>1. /\ UNCHANGED <<remote, given, row>>
      /\ task' = [task EXCEPT ![d] = Transferred(task[d], TRUE)]
      /\ task[d].pc \in {"fetch", "adopt"} /\ task[d].src = "cache"
      /\ cache'[d] = remote /\ \A e \in Devices : e # d => cache'[e] = cache[e]
  BY <1>0, Facts DEF FetchSame, Adopt, Sound
<1>2. Vouches(d)'
  BY <1>1 DEF Vouches, Right
<1> QED
  BY <1>0, <1>1, <1>2, TransferIndex

LEMMA CopyIndex ==
    ASSUME Inv, IndexInv, NEW d \in Devices, Copy(d)
    PROVE  IndexInv'
<1>0. /\ TypeOK /\ Index(d) /\ CopySource(d) /\ task[d].pc = "copy" /\ task[d].pc \in Copies
      /\ UNCHANGED <<remote, given, row>>
  BY Facts DEF Copy, IndexInv, Copies
<1>1. /\ Others(d)
      /\ task'[d].pc = "stamp" /\ task'[d].op = task[d].op
      /\ task'[d].mine = task[d].mine /\ task'[d].edited = task[d].edited
  BY CopyTask
<1>2. \A e \in Devices : e # d => cache'[e] = cache[e]
  BY <1>0, CopySourceFile
<1>3. Vouches(d)'
  BY <1>0, CopyVouches
<1>4. Reads(d)' /\ Moved(d)'
  BY <1>0, <1>1 DEF Index, Reads, Moved, Copies
<1> QED
  BY <1>0, <1>1, <1>2, <1>3, <1>4, LocalIndex DEF Index

LEMMA OpenRemoteIndex ==
    ASSUME Inv, IndexInv, NEW d \in Devices, OpenRemote(d)
    PROVE  IndexInv'
<1> DEFINE x == [task[d] EXCEPT !.pc = "writing", !.old = FALSE, !.mine = TRUE]
<1>0. /\ TypeOK /\ Index(d) /\ task[d] \in Task /\ task[d].pc = "upload" /\ "torn" \in Files
      /\ UNCHANGED <<cache, given>>
  BY Facts DEF TypeFactsAt, OpenRemote, disk, Files, Contents, IndexInv
<1>1. Wrote(d, "torn", x)
  BY DEF OpenRemote
<1>2. /\ x \in Task /\ x.pc = "writing" /\ x.op = task[d].op /\ x.src = task[d].src
      /\ x.content = task[d].content /\ x.edited = task[d].edited
  BY <1>0, OpenedTask
<1> HIDE DEF x
<1>3. task'[d] = x
  BY <1>0, <1>1, <1>2, WroteTasks
<1>4. row'[d].path = row[d].path /\ row'[d].adopted = row[d].adopted
  BY <1>0, <1>1, ReplaceRow DEF Wrote
<1>5. Reads(d)'
  BY <1>0, <1>2, <1>3, <1>4 DEF Index, Reads, Copies
<1>6. Moved(d)'
  BY <1>0, <1>2, <1>3, <1>4 DEF Index, Moved
<1> QED
  BY <1>0, <1>1, <1>2, <1>5, <1>6, WriteIndex

LEMMA WritePartIndex ==
    ASSUME Inv, IndexInv, NEW d \in Devices, WritePart(d)
    PROVE  IndexInv'
<1>0. /\ TypeOK /\ Index(d) /\ task[d] \in Task /\ task[d].pc = "writing" /\ "torn" \in Files
      /\ UNCHANGED <<cache, given>> /\ Wrote(d, "torn", task[d])
  BY Facts DEF TypeFactsAt, WritePart, disk, Files, Contents, IndexInv
<1>1. task'[d] = task[d]
  BY <1>0, WroteTasks
<1>2. row'[d].path = row[d].path /\ row'[d].adopted = row[d].adopted
  BY <1>0, ReplaceRow DEF Wrote
<1>3. Reads(d)' /\ Moved(d)'
  BY <1>0, <1>1, <1>2 DEF Index, Reads, Moved
<1> QED
  BY <1>0, <1>3, WriteIndex

LEMMA WrittenIndex ==
    ASSUME Inv, IndexInv, NEW d \in Devices, NEW content \in Files, NEW mine \in BOOLEAN,
           Wrote(d, content, Transferred(task[d], mine)),
           task[d].pc \in {"upload", "writing"},
           mine /\ ~task[d].edited => content = "good" \/ row[d].adopted,
           UNCHANGED <<cache, given>>
    PROVE  IndexInv'
<1> DEFINE x == Transferred(task[d], mine)
<1>0. TypeOK /\ task[d] \in Task /\ Reads(d)
  BY Facts DEF TypeFactsAt, IndexInv, Index
<1>1. x \in Task
  BY <1>0, TransferredType
<1>2. Wrote(d, content, x) /\ Transferred(task[d], mine) = x
  OBVIOUS
<1> HIDE DEF x
<1>3. task'[d] = x
  BY <1>0, <1>1, <1>2, WroteTasks
<1>4. /\ remote' = content /\ row'[d].adopted = row[d].adopted /\ row'[d].path = row[d].path
  BY <1>0, <1>2, ReplaceRow DEF Wrote
<1>5. task[d].src = "given" => row'[d].path = "given"
  BY <1>0, <1>4 DEF Reads, Copies
<1>6. Reads(d)' /\ Moved(d)'
  BY <1>2, <1>3, <1>4, <1>5, AfterIndex
<1> QED
  BY <1>0, <1>1, <1>2, <1>6, WriteIndex

\* What is written in an upload that nobody disturbs.
LEMMA ContentRight ==
    ASSUME Inv, IndexInv, NEW d \in Devices, task[d].pc \in {"upload", "writing"}, ~task[d].edited
    PROVE  task[d].content = "good" \/ row[d].adopted
<1>1. Done(d) /\ Sound(d) /\ Moved(d)
  BY Facts DEF IndexInv, Index
<1>2. task[d].op \in {"sync", "local"}
  BY <1>1 DEF Sound, Copies
<1> QED
  BY <1>1, <1>2 DEF Done, Moved

LEMMA FinishUploadIndex ==
    ASSUME Inv, IndexInv, NEW d \in Devices, FinishUpload(d)
    PROVE  IndexInv'
<1> DEFINE m == ~Mixed(d)
<1> DEFINE x == Transferred(task[d], m)
<1>0. /\ task[d].content \in Files /\ "torn" \in Files /\ Vouches(d)
      /\ task[d].pc = "writing" /\ UNCHANGED <<cache, given>>
  BY Facts DEF FinishUpload, TypeFactsAt, Files, Contents, IndexInv, Index, disk
<1>1. m \in BOOLEAN
  BY DEF Mixed
<1>2. \/ Wrote(d, task[d].content, x)
      \/ ~m /\ Wrote(d, "torn", x)
      \/ ~m /\ task' = [task EXCEPT ![d] = x] /\ UNCHANGED <<remote, row>>
  BY DEF FinishUpload
<1> HIDE DEF m
<1>3. CASE Wrote(d, task[d].content, x)
  BY <1>0, <1>1, <1>3, ContentRight, WrittenIndex
<1>4. CASE ~m /\ Wrote(d, "torn", x)
  BY <1>0, <1>1, <1>4, WrittenIndex
<1>5. CASE ~m /\ task' = [task EXCEPT ![d] = x] /\ UNCHANGED <<remote, row>>
  <2>1. Vouches(d)'
    BY <1>0, <1>5 DEF Vouches, Right
  <2> QED
    BY <1>0, <1>1, <1>5, <2>1, TransferIndex
<1> QED
  BY <1>2, <1>3, <1>4, <1>5

LEMMA UploadIndex ==
    ASSUME Inv, IndexInv, NEW d \in Devices, Upload(d)
    PROVE  IndexInv'
<1>0. /\ TRUE \in BOOLEAN /\ task[d].content \in Files /\ task[d].pc = "upload"
      /\ Wrote(d, task[d].content, Transferred(task[d], TRUE)) /\ UNCHANGED <<cache, given>>
  BY Facts DEF Upload, TypeFactsAt, disk
<1> QED
  BY <1>0, ContentRight, WrittenIndex

LEMMA LookIndex ==
    ASSUME Inv, IndexInv, NEW d \in Devices, Lookup(d) \/ Find(d)
    PROVE  IndexInv'
<1>0. TypeOK /\ Vouches(d) /\ UNCHANGED <<remote, cache, given, row>>
  BY Facts DEF Lookup, Find, disk, IndexInv, Index
<1>1. CASE End(d)
  BY <1>0, <1>1, EndIndex
<1>2. ASSUME NEW stage \in {"fetch", "clear", "adopt"}, Goto(d, stage) PROVE IndexInv'
  <2>1. Others(d) /\ task'[d].pc = stage
    BY <1>0, <1>2, GotoTask DEF Stages
  <2> QED
    BY <1>0, <2>1, QuietIndex, LocalIndex
<1> QED
  BY <1>1, <1>2 DEF Lookup, Find

LEMMA StampIndex ==
    ASSUME Inv, IndexInv, NEW d \in Devices, Stamp(d)
    PROVE  IndexInv'
<1>0. /\ TypeOK /\ Done(d) /\ Index(d) /\ task[d].pc = "stamp" /\ UNCHANGED <<remote, cache, given>>
  BY Facts DEF Stamp, disk, IndexInv
<1>1. CASE remote = "missing"
  BY <1>0, <1>1, EndIndex DEF Stamp
<1>2. CASE remote # "missing"
  <2>1. /\ \A e \in Devices : e # d => row'[e] = row[e]
        /\ row'[d].blind = (~task[d].mine \/ task[d].edited) /\ row'[d].adopted = row[d].adopted
    <3>1. /\ Stat \in Stats /\ "cache" \in {"cache", "given"}
          /\ (~task[d].mine \/ task[d].edited) \in BOOLEAN
      BY <1>0, <1>2, StatType
    <3>2. Upsert(d, "cache", Stat, ~task[d].mine \/ task[d].edited)
      BY <1>2 DEF Stamp
    <3> QED
      BY <1>0, <3>1, <3>2, UpsertRow
  <2>2. Vouches(d)'
    BY <1>0, <2>1 DEF Index, Moved, Vouches, Right
  <2>3. CASE End(d)
    <3>1. Others(d) /\ task'[d].pc = "idle"
      BY <1>0, <2>3, EndTask
    <3>2. Reads(d)' /\ Moved(d)'
      BY <3>1 DEF Reads, Moved, Copies
    <3> QED
      BY <1>0, <2>1, <2>2, <3>1, <3>2, LocalIndex DEF Index
  <2>4. CASE Goto(d, "flag")
    <3>1. Others(d) /\ task'[d].pc = "flag" /\ task'[d].op = task[d].op
      BY <1>0, <2>4, GotoTask DEF Stages
    <3>2. Reads(d)' /\ Moved(d)'
      BY <1>0, <2>1, <3>1 DEF Reads, Moved, Copies, Done, Right
    <3> QED
      BY <1>0, <2>1, <2>2, <3>1, <3>2, LocalIndex DEF Index
  <2> QED
    BY <1>2, <2>3, <2>4 DEF Stamp
<1> QED
  BY <1>1, <1>2

LEMMA FlagIndex ==
    ASSUME Inv, IndexInv, NEW d \in Devices, Flag(d)
    PROVE  IndexInv'
<1>0. /\ TypeOK /\ Done(d) /\ Index(d) /\ Goto(d, "clear") /\ task[d].pc = "flag"
      /\ task[d] \in Task /\ row[d] \in Row /\ row \in [Devices -> Row]
      /\ UNCHANGED <<remote, cache, given>>
      /\ row' = [row EXCEPT ![d] = [row[d] EXCEPT !.adopted = (task[d].op = "remote")]]
  BY Facts DEF Flag, disk, TypeFactsAt, IndexInv
<1>1. Others(d) /\ task'[d].pc = "clear"
  BY <1>0, GotoTask DEF Stages
<1>2. /\ row'[d].path = row[d].path /\ row'[d].stat = row[d].stat /\ row'[d].blind = row[d].blind
      /\ row'[d].adopted = (task[d].op = "remote")
      /\ \A e \in Devices : e # d => row'[e] = row[e]
  BY <1>0 DEF Row
<1>3. task[d].op \in {"local", "remote"}
  BY <1>0 DEF Done, Task
<1>4. Vouches(d)'
  BY <1>0, <1>2, <1>3 DEF Index, Moved, Vouches, Right
<1>5. Reads(d)' /\ Moved(d)'
  BY <1>1 DEF Reads, Moved, Copies
<1> QED
  BY <1>0, <1>1, <1>2, <1>4, <1>5, LocalIndex DEF Index

LEMMA StepIndex == ASSUME Inv, IndexInv, NEW d \in Devices, Step(d) PROVE IndexInv'
<1>1. CASE Conflict(d, "compare") \/ Conflict(d, "fetch") \/ DownloadError(d) \/ SourceGone(d)
           \/ Clear(d)
  BY <1>1, EndIndex DEF Conflict, DownloadError, SourceGone, Clear, disk
<1> QED
  BY <1>1, StatUnchangedIndex, StatChangedIndex, AbsentIndex, ExistsIndex, CompareSameIndex,
     OpenRemoteIndex, FinishUploadIndex, UploadIndex, CopyIndex, LookIndex, FetchIndex, StampIndex,
     FlagIndex DEF Step

LEMMA NextIndex == ASSUME Inv, IndexInv, [Next]_vars PROVE IndexInv'
<1>1. ASSUME NEW d \in Devices, PutLocalBook(d) PROVE IndexInv'
  BY <1>1, PutLocalBookIndex
<1>2. ASSUME NEW d \in Devices, NEW mode \in Modes, Begin(d, mode) PROVE IndexInv'
  BY <1>2, BeginSourceIndex, BeginPullIndex DEF Begin
<1>3. ASSUME NEW d \in Devices, ResolveLocal(d) \/ ResolveRemote(d) PROVE IndexInv'
  BY <1>3, ResolveLocalIndex, ResolveRemoteIndex
<1>4. ASSUME NEW d \in Devices, Step(d) \/ WritePart(d) \/ Fail(d) PROVE IndexInv'
  BY <1>4, StepIndex, WritePartIndex, EndIndex DEF Fail, disk
<1>5. CASE Outside
  BY <1>5, TouchGivenIndex, TouchRemoteIndex DEF Outside
<1>6. CASE UNCHANGED vars
  BY <1>6, IndexKept DEF vars, disk, IndexInv
<1> QED
  BY <1>1, <1>2, <1>3, <1>4, <1>5, <1>6 DEF Next

LEMMA InitIndex == Init => IndexInv
  BY IdleType DEF Init, IndexInv, Index, Vouches, Reads, Moved, NoRow, Copies

\* Where stat says a time or nothing: a row that matches the object is never
\* wrong about it, unless the device has adopted another file, or somebody else
\* cut or wrote the object between the beginning of the device's own upload and
\* the stat that followed, or the user touched the source between hash and copy.
THEOREM IndexIsHonest == NoEtags => (Spec => []IndexHonest)
<1>1. ASSUME NoEtags, Inv, IndexInv PROVE IndexHonest
  <2> SUFFICES ASSUME NEW d \in Devices, FileAt(d, Source(d)) = "good", Matches(row[d].stat),
                      ~row[d].adopted, ~row[d].blind
               PROVE  remote = "good"
    BY DEF IndexHonest
  <2>1. setup.backend # "etag"
    BY <1>1 DEF NoEtags, Inv, TypeOK
  <2>2. row[d].stat = "current"
    BY <2>1 DEF Matches, Stat
  <2>3. row[d].path = "cache" /\ FileAt(d, Source(d)) = cache[d]
    <3>1. Looks(d) /\ TypeFactsAt(d)
      BY <1>1, Facts
    <3>2. row[d] # NoRow
      BY <2>2 DEF NoRow
    <3> QED
      BY <2>2, <3>1, <3>2 DEF Looks, TypeFactsAt, Source, FileAt
  <2> QED
    BY <1>1, <2>2, <2>3 DEF IndexInv, Index, Vouches, Right
<1>2. Spec => [](Inv /\ IndexInv)
  <2>1. Init => Inv /\ IndexInv
    BY InitInv, InitIndex
  <2>2. Inv /\ IndexInv /\ [Next]_vars => Inv' /\ IndexInv'
    BY NextInv, NextIndex
  <2> QED
    BY <2>1, <2>2, PTL DEF Spec
<1>3. CASE NoEtags
  <2>1. Inv /\ IndexInv => IndexHonest
    BY <1>1, <1>3
  <2> QED
    BY <1>2, <2>1, PTL
<1> QED
  BY <1>3

-----------------------------------------------------------------------------
(* A pass that ends without an error *)

\* What a pass has left in the cache when it goes on to the stat.
Ready(d) ==
    task[d].pc = "stamp" /\ task[d].op = "sync" =>
        cache[d] = "good" \/ row[d].adopted \/ task[d].edited

ReadyInv == \A d \in Devices : Ready(d)

\* A step that brings nobody to the stat, and takes nothing away from who is there.
Steady(e) ==
    /\ task'[e].pc = "stamp" => task[e].pc = "stamp" /\ task'[e].op = task[e].op
    /\ task[e].edited => task'[e].edited
    /\ cache'[e] = cache[e] /\ row'[e].adopted = row[e].adopted

LEMMA SteadyReady == ASSUME NEW e \in Devices, Ready(e), Steady(e) PROVE Ready(e)'
  BY DEF Ready, Steady

\* An object that is replaced leaves the caches and the adopted flags alone.
LEMMA ReplaceSteady ==
    ASSUME Inv, NEW e \in Devices, NEW content \in Files, Replace(content),
           Disturbed(e), cache'[e] = cache[e]
    PROVE  Steady(e)
<1>1. row'[e].adopted = row[e].adopted
  BY Facts, ReplaceRow
<1>2. task[e] \in Task
  BY Facts DEF TypeFactsAt
<1>3. /\ AgedTask(task[e]).pc = task[e].pc /\ AgedTask(task[e]).op = task[e].op
      /\ AgedTask(task[e]).edited = task[e].edited
  BY <1>2, AgedTaskType
<1>4. task'[e].pc = task[e].pc /\ task'[e].op = task[e].op /\ task'[e].edited = task[e].edited
  BY <1>3 DEF Disturbed
<1> QED
  BY <1>1, <1>4 DEF Steady

LEMMA WroteSteady ==
    ASSUME Inv, NEW d \in Devices, NEW content \in Files, NEW x \in Task, Wrote(d, content, x),
           cache' = cache, NEW e \in Devices, e # d
    PROVE  Steady(e)
<1>1. TypeOK /\ Replace(content)
  BY Facts DEF Wrote
<1>2. Disturbed(e)
  BY <1>1, WroteTasks
<1> QED
  BY <1>1, <1>2, ReplaceSteady

\* The steps that write the object.
LEMMA Writers ==
    ASSUME Inv, NEW d \in Devices, OpenRemote(d) \/ WritePart(d) \/ FinishUpload(d) \/ Upload(d)
    PROVE  /\ cache' = cache
           /\ \/ \E content \in Files, x \in Task : Wrote(d, content, x)
              \/ \E x \in Task : task' = [task EXCEPT ![d] = x] /\ UNCHANGED <<remote, row>>
<1>0. task[d] \in Task /\ task[d].content \in Files /\ "torn" \in Files
  BY Facts DEF TypeFactsAt, Files, Contents
<1>1. CASE OpenRemote(d)
  <2>1. [task[d] EXCEPT !.pc = "writing", !.old = FALSE, !.mine = TRUE] \in Task
    BY <1>0, OpenedTask
  <2> QED
    BY <1>0, <1>1, <2>1 DEF OpenRemote, disk
<1>2. CASE WritePart(d)
  BY <1>0, <1>2 DEF WritePart, disk
<1>3. CASE FinishUpload(d)
  <2> DEFINE m == ~Mixed(d)
  <2> DEFINE x == Transferred(task[d], m)
  <2>1. m \in BOOLEAN
    BY DEF Mixed
  <2>2. \/ Wrote(d, task[d].content, x)
        \/ Wrote(d, "torn", x)
        \/ task' = [task EXCEPT ![d] = x] /\ UNCHANGED <<remote, row>>
    BY <1>3 DEF FinishUpload
  <2>3. cache' = cache
    BY <1>3 DEF FinishUpload, disk
  <2> HIDE DEF m
  <2>4. x \in Task
    BY <1>0, <2>1, TransferredType
  <2> HIDE DEF x
  <2> QED
    BY <1>0, <2>2, <2>3, <2>4
<1>4. CASE Upload(d)
  <2>1. Transferred(task[d], TRUE) \in Task
    BY <1>0, TransferredType
  <2> QED
    BY <1>0, <1>4, <2>1 DEF Upload, disk
<1> QED
  BY <1>1, <1>2, <1>3, <1>4

\* The steps of one device, and what they leave alone of another.
LEMMA ElsewhereSteady ==
    ASSUME Inv, NEW d \in Devices, Step(d) \/ WritePart(d) \/ Fail(d), NEW e \in Devices, e # d
    PROVE  Steady(e)
<1>0. /\ task \in [Devices -> Task] /\ row \in [Devices -> Row] /\ cache \in [Devices -> Files]
      /\ TypeOK
  BY Facts
<1>1. CASE task'[e] = task[e] /\ row'[e] = row[e] /\ cache'[e] = cache[e]
  BY <1>1 DEF Steady
<1>2. CASE StatUnchanged(d) \/ StatChanged(d) \/ Absent(d) \/ Exists(d) \/ CompareSame(d)
           \/ DownloadError(d) \/ SourceGone(d) \/ Copy(d)
  BY <1>0, <1>1, <1>2 DEF StatUnchanged, StatChanged, Absent, ToUpload, Exists, CompareSame,
     DownloadError, SourceGone, Copy, Goto, End, Upsert, CopySource, disk
<1>3. CASE Conflict(d, "compare") \/ Conflict(d, "fetch") \/ Lookup(d) \/ FetchSame(d) \/ Find(d)
  BY <1>0, <1>1, <1>3 DEF Conflict, Lookup, FetchSame, Find, Goto, End, disk
<1>4. CASE Adopt(d) \/ Stamp(d) \/ Flag(d) \/ Clear(d) \/ Fail(d)
  BY <1>0, <1>1, <1>4 DEF Adopt, Stamp, Flag, Clear, Fail, Goto, End, Upsert, disk
<1>5. CASE OpenRemote(d) \/ WritePart(d) \/ FinishUpload(d) \/ Upload(d)
  <2>1. CASE \E content \in Files, x \in Task : Wrote(d, content, x)
    BY <1>5, <2>1, Writers, WroteSteady
  <2>2. CASE \E x \in Task : task' = [task EXCEPT ![d] = x] /\ UNCHANGED <<remote, row>>
    BY <1>0, <1>1, <1>5, <2>2, Writers
  <2> QED
    BY <1>5, <2>1, <2>2, Writers
<1> QED
  BY <1>2, <1>3, <1>4, <1>5 DEF Step

\* Whoever comes straight to the stat after a transfer has the right file in its
\* cache, or an adopted row, or a source that was touched.
LEMMA TransferReady ==
    ASSUME Inv, NEW d \in Devices, NEW mine \in BOOLEAN, task'[d] = Transferred(task[d], mine),
           task[d].pc \in {"compare", "writing", "upload"}, cache' = cache,
           row'[d].adopted = row[d].adopted
    PROVE  Ready(d)'
<1> DEFINE x == Transferred(task[d], mine)
<1>0. task[d] \in Task /\ Sound(d)
  BY Facts DEF TypeFactsAt
<1>1. /\ x.pc = AfterTransfer(task[d].src) /\ x.op = task[d].op
      /\ x.edited = task[d].edited
  BY <1>0, TransferredType
<1>2. task'[d] = x
  OBVIOUS
<1> HIDE DEF x
<1>3. task'[d].pc = "stamp" => cache[d] = SourceNow(d)
  BY <1>0, <1>1, <1>2 DEF AfterTransfer, SourceNow, FileAt, Task
<1> QED
  BY <1>0, <1>1, <1>2, <1>3 DEF Sound, SourceFits, Ready, Copies

\* An upload of d that is done.
LEMMA WrittenReady ==
    ASSUME Inv, NEW d \in Devices, NEW mine \in BOOLEAN, NEW content \in Files,
           Wrote(d, content, Transferred(task[d], mine)), task[d].pc \in {"writing", "upload"},
           cache' = cache
    PROVE  Ready(d)'
<1> DEFINE x == Transferred(task[d], mine)
<1>0. TypeOK /\ task[d] \in Task
  BY Facts DEF TypeFactsAt
<1>1. x \in Task
  BY <1>0, TransferredType
<1>2. Wrote(d, content, x) /\ Transferred(task[d], mine) = x
  OBVIOUS
<1> HIDE DEF x
<1>3. task'[d] = x /\ row'[d].adopted = row[d].adopted
  BY <1>0, <1>1, <1>2, WroteTasks, ReplaceRow DEF Wrote
<1> QED
  BY <1>2, <1>3, TransferReady

LEMMA NotAtStat == ASSUME NEW d \in Devices, task'[d].pc # "stamp" PROVE Ready(d)'
  BY DEF Ready

LEMMA StepReady ==
    ASSUME Inv, ReadyInv, NEW d \in Devices, Step(d) \/ WritePart(d) \/ Fail(d)
    PROVE  ReadyInv'
<1> SUFFICES Ready(d)'
  <2>1. ASSUME NEW e \in Devices, e # d PROVE Ready(e)'
    BY <2>1, ElsewhereSteady, SteadyReady DEF ReadyInv
  <2> QED
    BY <2>1 DEF ReadyInv
<1>0. /\ TypeOK /\ task \in [Devices -> Task] /\ Sound(d) /\ task[d] \in Task
      /\ task[d].content \in Files /\ "torn" \in Files
  BY Facts DEF TypeFactsAt, Files, Contents
<1>1. CASE End(d)
  BY <1>0, <1>1, EndTask, NotAtStat
<1>2. ASSUME NEW stage \in Stages \ {"stamp"}, Goto(d, stage) PROVE Ready(d)'
  BY <1>0, <1>2, GotoTask, NotAtStat
<1>3. CASE CompareSame(d)
  <2>1. /\ task'[d] = Transferred(task[d], TRUE) /\ TRUE \in BOOLEAN /\ task[d].pc = "compare"
        /\ cache' = cache /\ row' = row
    BY <1>0, <1>3 DEF CompareSame, disk
  <2> QED
    BY <2>1, TransferReady
<1>4. CASE StatUnchanged(d) \/ Conflict(d, "compare") \/ Conflict(d, "fetch") \/ DownloadError(d)
           \/ SourceGone(d) \/ Clear(d) \/ Fail(d)
  BY <1>1, <1>4 DEF StatUnchanged, Conflict, DownloadError, SourceGone, Clear, Fail
<1>5. CASE Exists(d) \/ Lookup(d) \/ Find(d) \/ Stamp(d) \/ Flag(d)
  BY <1>1, <1>2, <1>5 DEF Exists, Lookup, Find, Stamp, Flag, Stages
<1>6. CASE StatChanged(d) \/ Absent(d)
  BY <1>6, StatChangedTask, AbsentTask, NotAtStat
<1>7. CASE OpenRemote(d)
  <2> DEFINE x == [task[d] EXCEPT !.pc = "writing", !.old = FALSE, !.mine = TRUE]
  <2>1. Wrote(d, "torn", x)
    BY <1>7 DEF OpenRemote
  <2>2. x \in Task /\ x.pc = "writing"
    BY <1>0, OpenedTask
  <2> HIDE DEF x
  <2>3. task'[d] = x
    BY <1>0, <2>1, <2>2, WroteTasks
  <2> QED
    BY <2>2, <2>3, NotAtStat
<1>8. CASE WritePart(d)
  <2>1. task'[d] = task[d] /\ task[d].pc = "writing"
    BY <1>0, <1>8, WroteTasks DEF WritePart
  <2> QED
    BY <2>1, NotAtStat
<1>9. CASE FinishUpload(d)
  <2> DEFINE m == ~Mixed(d)
  <2> DEFINE x == Transferred(task[d], m)
  <2>1. m \in BOOLEAN /\ task[d].pc = "writing" /\ cache' = cache
    BY <1>9 DEF Mixed, FinishUpload, disk
  <2>2. \/ Wrote(d, task[d].content, x)
        \/ Wrote(d, "torn", x)
        \/ task' = [task EXCEPT ![d] = x] /\ row' = row
    BY <1>9 DEF FinishUpload
  <2> HIDE DEF m
  <2>3. CASE Wrote(d, task[d].content, x)
    BY <1>0, <2>1, <2>3, WrittenReady
  <2>4. CASE Wrote(d, "torn", x)
    BY <1>0, <2>1, <2>4, WrittenReady
  <2>5. CASE task' = [task EXCEPT ![d] = x] /\ row' = row
    BY <1>0, <2>1, <2>5, TransferReady
  <2> QED
    BY <2>2, <2>3, <2>4, <2>5
<1>10. CASE Upload(d)
  <2>1. /\ TRUE \in BOOLEAN /\ task[d].pc = "upload" /\ cache' = cache
        /\ Wrote(d, task[d].content, Transferred(task[d], TRUE))
    BY <1>10 DEF Upload, disk
  <2> QED
    BY <1>0, <2>1, WrittenReady
<1>11. CASE Copy(d)
  <2>1. task'[d].op = task[d].op /\ task'[d].edited = task[d].edited
    BY <1>11, CopyTask
  <2>2. CopySource(d) /\ row' = row /\ task[d].pc = "copy"
    BY <1>11 DEF Copy
  <2>3. cache'[d] = SourceNow(d)
    BY <2>2, CopySourceFile
  <2> QED
    BY <1>0, <2>1, <2>2, <2>3 DEF Sound, SourceFits, Copies, Ready
<1>12. CASE FetchSame(d)
  BY <1>12, Facts DEF FetchSame, Ready
<1>13. CASE Adopt(d)
  <2>1. task'[d] = Transferred(task[d], TRUE) /\ task[d].op = "remote"
    BY <1>0, <1>13 DEF Adopt, Sound
  <2>2. Transferred(task[d], TRUE).op = task[d].op
    BY <1>0, TransferredType
  <2>3. task'[d].op = "remote"
    BY <2>1, <2>2
  <2> QED
    BY <2>3 DEF Ready
<1> QED
  BY <1>3, <1>4, <1>5, <1>6, <1>7, <1>8, <1>9, <1>10, <1>11, <1>12, <1>13 DEF Step

\* Every step keeps it: whoever comes to the stat has the book in the cache, or an adopted row.
LEMMA NextReady == ASSUME Inv, ReadyInv, [Next]_vars PROVE ReadyInv'
<1>0. TypeOK /\ task \in [Devices -> Task] /\ row \in [Devices -> Row]
  BY DEF Inv, TypeOK
<1>1. ASSUME NEW d \in Devices, PutLocalBook(d) PROVE ReadyInv'
  <2>1. \A e \in Devices : row'[e].adopted = row[e].adopted
    <3>1. "given" \in {"cache", "given"} /\ "none" \in Stats /\ FALSE \in BOOLEAN
      BY DEF Stats
    <3> QED
      BY <1>0, <1>1, <3>1, UpsertRow DEF PutLocalBook
  <2>2. task' = task /\ cache' = cache
    BY <1>1 DEF PutLocalBook
  <2> QED
    BY <2>1, <2>2 DEF ReadyInv, Ready
<1>2. ASSUME NEW d \in Devices, NEW x \in Task, task' = [task EXCEPT ![d] = x], x.pc # "stamp",
             cache' = cache, row' = row
      PROVE  ReadyInv'
  BY <1>0, <1>2 DEF ReadyInv, Ready
<1>3. ASSUME NEW d \in Devices, NEW mode \in Modes, BeginSource(d, mode) PROVE ReadyInv'
  <2> DEFINE stage == IF row[d] = NoRow THEN "exists" ELSE "stat"
  <2> DEFINE x == [Started(d, "sync", stage) EXCEPT !.stat = row[d].stat, !.blind = row[d].blind]
  <2>1. stage \in Stages \ {"stamp"} /\ Source(d) \in {"cache", "given"}
    BY SourceType DEF Stages
  <2>2. Started(d, "sync", stage) \in Task /\ Started(d, "sync", stage).pc = stage
    BY <2>1, StartedTask
  <2>3. row[d].stat \in Stats /\ row[d].blind \in BOOLEAN
    BY Facts DEF TypeFactsAt
  <2>4. x \in Task /\ x.pc = stage
    BY <2>2, <2>3 DEF Task
  <2>5. task' = [task EXCEPT ![d] = x] /\ cache' = cache /\ row' = row
    BY <1>3 DEF BeginSource, disk
  <2> HIDE DEF x
  <2> QED
    BY <1>2, <2>1, <2>4, <2>5
<1>4. ASSUME NEW d \in Devices, NEW mode \in Modes, BeginPull(d, mode) PROVE ReadyInv'
  <2> DEFINE x == [Started(d, "sync", "lookup") EXCEPT !.src = "cache"]
  <2>1. "lookup" \in Stages /\ Source(d) \in {"cache", "given"}
    BY SourceType DEF Stages
  <2>2. Started(d, "sync", "lookup") \in Task /\ Started(d, "sync", "lookup").pc = "lookup"
    BY <2>1, StartedTask
  <2>3. x \in Task /\ x.pc = "lookup"
    BY <2>2 DEF Task
  <2> QED
    BY <1>2, <1>4, <2>3 DEF BeginPull, disk
<1>5. ASSUME NEW d \in Devices, ResolveLocal(d) PROVE ReadyInv'
  <2>1. Others(d) /\ task'[d].op = "local"
    BY <1>5, ResolveLocalTask
  <2>2. cache' = cache /\ row' = row
    BY <1>5 DEF ResolveLocal, disk
  <2> QED
    BY <2>1, <2>2 DEF ReadyInv, Ready, Others
<1>6. ASSUME NEW d \in Devices, ResolveRemote(d) PROVE ReadyInv'
  <2>1. /\ [Idle EXCEPT !.pc = "find", !.op = "remote"] \in Task
        /\ [Idle EXCEPT !.pc = "find", !.op = "remote"].pc = "find"
    BY IdleType DEF Task, Stages
  <2> QED
    BY <1>2, <1>6, <2>1 DEF ResolveRemote, disk
<1>7. ASSUME NEW d \in Devices, Step(d) \/ WritePart(d) \/ Fail(d) PROVE ReadyInv'
  BY <1>7, StepReady
<1>8. CASE Outside
  <2>1. ASSUME NEW d \in Devices, NEW content, TouchGiven(d, content) PROVE ReadyInv'
    <3>1. /\ Others(d) /\ task'[d].pc = task[d].pc /\ task'[d].op = task[d].op
          /\ (task[d].edited => task'[d].edited)
      BY <2>1, EditedTask
    <3>2. cache' = cache /\ row' = row
      BY <2>1 DEF TouchGiven
    <3> QED
      BY <3>1, <3>2 DEF ReadyInv, Ready, Others
  <2>2. ASSUME NEW content \in {"foreign", "missing"}, TouchRemote(content) PROVE ReadyInv'
    <3>1. content \in Files /\ Replace(content) /\ cache' = cache
      BY <2>2 DEF TouchRemote, Files, Contents, disk
    <3>2. \A e \in Devices : Disturbed(e)
      BY <2>2 DEF TouchRemote, Disturbed
    <3> QED
      BY <3>1, <3>2, ReplaceSteady, SteadyReady DEF ReadyInv
  <2> QED
    BY <1>8, <2>1, <2>2 DEF Outside
<1>9. CASE UNCHANGED vars
  BY <1>9 DEF vars, disk, ReadyInv, Ready
<1> QED
  BY <1>1, <1>3, <1>4, <1>5, <1>6, <1>7, <1>8, <1>9 DEF Next, Begin

\* The steps that end a pass without an error.
LEMMA PassEnds ==
    ASSUME Inv, [Next]_vars, NEW d \in Devices, task[d].op = "sync", task'[d].op = "none",
           failures' = failures
    PROVE  \/ Conflict(d, "compare") \/ Conflict(d, "fetch")
           \/ DownloadError(d) \/ SourceGone(d)
           \/ Lookup(d) /\ remote = "missing"
           \/ StatUnchanged(d)
           \/ Stamp(d)
<1>0. TypeOK /\ task \in [Devices -> Task] /\ task[d] \in Task /\ failures \in Nat
  BY Facts, BoundAssumption DEF TypeFactsAt
<1>1. AgedTask(task[d]).op = "sync"
  BY <1>0, AgedTaskType
<1>2. ASSUME NEW e \in Devices, Step(e) \/ WritePart(e) PROVE e = d
  <2> SUFFICES ASSUME e # d PROVE FALSE
    OBVIOUS
  <2>1. task'[d] \in {task[d], AgedTask(task[d])}
    <3>1. CASE StatUnchanged(e) \/ StatChanged(e) \/ Absent(e) \/ Exists(e) \/ CompareSame(e)
               \/ DownloadError(e) \/ SourceGone(e) \/ Copy(e)
      BY <1>0, <3>1 DEF StatUnchanged, StatChanged, Absent, ToUpload, Exists, CompareSame,
         DownloadError, SourceGone, Copy, Goto, End
    <3>2. CASE Conflict(e, "compare") \/ Conflict(e, "fetch") \/ Lookup(e) \/ FetchSame(e)
               \/ Find(e) \/ Adopt(e) \/ Stamp(e) \/ Flag(e) \/ Clear(e)
      BY <1>0, <3>2 DEF Conflict, Lookup, FetchSame, Find, Adopt, Stamp, Flag, Clear, Goto, End
    <3>3. CASE OpenRemote(e) \/ WritePart(e) \/ FinishUpload(e) \/ Upload(e)
      <4>1. CASE \E content \in Files, x \in Task : Wrote(e, content, x)
        BY <1>0, <4>1, WroteTasks DEF Disturbed
      <4>2. CASE \E x \in Task : task' = [task EXCEPT ![e] = x]
        BY <1>0, <4>2
      <4> QED
        BY <3>3, <4>1, <4>2, Writers
    <3> QED
      BY <1>2, <3>1, <3>2, <3>3 DEF Step
  <2> QED
    BY <1>1, <2>1
<1>3. ~(\E e \in Devices : Fail(e))
  BY <1>0 DEF Fail
<1>4. ~(\E e \in Devices : PutLocalBook(e) \/ ResolveLocal(e) \/ ResolveRemote(e)
                           \/ \E mode \in Modes : Begin(e, mode))
  <2>1. ASSUME NEW e \in Devices, task[e].pc = "idle", NEW x, task' = [task EXCEPT ![e] = x],
               x.op # "none"
        PROVE  FALSE
    BY <1>0, <2>1
  <2>2. ASSUME NEW e \in Devices, NEW mode \in Modes, Begin(e, mode) PROVE FALSE
    <3>1. Source(e) \in {"cache", "given"} /\ Idle \in Task
      BY SourceType, IdleType
    <3>2. \A stage \in Stages : /\ Started(e, "sync", stage) \in Task
                                 /\ Started(e, "sync", stage).op = "sync"
      BY <3>1, StartedTask
    <3>3. CASE BeginSource(e, mode)
      <4> DEFINE stage == IF row[e] = NoRow THEN "exists" ELSE "stat"
      <4> DEFINE x == [Started(e, "sync", stage) EXCEPT !.stat = row[e].stat, !.blind = row[e].blind]
      <4>1. x.op = "sync"
        BY <3>2 DEF Stages, Task
      <4>2. task' = [task EXCEPT ![e] = x] /\ task[e].pc = "idle"
        BY <3>3 DEF BeginSource
      <4> HIDE DEF x
      <4> QED
        BY <2>1, <4>1, <4>2
    <3>4. CASE BeginPull(e, mode)
      <4> DEFINE x == [Started(e, "sync", "lookup") EXCEPT !.src = "cache"]
      <4>1. x.op = "sync"
        BY <3>2 DEF Stages, Task
      <4>2. task' = [task EXCEPT ![e] = x] /\ task[e].pc = "idle"
        BY <3>4 DEF BeginPull
      <4> HIDE DEF x
      <4> QED
        BY <2>1, <4>1, <4>2
    <3> QED
      BY <2>2, <3>3, <3>4 DEF Begin
  <2>3. ASSUME NEW e \in Devices, ResolveLocal(e) PROVE FALSE
    <3>1. /\ \A i \in Devices : i # e => task'[i] = task[i]
          /\ task'[e].op = "local"
      BY <2>3, ResolveLocalTask DEF Others
    <3> QED
      BY <3>1
  <2>4. ASSUME NEW e \in Devices, ResolveRemote(e) PROVE FALSE
    <3>1. [Idle EXCEPT !.pc = "find", !.op = "remote"].op = "remote"
      BY IdleType DEF Task
    <3> QED
      BY <2>1, <2>4, <3>1 DEF ResolveRemote
  <2>5. ~(\E e \in Devices : PutLocalBook(e))
    BY DEF PutLocalBook
  <2> QED
    BY <2>2, <2>3, <2>4, <2>5
<1>5. ~Outside
  <2>1. ~(\E e \in Devices, content \in {"edited", "missing"} : TouchGiven(e, content))
    BY EditedTask DEF Others
  <2>2. ~(\E content \in {"foreign", "missing"} : TouchRemote(content))
    BY <1>1 DEF TouchRemote
  <2> QED
    BY <2>1, <2>2 DEF Outside
<1>6. Step(d)
  <2>1. ~WritePart(d)
    BY <1>0, WroteTasks DEF WritePart
  <2> QED
    BY <1>2, <1>3, <1>4, <1>5, <2>1 DEF Next, vars
<1>7. ~(\E stage \in Stages : Goto(d, stage))
  BY <1>0, GotoTask
<1>8. ASSUME NEW mine \in BOOLEAN PROVE task'[d] # Transferred(task[d], mine)
  <2>1. Transferred(task[d], mine).op = "sync"
    BY <1>0, TransferredType
  <2> QED
    BY <2>1
<1>9. ~StatChanged(d) /\ ~Absent(d) /\ ~Copy(d)
  BY StatChangedTask, AbsentTask, CopyTask
<1>10. ~OpenRemote(d)
  <2> DEFINE x == [task[d] EXCEPT !.pc = "writing", !.old = FALSE, !.mine = TRUE]
  <2>1. x \in Task /\ x.op = "sync"
    BY <1>0, OpenedTask
  <2>2. OpenRemote(d) => Wrote(d, "torn", x)
    BY DEF OpenRemote
  <2> HIDE DEF x
  <2> QED
    BY <1>0, <2>1, <2>2, WroteTasks
<1>11. ~Exists(d) /\ ~Find(d) /\ ~Flag(d) /\ (Lookup(d) => remote = "missing")
  BY <1>7 DEF Exists, Find, Flag, Lookup, Stages
<1>12. ~CompareSame(d) /\ ~FetchSame(d) /\ ~Adopt(d)
  BY <1>0, <1>8 DEF CompareSame, FetchSame, Adopt
<1>13. ~FinishUpload(d) /\ ~Upload(d)
  <2>1. ASSUME NEW mine \in BOOLEAN, NEW content, Wrote(d, content, Transferred(task[d], mine))
        PROVE  FALSE
    <3>1. Transferred(task[d], mine) \in Task
      BY <1>0, TransferredType
    <3> QED
      BY <1>0, <1>8, <2>1, <3>1, WroteTasks
  <2>2. ASSUME FinishUpload(d) PROVE FALSE
    <3> DEFINE m == ~Mixed(d)
    <3> DEFINE x == Transferred(task[d], m)
    <3>1. m \in BOOLEAN
      BY DEF Mixed
    <3>2. \/ Wrote(d, task[d].content, x) \/ Wrote(d, "torn", x)
          \/ task' = [task EXCEPT ![d] = x]
      BY <2>2 DEF FinishUpload
    <3> HIDE DEF m
    <3> QED
      BY <1>0, <1>8, <2>1, <3>1, <3>2
  <2> QED
    BY <2>1, <2>2 DEF Upload
<1>14. ~Clear(d)
  BY Facts DEF Clear, Done
<1> QED
  BY <1>6, <1>9, <1>10, <1>11, <1>12, <1>13, <1>14 DEF Step

\* sync_book_inner: each of its ways to end well leaves book, index and bucket
\* in agreement, or a conflict or an adopted row that says why not; or somebody
\* has interfered between two of its requests, with the object or with the source.
THEOREM PassesSettle == NoEtags => (Spec => PassSettles)
<1> DEFINE Settled(d) ==
        \/ remote = "missing" \/ ~Readable \/ SourceGone(d)
        \/ pending'[d] \/ row'[d].adopted \/ row'[d].blind \/ task[d].edited
        \/ /\ remote' = "good" /\ cache'[d] = "good"
           /\ row'[d].path = "cache" /\ row'[d].stat = Stat'
<1>1. ASSUME NoEtags, Inv, IndexInv, ReadyInv, [Next]_vars, NEW d \in Devices,
             task[d].op = "sync", task'[d].op = "none", failures' = failures
      PROVE  Settled(d)
  <2>0. /\ TypeOK /\ Sound(d) /\ Looks(d) /\ Index(d) /\ Ready(d) /\ TypeFactsAt(d)
        /\ setup.backend # "etag" /\ task[d] \in Task
    BY <1>1, Facts DEF IndexInv, ReadyInv, NoEtags, TypeOK, TypeFactsAt
  <2>1. CASE Conflict(d, "compare") \/ Conflict(d, "fetch")
    BY <1>1, <2>1, Facts DEF Conflict
  <2>2. CASE DownloadError(d) \/ SourceGone(d) \/ (Lookup(d) /\ remote = "missing")
    BY <2>2 DEF DownloadError
  <2>3. CASE StatUnchanged(d)
    <3>1. /\ Matches(task[d].stat) /\ CopySource(d) /\ Upsert(d, "cache", Stat, task[d].blind)
          /\ UNCHANGED <<setup, remote>> /\ task[d].pc = "stat"
      BY <2>3 DEF StatUnchanged
    <3>2. cache'[d] = SourceNow(d)
      BY <1>1, <3>1, CopySourceFile
    <3>3. /\ row'[d].path = "cache" /\ row'[d].stat = Stat /\ row'[d].blind = task[d].blind
          /\ row'[d].adopted = row[d].adopted
      <4>1. Stat \in Stats /\ "cache" \in {"cache", "given"} /\ task[d].blind \in BOOLEAN
        BY <2>0, <3>1, StatType DEF Matches, Task
      <4> QED
        BY <2>0, <3>1, <4>1, UpsertRow
    <3>4. Stat' = Stat
      BY <3>1 DEF Stat
    <3>5. task[d].stat = "current"
      BY <2>0, <3>1 DEF Matches, Stat
    <3>6. SourceFits(d) \/ row[d].adopted \/ task[d].edited
      BY <1>1, <2>0, <3>1 DEF Sound, Copies
    <3>7. SourceFits(d) /\ ~row[d].adopted /\ ~task[d].blind => remote = "good"
      BY <2>0, <3>1, <3>5, <3>6 DEF Index, Reads, Right
    <3> QED
      BY <3>1, <3>2, <3>3, <3>4, <3>6, <3>7 DEF SourceFits
  <2>4. CASE Stamp(d) /\ remote # "missing"
    <3>1. /\ Upsert(d, "cache", Stat, ~task[d].mine \/ task[d].edited) /\ UNCHANGED <<setup, remote, cache>>
          /\ task[d].pc = "stamp"
      BY <2>4 DEF Stamp, disk
    <3>2. /\ row'[d].path = "cache" /\ row'[d].stat = Stat
          /\ row'[d].blind = (~task[d].mine \/ task[d].edited)
          /\ row'[d].adopted = row[d].adopted
      <4>1. /\ Stat \in Stats /\ "cache" \in {"cache", "given"}
            /\ (~task[d].mine \/ task[d].edited) \in BOOLEAN
        BY <2>0, <2>4, StatType
      <4> QED
        BY <2>0, <3>1, <4>1, UpsertRow
    <3>3. Stat' = Stat
      BY <3>1 DEF Stat
    <3>4. cache[d] = "good" \/ row[d].adopted \/ task[d].edited
      BY <1>1, <2>0, <3>1 DEF Ready
    <3>5. task[d].mine /\ ~task[d].edited => remote = "good" \/ cache[d] = remote \/ row[d].adopted
      BY <2>0, <3>1 DEF Index, Moved
    <3> QED
      BY <3>1, <3>2, <3>3, <3>4, <3>5
  <2> QED
    BY <1>1, <2>1, <2>2, <2>3, <2>4, PassEnds
<1>2. Spec => [](Inv /\ IndexInv /\ ReadyInv)
  <2>1. Init => Inv /\ IndexInv /\ ReadyInv
    BY InitInv, InitIndex, IdleType DEF Init, ReadyInv, Ready
  <2>2. Inv /\ IndexInv /\ ReadyInv /\ [Next]_vars => Inv' /\ IndexInv' /\ ReadyInv'
    BY NextInv, NextIndex, NextReady
  <2> QED
    BY <2>1, <2>2, PTL DEF Spec
<1>3. CASE NoEtags
  <2>1. Inv /\ IndexInv /\ ReadyInv /\ [Next]_vars
          => [\A d \in Devices :
                task[d].op = "sync" /\ task'[d].op = "none" /\ failures' = failures
                  => Settled(d)]_vars
    BY <1>1, <1>3
  <2> QED
    BY <1>2, <2>1, PTL DEF Spec, PassSettles
<1> QED
  BY <1>3
=============================================================================
