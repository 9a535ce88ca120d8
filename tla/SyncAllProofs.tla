---------------------------- MODULE SyncAllProofs ----------------------------
(***************************************************************************)
(* The safety of sync_all, for any number of books of any sizes, any       *)
(* limits, networks and modes, with requests that fail and with others     *)
(* that write in the middle of an operation: proofs of TypeOK, LimitKept,  *)
(* PolicyRespected, BehindIsDone and CompleteIsDone of SyncAll.            *)
(***************************************************************************)
EXTENDS SyncAll, TLAPS, WellFoundedInduction

-----------------------------------------------------------------------------
(* The inductive invariant *)

Files == {"estimate", "transfer"}

\* Which operation is at which stage; the loops have a book in hand, and
\* success is reported at the end.
Shape ==
    /\ task.op = "none" <=> task.pc = "idle"
    /\ task.op = "book" => task.pc = "transfer"
    /\ task.op = "meta" => task.pc = "metas" /\ task.todo # {}
    /\ task.pc = "transfer" => task.todo # {}
    /\ task.result # "none" => task.pc = "idle"

Permission ==
    /\ task.pc # "idle" /\ Allowed(network, paused) => permitted
    /\ task.pc \in {"list"} \cup Files => permitted

\* The index names what is there.
FreshIsGood == \A b \in Books : row[b] = "fresh" => object[b] = "good"

\* The metadata that is behind its loop is the same here and there.
MetasDone ==
    task.op = "all" /\ task.mode = "both" =>
        /\ task.pc = "metas" =>
              \A b \in Books \ (touched \cup task.todo) : meta[b] \in {"none", "same"}
        /\ task.pc \in {"list"} \cup Files =>
              \A b \in Books \ touched : meta[b] \in {"none", "same"}

\* What is not listed was not there, what is listed and behind the loop is done.
Progress ==
    task.op = "all" /\ task.pc \in Files =>
        /\ task.todo \subseteq task.listed
        /\ \A b \in task.listed \ task.todo : b \in touched \/ Settled(b)
        /\ task.mode = "both" =>
              \A b \in Books \ task.listed : b \in touched \/ (row[b] = "none" /\ object[b] = "none")

\* What was moved is within the estimates, and these are within the limit.
Within ==
    task.op = "all" =>
        /\ task.pc \notin Files => task.moved = 0 /\ task.spent = 0
        /\ task.limit >= NoLimit
        /\ task.limit # NoLimit =>
              \/ touched # {}
              \/ \E b \in task.listed \ task.todo : task.pc \in Files /\ object[b] = "foreign"
              \/ /\ task.moved <= task.spent
                 /\ task.spent <= task.limit
                 /\ task.pc = "transfer" =>
                       /\ task.spent + task.guess <= task.limit
                       /\ task.guess = Estimate(First, task.mode)

Loop == Shape /\ Permission /\ MetasDone /\ Progress /\ Within

Inv == TypeOK /\ FreshIsGood /\ Loop

\* The part of the type that is about the books.
DataType ==
    /\ meta \in [Books -> Metas]
    /\ file \in [Books -> {"none", "good", "bad"}]
    /\ object \in [Books -> {"none", "good", "foreign"}]
    /\ row \in [Books -> Rows]
    /\ conflict \subseteq Books

-----------------------------------------------------------------------------
(* Facts about the operators *)

\* The first book of a list that is not empty is in it.
LEMMA FirstIn ==
    ASSUME task \in Task, task.todo # {}
    PROVE  First \in task.todo /\ First \in Books
<1> DEFINE Less == OpToRel(<, Nat)
           todo == task.todo
<1>1. todo \subseteq Nat /\ todo \subseteq Books /\ todo # {}
  BY DEF Task, Books
<1>2. IsWellFoundedOn(Less, Nat)
  BY NatLessThanWellFounded
<1>3. \A x, y \in Nat : x < y => <<x, y>> \in Less
  BY DEF OpToRel
<1> HIDE DEF Less, todo
<1>4. PICK x \in todo : \A y \in todo : ~(<<y, x>> \in Less)
  BY <1>1, <1>2, WFMin, Zenon
<1>5. ASSUME NEW y \in todo PROVE x =< y
  <2>1. x \in Nat /\ y \in Nat /\ ~(<<y, x>> \in Less)
    BY <1>1, <1>4, Zenon
  <2>2. ~(y < x)
    BY <1>3, <2>1, Zenon
  <2> QED
    BY <2>1, <2>2
<1> QED
  BY <1>1, <1>5 DEF First, Min, todo

LEMMA EstimateType ==
    ASSUME DataType, NEW b \in Books, NEW mode
    PROVE  Estimate(b, mode) \in Nat
BY SizeAssumption DEF Estimate, SizeOf, DataType

\* An operation that is over is well typed.
LEMMA IdleType ==
    /\ Idle \in Task
    /\ \A result \in {"none", "ok", "error"}, told \in {"no", "policy", "byte_limit"} :
          [Idle EXCEPT !.result = result, !.told = told] \in Task
<1>1. Idle \in Task
  BY DEF Idle, Task, Stages, NoLimit
<1> QED
  BY <1>1 DEF Task

-----------------------------------------------------------------------------
(* The scheduler and what others write *)

LEMMA SchedulingInv == ASSUME Inv, Scheduling PROVE Inv'
<1> USE DEF Inv
<1>1. UNCHANGED <<data, task, touched, failures, outside>>
  BY DEF Scheduling, SetNetworkType, SetBlobByteLimit, SetPaused, history
<1>2. TypeOK'
  <2>1. network' \in {"wifi", "cellular", "unknown"} /\ paused' \in BOOLEAN /\ permitted' \in BOOLEAN
    BY NetAssumption
       DEF Scheduling, SetNetworkType, SetBlobByteLimit, SetPaused, Permit, Allowed, history, TypeOK
  <2>2. limit' \in Int /\ limit' >= NoLimit
    BY LimitAssumption
       DEF Scheduling, SetNetworkType, SetBlobByteLimit, SetPaused, TypeOK, NoLimit
  <2> QED
    BY <1>1, <2>1, <2>2 DEF TypeOK, data
<1>3. Permission'
  <2>1. CASE permitted' = permitted /\ network' = network /\ paused' = paused
    BY <1>1, <2>1 DEF Loop, Permission, Allowed
  <2>2. CASE permitted' = (permitted \/ (task.pc # "idle" /\ Allowed(network', paused')))
    BY <1>1, <2>2, Zenon DEF Loop, Permission
  <2> QED
    BY <2>1, <2>2 DEF Scheduling, SetNetworkType, SetBlobByteLimit, SetPaused, Permit, history
<1> QED
  BY <1>1, <1>2, <1>3 DEF FreshIsGood, Loop, Shape, MetasDone, Progress, Settled, Within, Estimate, First,
                               data

\* What somebody writes is the data of one book.
LEMMA WritingInv == ASSUME Inv, NEW b \in Books, Writing(b) PROVE Inv'
<1> USE DEF Inv
<1>1. /\ UNCHANGED <<scheduler, task, permitted, failures>>
      /\ outside' \in 0..MaxOutside
      /\ touched' = IF task.pc = "idle" THEN {} ELSE touched \cup {b}
  BY BoundAssumption DEF Writing, PutLocalBook, PutLocalMeta, RemoteMeta, BreakMeta, TouchFile,
                         TouchObject, Write, TypeOK
<1>2. DataType' /\ FreshIsGood'
  BY DEF Writing, PutLocalBook, PutLocalMeta, RemoteMeta, BreakMeta, TouchFile, TouchObject, Write,
         TypeOK, DataType, Metas, Rows, FreshIsGood
<1>3. \A c \in Books \ {b} : /\ file'[c] = file[c] /\ object'[c] = object[c] /\ row'[c] = row[c]
                           /\ meta'[c] = meta[c]
  <2>1. CASE PutLocalMeta(b) \/ RemoteMeta(b) \/ BreakMeta(b)
    BY <2>1 DEF PutLocalMeta, RemoteMeta, BreakMeta, TypeOK
  <2>2. CASE ~(PutLocalMeta(b) \/ RemoteMeta(b) \/ BreakMeta(b))
    <3>1. meta' = meta
      BY <2>2 DEF Writing, PutLocalBook, TouchFile, TouchObject
    <3>2. \A c \in Books \ {b} : file'[c] = file[c] /\ object'[c] = object[c] /\ row'[c] = row[c]
      BY <2>2 DEF Writing, PutLocalBook, TouchFile, TouchObject, TypeOK
    <3> QED
      BY <3>1, <3>2
  <2> QED
    BY <2>1, <2>2
<1>4. conflict' = conflict
  BY DEF Writing, PutLocalBook, PutLocalMeta, RemoteMeta, BreakMeta, TouchFile, TouchObject
<1>5. TypeOK'
  BY <1>1, <1>2 DEF TypeOK, DataType, scheduler
<1>6. Shape' /\ Permission'
  BY <1>1 DEF Loop, Shape, Permission, scheduler
<1>7. Progress'
  <2> SUFFICES ASSUME task.op = "all", task.pc \in Files
               PROVE  Progress'
    BY <1>1 DEF Progress
  <2>1. touched' = touched \cup {b}
    BY <1>1 DEF Files
  <2>2. task.listed \subseteq Books
    BY DEF TypeOK, Task
  <2> QED
    BY <1>1, <1>3, <1>4, <2>1, <2>2 DEF Loop, Progress, Settled
<1>8. Within'
  BY <1>1 DEF Loop, Within, Shape
<1>9. MetasDone'
  <2> SUFFICES ASSUME task.op = "all", task.mode = "both", task.pc # "idle"
               PROVE  MetasDone'
    BY <1>1 DEF MetasDone, Files
  <2>1. touched' = touched \cup {b}
    BY <1>1
  <2> QED
    BY <1>1, <1>3, <2>1 DEF Loop, MetasDone
<1> QED
  BY <1>2, <1>5, <1>6, <1>7, <1>8, <1>9 DEF Loop

-----------------------------------------------------------------------------
(* The operations *)

\* Whatever has been done to the books, an operation may end after it.
LEMMA EndInv ==
    ASSUME Inv, NEW result \in {"none", "ok", "error"}, NEW told \in {"no", "policy", "byte_limit"},
           End(result, told), UNCHANGED scheduler, DataType', FreshIsGood',
           failures' \in 0..MaxFailures, outside' \in 0..MaxOutside
    PROVE  Inv'
<1>1. task' \in Task /\ task'.todo = {} /\ task'.pc = "idle" /\ task'.op = "none"
  BY IdleType DEF End, Idle
<1>2. TypeOK'
  BY <1>1 DEF Inv, TypeOK, DataType, End, scheduler
<1>3. Shape' /\ Permission' /\ MetasDone' /\ Progress' /\ Within'
  BY <1>1 DEF Shape, Permission, MetasDone, Progress, Within, Files
<1> QED
  BY <1>2, <1>3 DEF Inv, Loop

LEMMA BeginInv ==
    ASSUME Inv, NEW op \in {"all", "meta", "book"}, NEW mode \in {"both", "push", "pull"},
           NEW stage \in Stages,
           NEW todo \in SUBSET Books, Begin(op, mode, stage, todo),
           UNCHANGED <<scheduler, data, failures, outside>>,
           op = "all" => stage = "refresh",
           op = "meta" => stage = "metas" /\ todo # {},
           op = "book" => stage = "transfer" /\ todo # {} /\ Allowed(network, paused)
    PROVE  Inv'
<1>1. /\ task' \in Task
      /\ task'.pc = stage /\ task'.op = op /\ task'.todo = todo /\ task'.result = "none"
      /\ task'.moved = 0 /\ task'.spent = 0 /\ task'.limit = NoLimit
  <2>1. task' = [Idle EXCEPT !.pc = stage, !.op = op, !.mode = mode, !.listed = todo, !.todo = todo]
    BY DEF Begin
  <2>2. Idle \in Task
    BY IdleType, Zenon
  <2>3. task' \in Task
    BY <2>1, <2>2 DEF Task
  <2> QED
    BY <2>1, <2>3 DEF Idle
<1>2. TypeOK'
  BY <1>1 DEF Inv, TypeOK, Begin, Allowed, scheduler, data
<1>3. Shape' /\ MetasDone' /\ Progress' /\ Within'
  <2>1. Shape'
    BY <1>1 DEF Shape
  <2>2. MetasDone' /\ Progress'
    BY <1>1 DEF MetasDone, Progress, Files
  <2>3. Within'
    BY <1>1 DEF Within, Files, NoLimit
  <2> QED
    BY <2>1, <2>2, <2>3
<1>4. Permission'
  <2>1. permitted' = Allowed(network', paused')
    BY Zenon DEF Begin, scheduler
  <2>2. stage \in {"list"} \cup Files => Allowed(network', paused')
    BY Zenon DEF Files, scheduler
  <2> QED
    BY <1>1, <2>1, <2>2, Zenon DEF Permission
<1>5. FreshIsGood'
  BY DEF Inv, FreshIsGood, data
<1> QED
  BY <1>2, <1>3, <1>4, <1>5 DEF Inv, Loop

LEMMA StartInv ==
    ASSUME Inv, \/ \E mode \in Modes : SyncAllStart(mode)
                \/ \E b \in Books : SyncSingleMeta(b) \/ SyncBook(b)
    PROVE  Inv'
<1>1. ASSUME NEW mode \in Modes, SyncAllStart(mode) PROVE Inv'
  BY <1>1, ModeAssumption, BeginInv DEF SyncAllStart, Stages
<1>2. ASSUME NEW b \in Books, SyncSingleMeta(b) PROVE Inv'
  BY <1>2, BeginInv DEF SyncSingleMeta, Stages
<1>3. ASSUME NEW b \in Books, SyncBook(b) PROVE Inv'
  <2>1. DataType' /\ FreshIsGood' /\ UNCHANGED scheduler
    BY <1>3 DEF SyncBook, Inv, TypeOK, DataType, FreshIsGood, data
  <2>2. failures' \in 0..MaxFailures /\ outside' \in 0..MaxOutside
    BY <1>3 DEF SyncBook, Inv, TypeOK
  <2>3. CASE Allowed(network, paused)
    BY <1>3, <2>3, BeginInv DEF SyncBook, Stages
  <2>4. CASE ~Allowed(network, paused)
    BY <1>3, <2>1, <2>2, <2>4, EndInv DEF SyncBook
  <2> QED
    BY <2>3, <2>4
<1> QED
  BY <1>1, <1>2, <1>3
\* The list of the metadata, one file of it, the policy, the list of the books.
LEMMA StageInv == ASSUME Inv, ListMetas \/ MetaStep \/ Policy \/ ListBooks PROVE Inv'
<1> USE DEF Inv
<1>1. UNCHANGED <<scheduler, failures, outside>> /\ FreshIsGood' /\ DataType'
  <2>1. CASE MetaStep
    <3>1. First \in Books /\ meta[First] \in Metas
      BY <2>1, FirstIn DEF MetaStep, TypeOK
    <3>2. meta' \in [Books -> Metas]
      BY <2>1, <3>1 DEF MetaStep, Synced, TypeOK, Metas
    <3> QED
      BY <2>1, <3>2 DEF MetaStep, FreshIsGood, TypeOK, DataType
  <2>2. CASE ListMetas \/ Policy \/ ListBooks
    BY <2>2 DEF ListMetas, Policy, ListBooks, data, FreshIsGood, TypeOK, DataType
  <2> QED
    BY <2>1, <2>2
<1>2. ASSUME NEW result \in {"none", "ok", "error"}, NEW told \in {"no", "policy", "byte_limit"},
             End(result, told)
      PROVE  Inv'
  <2>1. failures' \in 0..MaxFailures /\ outside' \in 0..MaxOutside /\ scheduler' = scheduler
    BY <1>1 DEF TypeOK
  <2> QED
    BY <1>1, <1>2, <2>1, EndInv, Zenon
<1>3. ASSUME task' \in Task, UNCHANGED history, Shape', Permission', MetasDone', Progress', Within'
      PROVE  Inv'
  <2>1. task'.todo \subseteq Books
    BY <1>3 DEF Task
  <2> QED
    BY <1>1, <1>3, <2>1 DEF TypeOK, DataType, Loop, scheduler, history
<1>4. MetaPairs(task.mode) \subseteq Books /\ BookHashes(task.mode) \subseteq Books
  BY DEF MetaPairs, BookHashes
<1>5. CASE ListMetas
  <2>1. task' = [task EXCEPT !.pc = "metas", !.todo = MetaPairs(task.mode)] /\ UNCHANGED history
    BY <1>5 DEF ListMetas
  <2>2. task' \in Task
    BY <1>4, <2>1 DEF TypeOK, Task, Stages
  <2>3. Shape' /\ Permission' /\ Progress' /\ Within'
    BY <1>1, <1>5, <2>1
       DEF ListMetas, TypeOK, Task, Loop, Shape, Permission, Progress, Within, Files, history, scheduler
  <2>4. MetasDone'
    <3>1. \A b \in Books \ MetaPairs("both") : meta[b] = "none"
      BY DEF MetaPairs, TypeOK, Metas
    <3>2. /\ task'.pc = "metas" /\ task'.mode = task.mode /\ task'.todo = MetaPairs(task.mode)
          /\ meta' = meta
      BY <1>5, <2>1 DEF ListMetas, TypeOK, Task, data
    <3> QED
      BY <3>1, <3>2 DEF MetasDone, Files
  <2> QED
    BY <1>3, <2>1, <2>2, <2>3, <2>4
<1>6. CASE MetaStep
  <2>1. CASE task.op = "meta"
    BY <1>2, <1>6, <2>1 DEF MetaStep
  <2>2. CASE task.op # "meta"
    <3>1. task' = [task EXCEPT !.todo = @ \ {First}] /\ UNCHANGED history
      BY <1>6, <2>2 DEF MetaStep
    <3>2. task' \in Task
      BY <3>1 DEF TypeOK, Task
    <3>3. Shape' /\ Permission' /\ Progress' /\ Within'
      BY <1>1, <1>6, <2>2, <3>1
         DEF MetaStep, TypeOK, Task, Loop, Shape, Permission, Progress, Within, Files, history, scheduler
    <3>4. MetasDone'
      <4> SUFFICES ASSUME task.op = "all", task.mode = "both"
                   PROVE  MetasDone'
        BY <3>1 DEF TypeOK, Task, MetasDone
      <4>1. PICK book \in Books : book = First
        BY <1>6, FirstIn DEF MetaStep, TypeOK
      <4>2. /\ task.pc = "metas" /\ task'.pc = "metas" /\ task'.todo = task.todo \ {book}
            /\ meta' = [meta EXCEPT ![book] = Synced(@, task.mode)] /\ touched' = touched
        BY <1>6, <3>1, <4>1 DEF MetaStep, TypeOK, Task, history
      <4>3. meta'[book] \in {"none", "same"}
        BY <4>1, <4>2 DEF TypeOK, Synced
      <4>4. \A b \in Books \ {book} : meta'[b] = meta[b]
        BY <4>2 DEF TypeOK
      <4>5. \A b \in Books \ (touched \cup task.todo) : meta[b] \in {"none", "same"}
        BY <4>2 DEF Loop, MetasDone
      <4> QED
        BY <4>2, <4>3, <4>4, <4>5 DEF MetasDone, Files
    <3> QED
      BY <1>3, <3>1, <3>2, <3>3, <3>4
  <2> QED
    BY <2>1, <2>2
<1>7. CASE Policy
  <2>1. CASE ~Allowed(network, paused)
    BY <1>2, <1>7, <2>1 DEF Policy, Pause
  <2>2. CASE Allowed(network, paused)
    <3>1. task' = [task EXCEPT !.pc = "list", !.limit = limit] /\ UNCHANGED history
      BY <1>7, <2>2 DEF Policy
    <3>2. task' \in Task
      BY <3>1 DEF TypeOK, Task, Stages
    <3>3. task.pc = "metas" /\ task.op = "all" /\ permitted
      BY <1>7, <2>2 DEF Policy, TypeOK, Task, Loop, Shape, Permission
    <3>4. Shape' /\ Permission' /\ Progress'
      BY <1>1, <3>1, <3>3
         DEF TypeOK, Task, Loop, Shape, Permission, Progress, Files, history, scheduler
    <3>5. Within'
      BY <3>1, <3>3 DEF TypeOK, Task, Loop, Within, Files, NoLimit
    <3>6. MetasDone'
      BY <1>7, <3>1, <3>3 DEF Policy, TypeOK, Task, Loop, MetasDone, Files, history, data
    <3> QED
      BY <1>3, <3>1, <3>2, <3>4, <3>5, <3>6
  <2> QED
    BY <2>1, <2>2
<1>8. CASE ListBooks
  <2> DEFINE hashes == BookHashes(task.mode)
  <2>1. task' = [task EXCEPT !.pc = "estimate", !.listed = hashes, !.todo = hashes]
        /\ UNCHANGED <<data, history>>
    BY <1>8 DEF ListBooks
  <2>2. task' \in Task
    BY <1>4, <2>1 DEF TypeOK, Task, Stages
  <2>3. \A b \in Books \ hashes : task.mode = "both" => row[b] = "none" /\ object[b] = "none"
    BY DEF BookHashes
  <2> HIDE DEF hashes
  <2>4. Shape' /\ Permission'
    BY <1>1, <1>8, <2>1 DEF ListBooks, TypeOK, Task, Loop, Shape, Permission, Files, history, scheduler
  <2>5. Progress'
    BY <2>1, <2>3 DEF TypeOK, Task, Progress, data
  <2>6. Within'
    <3>1. task.pc = "list"
      BY <1>8 DEF ListBooks
    <3> QED
      BY <2>1, <3>1 DEF TypeOK, Task, Loop, Within, Files, NoLimit, history
  <2>7. MetasDone'
    BY <1>8, <2>1 DEF ListBooks, TypeOK, Task, Loop, MetasDone, Files, history, data
  <2> QED
    BY <1>3, <2>1, <2>2, <2>4, <2>5, <2>6, <2>7
<1> QED
  BY <1>5, <1>6, <1>7, <1>8

\* The estimate is within what is left of the limit.
LEMMA EstimateInv == ASSUME Inv, EstimateBook PROVE Inv'
<1> DEFINE guess == Estimate(First, task.mode)
<1> USE DEF Inv
<1>1. DataType /\ DataType' /\ FreshIsGood' /\ UNCHANGED <<scheduler, data, failures, outside>>
  BY DEF EstimateBook, TypeOK, DataType, FreshIsGood, data
<1>2. CASE Pause("byte_limit")
  BY <1>1, <1>2, EndInv DEF Pause, TypeOK
<1>3. CASE /\ ~(task.limit # NoLimit /\ task.spent + guess > task.limit)
           /\ task' = [task EXCEPT !.pc = "transfer", !.guess = guess]
           /\ UNCHANGED history
  <2>1. First \in Books /\ task.pc = "estimate" /\ task.todo # {}
    BY FirstIn DEF EstimateBook, TypeOK
  <2>2. guess \in Nat /\ guess' = guess
    <3>1. task'.todo = task.todo /\ task'.mode = task.mode
      BY <1>3 DEF TypeOK, Task
    <3> QED
      BY <1>1, <2>1, <3>1, EstimateType DEF Estimate, First, data
  <2> HIDE DEF guess
  <2>3. task' \in Task
    BY <1>3, <2>2 DEF TypeOK, Task, Stages
  <2>4. TypeOK'
    BY <1>1, <1>3, <2>3 DEF TypeOK, DataType, scheduler, history
  <2>5. Shape' /\ Permission'
    BY <1>1, <1>3, <2>1 DEF TypeOK, Task, Loop, Shape, Permission, Files, history, scheduler
  <2>6. Progress'
    BY <1>1, <1>3, <2>1 DEF TypeOK, Task, Loop, Progress, Settled, Files, history, data
  <2>7. Within'
    <3>1. Estimate(First, task.mode)' = guess
      BY <2>2 DEF guess
    <3> QED
      BY <1>1, <1>3, <2>1, <2>2, <3>1 DEF TypeOK, Task, Loop, Within, Files, NoLimit, history, data
  <2>8. MetasDone'
    BY <1>1, <1>3, <2>1 DEF TypeOK, Task, Loop, MetasDone, Files, history, data
  <2> QED
    BY <1>1, <2>4, <2>5, <2>6, <2>7, <2>8 DEF Loop
<1> QED
  BY <1>2, <1>3 DEF EstimateBook
-----------------------------------------------------------------------------
(* The pass of one book *)

\* The book in hand is behind the loop when its pass has ended well, and it is
\* done; what it has moved was estimated, unless it was not the book.
LEMMA BookDoneInv ==
    ASSUME Inv, task.pc = "transfer", NEW book \in Books, book = First,
           NEW bytes \in Nat, BookDone(bytes),
           DataType', FreshIsGood', UNCHANGED <<scheduler, meta, failures, outside>>,
           \A b \in Books \ {book} : file'[b] = file[b] /\ object'[b] = object[b] /\ row'[b] = row[b],
           conflict \subseteq conflict',
           Settled(book)',
           \/ bytes <= Estimate(book, task.mode)
           \/ object'[book] = "foreign"
    PROVE  Inv'
<1>1. book \in task.todo
  BY FirstIn DEF Inv, TypeOK, Loop, Shape
<1>2. CASE task.op = "book"
  <2>1. End("ok", "no")
    BY <1>2 DEF BookDone
  <2>2. failures' \in 0..MaxFailures /\ outside' \in 0..MaxOutside /\ scheduler' = scheduler
    BY DEF Inv, TypeOK
  <2> QED
    BY <2>1, <2>2, EndInv
<1>3. CASE task.op # "book"
  <2>1. /\ task' = [task EXCEPT !.pc = "estimate", !.todo = @ \ {book}, !.guess = 0,
                                !.spent = @ + task.guess, !.moved = @ + bytes]
        /\ UNCHANGED history
    BY <1>3 DEF BookDone
  <2>2. task.op = "all" /\ task.todo \subseteq task.listed /\ task.listed \subseteq Books
    BY <1>3 DEF Inv, TypeOK, Task, Loop, Shape, Progress, Files
  <2>3. /\ task \in Task /\ task.todo \subseteq Books
        /\ task.spent \in Nat /\ task.guess \in Nat /\ task.moved \in Nat
    BY DEF Inv, TypeOK, Task
  <2>4. task.spent + task.guess \in Nat /\ task.moved + bytes \in Nat
    BY <2>3
  <2>5. /\ task' \in Task
        /\ task'.pc = "estimate" /\ task'.op = "all" /\ task'.mode = task.mode
        /\ task'.listed = task.listed /\ task'.todo = task.todo \ {book}
        /\ task'.limit = task.limit /\ task'.result = task.result
        /\ task'.spent = task.spent + task.guess /\ task'.moved = task.moved + bytes
    BY <2>1, <2>2, <2>3, <2>4 DEF Task, Stages
  <2>6. TypeOK'
    BY <2>1, <2>3, <2>5 DEF Inv, TypeOK, DataType, scheduler, history
  <2>7. Shape' /\ Permission'
    BY <2>1, <2>5 DEF Inv, Loop, Shape, Permission, Files, history, scheduler
  <2>8. Progress'
    <3>1. task'.listed \ task'.todo \subseteq (task.listed \ task.todo) \cup {book}
      BY <2>5
    <3>2. \A b \in Books \ {book} : Settled(b) => Settled(b)'
      BY DEF Settled
    <3>3. \A b \in task.listed \ task.todo : b \in Books \ {book}
      BY <1>1, <2>2
    <3>4. \A b \in Books \ task.listed : row'[b] = row[b] /\ object'[b] = object[b]
      BY <1>1, <2>2
    <3>5. ASSUME NEW b \in task'.listed \ task'.todo
          PROVE  b \in touched' \/ Settled(b)'
      <4>1. CASE b = book
        BY <4>1
      <4>2. CASE b # book
        <5>1. b \in task.listed \ task.todo /\ touched' = touched
          BY <2>1, <3>1, <4>2 DEF history
        <5>2. b \in touched \/ Settled(b)
          BY <2>2, <5>1 DEF Inv, Loop, Progress, Files
        <5> QED
          BY <3>2, <3>3, <5>1, <5>2
      <4> QED
        BY <4>1, <4>2
    <3> QED
      BY <2>1, <2>2, <2>5, <3>4, <3>5 DEF Inv, Loop, Progress, Files, history
  <2>9. Within'
    <3>1. SUFFICES ASSUME task.limit # NoLimit
                   PROVE  Within'
      BY <2>2, <2>5 DEF Inv, Loop, Within, Files
    <3>2. CASE touched # {}
      BY <2>1, <2>2, <2>5, <3>2 DEF Inv, Loop, Within, Files, history
    <3>3. CASE \E b \in task.listed \ task.todo : object[b] = "foreign"
      BY <1>1, <2>2, <2>5, <3>3 DEF Inv, Loop, Within, Files
    <3>4. CASE object'[book] = "foreign"
      BY <1>1, <2>2, <2>5, <3>4 DEF Inv, Loop, Within, Files
    <3>5. CASE /\ bytes <= task.guess
               /\ task.moved <= task.spent
               /\ task.spent + task.guess <= task.limit
      <4>1. task.limit \in Int
        BY <2>3 DEF Task
      <4>2. task'.moved <= task'.spent /\ task'.spent <= task'.limit
        BY <2>3, <2>5, <3>5, <4>1
      <4> QED
        BY <2>2, <2>5, <4>2 DEF Inv, Loop, Within, Files
    <3>6. task.guess = Estimate(book, task.mode) \/ touched # {}
            \/ \E b \in task.listed \ task.todo : object[b] = "foreign"
      BY <2>2, <3>1 DEF Inv, Loop, Within
    <3> QED
      BY <2>2, <3>1, <3>2, <3>3, <3>4, <3>5, <3>6 DEF Inv, Loop, Within
  <2>10. MetasDone'
    BY <2>1, <2>2, <2>5 DEF Inv, Loop, MetasDone, Files, history
  <2> QED
    BY <2>6, <2>7, <2>8, <2>9, <2>10 DEF Inv, Loop
<1> QED
  BY <1>2, <1>3
LEMMA PassInv == ASSUME Inv, BookUnchanged \/ Upload \/ Download \/ Conflict PROVE Inv'
<1>1. PICK book \in Books : book = First
  BY FirstIn DEF Inv, TypeOK, Loop, Shape, BookUnchanged, Upload, Download, Conflict
<1>2. /\ task.pc = "transfer"
      /\ UNCHANGED <<scheduler, meta, failures, outside>>
      /\ DataType'
  BY <1>1 DEF BookUnchanged, Upload, Download, Conflict, Inv, TypeOK, DataType, data, Rows
<1>3. /\ \A b \in Books \ {book} : file'[b] = file[b] /\ object'[b] = object[b] /\ row'[b] = row[b]
      /\ conflict \subseteq conflict'
  BY <1>1 DEF BookUnchanged, Upload, Download, Conflict, Inv, TypeOK, data
<1>4. FreshIsGood'
  BY <1>1 DEF BookUnchanged, Upload, Download, Conflict, Inv, TypeOK, FreshIsGood, data
<1>5. FileSize[book] \in Nat /\ ForeignSize \in Nat
  BY SizeAssumption
<1>6. CASE BookUnchanged
  <2>1. Settled(book)'
    BY <1>1, <1>6 DEF BookUnchanged, Pushes, Settled, Inv, FreshIsGood, data
  <2>2. 0 <= Estimate(book, task.mode)
    BY EstimateType DEF Inv, TypeOK, DataType
  <2>3. BookDone(0)
    BY <1>6 DEF BookUnchanged
  <2> QED
    BY <1>1, <1>2, <1>3, <1>4, <2>1, <2>2, <2>3, BookDoneInv
<1>7. CASE Upload \/ Download
  <2>1. Settled(book)'
    BY <1>1, <1>7 DEF Upload, Download, Pushes, Settled, Inv, TypeOK
  <2>2. FileSize[book] <= Estimate(book, task.mode)
    BY <1>1, <1>5, <1>7 DEF Upload, Download, Pushes, Pulls, Estimate, SizeOf
  <2>3. BookDone(FileSize[book])
    BY <1>1, <1>7 DEF Upload, Download
  <2> QED
    BY <1>1, <1>2, <1>3, <1>4, <1>5, <2>1, <2>2, <2>3, BookDoneInv
<1>8. CASE Conflict
  <2>1. Settled(book)' /\ object'[book] = "foreign"
    BY <1>1, <1>8 DEF Conflict, Settled
  <2>2. BookDone(ForeignSize)
    BY <1>8 DEF Conflict
  <2> QED
    BY <1>1, <1>2, <1>3, <1>4, <1>5, <2>1, <2>2, BookDoneInv
<1> QED
  BY <1>6, <1>7, <1>8

\* The operation ends: all done, with an error, or because a request has failed.
LEMMA GiveUpInv == ASSUME Inv, MetaError \/ Complete \/ BookError \/ Fail PROVE Inv'
<1>1. DataType' /\ FreshIsGood' /\ scheduler' = scheduler
  BY DEF MetaError, Complete, BookError, Fail, Inv, TypeOK, DataType, FreshIsGood, data
<1>2. failures' \in 0..MaxFailures /\ outside' \in 0..MaxOutside
  <2>1. CASE Fail
    BY <2>1, BoundAssumption DEF Fail, Inv, TypeOK
  <2>2. CASE MetaError \/ Complete \/ BookError
    BY <2>2 DEF MetaError, Complete, BookError, Inv, TypeOK
  <2> QED
    BY <2>1, <2>2
<1>3. End("error", "no") \/ End("ok", "no")
  BY DEF MetaError, Complete, BookError, Fail
<1> QED
  BY <1>1, <1>2, <1>3, EndInv

-----------------------------------------------------------------------------
(* The theorems *)

LEMMA InitInv == Init => Inv
<1> SUFFICES ASSUME Init PROVE Inv
  OBVIOUS
<1>1. task \in Task /\ task.pc = "idle" /\ task.op = "none" /\ task.todo = {}
      /\ task.result = "none"
  BY IdleType DEF Init, Idle
<1>2. TypeOK
  <2>1. DataType
    BY DEF Init, DataType, Metas, Rows
  <2>2. limit \in Int /\ limit >= NoLimit /\ failures \in 0..MaxFailures /\ outside \in 0..MaxOutside
    BY BoundAssumption DEF Init, NoLimit
  <2> QED
    BY <1>1, <2>1, <2>2 DEF Init, TypeOK, DataType
<1>3. FreshIsGood
  BY DEF Init, FreshIsGood
<1>4. Shape /\ Permission /\ MetasDone /\ Progress /\ Within
  BY <1>1 DEF Shape, Permission, MetasDone, Progress, Within, Files
<1> QED
  BY <1>2, <1>3, <1>4 DEF Inv, Loop

LEMMA NextInv == ASSUME Inv, [Next]_vars PROVE Inv'
<1>1. CASE Scheduling
  BY <1>1, SchedulingInv
<1>2. ASSUME NEW b \in Books, Writing(b) PROVE Inv'
  BY <1>2, WritingInv
<1>3. CASE (\E mode \in Modes : SyncAllStart(mode)) \/ (\E b \in Books : SyncSingleMeta(b) \/ SyncBook(b))
  BY <1>3, StartInv
<1>4. CASE Step \/ Fail
  BY <1>4, StageInv, EstimateInv, PassInv, GiveUpInv DEF Step
<1>5. CASE UNCHANGED vars
  BY <1>5 DEF vars, scheduler, data, history, Inv, TypeOK, FreshIsGood, Loop, Shape, Permission, MetasDone,
              Progress, Settled, Within, Estimate, First
<1> QED
  BY <1>1, <1>2, <1>3, <1>4, <1>5 DEF Next

LEMMA InvHolds == Spec => []Inv
BY InitInv, NextInv, PTL DEF Spec

\* Type correctness of sync_all and its surroundings.
THEOREM AllTypes == Spec => []TypeOK
<1>1. Inv => TypeOK
  BY DEF Inv
<1> QED
  BY <1>1, InvHolds, PTL

\* sync_all transfers no more bytes of books than the limit it has read, unless
\* somebody writes a book meanwhile or it downloads an object that is not the book.
THEOREM LimitIsKept == Spec => []LimitKept
<1>1. ASSUME Inv PROVE LimitKept
  <2> SUFFICES ASSUME task.op = "all", task.limit # NoLimit
               PROVE  \/ task.moved <= task.limit
                      \/ touched # {}
                      \/ \E b \in task.listed \ task.todo : object[b] = "foreign"
    BY DEF LimitKept
  <2>1. task.moved \in Nat /\ task.spent \in Nat /\ task.limit \in Int
    BY <1>1 DEF Inv, TypeOK, Task
  <2> QED
    BY <1>1, <2>1 DEF Inv, Loop, Within
<1> QED
  BY <1>1, InvHolds, PTL

\* No operation transfers a book when the policy has not permitted books at any
\* time since it began.
THEOREM PolicyIsRespected == Spec => []PolicyRespected
<1>1. Inv => PolicyRespected
  BY DEF Inv, Loop, Permission, Files, PolicyRespected
<1> QED
  BY <1>1, InvHolds, PTL

\* What is behind the loop of sync_all is the same here and there, or its
\* conflict is recorded, or somebody has written it meanwhile.
THEOREM NothingSkipped == Spec => []BehindIsDone
<1>1. Inv => BehindIsDone
  BY DEF Inv, Loop, Progress, Files, BehindIsDone
<1> QED
  BY <1>1, InvHolds, PTL

\* A bidirectional sync_all that reports success has made the metadata of every
\* book the same here and there, and it has done every book that anybody has: all
\* but what somebody has written meanwhile, unless it has told the app that the
\* policy keeps the books back, or that the byte limit has stopped it, and then
\* all in front of the one that would have gone beyond.
THEOREM SuccessIsComplete == Spec => CompleteIsDone
<1>1. ASSUME Inv, [Next]_vars, task.op = "all", task.mode = "both", task'.result = "ok",
             NEW b \in Books \ touched
      PROVE  /\ meta[b] \in {"none", "same"}
             /\ \/ Settled(b)
                \/ row[b] = "none" /\ object[b] = "none"
                \/ task'.told = "policy"
                \/ task'.told = "byte_limit" /\ b \in task.todo
  <2>1. task.result = "none" /\ task \in Task
    BY <1>1 DEF Inv, TypeOK, Task, Loop, Shape
  <2>2. task' # task
    BY <1>1, <2>1
  <2>3. \/ Complete
        \/ Policy /\ Pause("policy")
        \/ EstimateBook /\ Pause("byte_limit")
    <3>1. ASSUME BookDone(0) \/ BookDone(FileSize[First]) \/ BookDone(ForeignSize)
          PROVE  FALSE
      BY <1>1, <2>1, <3>1 DEF BookDone, Task
    <3>2. ASSUME Policy, ~Pause("policy") PROVE FALSE
      BY <1>1, <2>1, <3>2 DEF Policy, Task
    <3>3. ASSUME EstimateBook, ~Pause("byte_limit") PROVE FALSE
      BY <1>1, <2>1, <3>3 DEF EstimateBook, Task
    <3>4. ASSUME End("error", "no") PROVE FALSE
      BY <1>1, <3>4 DEF End, Idle
    <3>5. ASSUME MetaStep PROVE FALSE
      BY <1>1, <2>1, <3>5 DEF MetaStep, Task
    <3>6. ASSUME NEW stage, NEW op, NEW mode, NEW todo, Begin(op, mode, stage, todo) PROVE FALSE
      BY <1>1, <3>6 DEF Begin, Idle
    <3>7. ASSUME ListMetas \/ ListBooks PROVE FALSE
      BY <1>1, <2>1, <3>7 DEF ListMetas, ListBooks, Task
    <3>8. ASSUME Scheduling \/ (\E c \in Books : Writing(c)) \/ UNCHANGED vars PROVE FALSE
      BY <2>2, <3>8
         DEF Scheduling, SetNetworkType, SetBlobByteLimit, SetPaused, Writing, Write, PutLocalBook,
             PutLocalMeta, RemoteMeta, BreakMeta, TouchFile, TouchObject, vars
    <3>9. ASSUME BookUnchanged \/ Upload \/ Download \/ Conflict PROVE FALSE
      BY <3>1, <3>9 DEF BookUnchanged, Upload, Download, Conflict
    <3>10. ASSUME MetaError \/ BookError \/ Fail PROVE FALSE
      BY <3>4, <3>10 DEF MetaError, BookError, Fail
    <3>11. ASSUME NEW c \in Books, SyncSingleMeta(c) \/ SyncBook(c) PROVE FALSE
      BY <3>4, <3>6, <3>11 DEF SyncSingleMeta, SyncBook
    <3>12. ASSUME NEW mode \in Modes, SyncAllStart(mode) PROVE FALSE
      BY <3>6, <3>12 DEF SyncAllStart
    <3> QED
      BY <1>1, <3>2, <3>3, <3>5, <3>7, <3>8, <3>9, <3>10, <3>11, <3>12 DEF Next, Step
  <2>4. meta[b] \in {"none", "same"}
    BY <1>1, <2>3 DEF Complete, Policy, EstimateBook, Inv, Loop, MetasDone, Files
  <2>5. CASE Complete
    BY <1>1, <2>4, <2>5 DEF Complete, Inv, Loop, Progress, Files
  <2>6. CASE Policy /\ Pause("policy")
    BY <2>4, <2>6, IdleType DEF Pause, End, Idle
  <2>7. CASE EstimateBook /\ Pause("byte_limit")
    <3>1. task'.told = "byte_limit"
      BY <2>7 DEF Pause, End, Idle
    <3> QED
      BY <1>1, <2>4, <2>7, <3>1 DEF EstimateBook, Inv, Loop, Progress, Files
  <2> QED
    BY <2>3, <2>5, <2>6, <2>7
<1>2. Inv /\ [Next]_vars => [task.op = "all" /\ task.mode = "both" /\ task'.result = "ok" =>
          \A b \in Books \ touched :
              /\ meta[b] \in {"none", "same"}
              /\ \/ Settled(b)
                 \/ row[b] = "none" /\ object[b] = "none"
                 \/ task'.told = "policy"
                 \/ task'.told = "byte_limit" /\ b \in task.todo]_vars
  BY <1>1
<1> QED
  BY <1>2, InvHolds, PTL DEF Spec, CompleteIsDone
=============================================================================
