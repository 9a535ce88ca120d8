-------------------------- MODULE NativeCallsProofs --------------------------
(***************************************************************************)
(* Proofs about NativeCalls, for any number of threads and error texts on  *)
(* every platform.  The invariant has a part for each thread (Good: its    *)
(* locks, and where its error text is), which a step of another thread     *)
(* leaves alone, and a part for the instance (Instance).                   *)
(***************************************************************************)
EXTENDS NativeCalls, TLAPS

Locked(t) ==
    /\ mutex = t <=> task[t].kind = "call" /\ task[t].pc \notin {"idle", "mutex", "close", "destroy", "detach"}
    /\ nslock = t <=> platform = "ios" /\ Owns(t)
    /\ task[t].pc = "mutex" => task[t].kind = "call"

Text(t) ==
    /\ task[t].pc \in {"mutex", "bridge", "native", "running"} => task[t].code = "ok"
    /\ task[t].pc = "failed" /\ task[t].converted =>
           (task[t].own # "" /\ local[t] = task[t].own) \/ ~registered
    /\ task[t].pc = "answer" /\ task[t].kind # "get" /\ task[t].code # "ok" /\ task[t].converted =>
           \/ task[t].text = task[t].own /\ task[t].own # ""
           \/ task[t].text = "closed" /\ closed

Good(t) == Locked(t) /\ Text(t)

Instance ==
    /\ ~registered => closed
    /\ platform = "ios" => (attached <=> ~closed) /\ (registered <=> ~closed)
    /\ \A t \in Threads : task[t].pc \in {"destroy", "detach"} => closed
    /\ \A t \in Threads : platform = "ios" /\ Owns(t) => ~closed

Inv == TypeOK /\ Instance /\ \A t \in Threads : Good(t)

-----------------------------------------------------------------------------
(* What a step does to the task of its thread, and to no other. *)

Others(t) == \A s \in Threads : s # t => task'[s] = task[s]

LEMMA TaskSet ==
    ASSUME TypeOK, NEW t \in Threads, NEW x \in Task, task' = [task EXCEPT ![t] = x]
    PROVE  task' \in [Threads -> Task] /\ Others(t) /\ task'[t] = x
  BY DEF TypeOK, Others

LEMMA TaskPc ==
    ASSUME NEW x \in Task, NEW stage \in Stages
    PROVE  [x EXCEPT !.pc = stage] \in Task
  BY DEF Task

LEMMA GotoTask ==
    ASSUME TypeOK, NEW t \in Threads, NEW stage \in Stages, Goto(t, stage)
    PROVE  /\ task' \in [Threads -> Task] /\ Others(t)
           /\ task'[t].pc = stage /\ task'[t].kind = task[t].kind /\ task'[t].code = task[t].code
           /\ task'[t].own = task[t].own /\ task'[t].converted = task[t].converted
           /\ task'[t].text = task[t].text
<1>1. task[t] \in Task /\ task \in [Threads -> Task]
  BY DEF TypeOK
<1>2. task' = [task EXCEPT ![t] = [task[t] EXCEPT !.pc = stage]]
  BY DEF Goto
<1>3. [task[t] EXCEPT !.pc = stage] \in Task
  BY <1>1, TaskPc
<1>4. task' \in [Threads -> Task] /\ Others(t) /\ task'[t] = [task[t] EXCEPT !.pc = stage]
  BY <1>2, <1>3, TaskSet
<1> QED
  BY <1>1, <1>4 DEF Task

LEMMA FailedType ==
    ASSUME NEW x \in Task, NEW stage \in Stages, NEW code \in {"ok", "error", "invalid_arg"},
           NEW own \in Texts \cup {""}
    PROVE  [x EXCEPT !.pc = stage, !.code = code, !.own = own] \in Task
  BY DEF Task

LEMMA FailedTask ==
    ASSUME TypeOK, NEW t \in Threads, NEW code \in {"error", "invalid_arg"},
           NEW own \in Texts \cup {""}, Failed(t, code, own)
    PROVE  /\ task' \in [Threads -> Task] /\ Others(t)
           /\ task'[t].pc = IF task[t].kind = "get" THEN "answer" ELSE "failed"
           /\ task'[t].kind = task[t].kind /\ task'[t].code = code /\ task'[t].own = own
           /\ task'[t].converted = task[t].converted /\ task'[t].text = task[t].text
<1> DEFINE stage == IF task[t].kind = "get" THEN "answer" ELSE "failed"
<1>0. stage \in Stages
  BY DEF Stages
<1>1. task[t] \in Task /\ task \in [Threads -> Task]
  BY DEF TypeOK
<1>2. task' = [task EXCEPT ![t] = [task[t] EXCEPT !.pc = stage, !.code = code, !.own = own]]
  BY DEF Failed
<1> HIDE DEF stage
<1>3. [task[t] EXCEPT !.pc = stage, !.code = code, !.own = own] \in Task
  BY <1>0, <1>1, FailedType
<1>4. /\ task' \in [Threads -> Task] /\ Others(t)
      /\ task'[t] = [task[t] EXCEPT !.pc = stage, !.code = code, !.own = own]
  BY <1>2, <1>3, TaskSet
<1>5. /\ task'[t].pc = stage
      /\ task'[t].kind = task[t].kind /\ task'[t].code = code /\ task'[t].own = own
      /\ task'[t].converted = task[t].converted /\ task'[t].text = task[t].text
  BY <1>1, <1>4 DEF Task
<1> QED
  BY <1>4, <1>5 DEF stage

LEMMA IdleType == Idle \in Task
  BY DEF Idle, Task, Stages

\* A step of thread t that leaves the locks and texts of the others alone.
Alone(t) ==
    /\ platform' = platform
    /\ Others(t)
    /\ registered' => registered
    /\ closed => closed'
    /\ \A s \in Threads : s # t =>
           /\ local'[s] = local[s]
           /\ mutex' = s <=> mutex = s
           /\ nslock' = s <=> nslock = s

LEMMA GoodOther ==
    ASSUME Inv, NEW t \in Threads, Alone(t), NEW s \in Threads, s # t, registered \in BOOLEAN
    PROVE  Good(s)'
<1>1. /\ platform' = platform /\ task'[s] = task[s] /\ local'[s] = local[s]
      /\ mutex' = s <=> mutex = s
      /\ nslock' = s <=> nslock = s
      /\ ~registered => ~registered'
      /\ closed => closed'
  BY DEF Alone, Others
<1>2. Locked(s) /\ Text(s)
  BY DEF Inv, Good
<1>3. Locked(s)'
  BY <1>1, <1>2 DEF Locked, Owns
<1>4. Text(s)'
  BY <1>1, <1>2 DEF Text
<1> QED
  BY <1>3, <1>4 DEF Good

LEMMA InitInv == Init => Inv
<1> SUFFICES ASSUME Init PROVE Inv
  OBVIOUS
<1>1. TypeOK
  BY IdleType DEF Init, TypeOK
<1>2. Instance
  BY DEF Init, Instance, Idle, Owns
<1>3. \A t \in Threads : Good(t)
  BY NobodyAssumption DEF Init, Good, Locked, Text, Idle, Owns
<1> QED
  BY <1>1, <1>2, <1>3 DEF Inv

-----------------------------------------------------------------------------
(* Steps that leave the instance alone: what is left to show of thread t. *)

LEMMA CallStep ==
    ASSUME Inv, NEW t \in Threads, Alone(t), UNCHANGED instance,
           task' \in [Threads -> Task],
           mutex' \in Threads \cup {Nobody}, nslock' \in Threads \cup {Nobody},
           shared' \in Texts \cup {""}, local' \in [Threads -> Texts \cup {""}],
           Good(t)',
           task'[t].pc \in {"destroy", "detach"} => closed,
           platform = "ios" /\ task'[t].pc \in {"native", "running"} => ~closed
    PROVE  Inv'
<1>1. TypeOK'
  BY DEF Inv, TypeOK, Alone, instance
<1>2. \A s \in Threads : Good(s)'
  BY GoodOther DEF Inv, TypeOK
<1>3. Instance'
  BY DEF Inv, Instance, Owns, Alone, Others, instance
<1> QED
  BY <1>1, <1>2, <1>3 DEF Inv

LEMMA InvFacts ==
    ASSUME Inv, NEW t \in Threads
    PROVE  /\ TypeOK /\ Locked(t) /\ Text(t)
           /\ task[t] \in Task /\ task \in [Threads -> Task]
           /\ mutex \in Threads \cup {Nobody} /\ nslock \in Threads \cup {Nobody}
           /\ shared \in Texts \cup {""} /\ local \in [Threads -> Texts \cup {""}]
           /\ Nobody \notin Threads
  BY NobodyAssumption DEF Inv, Good, TypeOK

LEMMA BeginStep ==
    ASSUME Inv, NEW t \in Threads, NEW kind \in Kinds, Begin(t, kind)
    PROVE  Inv'
<1> DEFINE x == [Idle EXCEPT !.pc = IF kind = "call" THEN "mutex" ELSE "bridge", !.kind = kind]
<1>0. TypeOK /\ Locked(t) /\ Text(t)
  BY InvFacts
<1>1. /\ x \in Task /\ x.pc = (IF kind = "call" THEN "mutex" ELSE "bridge")
      /\ x.kind = kind /\ x.code = "ok"
  BY DEF Idle, Task, Stages, Kinds
<1>2. task' = [task EXCEPT ![t] = x]
  BY DEF Begin
<1> HIDE DEF x
<1>3. task' \in [Threads -> Task] /\ Others(t) /\ task'[t] = x
  BY <1>0, <1>1, <1>2, TaskSet
<1>4. Alone(t) /\ UNCHANGED <<mutex, nslock, shared, local, instance>>
  BY <1>3 DEF Begin, locks, errors, instance, Alone
<1>5. Locked(t)'
  BY <1>0, <1>1, <1>3, <1>4 DEF Begin, Locked, Owns, Alone, Kinds
<1>6. Text(t)'
  BY <1>0, <1>1, <1>3 DEF Text
<1>7. task'[t].pc \notin {"destroy", "detach", "native", "running"}
  BY <1>1, <1>3
<1> QED
  BY <1>3, <1>4, <1>5, <1>6, <1>7, InvFacts, CallStep DEF Good

LEMMA TakeMutexStep ==
    ASSUME Inv, NEW t \in Threads, TakeMutex(t)
    PROVE  Inv'
<1>0. TypeOK /\ Locked(t) /\ Text(t) /\ Nobody \notin Threads
  BY InvFacts
<1>1. /\ task' \in [Threads -> Task] /\ Others(t)
      /\ task'[t].pc = "bridge" /\ task'[t].kind = task[t].kind /\ task'[t].code = task[t].code
  BY <1>0, GotoTask DEF TakeMutex, Stages
<1>2. /\ UNCHANGED <<platform, nslock, shared, local, instance>>
      /\ mutex = Nobody /\ mutex' = t /\ task[t].pc = "mutex"
  BY DEF TakeMutex, errors
<1>3. Alone(t)
  BY <1>0, <1>1, <1>2 DEF Alone, instance
<1>4. Locked(t)'
  BY <1>0, <1>1, <1>2 DEF Locked, Owns
<1>5. Text(t)'
  BY <1>0, <1>1, <1>2 DEF Text
<1> QED
  BY <1>1, <1>2, <1>3, <1>4, <1>5, InvFacts, CallStep DEF Good

LEMMA DeliverStep ==
    ASSUME Inv, NEW t \in Threads, Deliver(t)
    PROVE  Inv'
<1>0. TypeOK /\ Locked(t) /\ Text(t) /\ Nobody \notin Threads /\ mutex \in Threads \cup {Nobody}
  BY InvFacts
<1>1. task' \in [Threads -> Task] /\ Others(t) /\ task'[t] = Idle
  BY <1>0, IdleType, TaskSet DEF Deliver
<1>2. /\ UNCHANGED <<platform, nslock, shared, local, instance>>
      /\ mutex' = (IF mutex = t THEN Nobody ELSE mutex) /\ task[t].pc = "answer"
  BY DEF Deliver, errors
<1>3. Alone(t) /\ mutex' \in Threads \cup {Nobody} /\ mutex' # t
  BY <1>0, <1>1, <1>2 DEF Alone, instance
<1>4. task'[t].pc = "idle" /\ task'[t].kind = "none"
  <2>1. Idle.pc = "idle" /\ Idle.kind = "none"
    BY DEF Idle
  <2> QED
    BY <1>1, <2>1
<1>5. Locked(t)'
  BY <1>0, <1>2, <1>3, <1>4 DEF Locked, Owns
<1>6. Text(t)'
  BY <1>4 DEF Text
<1> QED
  BY <1>1, <1>2, <1>3, <1>4, <1>5, <1>6, InvFacts, CallStep DEF Good

LEMMA ConvertErrorStep ==
    ASSUME Inv, NEW t \in Threads, ConvertError(t)
    PROVE  Inv'
<1> DEFINE stage == IF task[t].kind = "get" THEN "answer" ELSE "failed"
<1> DEFINE x == [task[t] EXCEPT !.pc = stage, !.code = "invalid_arg", !.converted = FALSE]
<1>0. TypeOK /\ Locked(t) /\ Text(t) /\ task[t] \in Task
  BY InvFacts
<1>a. stage \in {"answer", "failed"}
  OBVIOUS
<1>b. task' = [task EXCEPT ![t] = x]
  BY DEF ConvertError
<1> HIDE DEF stage
<1>1. /\ x \in Task /\ x.pc = stage /\ x.kind = task[t].kind /\ x.converted = FALSE
  BY <1>0, <1>a DEF Task, Stages
<1> HIDE DEF x
<1>2. task' \in [Threads -> Task] /\ Others(t) /\ task'[t] = x
  BY <1>0, <1>1, <1>b, TaskSet
<1>3. /\ UNCHANGED <<platform, mutex, nslock, shared, local, instance>>
      /\ task[t].pc = "bridge" /\ platform # "ios"
  BY DEF ConvertError, locks, errors
<1>4. Alone(t)
  BY <1>2, <1>3 DEF Alone, instance
<1>5. Locked(t)'
  BY <1>0, <1>1, <1>2, <1>3, <1>a DEF Locked, Owns
<1>6. Text(t)'
  BY <1>0, <1>1, <1>2, <1>a DEF Text
<1> QED
  BY <1>1, <1>2, <1>3, <1>4, <1>5, <1>6, <1>a, InvFacts, CallStep DEF Good

LEMMA EnterStep ==
    ASSUME Inv, NEW t \in Threads, Enter(t)
    PROVE  Inv'
<1>0. TypeOK /\ Locked(t) /\ Text(t)
  BY InvFacts
<1>1. /\ task' \in [Threads -> Task] /\ Others(t)
      /\ task'[t].pc = "native" /\ task'[t].kind = task[t].kind /\ task'[t].code = task[t].code
  BY <1>0, GotoTask DEF Enter, Stages
<1>2. /\ UNCHANGED <<platform, mutex, nslock, shared, local, instance>>
      /\ platform # "ios" /\ task[t].pc = "bridge"
  BY DEF Enter, locks, errors
<1>3. Alone(t)
  BY <1>1, <1>2 DEF Alone, instance
<1>4. Locked(t)'
  BY <1>0, <1>1, <1>2 DEF Locked, Owns
<1>5. Text(t)'
  BY <1>0, <1>1, <1>2 DEF Text
<1> QED
  BY <1>1, <1>2, <1>3, <1>4, <1>5, InvFacts, CallStep DEF Good

LEMMA UnlockOthers ==
    ASSUME Inv, NEW t \in Threads, Unlock(t)
    PROVE  /\ nslock' # t /\ nslock' \in Threads \cup {Nobody}
           /\ \A s \in Threads : s # t => (nslock' = s <=> nslock = s)
<1>1. Nobody \notin Threads /\ nslock \in Threads \cup {Nobody}
  BY InvFacts
<1>2. nslock' = IF nslock = t THEN Nobody ELSE nslock
  BY DEF Unlock
<1>3. CASE nslock = t
  BY <1>1, <1>2, <1>3
<1>4. CASE nslock # t
  BY <1>1, <1>2, <1>4
<1> QED
  BY <1>3, <1>4

LEMMA EnterLockedStep ==
    ASSUME Inv, NEW t \in Threads, EnterLocked(t)
    PROVE  Inv'
<1>0. /\ TypeOK /\ Locked(t) /\ Text(t) /\ Nobody \notin Threads
      /\ platform = "ios" /\ nslock = Nobody /\ task[t].pc = "bridge"
      /\ UNCHANGED <<platform, mutex, shared, local, instance>>
  BY InvFacts DEF EnterLocked, errors
<1>1. CASE closed
  <2>1. Failed(t, "invalid_arg", "") /\ nslock' = nslock
    BY <1>1 DEF EnterLocked
  <2>2. /\ task' \in [Threads -> Task] /\ Others(t)
        /\ task'[t].pc \in {"answer", "failed"} /\ task'[t].kind = task[t].kind
        /\ task'[t].pc = "answer" => task[t].kind = "get"
    BY <1>0, <2>1, FailedTask
  <2>3. Alone(t)
    BY <1>0, <2>1, <2>2 DEF Alone, instance
  <2>4. Locked(t)'
    BY <1>0, <2>1, <2>2 DEF Locked, Owns
  <2>5. ~registered'
    BY <1>0, <1>1 DEF Inv, Instance, instance
  <2>6. Text(t)'
    BY <2>2, <2>5 DEF Text
  <2> QED
    BY <1>0, <2>1, <2>2, <2>3, <2>4, <2>6, InvFacts, CallStep DEF Good
<1>2. CASE ~closed
  <2>1. Goto(t, "native") /\ nslock' = t
    BY <1>2 DEF EnterLocked
  <2>2. /\ task' \in [Threads -> Task] /\ Others(t)
        /\ task'[t].pc = "native" /\ task'[t].kind = task[t].kind /\ task'[t].code = task[t].code
    BY <1>0, <2>1, GotoTask DEF Stages
  <2>3. Alone(t)
    BY <1>0, <2>1, <2>2 DEF Alone, instance
  <2>4. Locked(t)'
    BY <1>0, <2>1, <2>2 DEF Locked, Owns
  <2>5. Text(t)'
    BY <1>0, <2>2 DEF Text
  <2> QED
    BY <1>0, <1>2, <2>1, <2>2, <2>3, <2>4, <2>5, InvFacts, CallStep DEF Good
<1> QED
  BY <1>1, <1>2

LEMMA GetHandleStep ==
    ASSUME Inv, NEW t \in Threads, GetHandle(t)
    PROVE  Inv'
<1>0. /\ TypeOK /\ Locked(t) /\ Text(t) /\ Nobody \notin Threads
      /\ task[t].pc = "native"
      /\ UNCHANGED <<platform, mutex, shared, local, instance>>
      /\ platform = "ios" => ~closed
  BY InvFacts DEF GetHandle, errors, Inv, Instance, Owns
<1>1. CASE registered
  <2>1. Goto(t, "running") /\ nslock' = nslock
    BY <1>1 DEF GetHandle
  <2>2. /\ task' \in [Threads -> Task] /\ Others(t)
        /\ task'[t].pc = "running" /\ task'[t].kind = task[t].kind /\ task'[t].code = task[t].code
    BY <1>0, <2>1, GotoTask DEF Stages
  <2>3. Alone(t)
    BY <1>0, <2>1, <2>2 DEF Alone, instance
  <2>4. Locked(t)'
    BY <1>0, <2>1, <2>2 DEF Locked, Owns
  <2>5. Text(t)'
    BY <1>0, <2>2 DEF Text
  <2> QED
    BY <1>0, <2>1, <2>2, <2>3, <2>4, <2>5, InvFacts, CallStep DEF Good
<1>2. CASE ~registered
  <2>1. Failed(t, "invalid_arg", "") /\ Unlock(t)
    BY <1>2 DEF GetHandle
  <2>2. /\ task' \in [Threads -> Task] /\ Others(t)
        /\ task'[t].pc \in {"answer", "failed"} /\ task'[t].kind = task[t].kind
        /\ task'[t].pc = "answer" => task[t].kind = "get"
    BY <1>0, <2>1, FailedTask
  <2>3. /\ nslock' # t /\ nslock' \in Threads \cup {Nobody}
        /\ \A s \in Threads : s # t => (nslock' = s <=> nslock = s)
    BY <2>1, UnlockOthers
  <2>4. Alone(t)
    BY <1>0, <2>2, <2>3 DEF Alone, instance
  <2>5. Locked(t)'
    BY <1>0, <2>2, <2>3 DEF Locked, Owns
  <2>6. Text(t)'
    BY <1>0, <1>2, <2>2 DEF Text, instance
  <2> QED
    BY <1>0, <2>2, <2>3, <2>4, <2>5, <2>6, InvFacts, CallStep DEF Good
<1> QED
  BY <1>1, <1>2

LEMMA SucceedStep ==
    ASSUME Inv, NEW t \in Threads, Succeed(t)
    PROVE  Inv'
<1>0. /\ TypeOK /\ Locked(t) /\ Text(t)
      /\ task[t].pc = "running" /\ Unlock(t)
      /\ UNCHANGED <<platform, mutex, shared, local, instance>>
  BY InvFacts DEF Succeed, errors
<1>1. /\ task' \in [Threads -> Task] /\ Others(t)
      /\ task'[t].pc = "answer" /\ task'[t].kind = task[t].kind /\ task'[t].code = task[t].code
  BY <1>0, GotoTask DEF Succeed, Stages
<1>2. /\ nslock' # t /\ nslock' \in Threads \cup {Nobody}
      /\ \A s \in Threads : s # t => (nslock' = s <=> nslock = s)
  BY <1>0, UnlockOthers
<1>3. Alone(t)
  BY <1>0, <1>1, <1>2 DEF Alone, instance
<1>4. Locked(t)'
  BY <1>0, <1>1, <1>2 DEF Locked, Owns
<1>5. Text(t)'
  BY <1>0, <1>1 DEF Text
<1> QED
  BY <1>0, <1>1, <1>2, <1>3, <1>4, <1>5, InvFacts, CallStep DEF Good

\* The text is noted for this thread before the call returns (set_last_error).
LEMMA FailStep ==
    ASSUME Inv, NEW t \in Threads, NEW text \in Texts, Fail(t, text)
    PROVE  Inv'
<1>0. /\ TypeOK /\ Locked(t) /\ Text(t) /\ local \in [Threads -> Texts \cup {""}]
      /\ task[t].pc = "running" /\ Unlock(t) /\ Failed(t, "error", text)
      /\ shared' = text /\ local' = [local EXCEPT ![t] = text]
      /\ UNCHANGED <<platform, mutex, instance>>
      /\ text # ""
  BY InvFacts, TextAssumption DEF Fail, SetLastError
<1>1. /\ task' \in [Threads -> Task] /\ Others(t)
      /\ task'[t].pc \in {"answer", "failed"} /\ task'[t].kind = task[t].kind
      /\ task'[t].pc = "answer" => task[t].kind = "get"
      /\ task'[t].own = text
  BY <1>0, FailedTask
<1>2. /\ nslock' # t /\ nslock' \in Threads \cup {Nobody}
      /\ \A s \in Threads : s # t => (nslock' = s <=> nslock = s)
  BY <1>0, UnlockOthers
<1>3. /\ local' \in [Threads -> Texts \cup {""}] /\ local'[t] = text
      /\ \A s \in Threads : s # t => local'[s] = local[s]
  BY <1>0
<1>4. Alone(t)
  BY <1>0, <1>1, <1>2, <1>3 DEF Alone, instance
<1>5. Locked(t)'
  BY <1>0, <1>1, <1>2 DEF Locked, Owns
<1>6. Text(t)'
  BY <1>0, <1>1, <1>3 DEF Text
<1> QED
  BY <1>0, <1>1, <1>2, <1>3, <1>4, <1>5, <1>6, InvFacts, CallStep DEF Good

\* kmo_sync_last_error gives the thread's own text before the handle's.
LEMMA LastErrorStep ==
    ASSUME Inv, NEW t \in Threads, LastError(t)
    PROVE  Inv'
<1> DEFINE x == [task[t] EXCEPT !.pc = "answer", !.text = LastText(t)]
<1>0. /\ TypeOK /\ Locked(t) /\ Text(t) /\ task[t] \in Task
      /\ local \in [Threads -> Texts \cup {""}] /\ shared \in Texts \cup {""}
      /\ task[t].pc = "failed"
      /\ UNCHANGED <<platform, mutex, nslock, shared, local, instance>>
      /\ ~registered => closed
      /\ task' = [task EXCEPT ![t] = x]
  BY InvFacts DEF LastError, locks, errors, Inv, Instance
<1>1. LastText(t) \in Texts \cup {"", "closed"}
  BY <1>0 DEF LastText
<1>2. /\ x \in Task /\ x.pc = "answer" /\ x.kind = task[t].kind /\ x.code = task[t].code
      /\ x.own = task[t].own /\ x.converted = task[t].converted /\ x.text = LastText(t)
  BY <1>0, <1>1 DEF Task, Stages
<1> HIDE DEF x
<1>3. task' \in [Threads -> Task] /\ Others(t) /\ task'[t] = x
  BY <1>0, <1>2, TaskSet
<1>4. Alone(t)
  BY <1>0, <1>3 DEF Alone, instance
<1>5. Locked(t)'
  BY <1>0, <1>2, <1>3 DEF Locked, Owns
<1>6. ASSUME task[t].converted
      PROVE  \/ LastText(t) = task[t].own /\ task[t].own # ""
             \/ LastText(t) = "closed" /\ closed
  BY <1>0, <1>6 DEF Text, LastText
<1>7. Text(t)'
  BY <1>0, <1>2, <1>3, <1>6 DEF Text, instance
<1> QED
  BY <1>0, <1>2, <1>3, <1>4, <1>5, <1>7, InvFacts, CallStep DEF Good

-----------------------------------------------------------------------------
(* Steps of close, which change the instance *)

LEMMA BeginCloseStep ==
    ASSUME Inv, NEW t \in Threads, BeginClose(t)
    PROVE  Inv'
<1>0. /\ TypeOK /\ Locked(t) /\ Text(t) /\ task[t].pc = "idle"
      /\ UNCHANGED <<platform, mutex, nslock, shared, local, instance>>
  BY InvFacts DEF BeginClose, locks, errors
<1>1. /\ task' \in [Threads -> Task] /\ Others(t)
      /\ task'[t].pc = "close" /\ task'[t].kind = task[t].kind
  BY <1>0, GotoTask DEF BeginClose, Stages
<1>2. Alone(t)
  BY <1>0, <1>1 DEF Alone, instance
<1>3. Locked(t)'
  BY <1>0, <1>1 DEF Locked, Owns
<1>4. Text(t)'
  BY <1>1 DEF Text
<1> QED
  BY <1>0, <1>1, <1>2, <1>3, <1>4, InvFacts, CallStep DEF Good

LEMMA CloseAny ==
    ASSUME Inv, NEW t \in Threads, Alone(t), NEW stage \in {"idle", "destroy", "detach"},
           Goto(t, stage), task[t].pc \in {"close", "destroy", "detach"},
           UNCHANGED <<mutex, nslock, shared>>,
           local' \in [Threads -> Texts \cup {""}],
           registered' \in BOOLEAN, attached' \in BOOLEAN, closed' = TRUE,
           platform = "ios" => ~attached' /\ ~registered',
           platform = "ios" => \A s \in Threads : ~Owns(s)
    PROVE  Inv'
<1>0. TypeOK /\ Locked(t) /\ Text(t)
  BY InvFacts
<1>1. /\ task' \in [Threads -> Task]
      /\ task'[t].pc = stage /\ task'[t].kind = task[t].kind
  BY <1>0, GotoTask DEF Stages
<1>2. TypeOK'
  BY <1>0, <1>1 DEF TypeOK, Alone
<1>3. Locked(t)' /\ Text(t)'
  BY <1>0, <1>1 DEF Locked, Text, Owns, Alone
<1>4. \A s \in Threads : Good(s)'
  BY <1>0, <1>3, GoodOther DEF Good, TypeOK
<1>5. \A s \in Threads : platform = "ios" => ~Owns(s)'
  BY <1>1 DEF Owns, Alone, Others
<1>6. Instance'
  BY <1>1, <1>5 DEF Instance, Alone
<1> QED
  BY <1>2, <1>4, <1>6 DEF Inv

\* While the instance is closed on iOS no call is in it.
LEMMA ClosedIsEmpty ==
    ASSUME Inv, closed, platform = "ios"
    PROVE  ~attached /\ ~registered /\ \A s \in Threads : ~Owns(s)
  BY DEF Inv, Instance

LEMMA CloseStep ==
    ASSUME Inv, NEW t \in Threads, Close(t)
    PROVE  Inv'
<1>0. TypeOK /\ local \in [Threads -> Texts \cup {""}]
  BY InvFacts
<1>1. /\ task[t].pc = "close" /\ platform # "ios" /\ closed' = TRUE
      /\ UNCHANGED <<platform, registered, attached, mutex, nslock, shared, local>>
  BY DEF Close, locks, errors
<1>2. PICK stage \in {"idle", "destroy", "detach"} : Goto(t, stage)
  BY DEF Close
<1>3. Others(t)
  BY <1>0, <1>2, GotoTask DEF Stages
<1>4. Alone(t)
  BY <1>1, <1>3 DEF Alone
<1> QED
  BY <1>0, <1>1, <1>2, <1>4, CloseAny DEF TypeOK

LEMMA CloseDestroyStep ==
    ASSUME Inv, NEW t \in Threads, CloseDestroy(t)
    PROVE  Inv'
<1>0. TypeOK /\ local \in [Threads -> Texts \cup {""}]
  BY InvFacts
<1>1. /\ task[t].pc = "destroy" /\ closed
      /\ UNCHANGED <<platform, attached, closed, mutex, nslock, shared>>
      /\ registered' = FALSE /\ local' = [local EXCEPT ![t] = ""]
  BY DEF CloseDestroy, Destroy, locks, Inv, Instance
<1>2. PICK stage \in {"idle", "destroy", "detach"} : Goto(t, stage)
  BY DEF CloseDestroy
<1>3. Others(t)
  BY <1>0, <1>2, GotoTask DEF Stages
<1>4. /\ local' \in [Threads -> Texts \cup {""}]
      /\ \A s \in Threads : s # t => local'[s] = local[s]
  BY <1>0, <1>1
<1>5. Alone(t)
  BY <1>1, <1>3, <1>4 DEF Alone
<1>6. attached' \in BOOLEAN /\ registered' \in BOOLEAN /\ closed' = TRUE
  BY <1>0, <1>1 DEF TypeOK
<1>7. platform = "ios" => ~attached' /\ ~registered' /\ \A s \in Threads : ~Owns(s)
  BY <1>1, ClosedIsEmpty
<1> QED
  BY <1>1, <1>2, <1>4, <1>5, <1>6, <1>7, CloseAny

LEMMA CloseDetachStep ==
    ASSUME Inv, NEW t \in Threads, CloseDetach(t)
    PROVE  Inv'
<1>0. TypeOK /\ local \in [Threads -> Texts \cup {""}]
  BY InvFacts
<1>1. /\ task[t].pc = "detach" /\ closed
      /\ UNCHANGED <<platform, registered, closed, mutex, nslock, shared, local>>
      /\ attached' = FALSE /\ Goto(t, "idle")
  BY DEF CloseDetach, locks, errors, Inv, Instance
<1>2. Others(t)
  BY <1>0, <1>1, GotoTask DEF Stages
<1>3. Alone(t)
  BY <1>1, <1>2 DEF Alone
<1>4. attached' \in BOOLEAN /\ registered' \in BOOLEAN /\ closed' = TRUE
  BY <1>0, <1>1 DEF TypeOK
<1>5. platform = "ios" => ~attached' /\ ~registered' /\ \A s \in Threads : ~Owns(s)
  BY <1>1, ClosedIsEmpty
<1> QED
  BY <1>0, <1>1, <1>3, <1>4, <1>5, CloseAny

\* iOS: close has the lock, so that no call is in the instance.
LEMMA CloseLockedStep ==
    ASSUME Inv, NEW t \in Threads, CloseLocked(t)
    PROVE  Inv'
<1>0. /\ TypeOK /\ local \in [Threads -> Texts \cup {""}]
      /\ task[t].pc = "close" /\ platform = "ios" /\ nslock = Nobody
      /\ closed' = TRUE /\ Goto(t, "idle")
      /\ UNCHANGED <<platform, mutex, nslock>>
  BY InvFacts DEF CloseLocked, locks
<1>1. \A s \in Threads : ~Owns(s)
  BY <1>0, NobodyAssumption DEF Inv, Good, Locked
<1>2. Others(t)
  BY <1>0, GotoTask DEF Stages
<1>3. CASE closed
  <2>1. UNCHANGED <<registered, attached, shared, local>>
    BY <1>3 DEF CloseLocked, errors
  <2>2. ~attached' /\ ~registered'
    BY <1>0, <1>3, <2>1, ClosedIsEmpty
  <2>3. Alone(t)
    BY <1>0, <1>2, <2>1 DEF Alone
  <2>4. attached' \in BOOLEAN /\ registered' \in BOOLEAN
    BY <1>0, <2>1 DEF TypeOK
  <2> QED
    BY <1>0, <1>1, <2>1, <2>2, <2>3, <2>4, CloseAny
<1>4. CASE ~closed
  <2>1. /\ attached' = FALSE /\ registered' = FALSE /\ shared' = shared
        /\ local' = [local EXCEPT ![t] = ""]
    BY <1>4 DEF CloseLocked, Destroy
  <2>2. /\ local' \in [Threads -> Texts \cup {""}]
        /\ \A s \in Threads : s # t => local'[s] = local[s]
    BY <1>0, <2>1
  <2>3. Alone(t)
    BY <1>0, <1>2, <2>1, <2>2 DEF Alone
  <2> QED
    BY <1>0, <1>1, <2>1, <2>2, <2>3, CloseAny
<1> QED
  BY <1>3, <1>4

LEMMA StutterStep ==
    ASSUME Inv, UNCHANGED vars
    PROVE  Inv'
<1>1. TypeOK'
  BY DEF Inv, TypeOK, vars
<1>2. Instance'
  BY DEF Inv, Instance, Owns, vars
<1>3. \A t \in Threads : Good(t)'
  BY DEF Inv, Good, Locked, Text, Owns, vars
<1> QED
  BY <1>1, <1>2, <1>3 DEF Inv

-----------------------------------------------------------------------------
(* Theorems *)

LEMMA SpecInv == Spec => []Inv
<1>1. Inv /\ [Next]_vars => Inv'
  <2> SUFFICES ASSUME Inv, [Next]_vars PROVE Inv'
    OBVIOUS
  <2>1. ASSUME NEW t \in Threads, NEW kind \in Kinds, Begin(t, kind) PROVE Inv'
    BY <2>1, BeginStep
  <2>2. ASSUME NEW t \in Threads, BeginClose(t) \/ ConvertError(t) PROVE Inv'
    BY <2>2, BeginCloseStep, ConvertErrorStep
  <2>3. ASSUME NEW t \in Threads, Lock(t) PROVE Inv'
    BY <2>3, TakeMutexStep, EnterLockedStep, LastErrorStep, CloseLockedStep DEF Lock
  <2>4. ASSUME NEW t \in Threads, Move(t) PROVE Inv'
    <3>1. CASE Finish(t)
      BY <3>1, SucceedStep, FailStep DEF Finish
    <3> QED
      BY <2>4, <3>1, EnterStep, GetHandleStep, DeliverStep, CloseStep, CloseDestroyStep,
         CloseDetachStep DEF Move
  <2>5. CASE UNCHANGED vars
    BY <2>5, StutterStep
  <2> QED
    BY <2>1, <2>2, <2>3, <2>4, <2>5 DEF Next
<1> QED
  BY InitInv, <1>1, PTL DEF Spec

\* The state of the wrapper, the bridge and the registry stays within its types
\* (KmoSync.kt, ffi.rs).
THEOREM CallTypes == Spec => []TypeOK
<1>1. Inv => TypeOK
  BY DEF Inv
<1> QED
  BY SpecInv, <1>1, PTL

\* nativeCallMutex and the lock of the iOS bridge are held exactly by the calls
\* that are under way: no path out of a call forgets or frees a lock of another.
THEOREM LocksExclusive == Spec => []Exclusive
<1>1. Inv => Exclusive
  BY DEF Inv, Good, Locked, Exclusive
<1> QED
  BY SpecInv, <1>1, PTL

\* resultFromCode and kmo_sync_last_error: the text of a failure is that of the
\* call that failed, or says that the instance is closed, for any number of
\* threads.
THEOREM TextIsOwn == Spec => []OwnText
<1>1. Inv => OwnText
  BY DEF Inv, Good, Text, OwnText
<1> QED
  BY SpecInv, <1>1, PTL

\* close on iOS waits for the calls under way: none of them calls back through a
\* disposed reference.
THEOREM CallbackIsAlive == Spec => []CallbackLives
<1>1. Inv => CallbackLives
  BY DEF Inv, Instance, Owns, CallbackLives
<1> QED
  BY SpecInv, <1>1, PTL
=============================================================================
