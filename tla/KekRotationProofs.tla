-------------------------- MODULE KekRotationProofs --------------------------
(***************************************************************************)
(* Proofs about KekRotation, for any number of devices, books, keys and    *)
(* rotations.  The invariant says what a pass may rely on (Pass), that a   *)
(* namespace under construction is out of reach of everybody else          *)
(* (Private), how far its construction is (Copying), and what the bucket   *)
(* holds (Store).                                                          *)
(***************************************************************************)
EXTENDS KekRotation, TLAPS

Working(d) == task[d].pc \in {"list", "copy", "switch"}

Pass(d) ==
    /\ task[d].pc \in {"read", "write"} =>
           task[d].obj \in Objects /\ (Informed => key[d] = nsKey[ns[d]])
    /\ task[d].pc = "write" => local[d][task[d].obj] > task[d].seen.n

Private(d) ==
    Working(d) =>
        /\ task[d].target \in 1..rotations
        /\ task[d].target # marker
        /\ \A e \in Devices : ns[e] # task[d].target
        /\ \A e \in Devices : e # d /\ Working(e) => task[e].target # task[d].target

Copying(d) ==
    /\ task[d].pc = "list" => \A o \in Objects : ~Has(task[d].target, o)
    /\ task[d].pc = "copy" =>
           \A o \in task[d].todo : ~Has(task[d].target, o) /\ Has(ns[d], o)
    /\ task[d].pc \in {"copy", "switch"} =>
           \A o \in task[d].listed \ task[d].todo : Has(task[d].target, o)
    /\ task[d].pc = "switch" => task[d].todo = {}

Device(d) == Pass(d) /\ Private(d) /\ Copying(d)

Store ==
    /\ \A s \in Namespaces, o \in Objects :
           Has(s, o) => bucket[s][o].n > 0 /\ s <= rotations
    /\ Informed => OneKey
    /\ \A d \in Devices : ns[d] <= rotations /\ task[d].target <= rotations

Inv == TypeOK /\ Store /\ \A d \in Devices : Device(d)

-----------------------------------------------------------------------------
(* Types *)

LEMMA ConstantTypes == rotations \in Namespaces => rotations \in Nat /\ rotations <= MaxRotations
  BY BoundsAssumption DEF Namespaces

LEMMA IdleType == Idle \in Task /\ Absent \in Content
  BY BoundsAssumption, ConfigAssumption DEF Idle, Task, Stages, Absent, Content, Namespaces

\* The table of KEK versions stays consistent when a configuration is entered
\* that registers (register_envelope_kek_version).
LEMMA TableKept ==
    ASSUME NEW table \in SUBSET Configs, NEW c \in Configs, Registers(table, c),
           \A r, s \in table : r.version = s.version \/ r.id = s.id => r = s
    PROVE  /\ Registered(table, c) \in SUBSET Configs
           /\ c \in Registered(table, c)
           /\ \A r, s \in Registered(table, c) : r.version = s.version \/ r.id = s.id => r = s
  BY DEF Registers, Registered

Others(d) ==
    \A e \in Devices : e # d => task'[e] = task[e]

LEMMA TaskSet ==
    ASSUME TypeOK, NEW d \in Devices, NEW x \in Task, task' = [task EXCEPT ![d] = x]
    PROVE  task' \in [Devices -> Task] /\ Others(d) /\ task'[d] = x
  BY DEF TypeOK, Others

LEMMA TaskPc ==
    ASSUME NEW x \in Task, NEW stage \in Stages
    PROVE  [x EXCEPT !.pc = stage] \in Task
  BY DEF Task

LEMMA GotoTask ==
    ASSUME TypeOK, NEW d \in Devices, NEW stage \in Stages, Goto(d, stage)
    PROVE  /\ task' \in [Devices -> Task] /\ Others(d)
           /\ task'[d].pc = stage /\ task'[d].obj = task[d].obj /\ task'[d].seen = task[d].seen
           /\ task'[d].target = task[d].target /\ task'[d].listed = task[d].listed
           /\ task'[d].todo = task[d].todo /\ task'[d].seenMarker = task[d].seenMarker
<1>1. task[d] \in Task /\ task \in [Devices -> Task]
  BY DEF TypeOK
<1>2. task' = [task EXCEPT ![d] = [task[d] EXCEPT !.pc = stage]]
  BY DEF Goto
<1>3. [task[d] EXCEPT !.pc = stage] \in Task
  BY <1>1, TaskPc
<1>4. task' \in [Devices -> Task] /\ Others(d) /\ task'[d] = [task[d] EXCEPT !.pc = stage]
  BY <1>2, <1>3, TaskSet
<1> QED
  BY <1>1, <1>4 DEF Task

LEMMA EndTask ==
    ASSUME TypeOK, NEW d \in Devices, End(d)
    PROVE  /\ task' \in [Devices -> Task] /\ Others(d)
           /\ task'[d].pc = "idle" /\ task'[d].target = 0
<1>1. task' \in [Devices -> Task] /\ Others(d) /\ task'[d] = Idle
  BY IdleType, TaskSet DEF End
<1>2. Idle.pc = "idle" /\ Idle.target = 0
  BY DEF Idle
<1> QED
  BY <1>1, <1>2

LEMMA TypeFacts ==
    ASSUME TypeOK, NEW d \in Devices
    PROVE  /\ task[d] \in Task /\ task \in [Devices -> Task]
           /\ task[d].target \in Namespaces /\ task[d].seen \in Content
           /\ task[d].listed \subseteq Objects /\ task[d].todo \subseteq Objects
           /\ ns[d] \in Namespaces /\ key[d] \in Configs
           /\ marker \in Namespaces /\ rotations \in Nat /\ rotations <= MaxRotations
           /\ local[d] \in [Objects -> Nat]
           /\ \A s \in Namespaces, o \in Objects :
                  bucket[s][o] \in Content /\ bucket[s][o].n \in Nat /\ bucket[s][o].key \in Configs
<1>1. task[d] \in Task /\ task \in [Devices -> Task]
  BY DEF TypeOK
<1>2. /\ task[d].target \in Namespaces /\ task[d].seen \in Content
      /\ task[d].listed \subseteq Objects /\ task[d].todo \subseteq Objects
  BY <1>1 DEF Task
<1>3. rotations \in Nat /\ rotations <= MaxRotations
  BY ConstantTypes DEF TypeOK
<1>4. marker \in Namespaces
  BY <1>3, BoundsAssumption DEF TypeOK, Namespaces
<1>5. \A s \in Namespaces, o \in Objects :
          bucket[s][o] \in Content /\ bucket[s][o].n \in Nat /\ bucket[s][o].key \in Configs
  BY DEF TypeOK, Content
<1>6. ns[d] \in Namespaces /\ key[d] \in Configs /\ local[d] \in [Objects -> Nat]
  BY DEF TypeOK
<1> QED
  BY <1>1, <1>2, <1>3, <1>4, <1>5, <1>6

LEMMA InitInv == Init => Inv
<1> SUFFICES ASSUME Init PROVE Inv
  OBVIOUS
<1>0. Idle.pc = "idle" /\ Idle.target = 0
  BY DEF Idle
<1>1. TypeOK
  BY IdleType, BoundsAssumption, ConfigAssumption DEF Init, TypeOK, Namespaces
<1>2. \A s \in Namespaces, o \in Objects : ~Has(s, o)
  BY DEF Init, Has
<1>3. Store
  BY <1>0, <1>2 DEF Init, Store, OneKey
<1>4. \A d \in Devices : Device(d)
  BY <1>0 DEF Init, Device, Pass, Private, Copying, Working
<1> QED
  BY <1>1, <1>3, <1>4 DEF Inv

-----------------------------------------------------------------------------
(* What a step of one device must leave alone for the others *)

HasNext(s, o) == bucket'[s][o] # Absent

Apart(d) ==
    /\ Others(d)
    /\ \A e \in Devices : e # d => ns'[e] = ns[e] /\ key'[e] = key[e] /\ local'[e] = local[e]
    /\ rotations' \in Nat /\ rotations <= rotations'
    /\ \A s \in Namespaces : s <= rotations => nsKey'[s] = nsKey[s]
    /\ \A s \in Namespaces, o \in Objects : Has(s, o) => HasNext(s, o)
    /\ \A e \in Devices : e # d /\ Working(e) =>
           /\ \A o \in Objects : HasNext(task[e].target, o) => Has(task[e].target, o)
           /\ marker' # task[e].target
           /\ ns'[d] # task[e].target
           /\ Working(d)' => task'[d].target # task[e].target

LEMMA Keep ==
    ASSUME Inv, NEW d \in Devices, Apart(d), NEW e \in Devices, e # d
    PROVE  Device(e)'
<1>0. /\ TypeOK /\ Store /\ Device(e)
      /\ task'[e] = task[e] /\ ns'[e] = ns[e] /\ key'[e] = key[e] /\ local'[e] = local[e]
  BY DEF Inv, Apart, Others
<1>1. Pass(e)'
  <2>1. nsKey'[ns[e]] = nsKey[ns[e]]
    BY <1>0, TypeFacts DEF Apart, Store
  <2> QED
    BY <1>0, <2>1 DEF Device, Pass
<1>2. Private(e)'
  <2> SUFFICES ASSUME Working(e)'
               PROVE  /\ task[e].target \in 1..rotations'
                      /\ task[e].target # marker'
                      /\ \A f \in Devices : ns'[f] # task[e].target
                      /\ \A f \in Devices : f # e /\ Working(f)' => task'[f].target # task[e].target
    BY <1>0 DEF Private
  <2>0. Working(e) /\ Private(e)
    BY <1>0 DEF Working, Device
  <2>1. task[e].target \in 1..rotations'
    BY <1>0, <2>0, TypeFacts DEF Private, Apart
  <2>2. task[e].target # marker'
    BY <2>0 DEF Apart
  <2>3. ASSUME NEW f \in Devices
        PROVE  /\ ns'[f] # task[e].target
               /\ f # e /\ Working(f)' => task'[f].target # task[e].target
    <3>1. CASE f = d
      BY <2>0, <3>1 DEF Apart
    <3>2. CASE f # d
      BY <2>0, <3>2 DEF Apart, Others, Private, Working
    <3> QED
      BY <3>1, <3>2
  <2> QED
    BY <2>1, <2>2, <2>3
<1>3. Copying(e)'
  <2>1. /\ task[e].todo \subseteq Objects /\ task[e].listed \subseteq Objects
        /\ task[e].target \in Namespaces /\ ns[e] \in Namespaces
    BY <1>0, TypeFacts
  <2>2. Working(e) => \A o \in Objects : HasNext(task[e].target, o) <=> Has(task[e].target, o)
    BY <2>1 DEF Apart
  <2>3. \A o \in Objects : Has(ns[e], o) => HasNext(ns[e], o)
    BY <2>1 DEF Apart
  <2>4. /\ task[e].pc = "list" => \A o \in Objects : ~HasNext(task[e].target, o)
        /\ task[e].pc = "copy" =>
             \A o \in task[e].todo : ~HasNext(task[e].target, o) /\ HasNext(ns[e], o)
        /\ task[e].pc \in {"copy", "switch"} =>
             \A o \in task[e].listed \ task[e].todo : HasNext(task[e].target, o)
        /\ task[e].pc = "switch" => task[e].todo = {}
    BY <1>0, <2>1, <2>2, <2>3 DEF Device, Copying, Working
  <2> QED
    BY <1>0, <2>4 DEF Copying, Has, HasNext
<1> QED
  BY <1>1, <1>2, <1>3 DEF Device

\* Steps that write neither objects nor the marker, and begin no rotation.
LEMMA QuietStep ==
    ASSUME Inv, NEW d \in Devices, Others(d), TypeOK',
           UNCHANGED <<marker, bucket, nsKey, rotations>>,
           \A e \in Devices : e # d => ns'[e] = ns[e] /\ key'[e] = key[e] /\ local'[e] = local[e],
           ns'[d] \in {ns[d], marker, 0},
           task'[d].target \in {task[d].target, 0},
           Working(d)' => Working(d) /\ task'[d].target = task[d].target,
           Pass(d)', Copying(d)'
    PROVE  Inv'
<1>0. TypeOK /\ Store /\ rotations \in Nat /\ marker \in 0..rotations
  BY TypeFacts DEF Inv, TypeOK
<1>1. \A s \in Namespaces, o \in Objects : (Has(s, o)' <=> Has(s, o)) /\ (HasNext(s, o) <=> Has(s, o))
  BY DEF Has, HasNext
<1>2. ASSUME NEW e \in Devices, Working(e)
      PROVE  task[e].target # marker /\ task[e].target # 0 /\ task[e].target # ns[d]
             /\ task[e].target \in Namespaces
  BY <1>0, <1>2, TypeFacts DEF Inv, Device, Private
<1>3. Apart(d)
  <2>1. ASSUME NEW e \in Devices, e # d, Working(e)
        PROVE  /\ \A o \in Objects : HasNext(task[e].target, o) => Has(task[e].target, o)
               /\ marker' # task[e].target
               /\ ns'[d] # task[e].target
               /\ Working(d)' => task'[d].target # task[e].target
    <3>1. task[e].target # marker /\ ns'[d] # task[e].target
      BY <1>2, <2>1
    <3>2. Working(d)' => task'[d].target # task[e].target
      BY <2>1 DEF Inv, Device, Private
    <3>3. \A o \in Objects : HasNext(task[e].target, o) => Has(task[e].target, o)
      BY DEF Has, HasNext
    <3> QED
      BY <3>1, <3>2, <3>3
  <2> QED
    BY <1>0, <1>1, <2>1 DEF Apart
<1>4. \A e \in Devices : e # d => Device(e)'
  BY <1>3, Keep
<1>5. Private(d)'
  <2> SUFFICES ASSUME Working(d)'
               PROVE  /\ task'[d].target \in 1..rotations'
                      /\ task'[d].target # marker'
                      /\ \A f \in Devices : ns'[f] # task'[d].target
                      /\ \A f \in Devices : f # d /\ Working(f)' => task'[f].target # task'[d].target
    BY DEF Private
  <2>1. Working(d) /\ Private(d) /\ task'[d].target = task[d].target
    BY DEF Inv, Device
  <2>2. task[d].target \in 1..rotations /\ task[d].target # marker
    BY <2>1 DEF Private
  <2>3. ASSUME NEW f \in Devices
        PROVE  /\ ns'[f] # task[d].target
               /\ f # d /\ Working(f)' => task'[f].target # task[d].target
    <3>1. CASE f = d
      BY <1>2, <2>1, <3>1
    <3>2. CASE f # d
      <4>1. ns'[f] = ns[f] /\ task'[f] = task[f]
        BY <3>2 DEF Others
      <4>2. Working(f)' => Working(f)
        BY <4>1 DEF Working
      <4> QED
        BY <2>1, <3>2, <4>1, <4>2 DEF Private
    <3> QED
      BY <3>1, <3>2
  <2> QED
    BY <2>1, <2>2, <2>3
<1>6. Store'
  <2>1. \A e \in Devices : ns'[e] <= rotations /\ task'[e].target <= rotations
    <3> SUFFICES ASSUME NEW e \in Devices
                 PROVE  ns'[e] <= rotations /\ task'[e].target <= rotations
      OBVIOUS
    <3>1. CASE e = d
      BY <1>0, <3>1 DEF Store
    <3>2. CASE e # d
      BY <1>0, <3>2 DEF Store, Others
    <3> QED
      BY <3>1, <3>2
  <2>2. OneKey => OneKey'
    BY DEF OneKey, Has
  <2> QED
    BY <1>0, <1>1, <2>1, <2>2 DEF Store
<1> QED
  BY <1>4, <1>5, <1>6 DEF Inv, Device

-----------------------------------------------------------------------------
(* Steps after which the device is idle, or only has to install its key *)

LEMMA RestStep ==
    ASSUME Inv, NEW d \in Devices, Others(d), TypeOK',
           UNCHANGED <<marker, bucket, nsKey, rotations>>,
           \A e \in Devices : e # d => ns'[e] = ns[e] /\ key'[e] = key[e] /\ local'[e] = local[e],
           ns'[d] \in {ns[d], marker, 0},
           task'[d].target \in {task[d].target, 0},
           task'[d].pc \in {"idle", "install"}
    PROVE  Inv'
<1>1. Pass(d)' /\ Copying(d)' /\ ~Working(d)'
  BY DEF Pass, Copying, Working
<1> QED
  BY <1>1, QuietStep

LEMMA EndStep ==
    ASSUME Inv, NEW d \in Devices, End(d), failures' \in Nat,
           UNCHANGED <<marker, bucket, nsKey, ns, key, rows, local, edits, rotations>>
    PROVE  Inv'
<1>0. TypeOK
  BY DEF Inv
<1>1. task' \in [Devices -> Task] /\ Others(d) /\ task'[d].pc = "idle" /\ task'[d].target = 0
  BY <1>0, EndTask
<1>2. TypeOK'
  BY <1>0, <1>1 DEF TypeOK
<1> QED
  BY <1>1, <1>2, RestStep

LEMMA EditStep ==
    ASSUME Inv, NEW d \in Devices, NEW o \in Objects, Edit(d, o)
    PROVE  Inv'
<1>0. TypeOK /\ edits \in Nat /\ task[d].pc = "idle"
  BY DEF Inv, TypeOK, Edit
<1>1. /\ UNCHANGED <<marker, bucket, nsKey, ns, key, rows, task, rotations, failures>>
      /\ edits' = edits + 1 /\ local' = [local EXCEPT ![d][o] = edits + 1]
  BY DEF Edit
<1>2. local' \in [Devices -> [Objects -> Nat]] /\ \A e \in Devices : e # d => local'[e] = local[e]
  BY <1>0, <1>1 DEF TypeOK
<1>3. TypeOK' /\ Others(d)
  BY <1>0, <1>1, <1>2 DEF TypeOK, Others
<1> QED
  BY <1>0, <1>1, <1>2, <1>3, RestStep

LEMMA InstallStep ==
    ASSUME Inv, NEW d \in Devices, Install(d)
    PROVE  Inv'
<1> DEFINE c == nsKey[task[d].target]
<1>0. TypeOK /\ c \in Configs
  BY TypeFacts DEF Inv, TypeOK
<1>1. /\ UNCHANGED <<marker, bucket, nsKey, ns, local, edits, rotations, failures>>
      /\ task' \in [Devices -> Task] /\ Others(d) /\ task'[d].pc = "idle" /\ task'[d].target = 0
  BY <1>0, EndTask DEF Install
<1>2. \/ /\ Registers(rows[d], c)
         /\ rows' = [rows EXCEPT ![d] = Registered(rows[d], c)]
         /\ key' = [key EXCEPT ![d] = c]
      \/ UNCHANGED <<rows, key>>
  BY DEF Install
<1> HIDE DEF c
<1>3. CASE UNCHANGED <<rows, key>>
  <2>1. TypeOK'
    BY <1>0, <1>1, <1>3 DEF TypeOK
  <2> QED
    BY <1>1, <1>3, <2>1, RestStep
<1>4. CASE /\ Registers(rows[d], c)
           /\ rows' = [rows EXCEPT ![d] = Registered(rows[d], c)]
           /\ key' = [key EXCEPT ![d] = c]
  <2>1. /\ Registered(rows[d], c) \in SUBSET Configs
        /\ c \in Registered(rows[d], c)
        /\ \A r, t \in Registered(rows[d], c) : r.version = t.version \/ r.id = t.id => r = t
    BY <1>0, <1>4, TableKept DEF TypeOK
  <2>2. /\ rows' \in [Devices -> SUBSET Configs] /\ key' \in [Devices -> Configs]
        /\ \A e \in Devices : e # d => key'[e] = key[e]
        /\ \A e \in Devices : key'[e] \in rows'[e]
        /\ \A e \in Devices : \A r, t \in rows'[e] : r.version = t.version \/ r.id = t.id => r = t
    BY <1>0, <1>4, <2>1 DEF TypeOK
  <2>3. TypeOK'
    BY <1>0, <1>1, <2>2 DEF TypeOK
  <2> QED
    BY <1>1, <2>2, <2>3, RestStep
<1> QED
  BY <1>2, <1>3, <1>4

LEMMA ReopenStep ==
    ASSUME Inv, NEW d \in Devices, Reopen(d)
    PROVE  Inv'
<1> DEFINE c == nsKey[marker]
<1>0. TypeOK /\ c \in Configs
  BY TypeFacts DEF Inv, TypeOK
<1>1. /\ UNCHANGED <<marker, bucket, nsKey, local, task, edits, rotations, failures>>
      /\ task[d].pc = "idle" /\ ns' = [ns EXCEPT ![d] = 0]
      /\ Registers(rows[d], c)
      /\ rows' = [rows EXCEPT ![d] = Registered(rows[d], c)]
      /\ key' = [key EXCEPT ![d] = c]
  BY DEF Reopen
<1> HIDE DEF c
<1>2. /\ Registered(rows[d], c) \in SUBSET Configs
      /\ c \in Registered(rows[d], c)
      /\ \A r, t \in Registered(rows[d], c) : r.version = t.version \/ r.id = t.id => r = t
  BY <1>0, <1>1, TableKept DEF TypeOK
<1>3. /\ rows' \in [Devices -> SUBSET Configs] /\ key' \in [Devices -> Configs]
      /\ \A e \in Devices : e # d => key'[e] = key[e]
      /\ \A e \in Devices : key'[e] \in rows'[e]
      /\ \A e \in Devices : \A r, t \in rows'[e] : r.version = t.version \/ r.id = t.id => r = t
  BY <1>0, <1>1, <1>2 DEF TypeOK
<1>4. 0 \in Namespaces
  BY BoundsAssumption DEF Namespaces
<1>5. ns' \in [Devices -> Namespaces] /\ ns'[d] = 0 /\ \A e \in Devices : e # d => ns'[e] = ns[e]
  BY <1>0, <1>1, <1>4 DEF TypeOK
<1>6. TypeOK'
  BY <1>0, <1>1, <1>3, <1>5 DEF TypeOK
<1>7. Others(d)
  BY <1>1 DEF Others
<1> QED
  BY <1>1, <1>3, <1>5, <1>6, <1>7, RestStep

LEMMA CrashStep ==
    ASSUME Inv, NEW d \in Devices, Crash(d)
    PROVE  Inv'
<1>0. TypeOK
  BY DEF Inv
<1>1. /\ UNCHANGED <<marker, bucket, nsKey, key, rows, local, edits, rotations>>
      /\ failures' = failures + 1 /\ ns' = [ns EXCEPT ![d] = 0]
      /\ task' \in [Devices -> Task] /\ Others(d) /\ task'[d].pc = "idle" /\ task'[d].target = 0
  BY <1>0, EndTask DEF Crash, MayFail
<1>2. 0 \in Namespaces
  BY BoundsAssumption DEF Namespaces
<1>3. ns' \in [Devices -> Namespaces] /\ ns'[d] = 0 /\ \A e \in Devices : e # d => ns'[e] = ns[e]
  BY <1>0, <1>1, <1>2 DEF TypeOK
<1>4. TypeOK'
  BY <1>0, <1>1, <1>3 DEF TypeOK
<1> QED
  BY <1>1, <1>3, <1>4, RestStep

LEMMA FailStep ==
    ASSUME Inv, NEW d \in Devices, Fail(d)
    PROVE  Inv'
<1>1. failures' \in Nat
  BY DEF Inv, TypeOK, Fail, MayFail
<1> QED
  BY <1>1, EndStep DEF Fail

-----------------------------------------------------------------------------
(* Passes *)

LEMMA SyncType ==
    ASSUME NEW x \in Task, NEW o \in Objects
    PROVE  [x EXCEPT !.pc = "read", !.obj = o] \in Task
  BY DEF Task, Stages

LEMMA SyncStep ==
    ASSUME Inv, NEW d \in Devices, NEW o \in Objects, Sync(d, o)
    PROVE  Inv'
<1>0. /\ TypeOK /\ task[d] \in Task /\ marker \in Namespaces
      /\ task[d].pc = "idle" /\ (Informed => key[d] = nsKey[marker])
      /\ UNCHANGED <<marker, bucket, nsKey, key, rows, local, edits, rotations, failures>>
      /\ ns' = [ns EXCEPT ![d] = marker]
      /\ task' = [task EXCEPT ![d] = [task[d] EXCEPT !.pc = "read", !.obj = o]]
  BY TypeFacts DEF Inv, Sync
<1>1. /\ task' \in [Devices -> Task] /\ Others(d)
      /\ task'[d] = [task[d] EXCEPT !.pc = "read", !.obj = o]
  BY <1>0, SyncType, TaskSet
<1>2. task'[d].pc = "read" /\ task'[d].obj = o /\ task'[d].target = task[d].target
  BY <1>0, <1>1 DEF Task
<1>3. ns' \in [Devices -> Namespaces] /\ ns'[d] = marker /\ \A e \in Devices : e # d => ns'[e] = ns[e]
  BY <1>0 DEF TypeOK
<1>4. TypeOK'
  BY <1>0, <1>1, <1>3 DEF TypeOK
<1>5. Pass(d)'
  BY <1>0, <1>2, <1>3 DEF Pass
<1>6. Copying(d)' /\ ~Working(d)'
  BY <1>2 DEF Copying, Working
<1> QED
  BY <1>0, <1>1, <1>2, <1>3, <1>4, <1>5, <1>6, QuietStep

LEMMA ReadType ==
    ASSUME NEW x \in Task, NEW c \in Content
    PROVE  [x EXCEPT !.pc = "write", !.seen = c] \in Task
  BY DEF Task, Stages

LEMMA ReadObjectStep ==
    ASSUME Inv, NEW d \in Devices, ReadObject(d)
    PROVE  Inv'
<1> DEFINE o == task[d].obj
<1> DEFINE c == bucket[ns[d]][o]
<1>0. /\ TypeOK /\ task[d] \in Task /\ task[d].pc = "read"
      /\ o \in Objects /\ (Informed => key[d] = nsKey[ns[d]])
      /\ UNCHANGED <<marker, bucket, nsKey, ns, key, rows, edits, rotations, failures>>
      /\ local[d] \in [Objects -> Nat] /\ local \in [Devices -> [Objects -> Nat]]
  BY TypeFacts DEF Inv, Device, Pass, ReadObject, TypeOK
<1>1. c \in Content /\ c.n \in Nat
  BY <1>0, TypeFacts
<1>2. \/ End(d) /\ UNCHANGED local
      \/ local' = [local EXCEPT ![d][o] = c.n] /\ End(d)
      \/ /\ c.n < local[d][o] /\ UNCHANGED local
         /\ task' = [task EXCEPT ![d] = [task[d] EXCEPT !.pc = "write", !.seen = c]]
  BY DEF ReadObject
<1> HIDE DEF c
<1>3. ASSUME End(d), local' \in [Devices -> [Objects -> Nat]],
             \A e \in Devices : e # d => local'[e] = local[e]
      PROVE  Inv'
  <2>1. task' \in [Devices -> Task] /\ Others(d) /\ task'[d].pc = "idle" /\ task'[d].target = 0
    BY <1>0, <1>3, EndTask
  <2>2. TypeOK'
    BY <1>0, <1>3, <2>1 DEF TypeOK
  <2> QED
    BY <1>0, <1>3, <2>1, <2>2, RestStep
<1>4. CASE End(d) /\ UNCHANGED local
  BY <1>0, <1>3, <1>4
<1>5. CASE local' = [local EXCEPT ![d][o] = c.n] /\ End(d)
  <2>1. local' \in [Devices -> [Objects -> Nat]] /\ \A e \in Devices : e # d => local'[e] = local[e]
    BY <1>0, <1>1, <1>5
  <2> QED
    BY <1>3, <1>5, <2>1
<1>6. CASE /\ c.n < local[d][o] /\ UNCHANGED local
           /\ task' = [task EXCEPT ![d] = [task[d] EXCEPT !.pc = "write", !.seen = c]]
  <2>1. /\ task' \in [Devices -> Task] /\ Others(d)
        /\ task'[d] = [task[d] EXCEPT !.pc = "write", !.seen = c]
    BY <1>0, <1>1, <1>6, ReadType, TaskSet
  <2>2. /\ task'[d].pc = "write" /\ task'[d].obj = o /\ task'[d].target = task[d].target
        /\ task'[d].seen = c
    BY <1>0, <2>1 DEF Task
  <2>3. TypeOK'
    BY <1>0, <1>6, <2>1 DEF TypeOK
  <2>4. local[d][o] > c.n
    BY <1>0, <1>1, <1>6
  <2>5. Pass(d)'
    BY <1>0, <1>6, <2>2, <2>4 DEF Pass
  <2>6. Copying(d)' /\ ~Working(d)'
    BY <2>2 DEF Copying, Working
  <2> QED
    BY <1>0, <1>6, <2>1, <2>2, <2>3, <2>5, <2>6, QuietStep
<1> QED
  BY <1>2, <1>4, <1>5, <1>6

\* Steps that write an object, or the marker, or begin a rotation.
LEMMA LoudStep ==
    ASSUME Inv, NEW d \in Devices, Apart(d), TypeOK', Store', Device(d)'
    PROVE  Inv'
  BY Keep DEF Inv

\* An object that is written is newer than what it replaces, and under the key
\* of its namespace.
LEMMA WriteObjectStep ==
    ASSUME Inv, NEW d \in Devices, WriteObject(d)
    PROVE  Inv'
<1> DEFINE o == task[d].obj
<1> DEFINE s == ns[d]
<1> DEFINE c == [n |-> local[d][o], key |-> key[d]]
<1>0. /\ TypeOK /\ Store /\ task[d] \in Task /\ task[d].pc = "write"
      /\ o \in Objects /\ (Informed => key[d] = nsKey[s]) /\ local[d][o] > task[d].seen.n
      /\ UNCHANGED <<marker, nsKey, ns, key, rows, local, edits, rotations, failures>>
      /\ s \in Namespaces /\ local[d][o] \in Nat /\ key[d] \in Configs /\ task[d].seen \in Content
  BY TypeFacts DEF Inv, Device, Pass, WriteObject
<1>1. CASE bucket[s][o] # task[d].seen /\ UNCHANGED bucket /\ Goto(d, "read")
  <2>1. /\ task' \in [Devices -> Task] /\ Others(d)
        /\ task'[d].pc = "read" /\ task'[d].obj = o /\ task'[d].target = task[d].target
    BY <1>0, <1>1, GotoTask DEF Stages
  <2>2. TypeOK'
    BY <1>0, <1>1, <2>1 DEF TypeOK
  <2>3. Pass(d)' /\ Copying(d)' /\ ~Working(d)'
    BY <1>0, <2>1 DEF Pass, Copying, Working
  <2> QED
    BY <1>0, <1>1, <2>1, <2>2, <2>3, QuietStep
<1>2. CASE bucket' = [bucket EXCEPT ![s][o] = c] /\ End(d)
  <2>1. task' \in [Devices -> Task] /\ Others(d) /\ task'[d].pc = "idle" /\ task'[d].target = 0
    BY <1>0, <1>2, EndTask
  <2>2. c \in Content /\ c.n = local[d][o] /\ c.key = key[d] /\ c.n > 0
    BY <1>0 DEF Content
  <2>3. bucket \in [Namespaces -> [Objects -> Content]]
    BY <1>0 DEF TypeOK
  <2> HIDE DEF c
  <2>4. /\ bucket' \in [Namespaces -> [Objects -> Content]]
        /\ bucket'[s][o] = c
        /\ \A t \in Namespaces, p \in Objects : t # s \/ p # o => bucket'[t][p] = bucket[t][p]
    BY <1>0, <1>2, <2>2, <2>3
  <2>5. TypeOK'
    BY <1>0, <2>1, <2>4 DEF TypeOK
  <2>6. c # Absent
    BY <2>2 DEF Absent
  <2>7. s <= rotations
    BY <1>0 DEF Store
  <2>8. Store'
    <3>1. \A t \in Namespaces, p \in Objects :
              Has(t, p)' => bucket'[t][p].n > 0 /\ t <= rotations
      BY <1>0, <2>2, <2>4, <2>7 DEF Store, Has
    <3>2. Informed => OneKey'
      <4> SUFFICES ASSUME Informed, NEW t \in Namespaces, NEW p \in Objects, Has(t, p)'
                   PROVE  bucket'[t][p].key = nsKey[t]
        BY <1>0 DEF OneKey
      <4>1. CASE t = s /\ p = o
        BY <1>0, <2>2, <2>4, <4>1
      <4>2. CASE t # s \/ p # o
        BY <1>0, <2>4, <4>2 DEF Store, OneKey, Has
      <4> QED
        BY <4>1, <4>2
    <3>3. \A e \in Devices : ns'[e] <= rotations /\ task'[e].target <= rotations
      <4> SUFFICES ASSUME NEW e \in Devices PROVE task'[e].target <= rotations
        BY <1>0 DEF Store
      <4> QED
        BY <1>0, <2>1, TypeFacts DEF Store, Others
    <3> QED
      BY <1>0, <3>1, <3>2, <3>3 DEF Store
  <2>9. Apart(d)
    <3>1. \A t \in Namespaces, p \in Objects : Has(t, p) => HasNext(t, p)
      BY <2>4, <2>6 DEF Has, HasNext
    <3>2. ASSUME NEW e \in Devices, e # d, Working(e)
          PROVE  /\ \A p \in Objects : HasNext(task[e].target, p) => Has(task[e].target, p)
                 /\ marker' # task[e].target
                 /\ ns'[d] # task[e].target
                 /\ ~Working(d)'
      <4>1. task[e].target # marker /\ task[e].target # s
        BY <3>2 DEF Inv, Device, Private
      <4>2. task[e].target \in Namespaces
        BY <1>0, TypeFacts
      <4>3. \A p \in Objects : HasNext(task[e].target, p) => Has(task[e].target, p)
        BY <2>4, <4>1, <4>2 DEF Has, HasNext
      <4>4. ~Working(d)'
        BY <2>1 DEF Working
      <4> QED
        BY <1>0, <4>1, <4>3, <4>4
    <3> QED
      BY <1>0, <2>1, <3>1, <3>2, TypeFacts DEF Apart
  <2>10. Device(d)'
    BY <2>1 DEF Device, Pass, Private, Copying, Working
  <2> QED
    BY <2>5, <2>8, <2>9, <2>10, LoudStep
<1> QED
  BY <1>1, <1>2 DEF WriteObject

-----------------------------------------------------------------------------
(* Rotation *)

LEMMA RotateType ==
    ASSUME NEW x \in Task, NEW t \in Namespaces
    PROVE  [x EXCEPT !.pc = "list", !.target = t] \in Task
  BY DEF Task, Stages

\* The namespace of a rotation that begins is nobody else's, and empty.
LEMMA RotateStep ==
    ASSUME Inv, NEW d \in Devices, NEW c \in Configs, Rotate(d, c)
    PROVE  Inv'
<1> DEFINE t == rotations + 1
<1>0. /\ TypeOK /\ Store /\ task[d] \in Task /\ task[d].pc = "idle"
      /\ rotations \in Nat /\ t \in Namespaces /\ t \in Nat /\ t > rotations
      /\ marker \in Namespaces /\ marker \in Nat /\ marker <= rotations
      /\ UNCHANGED <<marker, bucket, key, rows, local, edits, failures>>
      /\ rotations' = t
      /\ nsKey' = [nsKey EXCEPT ![t] = c]
      /\ ns' = [ns EXCEPT ![d] = marker]
      /\ task' = [task EXCEPT ![d] = [task[d] EXCEPT !.pc = "list", !.target = t]]
  <2>1. TypeOK /\ Store /\ task[d] \in Task /\ rotations \in Nat /\ marker \in Namespaces
    BY TypeFacts DEF Inv
  <2>2. marker \in Nat /\ marker <= rotations
    BY <2>1 DEF TypeOK
  <2>3. rotations < MaxRotations
    BY DEF Rotate
  <2>4. t \in Namespaces
    BY <2>1, <2>3, BoundsAssumption DEF Namespaces
  <2>5. t \in Nat /\ t > rotations
    BY <2>1
  <2>6. /\ UNCHANGED <<marker, bucket, key, rows, local, edits, failures>>
        /\ rotations' = t /\ task[d].pc = "idle"
        /\ nsKey' = [nsKey EXCEPT ![t] = c]
        /\ ns' = [ns EXCEPT ![d] = marker]
    BY DEF Rotate
  <2>7. task' = [task EXCEPT ![d] = [task[d] EXCEPT !.pc = "list", !.target = t]]
    BY DEF Rotate
  <2> QED
    BY <2>1, <2>2, <2>4, <2>5, <2>6, <2>7
<1> HIDE DEF t
<1>1. /\ task' \in [Devices -> Task] /\ Others(d)
      /\ task'[d] = [task[d] EXCEPT !.pc = "list", !.target = t]
  BY <1>0, RotateType, TaskSet
<1>2. task'[d].pc = "list" /\ task'[d].target = t
  BY <1>0, <1>1 DEF Task
<1>3. ns' \in [Devices -> Namespaces] /\ ns'[d] = marker /\ \A e \in Devices : e # d => ns'[e] = ns[e]
  BY <1>0 DEF TypeOK
<1>4. nsKey' \in [Namespaces -> Configs] /\ \A s \in Namespaces : s <= rotations => nsKey'[s] = nsKey[s]
  BY <1>0 DEF TypeOK
<1>5. \A s \in Namespaces : s \in Nat
  BY DEF Namespaces
<1>6. TypeOK'
  BY <1>0, <1>1, <1>3, <1>4 DEF TypeOK
<1>7. Store'
  <2>1. \A s \in Namespaces, o \in Objects : Has(s, o)' => bucket'[s][o].n > 0 /\ s <= rotations'
    BY <1>0, <1>5 DEF Store, Has
  <2>2. Informed => OneKey'
    BY <1>0, <1>4 DEF Store, OneKey, Has
  <2>3. \A e \in Devices : ns'[e] <= rotations' /\ task'[e].target <= rotations'
    <3> SUFFICES ASSUME NEW e \in Devices
                 PROVE  ns'[e] <= rotations' /\ task'[e].target <= rotations'
      OBVIOUS
    <3>1. CASE e = d
      BY <1>0, <1>2, <1>3, <3>1
    <3>2. CASE e # d
      <4>1. /\ ns'[e] = ns[e] /\ task'[e] = task[e] /\ ns[e] <= rotations /\ task[e].target <= rotations
            /\ ns[e] \in Nat /\ task[e].target \in Nat
        BY <1>0, <1>1, <1>3, <1>5, <3>2, TypeFacts DEF Store, Others
      <4> QED
        BY <1>0, <4>1
    <3> QED
      BY <3>1, <3>2
  <2> QED
    BY <2>1, <2>2, <2>3 DEF Store
<1>8. Apart(d)
  <2>1. ASSUME NEW e \in Devices, e # d, Working(e)
        PROVE  task[e].target # marker /\ task[e].target # t
    <3>1. task[e].target \in Nat /\ task[e].target <= rotations
      BY <1>0, <1>5, TypeFacts DEF Store
    <3>2. task[e].target # marker
      BY <2>1 DEF Inv, Device, Private
    <3> QED
      BY <1>0, <3>1, <3>2
  <2>2. \A s \in Namespaces, o \in Objects : HasNext(s, o) <=> Has(s, o)
    BY <1>0 DEF Has, HasNext
  <2>3. \A e \in Devices : task[e].target \in Namespaces
    BY <1>0, TypeFacts
  <2>4. rotations' \in Nat /\ rotations <= rotations'
    BY <1>0
  <2> QED
    BY <1>0, <1>1, <1>2, <1>3, <1>4, <2>1, <2>2, <2>3, <2>4 DEF Apart
<1>9. Device(d)'
  <2>1. Pass(d)'
    BY <1>2 DEF Pass
  <2>2. \A o \in Objects : ~Has(t, o)
    BY <1>0 DEF Store
  <2>3. Copying(d)'
    BY <1>0, <1>2, <2>2 DEF Copying, Has
  <2>4. ASSUME NEW e \in Devices
        PROVE  /\ ns'[e] # t
               /\ e # d => task'[e].target # t
    <3>1. ns[e] \in Nat /\ task[e].target \in Nat /\ ns[e] <= rotations /\ task[e].target <= rotations
      BY <1>0, <1>5, TypeFacts DEF Store
    <3> QED
      BY <1>0, <1>1, <1>3, <3>1 DEF Others
  <2>5. t \in 1..t /\ t # marker
    BY <1>0
  <2>6. Private(d)'
    BY <1>0, <1>2, <2>4, <2>5 DEF Private
  <2> QED
    BY <2>1, <2>3, <2>6 DEF Device
<1> QED
  BY <1>6, <1>7, <1>8, <1>9, LoudStep

LEMMA ListType ==
    ASSUME NEW x \in Task, NEW present \in SUBSET Objects
    PROVE  [x EXCEPT !.pc = "copy", !.listed = present, !.todo = present] \in Task
  BY DEF Task, Stages

LEMMA ListStep ==
    ASSUME Inv, NEW d \in Devices, List(d)
    PROVE  Inv'
<1> DEFINE present == {o \in Objects : Has(ns[d], o)}
<1>0. /\ TypeOK /\ Store /\ Device(d) /\ task[d] \in Task /\ task[d].pc = "list"
      /\ UNCHANGED <<marker, bucket, nsKey, ns, key, rows, local, edits, rotations, failures>>
      /\ present \in SUBSET Objects
      /\ task' = [task EXCEPT ![d] = [task[d] EXCEPT !.pc = "copy", !.listed = present, !.todo = present]]
  BY TypeFacts DEF Inv, List
<1>1. \A o \in present : o \in Objects /\ Has(ns[d], o)
  OBVIOUS
<1> HIDE DEF present
<1>2. /\ task' \in [Devices -> Task] /\ Others(d)
      /\ task'[d] = [task[d] EXCEPT !.pc = "copy", !.listed = present, !.todo = present]
  BY <1>0, ListType, TaskSet
<1>3. /\ task'[d].pc = "copy" /\ task'[d].target = task[d].target
      /\ task'[d].listed = present /\ task'[d].todo = present
  BY <1>0, <1>2 DEF Task
<1>4. TypeOK'
  BY <1>0, <1>2 DEF TypeOK
<1>5. Pass(d)'
  BY <1>3 DEF Pass
<1>6. Copying(d)'
  BY <1>0, <1>1, <1>3 DEF Copying, Device, Has
<1>7. Working(d)
  BY <1>0 DEF Working
<1> QED
  BY <1>0, <1>2, <1>3, <1>4, <1>5, <1>6, <1>7, QuietStep

LEMMA ReadMarkerType ==
    ASSUME NEW x \in Task, NEW m \in Namespaces
    PROVE  [x EXCEPT !.pc = "switch", !.seenMarker = m] \in Task
  BY DEF Task, Stages

LEMMA ReadMarkerStep ==
    ASSUME Inv, NEW d \in Devices, ReadMarker(d)
    PROVE  Inv'
<1>0. /\ TypeOK /\ Store /\ Device(d) /\ task[d] \in Task /\ task[d].pc = "copy" /\ task[d].todo = {}
      /\ marker \in Namespaces
      /\ UNCHANGED <<marker, bucket, nsKey, ns, key, rows, local, edits, rotations, failures>>
      /\ task' = [task EXCEPT ![d] = [task[d] EXCEPT !.pc = "switch", !.seenMarker = marker]]
  BY TypeFacts DEF Inv, ReadMarker
<1>1. /\ task' \in [Devices -> Task] /\ Others(d)
      /\ task'[d] = [task[d] EXCEPT !.pc = "switch", !.seenMarker = marker]
  BY <1>0, ReadMarkerType, TaskSet
<1>2. /\ task'[d].pc = "switch" /\ task'[d].target = task[d].target
      /\ task'[d].listed = task[d].listed /\ task'[d].todo = task[d].todo
  BY <1>0, <1>1 DEF Task
<1>3. TypeOK'
  BY <1>0, <1>1 DEF TypeOK
<1>4. Pass(d)' /\ Working(d)
  BY <1>0, <1>2 DEF Pass, Working
<1>5. Copying(d)'
  BY <1>0, <1>2 DEF Copying, Device, Has
<1> QED
  BY <1>0, <1>1, <1>2, <1>3, <1>4, <1>5, QuietStep

LEMMA CopyType ==
    ASSUME NEW x \in Task, NEW rest \in SUBSET Objects
    PROVE  [x EXCEPT !.todo = rest] \in Task
  BY DEF Task

\* An object that is copied is written where nobody else reads or writes.
LEMMA CopyStep ==
    ASSUME Inv, NEW d \in Devices, NEW o \in Objects, Copy(d, o)
    PROVE  Inv'
<1> DEFINE t == task[d].target
<1> DEFINE c == Rewrapped(d, o)
<1> DEFINE rest == task[d].todo \ {o}
<1>0. /\ TypeOK /\ Store /\ Device(d) /\ Working(d) /\ task[d] \in Task /\ task[d].pc = "copy"
      /\ t \in Namespaces /\ o \in task[d].todo
      /\ UNCHANGED <<marker, nsKey, ns, key, rows, local, edits, rotations, failures>>
      /\ rest \in SUBSET Objects /\ rotations \in Nat /\ ns[d] \in Namespaces
  BY TypeFacts DEF Inv, Copy, Working
<1>1. CASE End(d) /\ UNCHANGED bucket
  <2>1. failures' \in Nat
    BY <1>0 DEF TypeOK
  <2> QED
    BY <1>0, <1>1, <2>1, EndStep
<1>2. CASE /\ bucket' = [bucket EXCEPT ![t][o] = c]
           /\ task' = [task EXCEPT ![d] = [task[d] EXCEPT !.todo = rest]]
  <2>1. /\ task' \in [Devices -> Task] /\ Others(d)
        /\ task'[d] = [task[d] EXCEPT !.todo = rest]
    BY <1>0, <1>2, CopyType, TaskSet
  <2>2. /\ task'[d].pc = "copy" /\ task'[d].target = t
        /\ task'[d].listed = task[d].listed /\ task'[d].todo = rest
    BY <1>0, <2>1 DEF Task
  <2>3. Has(ns[d], o) /\ t <= rotations /\ t # ns[d] /\ t # marker
    BY <1>0 DEF Device, Copying, Private, Store
  <2>4. c \in Content /\ c.n > 0 /\ c.key = nsKey[t]
    <3>1. nsKey[t] \in Configs /\ bucket[ns[d]][o].n \in Nat
      BY <1>0, TypeFacts DEF TypeOK
    <3>2. bucket[ns[d]][o].n > 0
      BY <1>0, <2>3 DEF Store
    <3> QED
      BY <3>1, <3>2 DEF Rewrapped, Content
  <2>5. bucket \in [Namespaces -> [Objects -> Content]]
    BY <1>0 DEF TypeOK
  <2> HIDE DEF c
  <2>6. /\ bucket' \in [Namespaces -> [Objects -> Content]]
        /\ bucket'[t][o] = c
        /\ \A s \in Namespaces, p \in Objects : s # t \/ p # o => bucket'[s][p] = bucket[s][p]
    BY <1>0, <1>2, <2>4, <2>5
  <2>7. TypeOK'
    BY <1>0, <2>1, <2>6 DEF TypeOK
  <2>8. c # Absent
    BY <2>4 DEF Absent
  <2>9. Store'
    <3>1. \A s \in Namespaces, p \in Objects :
              Has(s, p)' => bucket'[s][p].n > 0 /\ s <= rotations
      BY <1>0, <2>3, <2>4, <2>6 DEF Store, Has
    <3>2. Informed => OneKey'
      <4> SUFFICES ASSUME Informed, NEW s \in Namespaces, NEW p \in Objects, Has(s, p)'
                   PROVE  bucket'[s][p].key = nsKey[s]
        BY <1>0 DEF OneKey
      <4>1. CASE s = t /\ p = o
        BY <2>4, <2>6, <4>1
      <4>2. CASE s # t \/ p # o
        BY <1>0, <2>6, <4>2 DEF Store, OneKey, Has
      <4> QED
        BY <4>1, <4>2
    <3>3. \A e \in Devices : ns'[e] <= rotations /\ task'[e].target <= rotations
      BY <1>0, <2>1, <2>2, <2>3 DEF Store, Others
    <3> QED
      BY <1>0, <3>1, <3>2, <3>3 DEF Store
  <2>10. Apart(d)
    <3>1. \A s \in Namespaces, p \in Objects : Has(s, p) => HasNext(s, p)
      BY <2>6, <2>8 DEF Has, HasNext
    <3>2. ASSUME NEW e \in Devices, e # d, Working(e)
          PROVE  /\ \A p \in Objects : HasNext(task[e].target, p) => Has(task[e].target, p)
                 /\ marker' # task[e].target
                 /\ ns'[d] # task[e].target
                 /\ task'[d].target # task[e].target
      <4>1. task[e].target # marker /\ task[e].target # ns[d] /\ task[e].target # t
        BY <1>0, <3>2 DEF Inv, Device, Private
      <4>2. task[e].target \in Namespaces
        BY <1>0, TypeFacts
      <4>3. \A p \in Objects : HasNext(task[e].target, p) => Has(task[e].target, p)
        BY <2>6, <4>1, <4>2 DEF Has, HasNext
      <4> QED
        BY <1>0, <2>2, <4>1, <4>3
    <3> QED
      BY <1>0, <2>1, <3>1, <3>2 DEF Apart
  <2>11. Device(d)'
    <3>1. Pass(d)'
      BY <2>2 DEF Pass
    <3>2. Private(d)'
      <4>1. ASSUME NEW e \in Devices, e # d
            PROVE  task'[e] = task[e] /\ (Working(e)' => Working(e))
        BY <2>1, <4>1 DEF Others, Working
      <4>2. \A e \in Devices : e # d /\ Working(e)' => task'[e].target # t
        BY <1>0, <4>1 DEF Device, Private
      <4> QED
        BY <1>0, <2>2, <4>2 DEF Device, Private
    <3>3. Copying(d)'
      <4>1. task[d].todo \subseteq Objects /\ task[d].listed \subseteq Objects
        BY <1>0, TypeFacts
      <4>2. \A p \in rest : bucket'[t][p] = Absent /\ bucket'[ns[d]][p] # Absent
        BY <1>0, <2>3, <2>6, <4>1 DEF Device, Copying, Has
      <4>3. \A p \in task[d].listed \ rest : bucket'[t][p] # Absent
        BY <1>0, <2>6, <2>8, <4>1 DEF Device, Copying, Has
      <4> QED
        BY <1>0, <2>2, <4>2, <4>3 DEF Copying, Has
    <3> QED
      BY <3>1, <3>2, <3>3 DEF Device
  <2> QED
    BY <2>7, <2>9, <2>10, <2>11, LoudStep
<1> QED
  BY <1>1, <1>2 DEF Copy

\* The marker moves to a namespace that is nobody else's.
LEMMA MarkerStep ==
    ASSUME Inv, NEW d \in Devices, Working(d), marker' = task[d].target,
           task' \in [Devices -> Task], Others(d), task'[d].pc \in {"idle", "install"},
           task'[d].target \in {task[d].target, 0},
           ns' \in [Devices -> Namespaces], ns'[d] \in {ns[d], task[d].target},
           \A e \in Devices : e # d => ns'[e] = ns[e],
           failures' \in Nat,
           UNCHANGED <<bucket, nsKey, key, rows, local, edits, rotations>>
    PROVE  Inv'
<1>0. /\ TypeOK /\ Store /\ rotations \in Nat
      /\ task[d].target \in 1..rotations
  BY TypeFacts DEF Inv, Device, Private
<1>1. TypeOK'
  BY <1>0 DEF TypeOK
<1>2. ~Working(d)'
  BY DEF Working
<1>3. Device(d)'
  BY <1>2 DEF Device, Pass, Private, Copying
<1>4. \A s \in Namespaces, o \in Objects : (Has(s, o)' <=> Has(s, o)) /\ (HasNext(s, o) <=> Has(s, o))
  BY DEF Has, HasNext
<1>5. Apart(d)
  <2>1. ASSUME NEW e \in Devices, e # d, Working(e)
        PROVE  /\ task[e].target # task[d].target /\ task[e].target # ns[d]
               /\ task[e].target \in Namespaces
    BY <1>0, <2>1, TypeFacts DEF Inv, Device, Private
  <2> QED
    BY <1>0, <1>2, <1>4, <2>1 DEF Apart
<1>6. Store'
  <2>1. \A e \in Devices : ns'[e] <= rotations /\ task'[e].target <= rotations
    BY <1>0 DEF Store, Others
  <2>2. OneKey => OneKey'
    BY DEF OneKey, Has
  <2> QED
    BY <1>0, <1>4, <2>1, <2>2 DEF Store
<1> QED
  BY <1>1, <1>3, <1>5, <1>6, LoudStep

LEMMA SwitchStep ==
    ASSUME Inv, NEW d \in Devices, Switch(d)
    PROVE  Inv'
<1>0. /\ TypeOK /\ Working(d) /\ failures' \in Nat /\ task[d].target \in Namespaces
      /\ UNCHANGED <<bucket, nsKey, key, rows, local, edits, rotations, failures>>
  BY TypeFacts DEF Inv, TypeOK, Switch, Working
<1>1. CASE End(d) /\ UNCHANGED <<marker, ns>>
  BY <1>0, <1>1, EndStep
<1>2. CASE marker' = task[d].target /\ ns' = [ns EXCEPT ![d] = task[d].target] /\ Goto(d, "install")
  <2>1. /\ task' \in [Devices -> Task] /\ Others(d)
        /\ task'[d].pc = "install" /\ task'[d].target = task[d].target
    BY <1>0, <1>2, GotoTask DEF Stages
  <2>2. /\ ns' \in [Devices -> Namespaces] /\ ns'[d] = task[d].target
        /\ \A e \in Devices : e # d => ns'[e] = ns[e]
    BY <1>0, <1>2 DEF TypeOK
  <2> QED
    BY <1>0, <1>2, <2>1, <2>2, MarkerStep
<1> QED
  BY <1>1, <1>2 DEF Switch

LEMMA SwitchUnansweredStep ==
    ASSUME Inv, NEW d \in Devices, SwitchUnanswered(d)
    PROVE  Inv'
<1>0. /\ TypeOK /\ Working(d) /\ failures' \in Nat /\ marker' = task[d].target
      /\ UNCHANGED <<bucket, nsKey, ns, key, rows, local, edits, rotations>>
  BY DEF Inv, TypeOK, SwitchUnanswered, MayFail, Working
<1>1. task' \in [Devices -> Task] /\ Others(d) /\ task'[d].pc = "idle" /\ task'[d].target = 0
  BY <1>0, EndTask DEF SwitchUnanswered
<1>2. ns' \in [Devices -> Namespaces]
  BY <1>0 DEF TypeOK
<1> QED
  BY <1>0, <1>1, <1>2, MarkerStep

LEMMA StutterStep ==
    ASSUME Inv, UNCHANGED vars
    PROVE  Inv'
<1>1. TypeOK'
  BY DEF Inv, TypeOK, vars
<1>2. Store'
  BY DEF Inv, Store, OneKey, Has, vars
<1>3. \A d \in Devices : Device(d)'
  BY DEF Inv, Device, Pass, Private, Copying, Working, Has, vars
<1> QED
  BY <1>1, <1>2, <1>3 DEF Inv

LEMMA InvStep ==
    ASSUME Inv, [Next]_vars
    PROVE  Inv'
<1>1. ASSUME NEW d \in Devices, NEW o \in Objects, Edit(d, o) \/ Sync(d, o) PROVE Inv'
  BY <1>1, EditStep, SyncStep
<1>2. ASSUME NEW d \in Devices, NEW c \in Configs, Rotate(d, c) PROVE Inv'
  BY <1>2, RotateStep
<1>3. ASSUME NEW d \in Devices, Step(d) PROVE Inv'
  BY <1>3, ReadObjectStep, WriteObjectStep, ListStep, CopyStep, ReadMarkerStep, SwitchStep,
     InstallStep DEF Step
<1>4. ASSUME NEW d \in Devices, Reopen(d) \/ Fail(d) \/ SwitchUnanswered(d) \/ Crash(d) PROVE Inv'
  BY <1>4, ReopenStep, FailStep, SwitchUnansweredStep, CrashStep
<1> QED
  BY <1>1, <1>2, <1>3, <1>4, StutterStep DEF Next

LEMMA SpecInv == Spec => []Inv
  BY InitInv, InvStep, PTL DEF Spec

-----------------------------------------------------------------------------
(* Theorems *)

LEMMA ForwardStep ==
    ASSUME Inv, [Next]_vars, NEW s \in Namespaces, NEW o \in Objects, Has(s, o)
    PROVE  bucket'[s][o] = bucket[s][o] \/ bucket'[s][o].n > bucket[s][o].n
<1>0. TypeOK /\ bucket \in [Namespaces -> [Objects -> Content]]
  BY DEF Inv, TypeOK
<1>1. ASSUME NEW d \in Devices, WriteObject(d)
      PROVE  bucket'[s][o] = bucket[s][o] \/ bucket'[s][o].n > bucket[s][o].n
  <2> DEFINE p == task[d].obj
  <2> DEFINE c == [n |-> local[d][p], key |-> key[d]]
  <2>1. /\ p \in Objects /\ ns[d] \in Namespaces
        /\ local[d][p] > task[d].seen.n
    BY <1>0, <1>1, TypeFacts DEF Inv, Device, Pass, WriteObject
  <2>2. c.n = local[d][p]
    OBVIOUS
  <2>3. \/ UNCHANGED bucket
        \/ bucket[ns[d]][p] = task[d].seen /\ bucket' = [bucket EXCEPT ![ns[d]][p] = c]
    BY <1>1 DEF WriteObject
  <2> HIDE DEF p, c
  <2>4. CASE s = ns[d] /\ o = p
    BY <1>0, <2>1, <2>2, <2>3, <2>4
  <2>5. CASE s # ns[d] \/ o # p
    BY <1>0, <2>1, <2>3, <2>5
  <2> QED
    BY <2>4, <2>5
<1>2. ASSUME NEW d \in Devices, NEW p \in Objects, Copy(d, p)
      PROVE  bucket'[s][o] = bucket[s][o]
  <2> DEFINE t == task[d].target
  <2>1. t \in Namespaces /\ ~Has(t, p)
    BY <1>0, <1>2, TypeFacts DEF Inv, Device, Copying, Copy
  <2>2. UNCHANGED bucket \/ bucket' = [bucket EXCEPT ![t][p] = Rewrapped(d, p)]
    BY <1>2 DEF Copy
  <2> HIDE DEF t
  <2>3. s # t \/ o # p
    BY <2>1
  <2> QED
    BY <1>0, <2>1, <2>2, <2>3
<1>3. ASSUME NEW d \in Devices, Step(d)
      PROVE  bucket'[s][o] = bucket[s][o] \/ bucket'[s][o].n > bucket[s][o].n
  <2>1. CASE ReadObject(d) \/ List(d) \/ ReadMarker(d) \/ Switch(d) \/ Install(d)
    BY <2>1 DEF ReadObject, List, ReadMarker, Switch, Install
  <2> QED
    BY <1>1, <1>2, <1>3, <2>1 DEF Step
<1>4. ASSUME NEW d \in Devices, NEW p \in Objects, Edit(d, p) \/ Sync(d, p)
      PROVE  bucket' = bucket
  BY <1>4 DEF Edit, Sync
<1>5. ASSUME NEW d \in Devices, NEW c \in Configs, Rotate(d, c)
      PROVE  bucket' = bucket
  BY <1>5 DEF Rotate
<1>6. ASSUME NEW d \in Devices, Reopen(d) \/ Fail(d) \/ SwitchUnanswered(d) \/ Crash(d)
      PROVE  bucket' = bucket
  BY <1>6 DEF Reopen, Fail, SwitchUnanswered, Crash
<1>7. CASE UNCHANGED vars
  BY <1>7 DEF vars
<1> QED
  BY <1>3, <1>4, <1>5, <1>6, <1>7 DEF Next

\* The states of rotations, passes and the table kek_versions are those their
\* code can produce; in the table every version and every id occurs once.
THEOREM KekTypes == Spec => []TypeOK
<1>1. Inv => TypeOK
  BY DEF Inv
<1> QED
  BY SpecInv, <1>1, PTL

\* rotate_envelope_kek_inner goes for the marker only when all it has listed is
\* in the new namespace, with any number of devices rotating at the same time.
THEOREM ReadyBeforeSwitch == Spec => []NamespaceReady
<1>1. Inv => NamespaceReady
  BY DEF Inv, Device, Copying, NamespaceReady
<1> QED
  BY SpecInv, <1>1, PTL

\* When devices run passes only with the key of the active namespace, everything
\* in a namespace is under its key, for any number of rotations and failures.
THEOREM KeyIsOne == Informed => (Spec => []OneKey)
<1> SUFFICES ASSUME Informed PROVE Spec => []OneKey
  OBVIOUS
<1>1. Inv => OneKey
  BY DEF Inv, Store
<1> QED
  BY SpecInv, <1>1, PTL

\* Passes and rotations, complete, failed or beaten, never take an object away
\* or put an older edit in its place.
THEOREM NeverBack == Spec => OnlyForward
<1>1. Inv /\ [Next]_vars =>
        [\A s \in Namespaces, o \in Objects :
            Has(s, o) => bucket'[s][o] = bucket[s][o] \/ bucket'[s][o].n > bucket[s][o].n]_vars
  BY ForwardStep
<1> QED
  BY SpecInv, <1>1, PTL DEF Spec, OnlyForward
=============================================================================
