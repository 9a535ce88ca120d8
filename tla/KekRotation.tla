----------------------------- MODULE KekRotation -----------------------------
(***************************************************************************)
(* Rotation of the key-encryption key (KEK).  The objects of the bucket    *)
(* live in a namespace, a path prefix that the object                      *)
(* _active_namespace.json (the marker) names.  A rotation copies what is   *)
(* in the active namespace, re-wrapped for the new key, into a namespace   *)
(* of its own, then moves the marker to it with a conditional write, then  *)
(* installs the new key in its own instance.  Passes of all devices go on  *)
(* meanwhile; every operation begins by reading the marker.                *)
(*                                                                         *)
(* An object stands for the files of one book.  Its content is the number  *)
(* of an edit and the key it is wrapped for; a pass keeps the newer of the *)
(* device's edit and the remote one (MetaSync has the details).            *)
(***************************************************************************)
EXTENDS Naturals

CONSTANTS
    Devices,        \* instances, each with its cache directory
    Objects,        \* books
    Configs,        \* envelope configurations: records of kek_version and kek_id
    FirstConfig,    \* the configuration everyone starts with
    Informed,       \* TRUE: a device runs passes only with the key of the active namespace
    MaxEdits,       \* bound on the edits of the app
    MaxRotations,   \* bound on the rotations that begin
    MaxFailures     \* bound on failed requests and crashes

ASSUME ConfigAssumption == FirstConfig \in Configs
ASSUME FlagAssumption   == Informed \in BOOLEAN
ASSUME BoundsAssumption ==
    MaxEdits \in Nat /\ MaxRotations \in Nat /\ MaxFailures \in Nat

Namespaces == 0..MaxRotations   \* 0: no marker, paths without prefix; else by creation

Content == [n : Nat, key : Configs]

Absent == [n |-> 0, key |-> FirstConfig]

VARIABLES
    marker,     \* the active namespace
    bucket,     \* bucket[s][o]: object o in namespace s
    nsKey,      \* nsKey[s]: the configuration namespace s was made for
    ns,         \* ns[d]: active_remote_namespace of instance d (None is 0)
    key,        \* key[d]: the configuration whose key d uses
    rows,       \* rows[d]: the table kek_versions of d
    local,      \* local[d][o]: the edit of o that d has in its cache; 0: none
    task,       \* task[d]: the operation d is running
    edits, rotations, failures

vars == <<marker, bucket, nsKey, ns, key, rows, local, task, edits, rotations, failures>>

Stages == {"idle", "read", "write", "list", "copy", "switch", "install"}

Task == [pc : Stages, obj : Objects \cup {"none"}, seen : Content, target : Namespaces,
         listed : SUBSET Objects, todo : SUBSET Objects, seenMarker : Namespaces]

Idle == [pc |-> "idle", obj |-> "none", seen |-> Absent, target |-> 0,
         listed |-> {}, todo |-> {}, seenMarker |-> 0]

Init ==
    /\ marker    = 0
    /\ bucket    = [s \in Namespaces |-> [o \in Objects |-> Absent]]
    /\ nsKey     = [s \in Namespaces |-> FirstConfig]
    /\ ns        = [d \in Devices |-> 0]
    /\ key       = [d \in Devices |-> FirstConfig]
    /\ rows      = [d \in Devices |-> {FirstConfig}]
    /\ local     = [d \in Devices |-> [o \in Objects |-> 0]]
    /\ task      = [d \in Devices |-> Idle]
    /\ edits     = 0
    /\ rotations = 0
    /\ failures  = 0

End(d) == task' = [task EXCEPT ![d] = Idle]

Goto(d, stage) == task' = [task EXCEPT ![d].pc = stage]

Has(s, o) == bucket[s][o] # Absent

-----------------------------------------------------------------------------
(* The table of KEK versions: version is the primary key, kek_id is UNIQUE *)

\* The insert with ON CONFLICT(version) DO UPDATE succeeds.
Registers(table, c) == \A r \in table : r.id = c.id => r.version = c.version

\* Variant with a fault: the version is used without being entered.
RegisteredNowhere(table, c) == table

Registered(table, c) == {r \in table : r.version # c.version} \cup {c}

-----------------------------------------------------------------------------
(* Passes *)

Edit(d, o) ==
    /\ task[d].pc = "idle"
    /\ edits < MaxEdits
    /\ edits' = edits + 1
    /\ local' = [local EXCEPT ![d][o] = edits + 1]
    /\ UNCHANGED <<marker, bucket, nsKey, ns, key, rows, task, rotations, failures>>

\* Variant with a fault: a namespace that is known is not refreshed.
SyncCached(d, o) ==
    /\ task[d].pc = "idle"
    /\ Informed => key[d] = nsKey[marker]
    /\ ns' = [ns EXCEPT ![d] = IF @ = 0 THEN marker ELSE @]
    /\ task' = [task EXCEPT ![d].pc = "read", ![d].obj = o]
    /\ UNCHANGED <<marker, bucket, nsKey, key, rows, local, edits, rotations, failures>>

\* refresh_active_remote_namespace at the beginning of a pass.
Sync(d, o) ==
    /\ task[d].pc = "idle"
    /\ Informed => key[d] = nsKey[marker]
    /\ ns' = [ns EXCEPT ![d] = marker]
    /\ task' = [task EXCEPT ![d].pc = "read", ![d].obj = o]
    /\ UNCHANGED <<marker, bucket, nsKey, key, rows, local, edits, rotations, failures>>

\* The read of a pass: it fails if the key is another; otherwise the newer edit wins.
ReadObject(d) ==
    LET o == task[d].obj
        c == bucket[ns[d]][o]
    IN  /\ task[d].pc = "read"
        /\ \/ c # Absent /\ c.key # key[d] /\ End(d) /\ UNCHANGED local
           \/ /\ c = Absent \/ c.key = key[d]
              /\ c.n >= local[d][o]
              /\ local' = [local EXCEPT ![d][o] = c.n]
              /\ End(d)
           \/ /\ c = Absent \/ c.key = key[d]
              /\ c.n < local[d][o]
              /\ task' = [task EXCEPT ![d].pc = "write", ![d].seen = c]
              /\ UNCHANGED local
        /\ UNCHANGED <<marker, bucket, nsKey, ns, key, rows, edits, rotations, failures>>

\* Variant with a fault: the path is computed from a marker read again.
WriteToMarker(d) ==
    LET o == task[d].obj
    IN  /\ task[d].pc = "write"
        /\ \/ /\ bucket[marker][o] = task[d].seen
              /\ bucket' = [bucket EXCEPT ![marker][o] = [n |-> local[d][o], key |-> key[d]]]
              /\ End(d)
           \/ bucket[marker][o] # task[d].seen /\ UNCHANGED bucket /\ Goto(d, "read")
        /\ UNCHANGED <<marker, nsKey, ns, key, rows, local, edits, rotations, failures>>

\* The conditional write of a pass, in the namespace it began with; when it has
\* lost the race it reads again, in the same namespace.
WriteObject(d) ==
    LET o == task[d].obj
        s == ns[d]
    IN  /\ task[d].pc = "write"
        /\ \/ /\ bucket[s][o] = task[d].seen
              /\ bucket' = [bucket EXCEPT ![s][o] = [n |-> local[d][o], key |-> key[d]]]
              /\ End(d)
           \/ bucket[s][o] # task[d].seen /\ UNCHANGED bucket /\ Goto(d, "read")
        /\ UNCHANGED <<marker, nsKey, ns, key, rows, local, edits, rotations, failures>>

-----------------------------------------------------------------------------
(* Rotation *)

\* A rotation to configuration c begins; its namespace is one of its own (the name
\* has the version and the time in it).
Rotate(d, c) ==
    /\ task[d].pc = "idle"
    /\ rotations < MaxRotations
    /\ rotations' = rotations + 1
    /\ nsKey' = [nsKey EXCEPT ![rotations + 1] = c]
    /\ ns' = [ns EXCEPT ![d] = marker]
    /\ task' = [task EXCEPT ![d].pc = "list", ![d].target = rotations + 1]
    /\ UNCHANGED <<marker, bucket, key, rows, local, edits, failures>>

\* The objects of the active namespace are listed.
List(d) ==
    LET present == {o \in Objects : Has(ns[d], o)}
    IN  /\ task[d].pc = "list"
        /\ task' = [task EXCEPT ![d].pc = "copy", ![d].listed = present, ![d].todo = present]
        /\ UNCHANGED <<marker, bucket, nsKey, ns, key, rows, local, edits, rotations, failures>>

Rewrapped(d, o) == [n |-> bucket[ns[d]][o].n, key |-> nsKey[task[d].target]]

\* Variant with a fault: the object is replaced where it is.
CopyInPlace(d, o) ==
    /\ task[d].pc = "copy"
    /\ o \in task[d].todo
    /\ \/ bucket[ns[d]][o].key # key[d] /\ End(d) /\ UNCHANGED bucket
       \/ /\ bucket[ns[d]][o].key = key[d]
          /\ bucket' = [bucket EXCEPT ![ns[d]][o] = Rewrapped(d, o)]
          /\ task' = [task EXCEPT ![d].todo = @ \ {o}]
    /\ UNCHANGED <<marker, nsKey, ns, key, rows, local, edits, rotations, failures>>

\* Variant with a fault: an object that cannot be re-wrapped is left out.
CopySkipping(d, o) ==
    /\ task[d].pc = "copy"
    /\ o \in task[d].todo
    /\ bucket' = IF bucket[ns[d]][o].key = key[d]
                 THEN [bucket EXCEPT ![task[d].target][o] = Rewrapped(d, o)] ELSE bucket
    /\ task' = [task EXCEPT ![d].todo = @ \ {o}]
    /\ UNCHANGED <<marker, nsKey, ns, key, rows, local, edits, rotations, failures>>

\* Download, re-wrap and upload of one object, at the time of the download (nobody
\* else reads the target yet); an object under another key ends the rotation.
Copy(d, o) ==
    /\ task[d].pc = "copy"
    /\ o \in task[d].todo
    /\ \/ bucket[ns[d]][o].key # key[d] /\ End(d) /\ UNCHANGED bucket
       \/ /\ bucket[ns[d]][o].key = key[d]
          /\ bucket' = [bucket EXCEPT ![task[d].target][o] = Rewrapped(d, o)]
          /\ task' = [task EXCEPT ![d].todo = @ \ {o}]
    /\ UNCHANGED <<marker, nsKey, ns, key, rows, local, edits, rotations, failures>>

\* The marker is read, for its version, once everything is copied.
ReadMarker(d) ==
    /\ task[d].pc = "copy"
    /\ task[d].todo = {}
    /\ task' = [task EXCEPT ![d].pc = "switch", ![d].seenMarker = marker]
    /\ UNCHANGED <<marker, bucket, nsKey, ns, key, rows, local, edits, rotations, failures>>

\* The conditional write of the marker.
Switch(d) ==
    /\ task[d].pc = "switch"
    /\ \/ /\ marker = task[d].seenMarker
          /\ marker' = task[d].target
          /\ ns' = [ns EXCEPT ![d] = task[d].target]
          /\ Goto(d, "install")
       \/ marker # task[d].seenMarker /\ End(d) /\ UNCHANGED <<marker, ns>>
    /\ UNCHANGED <<bucket, nsKey, key, rows, local, edits, rotations, failures>>

\* register_envelope_kek_version, then the new key; an error leaves the old one.
Install(d) ==
    LET c == nsKey[task[d].target]
    IN  /\ task[d].pc = "install"
        /\ \/ /\ Registers(rows[d], c)
              /\ rows' = [rows EXCEPT ![d] = Registered(@, c)]
              /\ key' = [key EXCEPT ![d] = c]
           \/ ~Registers(rows[d], c) /\ UNCHANGED <<rows, key>>
        /\ End(d)
        /\ UNCHANGED <<marker, bucket, nsKey, ns, local, edits, rotations, failures>>

-----------------------------------------------------------------------------
(* Failures, and another configuration *)

MayFail == failures < MaxFailures /\ failures' = failures + 1

\* A request fails without effect: the operation ends.
Fail(d) ==
    /\ task[d].pc \notin {"idle", "install"}
    /\ MayFail
    /\ End(d)
    /\ UNCHANGED <<marker, bucket, nsKey, ns, key, rows, local, edits, rotations>>

\* The marker is written but the answer is lost.
SwitchUnanswered(d) ==
    /\ task[d].pc = "switch"
    /\ marker = task[d].seenMarker
    /\ MayFail
    /\ marker' = task[d].target
    /\ End(d)
    /\ UNCHANGED <<bucket, nsKey, ns, key, rows, local, edits, rotations>>

\* The process dies, and starts again with the configuration it had.
Crash(d) ==
    /\ task[d].pc # "idle"
    /\ MayFail
    /\ End(d)
    /\ ns' = [ns EXCEPT ![d] = 0]
    /\ UNCHANGED <<marker, bucket, nsKey, key, rows, local, edits, rotations>>

\* The app closes an instance whose key does not fit and calls create with the one
\* that does.
Reopen(d) ==
    LET c == nsKey[marker]
    IN  /\ task[d].pc = "idle"
        /\ key[d] # c
        /\ Registers(rows[d], c)
        /\ rows' = [rows EXCEPT ![d] = Registered(@, c)]
        /\ key' = [key EXCEPT ![d] = c]
        /\ ns' = [ns EXCEPT ![d] = 0]
        /\ UNCHANGED <<marker, bucket, nsKey, local, task, edits, rotations, failures>>

-----------------------------------------------------------------------------
Step(d) ==
    \/ ReadObject(d)
    \/ WriteObject(d)
    \/ List(d)
    \/ \E o \in Objects : Copy(d, o)
    \/ ReadMarker(d)
    \/ Switch(d)
    \/ Install(d)

Next ==
    \E d \in Devices :
        \/ \E o \in Objects : Edit(d, o) \/ Sync(d, o)
        \/ \E c \in Configs : Rotate(d, c)
        \/ Step(d)
        \/ Reopen(d)
        \/ Fail(d)
        \/ SwitchUnanswered(d)
        \/ Crash(d)

Spec == Init /\ [][Next]_vars

\* Running operations go on; every book is synchronised again and again; a
\* device whose key does not fit is opened again with the one that does.
Fairness ==
    \A d \in Devices :
        /\ WF_vars(Step(d))
        /\ \A o \in Objects : SF_vars(Sync(d, o))
        /\ WF_vars(Reopen(d))

FairSpec == Spec /\ Fairness

-----------------------------------------------------------------------------
(* Properties *)

TypeOK ==
    /\ marker \in 0..rotations
    /\ bucket \in [Namespaces -> [Objects -> Content]]
    /\ nsKey \in [Namespaces -> Configs]
    /\ ns \in [Devices -> Namespaces]
    /\ key \in [Devices -> Configs]
    /\ rows \in [Devices -> SUBSET Configs] /\ \A d \in Devices : key[d] \in rows[d]
    /\ local \in [Devices -> [Objects -> Nat]]
    /\ task \in [Devices -> Task]
    /\ edits \in Nat /\ rotations \in Namespaces /\ failures \in Nat
    /\ \A d \in Devices : \A r, s \in rows[d] : r.version = s.version \/ r.id = s.id => r = s

\* A rotation that goes for the marker has copied every object it listed, under
\* its key (rotate_envelope_kek_inner: new namespace first, marker last).
NamespaceReady ==
    \A d \in Devices :
        task[d].pc = "switch" \/ (task[d].pc = "copy" /\ task[d].todo = {})
            => \A o \in task[d].listed : Has(task[d].target, o)

\* Within a namespace an object is only ever replaced by a newer edit: a rotation,
\* complete, failed or beaten, does not touch what others read
\* (README: when a rotation fails the old namespace stays readable).
OnlyForward ==
    [][\A s \in Namespaces, o \in Objects :
          Has(s, o) => bucket'[s][o] = bucket[s][o] \/ bucket'[s][o].n > bucket[s][o].n]_vars

\* All objects of a namespace are under the key it was made for, whatever passes
\* and rotations, failed or beaten, do at the same time: who has it reads them all.
OneKey ==
    \A s \in Namespaces, o \in Objects : Has(s, o) => bucket[s][o].key = nsKey[s]

\* A namespace holds objects under one key only (CHANGELOG: a rotation that fails
\* midway no longer leaves old and new keys side by side).
Unmixed ==
    \A s \in Namespaces : \A o, p \in Objects :
        Has(s, o) /\ Has(s, p) => bucket[s][o].key = bucket[s][p].key

\* Rotations lose no edit for good: once edits, rotations and failures end, the
\* active namespace has the newest edit of every device (a pass writes again
\* what the marker left behind).
EditsReachActive ==
    <>[](\A d \in Devices, o \in Objects : local[d][o] = bucket[marker][o].n)

=============================================================================
