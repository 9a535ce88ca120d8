------------------------------- MODULE FileCas -------------------------------
(***************************************************************************)
(* FileStorage: the conditional write of one object that is a file in a    *)
(* directory several processes share.  A lock file beside it, created with *)
(* create_new, keeps writers apart; a waiter removes a lock file that is   *)
(* older than thirty seconds.  The new content goes to a temporary file,   *)
(* named after the process, and is renamed over the object.  A version is  *)
(* the hash of the content, so contents are compared.                      *)
(***************************************************************************)
EXTENDS Naturals

CONSTANTS
    Writers,    \* callers of write_object_conditional, one call each at a time
    Values,     \* contents
    Absent,     \* no file
    Process,    \* Process[w]: the process id of w, which names its temporary file
    MaxTries,   \* attempts to create the lock file (500 in the code)
    MaxFailures \* bound on the calls cut by a crash or an I/O error

ASSUME WriterAssumption  == Absent \notin Values
ASSUME ProcessAssumption == \A w \in Writers : Process[w] \in Nat
ASSUME TriesAssumption   == MaxTries \in Nat \ {0} /\ MaxFailures \in Nat

Contents == Values \cup {Absent}

Pids == {Process[w] : w \in Writers}

VARIABLES
    file,       \* the object
    lock,       \* the lock file: "none", "fresh" or "stale" (older than thirty seconds)
    temp,       \* temp[p]: the temporary file of process p
    pc,         \* pc[w]: what w does next
    seen,       \* seen[w]: the content whose version w's caller passes as expected
    data,       \* data[w]: the content to write
    matches,    \* matches[w]: the answer of w's call
    tries,      \* tries[w]: attempts left to create the lock file
    failures    \* number of calls cut so far

vars == <<file, lock, temp, pc, seen, data, matches, tries, failures>>

\* The stages in which w believes to hold the lock.
Critical == {"compare", "writeTemp", "rename", "unlock"}

Stages == {"idle", "create", "inspect", "break"} \cup Critical

Init ==
    /\ file    = Absent
    /\ lock    = "none"
    /\ temp    = [p \in Pids |-> Absent]
    /\ pc      = [w \in Writers |-> "idle"]
    /\ seen    = [w \in Writers |-> Absent]
    /\ data    = [w \in Writers |-> Absent]
    /\ matches = [w \in Writers |-> FALSE]
    /\ tries   = [w \in Writers |-> 0]
    /\ failures = 0

Goto(w, stage) == pc' = [pc EXCEPT ![w] = stage]

-----------------------------------------------------------------------------
(* One call *)

\* read_object_versioned by the caller, which then calls write_object_conditional
\* with the version it got.
Begin(w, v) ==
    /\ pc[w] = "idle"
    /\ Goto(w, "create")
    /\ seen'    = [seen EXCEPT ![w] = file]
    /\ data'    = [data EXCEPT ![w] = v]
    /\ matches' = [matches EXCEPT ![w] = FALSE]
    /\ tries'   = [tries EXCEPT ![w] = MaxTries]
    /\ UNCHANGED <<file, lock, temp, failures>>

\* Variant with a fault: open without create_new.
OpenLock(w) ==
    /\ pc[w] = "create"
    /\ lock' = "fresh"
    /\ Goto(w, "compare")
    /\ UNCHANGED <<file, temp, seen, data, matches, tries, failures>>

\* OpenOptions::create_new: the lock is taken, or it is there.
CreateLock(w) ==
    /\ pc[w] = "create"
    /\ \/ lock = "none" /\ lock' = "fresh" /\ Goto(w, "compare")
       \/ lock # "none" /\ UNCHANGED lock /\ Goto(w, "inspect")
    /\ UNCHANGED <<file, temp, seen, data, matches, tries, failures>>

\* Variant with a fault: one attempt more than the bound.
NextTryOnceMore(w) ==
    /\ tries' = [tries EXCEPT ![w] = @ - 1]
    /\ Goto(w, IF tries[w] = 0 THEN "idle" ELSE "create")

\* One attempt less; after the last the call returns an error.
NextTry(w) ==
    /\ tries' = [tries EXCEPT ![w] = @ - 1]
    /\ Goto(w, IF tries[w] = 1 THEN "idle" ELSE "create")

\* Variant with a fault: a stale lock is waited for like any other.
InspectWithoutAge(w) ==
    /\ pc[w] = "inspect"
    /\ NextTry(w)
    /\ UNCHANGED <<file, lock, temp, seen, data, matches, failures>>

\* The age of the lock file; a lock that is gone by now does not count as stale.
InspectLock(w) ==
    /\ pc[w] = "inspect"
    /\ \/ lock = "stale" /\ Goto(w, "break") /\ UNCHANGED tries
       \/ lock # "stale" /\ NextTry(w)
    /\ UNCHANGED <<file, lock, temp, seen, data, matches, failures>>

\* remove_file on whatever lock file is there now.
BreakLock(w) ==
    /\ pc[w] = "break"
    /\ lock' = "none"
    /\ NextTry(w)
    /\ UNCHANGED <<file, temp, seen, data, matches, failures>>

Compare(w) ==
    /\ pc[w] = "compare"
    /\ matches' = [matches EXCEPT ![w] = file = seen[w]]
    /\ Goto(w, IF file = seen[w] THEN "writeTemp" ELSE "unlock")
    /\ UNCHANGED <<file, lock, temp, seen, data, tries, failures>>

WriteTemp(w) ==
    /\ pc[w] = "writeTemp"
    /\ temp' = [temp EXCEPT ![Process[w]] = data[w]]
    /\ Goto(w, "rename")
    /\ UNCHANGED <<file, lock, seen, data, matches, tries, failures>>

\* fs::rename; without the temporary file the call fails and leaves the lock.
Rename(w) ==
    /\ pc[w] = "rename"
    /\ \/ /\ temp[Process[w]] # Absent
          /\ file' = temp[Process[w]]
          /\ temp' = [temp EXCEPT ![Process[w]] = Absent]
          /\ Goto(w, "unlock")
       \/ /\ temp[Process[w]] = Absent
          /\ Goto(w, "idle")
          /\ UNCHANGED <<file, temp>>
    /\ UNCHANGED <<lock, seen, data, matches, tries, failures>>

\* Variant with a fault: the lock of an answer "false" is not removed.
UnlockAfterWrite(w) ==
    /\ pc[w] = "unlock"
    /\ lock' = IF matches[w] THEN "none" ELSE lock
    /\ Goto(w, "idle")
    /\ UNCHANGED <<file, temp, seen, data, matches, tries, failures>>

\* remove_file on the lock; the call returns its answer, or an error if there is none.
Unlock(w) ==
    /\ pc[w] = "unlock"
    /\ lock' = "none"
    /\ Goto(w, "idle")
    /\ UNCHANGED <<file, temp, seen, data, matches, tries, failures>>

-----------------------------------------------------------------------------
(* Failures and time *)

MayFail == failures < MaxFailures /\ failures' = failures + 1

\* The process dies, or a write or a removal fails: what w has done stays.
Fail(w) ==
    /\ MayFail
    /\ pc[w] # "idle"
    /\ Goto(w, "idle")
    /\ UNCHANGED <<file, lock, temp, seen, data, matches, tries>>

\* Reading the object fails: the lock is removed and the call returns an error.
ReadError(w) ==
    /\ MayFail
    /\ pc[w] = "compare"
    /\ lock' = "none"
    /\ Goto(w, "idle")
    /\ UNCHANGED <<file, temp, seen, data, matches, tries>>

\* Thirty seconds pass.  A call that is going on takes less.
GrowOld ==
    /\ lock = "fresh"
    /\ \A w \in Writers : pc[w] \notin Critical
    /\ lock' = "stale"
    /\ UNCHANGED <<file, temp, pc, seen, data, matches, tries, failures>>

Step(w) ==
    \/ \E v \in Values : Begin(w, v)
    \/ CreateLock(w)
    \/ InspectLock(w)
    \/ BreakLock(w)
    \/ Compare(w)
    \/ WriteTemp(w)
    \/ Rename(w)
    \/ Unlock(w)

Next ==
    \/ \E w \in Writers : Step(w) \/ Fail(w) \/ ReadError(w)
    \/ GrowOld

Spec == Init /\ [][Next]_vars

\* Callers call again, a running call goes on, and time passes.
FairSpec == Spec /\ (\A w \in Writers : WF_vars(Step(w))) /\ WF_vars(GrowOld)

-----------------------------------------------------------------------------
(* Properties *)

TypeOK ==
    /\ file \in Contents
    /\ lock \in {"none", "fresh", "stale"}
    /\ temp \in [Pids -> Contents]
    /\ pc \in [Writers -> Stages]
    /\ seen \in [Writers -> Contents]
    /\ data \in [Writers -> Contents]
    /\ matches \in [Writers -> BOOLEAN]
    /\ tries \in [Writers -> Nat]
    /\ failures \in Nat

\* What the promise of write_object_conditional sees of a call.
Answer(w) == IF pc[w] # "unlock" THEN "pending"
             ELSE IF matches[w] THEN "true" ELSE "false"

CallOf(w) == IF pc[w] = "idle" THEN [answer |-> "none", seen |-> Absent, data |-> Absent]
             ELSE [answer |-> Answer(w), seen |-> seen[w], data |-> data[w]]

calls == [w \in Writers |-> CallOf(w)]

Abstract == INSTANCE CasRegister WITH object <- file, call <- calls

\* write_object_conditional is atomic: it replaces the exact version its caller
\* read, by what its caller passed, or answers that another writer won.
Atomic == Abstract!Spec

\* It is atomic as long as no call has been cut.
AtomicUntilCut ==
    /\ Abstract!Init
    /\ [][failures' = 0 => [Abstract!Next]_<<file, calls>>]_vars

\* A lock file that a dead process leaves behind does not stay for ever
\* (the age check of acquire_lock).
LockRemoved == lock # "none" ~> lock = "none"

\* At most one writer is between the creation and the removal of the lock file,
\* and the lock file is there exactly then.
Exclusive ==
    /\ \A v, w \in Writers : pc[v] \in Critical /\ pc[w] \in Critical => v = w
    /\ lock # "none" <=> \E w \in Writers : pc[w] \in Critical

\* The holder of the lock compares with, and replaces, what is still there.
HolderSafe(w) ==
    /\ pc[w] \in {"writeTemp", "rename"} => file = seen[w] /\ matches[w]
    /\ pc[w] = "rename" => temp[Process[w]] = data[w]
    /\ pc[w] # "idle" => data[w] \in Values
    /\ pc[w] # "break"

\* The lock file keeps writers apart until a call is cut (acquire_lock,
\* write_object_conditional); the inductive invariant behind AtomicUntilCut.
HolderInv ==
    failures = 0 => (\A w \in Writers : HolderSafe(w)) /\ lock # "stale" /\ Exclusive

=============================================================================
