---------------------------- MODULE FileCasProofs ----------------------------
(***************************************************************************)
(* For any number of writers, processes and attempts: the lock file keeps  *)
(* writers apart and the conditional write is atomic, until a call is cut.         *)
(***************************************************************************)
EXTENDS FileCas, TLAPS

\* Every state of the lock file protocol is well typed; in particular the number
\* of attempts never goes below zero (acquire_lock).
LEMMA TypeInit == Init => TypeOK
  BY TriesAssumption DEF Init, TypeOK, Contents, Stages, Critical

\* A call that waits for the lock has an attempt left.
TriesLeft == \A w \in Writers : pc[w] \in {"create", "inspect", "break"} => tries[w] > 0

\* No step leaves the types, and attempts run out exactly when a call gives up.
LEMMA TypeStep == TypeOK /\ TriesLeft /\ [Next]_vars => TypeOK' /\ TriesLeft'
<1> SUFFICES ASSUME TypeOK, TriesLeft, [Next]_vars PROVE TypeOK' /\ TriesLeft'
  OBVIOUS
<1> USE DEF TypeOK, TriesLeft, Goto
<1>1. ASSUME NEW w \in Writers, NEW v \in Values, Begin(w, v) PROVE TypeOK' /\ TriesLeft'
  BY <1>1, TriesAssumption DEF Begin, Contents, Stages
<1>2. ASSUME NEW w \in Writers, CreateLock(w) PROVE TypeOK' /\ TriesLeft'
  BY <1>2 DEF CreateLock, Stages, Critical
<1>3. ASSUME NEW w \in Writers, NextTry(w), pc[w] \in {"inspect", "break"}
      PROVE  /\ pc' \in [Writers -> Stages]
             /\ tries' \in [Writers -> Nat]
             /\ TriesLeft'
  <2>1. tries[w] \in Nat /\ tries[w] > 0
    BY <1>3
  <2>2. tries' = [tries EXCEPT ![w] = tries[w] - 1]
    BY <1>3 DEF NextTry
  <2>3. pc' = [pc EXCEPT ![w] = IF tries[w] = 1 THEN "idle" ELSE "create"]
    BY <1>3 DEF NextTry
  <2> QED
    BY <2>1, <2>2, <2>3 DEF Stages
<1>4. ASSUME NEW w \in Writers, InspectLock(w) PROVE TypeOK' /\ TriesLeft'
  <2>1. CASE Goto(w, "break") /\ UNCHANGED tries
    BY <1>4, <2>1 DEF InspectLock, Stages
  <2>2. CASE NextTry(w)
    BY <1>4, <2>2, <1>3 DEF InspectLock
  <2> QED
    BY <1>4, <2>1, <2>2 DEF InspectLock
<1>5. ASSUME NEW w \in Writers, BreakLock(w) PROVE TypeOK' /\ TriesLeft'
  BY <1>5, <1>3 DEF BreakLock
<1>6. ASSUME NEW w \in Writers, Compare(w) PROVE TypeOK' /\ TriesLeft'
  BY <1>6 DEF Compare, Stages, Critical
<1>7. ASSUME NEW w \in Writers, WriteTemp(w) PROVE TypeOK' /\ TriesLeft'
  BY <1>7 DEF WriteTemp, Stages, Critical, Pids
<1>8. ASSUME NEW w \in Writers, Rename(w) PROVE TypeOK' /\ TriesLeft'
  <2>1. Process[w] \in Pids
    BY DEF Pids
  <2> QED
    BY <1>8, <2>1 DEF Rename, Stages, Critical, Contents
<1>9. ASSUME NEW w \in Writers, Unlock(w) PROVE TypeOK' /\ TriesLeft'
  BY <1>9 DEF Unlock, Stages
<1>10. ASSUME NEW w \in Writers, Fail(w) \/ ReadError(w) PROVE TypeOK' /\ TriesLeft'
  BY <1>10 DEF Fail, ReadError, MayFail, Stages
<1>11. ASSUME GrowOld PROVE TypeOK' /\ TriesLeft'
  BY <1>11 DEF GrowOld
<1>12. ASSUME UNCHANGED vars PROVE TypeOK' /\ TriesLeft'
  BY <1>12 DEF vars
<1> QED
  BY <1>1, <1>2, <1>4, <1>5, <1>6, <1>7, <1>8, <1>9, <1>10, <1>11, <1>12 DEF Next, Step

\* Type correctness of the specification, whatever fails.
THEOREM TypeCorrect == Spec => [](TypeOK /\ TriesLeft)
<1>1. Init => TriesLeft
  BY DEF Init, TriesLeft
<1> QED
  BY <1>1, TypeInit, TypeStep, PTL DEF Spec

-----------------------------------------------------------------------------
\* A writer takes the lock, uses it and removes it alone (acquire_lock,
\* write_object_conditional), and what it compared with is still there when it
\* renames: HolderInv is inductive.
LEMMA HolderStep ==
    ASSUME TypeOK, HolderInv, [Next]_vars PROVE HolderInv'
<1> USE DEF TypeOK, HolderInv, HolderSafe, Exclusive, Critical, Goto
<1>1. ASSUME NEW w \in Writers, NEW v \in Values, Begin(w, v) PROVE HolderInv'
  BY <1>1 DEF Begin
<1>2. ASSUME NEW w \in Writers, CreateLock(w) PROVE HolderInv'
  BY <1>2 DEF CreateLock
<1>3. ASSUME NEW w \in Writers, InspectLock(w) PROVE HolderInv'
  BY <1>3 DEF InspectLock, NextTry
<1>4. ASSUME NEW w \in Writers, BreakLock(w) PROVE HolderInv'
  BY <1>4 DEF BreakLock
<1>5. ASSUME NEW w \in Writers, Compare(w) PROVE HolderInv'
  BY <1>5 DEF Compare
<1>6. ASSUME NEW w \in Writers, WriteTemp(w) PROVE HolderInv'
  <2>1. Process[w] \in Pids
    BY DEF Pids
  <2> QED
    BY <1>6, <2>1 DEF WriteTemp
<1>7. ASSUME NEW w \in Writers, Rename(w) PROVE HolderInv'
  <2>1. CASE failures = 0
    <3>1. temp[Process[w]] # Absent
      BY <1>7, <2>1, WriterAssumption DEF Rename
    <3> QED
      BY <1>7, <2>1, <3>1 DEF Rename
  <2>2. CASE failures # 0
    BY <1>7, <2>2 DEF Rename
  <2> QED
    BY <2>1, <2>2
<1>8. ASSUME NEW w \in Writers, Unlock(w) PROVE HolderInv'
  BY <1>8 DEF Unlock
<1>9. ASSUME NEW w \in Writers, Fail(w) \/ ReadError(w) PROVE HolderInv'
  BY <1>9 DEF Fail, ReadError, MayFail
<1>10. ASSUME GrowOld PROVE HolderInv'
  BY <1>10 DEF GrowOld
<1>11. ASSUME UNCHANGED vars PROVE HolderInv'
  BY <1>11 DEF vars
<1> HIDE DEF TypeOK, HolderInv, HolderSafe, Exclusive, Critical, Goto
<1> QED
  BY <1>1, <1>2, <1>3, <1>4, <1>5, <1>6, <1>7, <1>8, <1>9, <1>10, <1>11 DEF Next, Step

\* The lock file keeps writers apart until a call is cut.
THEOREM LockHolds == Spec => []HolderInv
<1>1. Init => HolderInv
  BY DEF Init, HolderInv, HolderSafe, Exclusive, Critical
<1>2. TypeOK /\ HolderInv /\ [Next]_vars => HolderInv'
  BY HolderStep
<1> QED
  BY <1>1, <1>2, TypeCorrect, PTL DEF Spec

-----------------------------------------------------------------------------
\* A step of the protocol is a step of the atomic register or changes nothing of
\* it: the write takes effect at the rename, a lost race at the comparison.
LEMMA AtomicStep ==
    ASSUME TypeOK, HolderInv, [Next]_vars, failures' = 0
    PROVE  [Abstract!Next]_<<file, calls>>
<1> USE DEF TypeOK, Goto
<1>0. failures = 0
  BY DEF Next, Step, vars, Begin, CreateLock, InspectLock, BreakLock, Compare, WriteTemp,
         Rename, Unlock, Fail, ReadError, MayFail, GrowOld
<1>1. ASSUME NEW w \in Writers, NEW v \in Values, Begin(w, v) PROVE Abstract!Read(w, v)
  BY <1>1 DEF Begin, Abstract!Read, calls, CallOf, Answer
<1>2. ASSUME NEW w \in Writers, pc[w] # "idle", pc' = [pc EXCEPT ![w] = "idle"],
             UNCHANGED <<file, seen, data, matches>>
      PROVE  Abstract!Return(w)
  BY <1>2 DEF Abstract!Return, Abstract!NoCall, calls, CallOf, Answer
<1>3. ASSUME NEW w \in Writers, pc[w] \notin {"idle", "unlock"},
             NEW stage \in Stages \ {"idle", "unlock"}, pc' = [pc EXCEPT ![w] = stage],
             UNCHANGED <<file, seen, data>>, \A u \in Writers : u # w => matches'[u] = matches[u]
      PROVE  UNCHANGED <<file, calls>>
  BY <1>3 DEF calls, CallOf, Answer
<1>4. ASSUME NEW w \in Writers, CreateLock(w) PROVE UNCHANGED <<file, calls>>
  BY <1>4, <1>3 DEF CreateLock, Stages, Critical
<1>5. ASSUME NEW w \in Writers, InspectLock(w)
      PROVE  Abstract!Return(w) \/ UNCHANGED <<file, calls>>
  BY <1>5, <1>2, <1>3 DEF InspectLock, NextTry, Stages
<1>6. ASSUME NEW w \in Writers, Compare(w)
      PROVE  Abstract!LoseRace(w) \/ UNCHANGED <<file, calls>>
  <2>1. CASE file = seen[w]
    BY <1>6, <2>1, <1>3 DEF Compare, Stages, Critical
  <2>2. CASE file # seen[w]
    BY <1>6, <2>2 DEF Compare, Abstract!LoseRace, calls, CallOf, Answer
  <2> QED
    BY <2>1, <2>2
<1>7. ASSUME NEW w \in Writers, WriteTemp(w) PROVE UNCHANGED <<file, calls>>
  BY <1>7, <1>3 DEF WriteTemp, Stages, Critical
<1>8. ASSUME NEW w \in Writers, Rename(w) PROVE Abstract!Succeed(w)
  <2>1. /\ file = seen[w] /\ matches[w]
        /\ temp[Process[w]] = data[w] /\ data[w] # Absent
    BY <1>8, <1>0, WriterAssumption DEF Rename, HolderInv, HolderSafe
  <2> QED
    BY <1>8, <2>1 DEF Rename, Abstract!Succeed, calls, CallOf, Answer
<1>9. ASSUME NEW w \in Writers, Unlock(w) PROVE Abstract!Return(w)
  BY <1>9, <1>2 DEF Unlock
<1>10. ASSUME NEW w \in Writers PROVE ~BreakLock(w) /\ ~Fail(w) /\ ~ReadError(w)
  BY <1>0 DEF BreakLock, Fail, ReadError, MayFail, HolderInv, HolderSafe
<1>11. ASSUME GrowOld PROVE UNCHANGED <<file, calls>>
  BY <1>11 DEF GrowOld, calls, CallOf, Answer
<1>12. ASSUME UNCHANGED vars PROVE UNCHANGED <<file, calls>>
  BY <1>12 DEF vars, calls, CallOf, Answer
<1> QED
  BY <1>1, <1>4, <1>5, <1>6, <1>7, <1>8, <1>9, <1>10, <1>11, <1>12
     DEF Next, Step, Abstract!Next

\* write_object_conditional of FileStorage is the atomic register the storage
\* trait promises, for any number of writers, until a call is cut.
THEOREM ConditionalWriteIsAtomic == Spec => AtomicUntilCut
<1>1. Init => Abstract!Init
  BY DEF Init, Abstract!Init, Abstract!NoCall, calls, CallOf
<1>2. TypeOK /\ HolderInv /\ [Next]_vars
        => [failures' = 0 => [Abstract!Next]_<<file, calls>>]_vars
  BY AtomicStep
<1> QED
  BY <1>1, <1>2, TypeCorrect, LockHolds, PTL DEF Spec, AtomicUntilCut

=============================================================================
