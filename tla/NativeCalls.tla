----------------------------- MODULE NativeCalls -----------------------------
(***************************************************************************)
(* The way of a call through the wrapper: the mutex of KmoSync (serialised *)
(* calls only), the bridge of the platform, the C functions with their     *)
(* registry of handles and their two places for the last error's text, and *)
(* close(), which waits for the calls on iOS only.  One instance, several  *)
(* threads; a thread that ends a call may start another.                   *)
(*                                                                         *)
(* What the operation itself does is the subject of the other modules:     *)
(* here it ends well or with an error text, and may call back meanwhile.   *)
(***************************************************************************)
EXTENDS Naturals

CONSTANTS
    Threads,
    Nobody,         \* holds a lock that is free
    Texts,          \* error texts of operations
    Platforms       \* bridges in use

ASSUME NobodyAssumption   == Nobody \notin Threads
ASSUME TextAssumption     == {"", "closed"} \cap Texts = {}
ASSUME PlatformAssumption == Platforms \subseteq {"android", "jvm", "ios"}

VARIABLES
    platform,
    registered,     \* HANDLES has the instance
    attached,       \* its callback: CALLBACKS has it (Android), or callbackRef is not disposed (iOS)
    closed,         \* the bridge: the flag, or the handle is null (iOS)
    mutex,          \* nativeCallMutex
    nslock,         \* the bridge's lock on iOS
    shared,         \* last_error of the handle: any thread's
    local,          \* local[t]: THREAD_LAST_ERROR of t, when it is this handle's
    task            \* task[t]: what t is doing

vars == <<platform, registered, attached, closed, mutex, nslock, shared, local, task>>

instance == <<registered, attached, closed>>
errors   == <<shared, local>>
locks    == <<mutex, nslock>>

\* "call": one of the suspend functions; "direct": pause, resume and the
\* setters, which skip the mutex; "get": a getter, which has no result code.
Kinds == {"call", "direct", "get"}

Stages == {"idle", "mutex", "bridge", "native", "running", "failed", "answer", "close", "destroy",
           "detach"}

\* own: the text that the operation has failed with; converted: its arguments
\* have got as far as the C function; text: what the app gets.
Task == [pc : Stages, kind : Kinds \cup {"none"}, code : {"ok", "error", "invalid_arg"},
         own : Texts \cup {""}, converted : BOOLEAN, text : Texts \cup {"", "closed"}]

Idle == [pc |-> "idle", kind |-> "none", code |-> "ok", own |-> "", converted |-> TRUE, text |-> ""]

Init ==
    /\ platform \in Platforms
    /\ registered = TRUE /\ attached = TRUE /\ closed = FALSE
    /\ mutex = Nobody /\ nslock = Nobody
    /\ shared = "" /\ local = [t \in Threads |-> ""]
    /\ task = [t \in Threads |-> Idle]

-----------------------------------------------------------------------------
(* Helpers *)

Goto(t, stage) == task' = [task EXCEPT ![t].pc = stage]

\* The result code is not zero: next the text is fetched.
Failed(t, code, own) ==
    task' = [task EXCEPT ![t] =
        [task[t] EXCEPT !.pc = IF task[t].kind = "get" THEN "answer" ELSE "failed", !.code = code, !.own = own]]

\* set_last_error
SetLastError(t, text) ==
    /\ shared' = text
    /\ local' = [local EXCEPT ![t] = text]

Unlock(t) == nslock' = IF nslock = t THEN Nobody ELSE nslock

-----------------------------------------------------------------------------
(* KmoSync *)

Begin(t, kind) ==
    /\ task[t].pc = "idle"
    /\ task' = [task EXCEPT ![t] =
           [Idle EXCEPT !.pc = IF kind = "call" THEN "mutex" ELSE "bridge", !.kind = kind]]
    /\ UNCHANGED <<platform, instance, locks, errors>>

\* nativeCall: nativeCallMutex.withLock
TakeMutex(t) ==
    /\ task[t].pc = "mutex"
    /\ mutex = Nobody
    /\ mutex' = t
    /\ Goto(t, "bridge")
    /\ UNCHANGED <<platform, instance, nslock, errors>>

\* The result goes to the app; withLock gives the mutex back.
Deliver(t) ==
    /\ task[t].pc = "answer"
    /\ mutex' = IF mutex = t THEN Nobody ELSE mutex
    /\ task' = [task EXCEPT ![t] = Idle]
    /\ UNCHANGED <<platform, instance, nslock, errors>>

-----------------------------------------------------------------------------
(* The bridges *)

\* Android: a string that cannot be converted; no text is set.
ConvertError(t) ==
    /\ task[t].pc = "bridge"
    /\ platform = "android"
    /\ task' = [task EXCEPT ![t] =
           [task[t] EXCEPT !.pc = IF task[t].kind = "get" THEN "answer" ELSE "failed",
                     !.code = "invalid_arg", !.converted = FALSE]]
    /\ UNCHANGED <<platform, instance, locks, errors>>

\* Android and JVM: straight to the C function, closed or not.
Enter(t) ==
    /\ task[t].pc = "bridge"
    /\ platform # "ios"
    /\ Goto(t, "native")
    /\ UNCHANGED <<platform, instance, locks, errors>>

\* iOS: withHandleCode, withHandleOrNull: the lock is held during the call.
EnterLocked(t) ==
    /\ task[t].pc = "bridge"
    /\ platform = "ios"
    /\ nslock = Nobody
    /\ IF closed
       THEN Failed(t, "invalid_arg", "") /\ UNCHANGED nslock
       ELSE Goto(t, "native") /\ nslock' = t
    /\ UNCHANGED <<platform, instance, mutex, errors>>

-----------------------------------------------------------------------------
(* The C functions *)

\* get_handle: the Arc keeps the instance alive until the operation ends.
GetHandle(t) ==
    /\ task[t].pc = "native"
    /\ IF registered
       THEN Goto(t, "running") /\ UNCHANGED nslock
       ELSE Failed(t, "invalid_arg", "") /\ Unlock(t)
    /\ UNCHANGED <<platform, instance, mutex, errors>>

Succeed(t) ==
    /\ task[t].pc = "running"
    /\ Goto(t, "answer")
    /\ Unlock(t)
    /\ UNCHANGED <<platform, instance, mutex, errors>>

\* The operation, or set_error for a bad argument.
Fail(t, text) ==
    /\ task[t].pc = "running"
    /\ SetLastError(t, text)
    /\ Failed(t, "error", text)
    /\ Unlock(t)
    /\ UNCHANGED <<platform, instance, mutex>>

\* Variant with a fault: no text instead of the handle's.
LastTextNull(t) == IF ~registered THEN "closed" ELSE IF local[t] # "" THEN local[t] ELSE "null"

\* Variant with a fault: one text for all threads.
LastTextShared(t) == IF registered THEN shared ELSE "closed"

\* kmo_sync_last_error: the thread's text, else the handle's.
LastText(t) ==
    IF ~registered THEN "closed"
    ELSE IF local[t] # "" THEN local[t]
    ELSE shared

\* resultFromCode: the second call, on the same thread; on iOS under the lock.
LastError(t) ==
    /\ task[t].pc = "failed"
    /\ platform = "ios" => nslock = Nobody
    /\ task' = [task EXCEPT ![t] = [task[t] EXCEPT !.pc = "answer", !.text = LastText(t)]]
    /\ UNCHANGED <<platform, instance, locks, errors>>

-----------------------------------------------------------------------------
(* close *)

BeginClose(t) ==
    /\ task[t].pc = "idle"
    /\ Goto(t, "close")
    /\ UNCHANGED <<platform, instance, locks, errors>>

\* kmo_sync_destroy: the text of this thread only is forgotten.
Destroy(t) ==
    /\ registered' = FALSE
    /\ local' = [local EXCEPT ![t] = ""]
    /\ UNCHANGED shared

\* Variant with a fault: who comes second tries again.
CloseSpins(t) ==
    /\ task[t].pc = "close"
    /\ platform # "ios"
    /\ closed' = TRUE
    /\ Goto(t, IF closed THEN "close" ELSE "destroy")
    /\ UNCHANGED <<platform, registered, attached, locks, errors>>

\* Android and JVM: compareAndSet; who comes second returns at once.
Close(t) ==
    /\ task[t].pc = "close"
    /\ platform # "ios"
    /\ closed' = TRUE
    /\ Goto(t, IF closed THEN "idle" ELSE "destroy")
    /\ UNCHANGED <<platform, registered, attached, locks, errors>>

CloseDestroy(t) ==
    /\ task[t].pc = "destroy"
    /\ Destroy(t)
    /\ Goto(t, IF platform = "android" THEN "detach" ELSE "idle")
    /\ UNCHANGED <<platform, attached, closed, locks>>

\* Android: the callback leaves its registry.
CloseDetach(t) ==
    /\ task[t].pc = "detach"
    /\ attached' = FALSE
    /\ Goto(t, "idle")
    /\ UNCHANGED <<platform, registered, closed, locks, errors>>

\* Variant with a fault: iOS does not wait for the lock.
CloseAtOnce(t) ==
    /\ task[t].pc = "close"
    /\ platform = "ios"
    /\ closed' = TRUE
    /\ IF closed THEN UNCHANGED <<registered, attached, errors>>
       ELSE Destroy(t) /\ attached' = FALSE
    /\ Goto(t, "idle")
    /\ UNCHANGED <<platform, locks>>

\* iOS: all of it under the lock.
CloseLocked(t) ==
    /\ task[t].pc = "close"
    /\ platform = "ios"
    /\ nslock = Nobody
    /\ closed' = TRUE
    /\ IF closed THEN UNCHANGED <<registered, attached, errors>>
       ELSE Destroy(t) /\ attached' = FALSE
    /\ Goto(t, "idle")
    /\ UNCHANGED <<platform, locks>>

-----------------------------------------------------------------------------

Finish(t) == Succeed(t) \/ \E text \in Texts : Fail(t, text)

Lock(t) == TakeMutex(t) \/ EnterLocked(t) \/ LastError(t) \/ CloseLocked(t)

Move(t) ==
    \/ Enter(t) \/ GetHandle(t) \/ Finish(t) \/ Deliver(t)
    \/ Close(t) \/ CloseDestroy(t) \/ CloseDetach(t)

Next ==
    \E t \in Threads :
        \/ \E kind \in Kinds : Begin(t, kind)
        \/ BeginClose(t)
        \/ ConvertError(t)
        \/ Lock(t)
        \/ Move(t)

Spec == Init /\ [][Next]_vars

FairSpec == Spec /\ \A t \in Threads : WF_vars(Move(t)) /\ SF_vars(Lock(t))

-----------------------------------------------------------------------------
(* Properties *)

TypeOK ==
    /\ platform \in Platforms
    /\ registered \in BOOLEAN /\ attached \in BOOLEAN /\ closed \in BOOLEAN
    /\ mutex \in Threads \cup {Nobody}
    /\ nslock \in Threads \cup {Nobody}
    /\ shared \in Texts \cup {""}
    /\ local \in [Threads -> Texts \cup {""}]
    /\ task \in [Threads -> Task]

Owns(t) == task[t].pc \in {"native", "running"}

\* Two serialised calls are never under way at the same time, and on iOS no
\* two calls at all; who has ended holds nothing.
Exclusive ==
    /\ \A t \in Threads :
           mutex = t <=> task[t].kind = "call" /\ task[t].pc \notin {"idle", "mutex", "close", "destroy", "detach"}
    /\ \A t \in Threads : nslock = t <=> platform = "ios" /\ Owns(t)

\* The text of a failure is that of the very operation that failed, whatever
\* other threads did in between, or says that the instance is closed; unless
\* the arguments never got as far as the C function.
OwnText ==
    \A t \in Threads :
        task[t].pc = "answer" /\ task[t].kind # "get" /\ task[t].code # "ok" /\ task[t].converted =>
            \/ task[t].text = task[t].own /\ task[t].own # ""
            \/ task[t].text = "closed" /\ closed

\* An operation on iOS can call back: its callback is not disposed before it ends.
CallbackLives ==
    \A t \in Threads : platform = "ios" /\ task[t].pc = "running" => attached

\* Every call and every close returns.
Returns == \A t \in Threads : task[t].pc # "idle" ~> task[t].pc = "idle"
=============================================================================
