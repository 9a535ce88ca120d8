----------------------------- MODULE CasRegister -----------------------------
(***************************************************************************)
(* What RemoteStorage promises of one object: write_object_conditional     *)
(* replaces exactly the version that read_object_versioned returned to its *)
(* caller, or says that another writer won the race.  MetaSync builds on   *)
(* this; FileCas is the implementation on a directory.                     *)
(***************************************************************************)
CONSTANTS
    Writers,    \* callers, each with one call at a time
    Values,     \* contents; the version of an object is the hash of its content
    Absent      \* no object

VARIABLES
    object,     \* the content of the object, or Absent
    call        \* call[w]: what w has read, what it wants to write, and the answer

Contents == Values \cup {Absent}

Answers == {"none", "pending", "true", "false"}

Call == [answer : Answers, seen : Contents, data : Contents]

NoCall == [answer |-> "none", seen |-> Absent, data |-> Absent]

Init ==
    /\ object = Absent
    /\ call = [w \in Writers |-> NoCall]

\* read_object_versioned, and the decision to write v over what it returned.
Read(w, v) ==
    /\ call[w].answer = "none"
    /\ call' = [call EXCEPT ![w] = [answer |-> "pending", seen |-> object, data |-> v]]
    /\ UNCHANGED object

Succeed(w) ==
    /\ call[w].answer = "pending"
    /\ object = call[w].seen
    /\ object' = call[w].data
    /\ call' = [call EXCEPT ![w].answer = "true"]

LoseRace(w) ==
    /\ call[w].answer = "pending"
    /\ object # call[w].seen
    /\ call' = [call EXCEPT ![w].answer = "false"]
    /\ UNCHANGED object

\* The call returns its answer, or an error: with no answer yet, without effect.
Return(w) ==
    /\ call[w].answer # "none"
    /\ call' = [call EXCEPT ![w] = NoCall]
    /\ UNCHANGED object

Next ==
    \E w \in Writers :
        \/ \E v \in Values : Read(w, v)
        \/ Succeed(w)
        \/ LoseRace(w)
        \/ Return(w)

Spec == Init /\ [][Next]_<<object, call>>

=============================================================================
