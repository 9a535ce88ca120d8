----------------------------- MODULE LateRegister -----------------------------
(***************************************************************************)
(* What the back ends promise of an object that is written with            *)
(* conditional PUTs over a network: the PUTs of a call may be repeated,    *)
(* may be lost and may come late, after their caller has given up, but the *)
(* call is carried out at most once, and only on exactly the object that   *)
(* its caller has read.                                                    *)
(***************************************************************************)
CONSTANT Calls      \* identities of the calls

VARIABLES
    object,     \* the calls whose data the object contains
    open        \* the writes that may still be carried out

Init ==
    /\ object = {}
    /\ open = {}

\* A caller asks for a write, for the first time or again: its call has not been
\* carried out yet, and it has read what the object has contained at some time.
Ask(w) ==
    /\ UNCHANGED object
    /\ open' = open \cup {w}

\* It is carried out; whatever is left of the same call is void.
Apply(w) ==
    /\ object = w.seen
    /\ object' = object \cup {w.id}
    /\ open' = {v \in open : v.id # w.id}

\* Its last request has been refused.
Void(w) ==
    /\ UNCHANGED object
    /\ open' = open \ {w}

Next ==
    \/ \E c \in Calls \ object, read \in SUBSET object : Ask([id |-> c, seen |-> read])
    \/ \E w \in open : Apply(w) \/ Void(w)

Spec == Init /\ [][Next]_<<object, open>>
=============================================================================
