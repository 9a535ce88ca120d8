------------------------------ MODULE SharedMeta ------------------------------
(***************************************************************************)
(* What the devices that keep the metadata of a book in one bucket may rely*)
(* on, whichever of them writes and however their passes interleave: the   *)
(* position moves only to stamps that are not older, what is known of the  *)
(* deletions only grows, and a list of marks is published by somebody who  *)
(* knows at least the deletions behind the list it replaces, has put all   *)
(* of those it applied in the bucket first, and lists no deleted item.     *)
(* MetaSync implements this with three objects and conditional PUTs.       *)
(***************************************************************************)
EXTENDS Naturals

CONSTANT Items      \* ids of the items of the book

VARIABLES
    position,   \* the stamp of the position: time and writer
    known,      \* known[i]: the last deletion and the last revival of i, 0 for none
    behind,     \* behind[i]: what the author of the list knew of i
    listed      \* the items in the list of marks

shared == <<position, known, behind, listed>>

Stamps == [t : Nat, d : Nat]
Times  == [del : Nat, rev : Nat]

Older(a, b) == a.t < b.t \/ (a.t = b.t /\ a.d < b.d)

KnowsAll(x, y) == \A i \in Items : x[i].del <= y[i].del /\ x[i].rev <= y[i].rev

Deleted(k) == k.del > 0 /\ k.rev <= k.del

Init ==
    /\ position = [t |-> 0, d |-> 0]
    /\ known    = [i \in Items |-> [del |-> 0, rev |-> 0]]
    /\ behind   = known
    /\ listed   = {}

\* Somebody puts a position in the bucket.
Move ==
    /\ position' \in Stamps
    /\ ~Older(position', position)
    /\ UNCHANGED <<known, behind, listed>>

\* Somebody adds what it knows of the deletions.
Learn ==
    /\ known' \in [Items -> Times]
    /\ KnowsAll(known, known')
    /\ UNCHANGED <<position, behind, listed>>

\* Somebody replaces the list of marks.
Publish ==
    /\ behind' \in [Items -> Times]
    /\ KnowsAll(behind, behind') /\ KnowsAll(behind', known)
    /\ listed' \subseteq {i \in Items : ~Deleted(behind'[i])}
    /\ UNCHANGED <<position, known>>

Next == Move \/ Learn \/ Publish

Spec == Init /\ [][Next]_shared

=============================================================================
