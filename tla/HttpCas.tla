------------------------------- MODULE HttpCas -------------------------------
(***************************************************************************)
(* write_object_conditional over HTTP: a PUT with If-Match or              *)
(* If-None-Match.  The WebDAV back end sends it again, up to four times,   *)
(* when the answer is lost or says that a gateway is in trouble; then the  *)
(* server may have carried it out, may do so later, or never.  The S3 back *)
(* end sends it once.                                                      *)
(*                                                                         *)
(* An object is the set of the calls whose data it contains: a caller adds *)
(* its call to what it has read, as the merge of the metadata does.        *)
(***************************************************************************)
EXTENDS Naturals

CONSTANTS
    Writers,        \* devices, each with one call at a time
    MaxCalls,       \* bound on the calls of each
    MaxAttempts,    \* requests of one WebDAV call; 4 in the code
    Servers         \* kinds of server in use, see Init

ASSUME CallAssumption   == MaxCalls \in Nat /\ MaxAttempts \in Nat \ {0}
ASSUME ServerAssumption == Servers \subseteq {"webdav", "bare", "rootless", "s3"}

Calls   == Writers \X (1..MaxCalls)
Objects == SUBSET Calls

\* An empty object and none are the same here: If-None-Match goes with both.
Absent == {}

\* version: the call's ETag is that of the object it has read.
Request == [id : Calls, n : 1..MaxAttempts, seen : Objects]

VARIABLES
    server,     \* "bare" sends no ETag; "rootless" lacks the collection of the base URL
    object,
    requests,   \* the PUTs on their way to the server; one that is lost stays here
    call        \* call[w]: the call that w is making

vars == <<server, object, requests, call>>

Replies == {"none", "ok", "precondition_failed", "conflict"}

\* k: the number of the call; n: that of the request; reply: what the server
\* has answered to request n; answer: what the last call has returned.
Call == [pc : {"idle", "write", "wait"}, k : 0..MaxCalls, n : 0..MaxAttempts, seen : Objects,
         reply : Replies, answer : {"none", "true", "false", "error"}]

Init ==
    /\ server \in Servers
    /\ object = Absent
    /\ requests = {}
    /\ call = [w \in Writers |-> [pc |-> "idle", k |-> 0, n |-> 0, seen |-> Absent,
                                  reply |-> "none", answer |-> "none"]]

-----------------------------------------------------------------------------
(* Helpers *)

Id(w) == <<w, call[w].k>>

\* send_with_retry sends up to four times; S3Storage calls object_store once, which
\* is taken to send it once: what it does with a failed PUT is not in this code.
Attempts == IF server = "s3" THEN 1 ELSE MaxAttempts

Return(w, answer) ==
    call' = [call EXCEPT ![w] = [call[w] EXCEPT !.pc = "idle", !.n = 0, !.reply = "none",
                                          !.answer = answer]]

Send(w, n) ==
    /\ requests' = requests \cup {[id |-> Id(w), n |-> n, seen |-> call[w].seen]}
    /\ call' = [call EXCEPT ![w] = [call[w] EXCEPT !.pc = "wait", !.n = n, !.reply = "none"]]

-----------------------------------------------------------------------------
(* The caller *)

\* read_object_versioned: data and ETag come in one answer; a GET that is
\* sent again changes nothing.
Read(w) ==
    /\ call[w].pc = "idle"
    /\ call[w].k < MaxCalls
    /\ call' = [call EXCEPT ![w] = [call[w] EXCEPT !.pc = "write", !.k = call[w].k + 1, !.seen = object,
                                             !.answer = "none"]]
    /\ UNCHANGED <<server, object, requests>>

\* An object that came without an ETag is not written: an error, no request.
Put(w) ==
    /\ call[w].pc = "write"
    /\ IF server = "bare" /\ call[w].seen # Absent
       THEN Return(w, "error") /\ UNCHANGED requests
       ELSE Send(w, 1)
    /\ UNCHANGED <<server, object>>

\* Variant with a fault: 412 counts as success.
ReceiveLax(w) ==
    /\ call[w].pc = "wait"
    /\ call[w].reply # "none"
    /\ Return(w, IF call[w].reply = "conflict" THEN "false" ELSE "true")
    /\ UNCHANGED <<server, object, requests>>

\* 412 and 409 are the lost race.
Receive(w) ==
    /\ call[w].pc = "wait"
    /\ call[w].reply # "none"
    /\ Return(w, IF call[w].reply = "ok" THEN "true" ELSE "false")
    /\ UNCHANGED <<server, object, requests>>

\* Variant with a fault: one attempt too many.
RetryTooOften(w) ==
    /\ call[w].pc = "wait"
    /\ IF call[w].n <= Attempts
       THEN Send(w, call[w].n + 1)
       ELSE Return(w, "error") /\ UNCHANGED requests
    /\ UNCHANGED <<server, object>>

\* A timeout, a broken connection, or 429, 502, 503, 504: the request is sent
\* again with the same condition, or the call fails.
Retry(w) ==
    /\ call[w].pc = "wait"
    /\ IF call[w].n < Attempts
       THEN Send(w, call[w].n + 1)
       ELSE Return(w, "error") /\ UNCHANGED requests
    /\ UNCHANGED <<server, object>>

\* Any other status, or an error while the parent collections are made.
Refused(w) ==
    /\ call[w].pc \in {"write", "wait"}
    /\ Return(w, "error")
    /\ UNCHANGED <<server, object, requests>>

-----------------------------------------------------------------------------
(* The server *)

Status(r) ==
    IF server = "rootless" THEN "conflict"
    ELSE IF object = r.seen THEN "ok"
    ELSE "precondition_failed"

Answered(r, status) ==
    call' = [w \in Writers |->
        IF call[w].pc = "wait" /\ r.id = Id(w) /\ r.n = call[w].n
        THEN [call[w] EXCEPT !.reply = status] ELSE call[w]]

\* Variant with a fault: only the first request carries the condition.
ServeUnconditional(r) ==
    LET status == IF r.n > 1 THEN "ok" ELSE Status(r)
    IN  /\ requests' = requests \ {r}
        /\ object' = IF status = "ok" THEN r.seen \cup {r.id} ELSE object
        /\ Answered(r, status)
        /\ UNCHANGED server

\* The condition holds: the object is replaced.  If nobody waits for the
\* answer any more it is lost.
Serve(r) ==
    LET status == Status(r)
    IN  /\ requests' = requests \ {r}
        /\ object' = IF status = "ok" THEN r.seen \cup {r.id} ELSE object
        /\ Answered(r, status)
        /\ UNCHANGED server

Next ==
    \/ \E w \in Writers : Read(w) \/ Put(w) \/ Receive(w) \/ Retry(w) \/ Refused(w)
    \/ \E r \in requests : Serve(r)

Spec == Init /\ [][Next]_vars

-----------------------------------------------------------------------------
(* Properties *)

TypeOK ==
    /\ server \in Servers
    /\ object \in Objects
    /\ requests \subseteq Request
    /\ call \in [Writers -> Call]

\* The PUTs that can still have an effect: those of calls that have had none.
Pending == {[id |-> r.id, seen |-> r.seen] : r \in {q \in requests : q.id \notin object}}

Late == INSTANCE LateRegister WITH Calls <- Calls, object <- object, open <- Pending

\* However often a PUT is sent again and however late it arrives, a call is
\* carried out at most once, and on exactly the object that its caller has read.
CarriedOutOnce == Late!Spec

\* No update is lost, in whatever order requests arrive and however often and
\* late: what a call has written stays in the object.
Grows == [][object \subseteq object']_object

\* What a caller is told is true.  "true": it has replaced exactly what it had
\* read.  "false": another call has written since the read, or this one has, in
\* an attempt whose answer was lost, or there is no place to write to.
TrueIsWritten(w) ==
    call[w].answer = "true" => Id(w) \in object /\ call[w].seen \subseteq object

FalseHasReason(w) ==
    call[w].answer = "false" => object # call[w].seen \/ server = "rootless"

AnswersTrue == \A w \in Writers : TrueIsWritten(w) /\ FalseHasReason(w)
=============================================================================
