---------------------------- MODULE HttpCasProofs ----------------------------
(***************************************************************************)
(* Proofs about HttpCas, for any number of devices, calls and attempts.    *)
(* The invariant ties the requests on the wire to their call: those of the *)
(* present call carry what it has read, those of earlier calls have other  *)
(* identities, and none belongs to a call that is still to come.  With it  *)
(* HttpCas is shown to implement LateRegister.                             *)
(***************************************************************************)
EXTENDS HttpCas, TLAPS

Started == \A w \in Writers : call[w].pc # "idle" => call[w].k \in 1..MaxCalls

Waited == \A w \in Writers : call[w].reply # "none" => call[w].pc = "wait"

SeenKept == \A w \in Writers : call[w].seen \subseteq object

Known == \A r \in requests : r.id[2] <= call[r.id[1]].k

Same == \A r \in requests, w \in Writers : r.id = Id(w) => r.seen = call[w].seen

Told(w, yes, no) ==
    /\ yes => Id(w) \in object
    /\ no => object # call[w].seen \/ server = "rootless"

Replied == \A w \in Writers :
    Told(w, call[w].reply = "ok", call[w].reply \in {"precondition_failed", "conflict"})

Answer == \A w \in Writers :
    Told(w, call[w].answer = "true", call[w].answer = "false")

Wire == Started /\ Waited /\ Known /\ Same

Inv == TypeOK /\ Wire /\ SeenKept /\ Replied /\ Answer

-----------------------------------------------------------------------------

LEMMA InitInv == Init => Inv
<1> SUFFICES ASSUME Init PROVE Inv
  OBVIOUS
<1>1. TypeOK
  BY CallAssumption DEF Init, TypeOK, Call, Objects, Absent, Replies
<1>2. Wire
  BY DEF Init, Wire, Started, Waited, Known, Same
<1>3. SeenKept /\ Replied /\ Answer
  BY DEF Init, SeenKept, Replied, Answer, Told
<1> QED
  BY <1>1, <1>2, <1>3 DEF Inv

\* The identity of a call is a pair of its device and its number.
LEMMA IdType ==
    ASSUME TypeOK, Started, NEW w \in Writers, call[w].pc # "idle"
    PROVE  Id(w) \in Calls /\ Id(w)[1] = w /\ Id(w)[2] = call[w].k
  BY DEF TypeOK, Started, Id, Calls

\* A request that is served adds its call to what that call has read, or
\* changes nothing; either way the object only grows (write_object_conditional).
LEMMA ServeGrows ==
    ASSUME TypeOK, NEW r \in requests, Serve(r)
    PROVE  object \subseteq object' /\ object' \in Objects
<1>1. r \in Request
  BY DEF TypeOK
<1>2. r.seen \cup {r.id} \in Objects
  BY <1>1 DEF Request, Objects
<1>3. CASE Status(r) = "ok"
  <2>1. object = r.seen
    BY <1>3 DEF Status
  <2> QED
    BY <1>2, <1>3, <2>1 DEF Serve
<1>4. CASE Status(r) # "ok"
  BY <1>4 DEF Serve, TypeOK
<1> QED
  BY <1>3, <1>4

\* No step takes anything out of the object.
LEMMA StepGrows ==
    ASSUME TypeOK, [Next]_vars
    PROVE  object \subseteq object' /\ object' \in Objects
<1>1. CASE \E r \in requests : Serve(r)
  BY <1>1, ServeGrows
<1>2. CASE \E w \in Writers : Read(w) \/ Put(w) \/ Receive(w) \/ Retry(w) \/ Refused(w)
  BY <1>2 DEF Read, Put, Receive, Retry, Refused, TypeOK
<1>3. CASE UNCHANGED vars
  BY <1>3 DEF vars, TypeOK
<1> QED
  BY <1>1, <1>2, <1>3 DEF Next

-----------------------------------------------------------------------------
(* What the steps do to the call of a device, and to no other. *)

Others(w) == \A v \in Writers : v # w => call'[v] = call[v]

LEMMA ReturnType ==
    ASSUME NEW c \in Call, NEW a \in {"true", "false", "error"}, NEW m \in 0..MaxAttempts
    PROVE  [c EXCEPT !.pc = "idle", !.n = m, !.reply = "none", !.answer = a] \in Call
  BY CallAssumption DEF Call, Replies

LEMMA SendType ==
    ASSUME NEW c \in Call, NEW m \in 0..MaxAttempts
    PROVE  [c EXCEPT !.pc = "wait", !.n = m, !.reply = "none"] \in Call
  BY CallAssumption DEF Call, Replies

LEMMA ReadType ==
    ASSUME NEW c \in Call, NEW k \in 0..MaxCalls, NEW o \in Objects
    PROVE  [c EXCEPT !.pc = "write", !.k = k, !.seen = o, !.answer = "none"] \in Call
  BY CallAssumption DEF Call, Replies

LEMMA ReturnCall ==
    ASSUME TypeOK, NEW w \in Writers, NEW a \in {"true", "false", "error"}, Return(w, a)
    PROVE  /\ call' \in [Writers -> Call]
           /\ Others(w)
           /\ call'[w].pc = "idle" /\ call'[w].k = call[w].k /\ call'[w].seen = call[w].seen
           /\ call'[w].reply = "none" /\ call'[w].answer = a
<1>1. call[w] \in Call
  BY DEF TypeOK
<1>2. [call[w] EXCEPT !.pc = "idle", !.n = 0, !.reply = "none", !.answer = a] \in Call
  <2>1. 0 \in 0..MaxAttempts
    BY CallAssumption
  <2> QED
    BY <1>1, <2>1, ReturnType
<1>3. call' = [call EXCEPT ![w] = [call[w] EXCEPT !.pc = "idle", !.n = 0, !.reply = "none", !.answer = a]]
  BY DEF Return
<1>4. call \in [Writers -> Call]
  BY DEF TypeOK
<1>5. call' \in [Writers -> Call] /\ Others(w)
  BY <1>2, <1>3, <1>4 DEF Others
<1> QED
  BY <1>1, <1>3, <1>4, <1>5 DEF Call

LEMMA SendCall ==
    ASSUME TypeOK, Started, NEW w \in Writers, call[w].pc # "idle", NEW n \in 1..MaxAttempts,
           Send(w, n)
    PROVE  /\ call' \in [Writers -> Call]
           /\ Others(w)
           /\ call'[w].pc = "wait" /\ call'[w].k = call[w].k /\ call'[w].seen = call[w].seen
           /\ call'[w].reply = "none" /\ call'[w].answer = call[w].answer
           /\ requests' \subseteq Request
           /\ \A r \in requests' : r \in requests \/ (r.id = Id(w) /\ r.seen = call[w].seen)
<1>1. call[w] \in Call
  BY DEF TypeOK
<1>2. [call[w] EXCEPT !.pc = "wait", !.n = n, !.reply = "none"] \in Call
  <2>1. n \in 0..MaxAttempts
    BY CallAssumption
  <2> QED
    BY <1>1, <2>1, SendType
<1>3. [id |-> Id(w), n |-> n, seen |-> call[w].seen] \in Request
  BY <1>1, IdType DEF Request, Call
<1>4. /\ requests' = requests \cup {[id |-> Id(w), n |-> n, seen |-> call[w].seen]}
      /\ call' = [call EXCEPT ![w] = [call[w] EXCEPT !.pc = "wait", !.n = n, !.reply = "none"]]
  BY DEF Send
<1>5. call \in [Writers -> Call] /\ requests \subseteq Request
  BY DEF TypeOK
<1>6. call' \in [Writers -> Call] /\ Others(w)
  BY <1>2, <1>4, <1>5 DEF Others
<1>7. /\ call'[w].pc = "wait" /\ call'[w].k = call[w].k /\ call'[w].seen = call[w].seen
      /\ call'[w].reply = "none" /\ call'[w].answer = call[w].answer
  BY <1>1, <1>4, <1>5 DEF Call
<1>8. /\ requests' \subseteq Request
      /\ \A r \in requests' : r \in requests \/ (r.id = Id(w) /\ r.seen = call[w].seen)
  BY <1>3, <1>4, <1>5
<1> QED
  BY <1>6, <1>7, <1>8

LEMMA ReadCall ==
    ASSUME TypeOK, NEW w \in Writers, Read(w)
    PROVE  /\ call' \in [Writers -> Call]
           /\ Others(w)
           /\ call'[w].pc = "write" /\ call'[w].k = call[w].k + 1 /\ call'[w].seen = object
           /\ call'[w].reply = call[w].reply /\ call'[w].answer = "none"
           /\ call'[w].k \in 1..MaxCalls
<1>1. call[w] \in Call /\ object \in Objects
  BY DEF TypeOK
<1>2. call[w].k + 1 \in 1..MaxCalls
  BY <1>1, CallAssumption DEF Read, Call
<1>3. [call[w] EXCEPT !.pc = "write", !.k = call[w].k + 1, !.seen = object, !.answer = "none"] \in Call
  <2>1. call[w].k + 1 \in 0..MaxCalls
    BY <1>2, CallAssumption
  <2> QED
    BY <1>1, <2>1, ReadType
<1>4. call' = [call EXCEPT ![w] = [call[w] EXCEPT !.pc = "write", !.k = call[w].k + 1,
                                                  !.seen = object, !.answer = "none"]]
  BY DEF Read
<1>5. call \in [Writers -> Call]
  BY DEF TypeOK
<1>6. call' \in [Writers -> Call] /\ Others(w)
  BY <1>3, <1>4, <1>5 DEF Others
<1> QED
  BY <1>1, <1>2, <1>4, <1>5, <1>6 DEF Call

\* A reply changes one field of the call that waits for it.
LEMMA AnsweredCall ==
    ASSUME TypeOK, NEW r, NEW status \in Replies, Answered(r, status)
    PROVE  /\ call' \in [Writers -> Call]
           /\ \A w \in Writers :
                /\ call'[w].pc = call[w].pc /\ call'[w].k = call[w].k
                /\ call'[w].seen = call[w].seen /\ call'[w].answer = call[w].answer
                /\ \/ call'[w].reply = call[w].reply
                   \/ call'[w].reply = status /\ call[w].pc = "wait" /\ r.id = Id(w)
<1>1. ASSUME NEW w \in Writers
      PROVE  [call[w] EXCEPT !.reply = status] \in Call
  <2>1. call[w] \in Call
    BY DEF TypeOK
  <2> QED
    BY <2>1 DEF Call
<1> QED
  BY <1>1 DEF Answered, TypeOK, Call

-----------------------------------------------------------------------------
(* The types, and the requests on the wire *)

LEMMA TypeStep ==
    ASSUME TypeOK, Started, [Next]_vars
    PROVE  TypeOK'
<1>0. object' \in Objects
  BY StepGrows
<1>1. ASSUME NEW w \in Writers, Read(w) PROVE TypeOK'
  BY <1>0, <1>1, ReadCall DEF TypeOK, Read
<1>2. ASSUME NEW w \in Writers, Put(w) PROVE TypeOK'
  <2>0. call[w].pc # "idle" /\ 1 \in 1..MaxAttempts
    BY <1>2, CallAssumption DEF Put
  <2>1. CASE Return(w, "error") /\ UNCHANGED requests
    BY <1>0, <1>2, <2>1, ReturnCall DEF TypeOK, Put
  <2>2. CASE Send(w, 1)
    BY <1>0, <1>2, <2>0, <2>2, SendCall DEF TypeOK, Put
  <2> QED
    BY <1>2, <2>1, <2>2 DEF Put
<1>3. ASSUME NEW w \in Writers, Receive(w) PROVE TypeOK'
  BY <1>0, <1>3, ReturnCall DEF TypeOK, Receive
<1>4. ASSUME NEW w \in Writers, Retry(w) PROVE TypeOK'
  <2>0. call[w].pc # "idle" /\ call[w].n \in Nat
    BY <1>4 DEF Retry, TypeOK, Call
  <2>1. CASE Return(w, "error") /\ UNCHANGED requests
    BY <1>0, <1>4, <2>1, ReturnCall DEF TypeOK, Retry
  <2>2. CASE call[w].n < Attempts /\ Send(w, call[w].n + 1)
    <3>1. call[w].n + 1 \in 1..MaxAttempts
      BY <2>0, <2>2, CallAssumption DEF Attempts
    <3> QED
      BY <1>0, <1>4, <2>0, <2>2, <3>1, SendCall DEF TypeOK, Retry
  <2> QED
    BY <1>4, <2>1, <2>2 DEF Retry
<1>5. ASSUME NEW w \in Writers, Refused(w) PROVE TypeOK'
  BY <1>0, <1>5, ReturnCall DEF TypeOK, Refused
<1>6. ASSUME NEW r \in requests, Serve(r) PROVE TypeOK'
  <2>1. Status(r) \in Replies
    BY DEF Status, Replies
  <2>2. Answered(r, Status(r)) /\ requests' \subseteq requests /\ server' = server
    BY <1>6 DEF Serve
  <2> QED
    BY <1>0, <2>1, <2>2, AnsweredCall DEF TypeOK
<1>7. CASE UNCHANGED vars
  BY <1>7 DEF TypeOK, vars
<1> QED
  BY <1>1, <1>2, <1>3, <1>4, <1>5, <1>6, <1>7 DEF Next

\* A step that ends a call, or keeps it as it is, adds no request.
Kept(w) ==
    /\ call'[w].k = call[w].k /\ call'[w].seen = call[w].seen
    /\ call'[w].pc # "idle" => call[w].pc # "idle"
    /\ call'[w].reply # "none" => call'[w].pc = "wait"

LEMMA WireKept ==
    ASSUME TypeOK, Wire, \A w \in Writers : Kept(w), requests' \subseteq requests
    PROVE  Wire'
<1>1. \A r \in requests' : r \in requests /\ r.id[1] \in Writers
  BY DEF TypeOK, Request, Calls
<1> QED
  BY <1>1 DEF Wire, Started, Waited, Known, Same, Kept, Id

LEMMA WireStep ==
    ASSUME TypeOK, Wire, [Next]_vars
    PROVE  Wire'
<1>0. /\ Started /\ Waited /\ Known /\ Same
      /\ \A r \in requests : r.id \in Calls /\ r.id[1] \in Writers /\ r.id[2] \in 1..MaxCalls
      /\ \A w \in Writers : call[w].k \in Nat
  BY CallAssumption DEF Wire, TypeOK, Request, Calls, Call
<1>1. ASSUME NEW w \in Writers, Read(w) PROVE Wire'
  <2>1. /\ Others(w) /\ requests' = requests /\ call'[w].reply = "none" /\ call[w].pc = "idle"
        /\ call'[w].pc = "write" /\ call'[w].k = call[w].k + 1 /\ call'[w].k \in 1..MaxCalls
    BY <1>0, <1>1, ReadCall DEF Read, Waited
  <2>2. Started' /\ Waited'
    BY <1>0, <2>1 DEF Others, Started, Waited
  <2>3. Known'
    BY <1>0, <2>1 DEF Others, Known
  <2>4. \A r \in requests : r.id # <<w, call[w].k + 1>>
    BY <1>0 DEF Known
  <2>5. Same'
    <3> SUFFICES ASSUME NEW r \in requests, NEW v \in Writers, r.id = <<v, call'[v].k>>
                 PROVE  r.seen = call'[v].seen
      BY <2>1 DEF Same, Id
    <3>1. v # w
      BY <2>1, <2>4
    <3> QED
      BY <1>0, <2>1, <3>1 DEF Others, Same, Id
  <2> QED
    BY <2>2, <2>3, <2>5 DEF Wire
<1>2. ASSUME NEW w \in Writers, NEW a \in {"true", "false", "error"}, Return(w, a),
             requests' = requests
      PROVE  Wire'
  <2>1. \A v \in Writers : Kept(v)
    BY <1>0, <1>2, ReturnCall DEF Kept, Others, Waited
  <2> QED
    BY <1>2, <2>1, WireKept
<1>3. ASSUME NEW w \in Writers, NEW n \in 1..MaxAttempts, Send(w, n), call[w].pc # "idle"
      PROVE  Wire'
  <2>1. /\ Others(w) /\ call'[w].pc = "wait" /\ call'[w].k = call[w].k
        /\ call'[w].seen = call[w].seen
        /\ \A r \in requests' : r \in requests \/ (r.id = Id(w) /\ r.seen = call[w].seen)
    BY <1>0, <1>3, SendCall
  <2>2. \A v \in Writers : Id(v)' = Id(v) /\ call'[v].seen = call[v].seen /\ call'[v].k = call[v].k
    BY <2>1 DEF Others, Id
  <2>3. Started' /\ Waited'
    BY <1>0, <1>3, <2>1 DEF Others, Started, Waited
  <2>4. Known'
    <3> SUFFICES ASSUME NEW r \in requests' PROVE r.id[2] <= call'[r.id[1]].k
      BY DEF Known
    <3>1. CASE r \in requests
      BY <1>0, <2>2, <3>1 DEF Known
    <3>2. CASE r.id = Id(w)
      <4>1. r.id[1] = w /\ r.id[2] = call[w].k
        BY <1>0, <1>3, <3>2, IdType
      <4>2. call[w].k \in Nat /\ call'[w].k = call[w].k
        BY <1>0, <2>1
      <4> QED
        BY <4>1, <4>2
    <3> QED
      BY <2>1, <3>1, <3>2
  <2>5. Same'
    <3> SUFFICES ASSUME NEW r \in requests', NEW v \in Writers, r.id = Id(v)
                 PROVE  r.seen = call[v].seen
      BY <2>2 DEF Same
    <3>1. CASE r \in requests
      BY <1>0, <3>1 DEF Same
    <3>2. CASE r.id = Id(w) /\ r.seen = call[w].seen
      BY <3>2 DEF Id
    <3> QED
      BY <2>1, <3>1, <3>2
  <2> QED
    BY <2>3, <2>4, <2>5 DEF Wire
<1>4. ASSUME NEW r \in requests, Serve(r) PROVE Wire'
  <2>1. Status(r) \in Replies
    BY DEF Status, Replies
  <2>2. Answered(r, Status(r)) /\ requests' \subseteq requests
    BY <1>4 DEF Serve
  <2>3. \A v \in Writers : Kept(v)
    BY <1>0, <2>1, <2>2, AnsweredCall DEF Kept, Waited
  <2> QED
    BY <2>2, <2>3, WireKept
<1>5. CASE UNCHANGED vars
  BY <1>5 DEF vars, Wire, Started, Waited, Known, Same, Id
<1>6. ASSUME NEW w \in Writers, Put(w) PROVE Wire'
  BY <1>2, <1>3, <1>6, CallAssumption DEF Put
<1>7. ASSUME NEW w \in Writers, Retry(w) PROVE Wire'
  <2>1. call[w].n \in Nat
    BY DEF TypeOK, Call
  <2>2. call[w].n < Attempts => call[w].n + 1 \in 1..MaxAttempts
    BY <2>1, CallAssumption DEF Attempts
  <2> QED
    BY <1>2, <1>3, <1>7, <2>2 DEF Retry
<1>8. ASSUME NEW w \in Writers, Receive(w) \/ Refused(w) PROVE Wire'
  BY <1>2, <1>8 DEF Receive, Refused
<1> QED
  BY <1>1, <1>4, <1>5, <1>6, <1>7, <1>8 DEF Next

-----------------------------------------------------------------------------
(* What a call has read is still there, and what it is told is true. *)

LEMMA SeenKeptStep ==
    ASSUME TypeOK, Wire, SeenKept, [Next]_vars
    PROVE  SeenKept'
<1>0. object \subseteq object'
  BY StepGrows
<1>1. ASSUME \A w \in Writers : call'[w].seen = call[w].seen PROVE SeenKept'
  BY <1>0, <1>1 DEF SeenKept
<1>2. ASSUME NEW w \in Writers, Read(w) PROVE SeenKept'
  BY <1>0, <1>2, ReadCall DEF SeenKept, Others
<1>3. ASSUME NEW w \in Writers, Put(w) PROVE SeenKept'
  BY <1>1, <1>3, ReturnCall, SendCall, CallAssumption DEF Put, Others, Wire
<1>4. ASSUME NEW w \in Writers, Retry(w) PROVE SeenKept'
  <2>1. call[w].n < Attempts => call[w].n + 1 \in 1..MaxAttempts
    BY CallAssumption DEF Attempts, TypeOK, Call
  <2> QED
    BY <1>1, <1>4, <2>1, ReturnCall, SendCall DEF Retry, Others, Wire
<1>5. ASSUME NEW w \in Writers, Receive(w) \/ Refused(w) PROVE SeenKept'
  BY <1>1, <1>5, ReturnCall DEF Receive, Refused, Others
<1>6. ASSUME NEW r \in requests, Serve(r) PROVE SeenKept'
  <2>1. Status(r) \in Replies
    BY DEF Status, Replies
  <2> QED
    BY <1>1, <1>6, <2>1, AnsweredCall DEF Serve
<1>7. CASE UNCHANGED vars
  BY <1>1, <1>7 DEF vars
<1> QED
  BY <1>2, <1>3, <1>4, <1>5, <1>6, <1>7 DEF Next

\* What has been told to a call stays true: the object grows, and what is
\* more than the call has read stays more.
LEMMA ToldStays ==
    ASSUME SeenKept, NEW w \in Writers, object \subseteq object', server' = server,
           call'[w].k = call[w].k, call'[w].seen = call[w].seen
    PROVE  /\ Id(w) \in object => Id(w)' \in object'
           /\ object # call[w].seen => object' # call'[w].seen
<1>1. Id(w)' = Id(w)
  BY DEF Id
<1>2. call[w].seen \subseteq object
  BY DEF SeenKept
<1> QED
  BY <1>1, <1>2

\* A step in which a call is told nothing new.
Unheard(w) ==
    /\ call'[w].k = call[w].k /\ call'[w].seen = call[w].seen
    /\ call'[w].reply \in {call[w].reply, "none"}
    /\ call'[w].answer \in {call[w].answer, "none", "error"}

LEMMA ToldKept ==
    ASSUME SeenKept, Replied, Answer, NEW w \in Writers,
           object \subseteq object', server' = server, Unheard(w)
    PROVE  /\ Told(w, call[w].reply = "ok", call[w].reply \in {"precondition_failed", "conflict"})'
           /\ Told(w, call[w].answer = "true", call[w].answer = "false")'
<1>1. /\ Id(w) \in object => Id(w)' \in object'
      /\ object # call[w].seen => object' # call'[w].seen
  BY ToldStays DEF Unheard
<1> QED
  BY <1>1 DEF Replied, Answer, Told, Unheard

LEMMA ToldStep ==
    ASSUME Inv, [Next]_vars
    PROVE  Replied' /\ Answer'
<1>0. /\ TypeOK /\ Started /\ Waited /\ Same /\ SeenKept /\ Replied /\ Answer
      /\ object \subseteq object'
      /\ server' = server
  <2>1. server' = server
    BY DEF Next, vars, Read, Put, Receive, Retry, Refused, Serve
  <2> QED
    BY <2>1, StepGrows DEF Inv, Wire
<1>1. ASSUME \A v \in Writers : Unheard(v) PROVE Replied' /\ Answer'
  BY <1>0, <1>1, ToldKept DEF Replied, Answer
<1>2. ASSUME NEW w \in Writers, Read(w) PROVE Replied' /\ Answer'
  <2>1. Others(w) /\ call'[w].answer = "none" /\ call'[w].reply = "none"
    BY <1>0, <1>2, ReadCall DEF Read, Waited
  <2>2. \A v \in Writers : v # w => Unheard(v)
    BY <2>1 DEF Others, Unheard
  <2>3. /\ Told(w, call[w].reply = "ok", call[w].reply \in {"precondition_failed", "conflict"})'
        /\ Told(w, call[w].answer = "true", call[w].answer = "false")'
    BY <2>1 DEF Told
  <2> QED
    BY <1>0, <2>2, <2>3, ToldKept DEF Replied, Answer
<1>3. ASSUME NEW w \in Writers, Return(w, "error") PROVE Replied' /\ Answer'
  <2>1. \A v \in Writers : Unheard(v)
    BY <1>0, <1>3, ReturnCall DEF Others, Unheard
  <2> QED
    BY <1>1, <2>1
<1>4. ASSUME NEW w \in Writers, NEW n \in 1..MaxAttempts, Send(w, n), call[w].pc # "idle"
      PROVE  Replied' /\ Answer'
  <2>1. \A v \in Writers : Unheard(v)
    BY <1>0, <1>4, SendCall DEF Others, Unheard
  <2> QED
    BY <1>1, <2>1
<1>5. ASSUME NEW w \in Writers, Put(w) PROVE Replied' /\ Answer'
  BY <1>3, <1>4, <1>5, CallAssumption DEF Put
<1>6. ASSUME NEW w \in Writers, Retry(w) PROVE Replied' /\ Answer'
  <2>1. call[w].n < Attempts => call[w].n + 1 \in 1..MaxAttempts
    BY <1>0, CallAssumption DEF Attempts, TypeOK, Call
  <2> QED
    BY <1>3, <1>4, <1>6, <2>1 DEF Retry
<1>7. ASSUME NEW w \in Writers, Refused(w) PROVE Replied' /\ Answer'
  BY <1>3, <1>7 DEF Refused
<1>8. ASSUME NEW w \in Writers, Receive(w) PROVE Replied' /\ Answer'
  <2> DEFINE a == IF call[w].reply = "ok" THEN "true" ELSE "false"
  <2>1. /\ Others(w) /\ call'[w].k = call[w].k /\ call'[w].seen = call[w].seen
        /\ call'[w].reply = "none" /\ call'[w].answer = a
    BY <1>0, <1>8, ReturnCall DEF Receive
  <2>2. \A v \in Writers : v # w => Unheard(v)
    BY <2>1 DEF Others, Unheard
  <2>3. /\ Id(w) \in object => Id(w)' \in object'
        /\ object # call[w].seen => object' # call'[w].seen
    BY <1>0, <2>1, ToldStays
  <2>4. call[w].reply \in {"ok", "precondition_failed", "conflict"}
    BY <1>0, <1>8 DEF Receive, TypeOK, Call, Replies
  <2>5. Told(w, a = "true", a = "false")
    BY <1>0, <2>4 DEF Replied, Told
  <2>6. Told(w, call[w].reply = "ok", call[w].reply \in {"precondition_failed", "conflict"})'
    BY <2>1 DEF Told
  <2>7. Told(w, call[w].answer = "true", call[w].answer = "false")'
    BY <1>0, <2>1, <2>3, <2>5 DEF Told
  <2> QED
    BY <1>0, <2>2, <2>6, <2>7, ToldKept DEF Replied, Answer
<1>9. ASSUME NEW r \in requests, Serve(r) PROVE Replied' /\ Answer'
  <2>1. Status(r) \in Replies
    BY DEF Status, Replies
  <2>2. /\ Answered(r, Status(r))
        /\ object' = IF Status(r) = "ok" THEN r.seen \cup {r.id} ELSE object
    BY <1>9 DEF Serve
  <2>3. ASSUME NEW w \in Writers, call'[w].reply # call[w].reply
        PROVE  Told(w, call[w].reply = "ok", call[w].reply \in {"precondition_failed", "conflict"})'
    <3>1. /\ call'[w].k = call[w].k /\ call'[w].seen = call[w].seen
          /\ call'[w].reply = Status(r) /\ r.id = Id(w)
      BY <1>0, <2>1, <2>2, <2>3, AnsweredCall
    <3>2. r.seen = call[w].seen /\ Id(w)' = Id(w)
      BY <1>0, <3>1 DEF Same, Id
    <3>3. Status(r) = "ok" => Id(w)' \in object'
      BY <2>2, <3>1, <3>2
    <3>4. Status(r) = "precondition_failed" => object' # call'[w].seen
      BY <2>2, <3>1, <3>2 DEF Status
    <3>5. Status(r) = "conflict" => server' = "rootless"
      BY <1>0 DEF Status
    <3> QED
      BY <3>1, <3>3, <3>4, <3>5 DEF Told
  <2>4. ASSUME NEW w \in Writers, call'[w].reply = call[w].reply
        PROVE  Told(w, call[w].reply = "ok", call[w].reply \in {"precondition_failed", "conflict"})'
    <3>1. Unheard(w)
      BY <1>0, <2>1, <2>2, <2>4, AnsweredCall DEF Unheard
    <3> QED
      BY <1>0, <3>1, ToldKept
  <2>5. ASSUME NEW w \in Writers
        PROVE  Told(w, call[w].answer = "true", call[w].answer = "false")'
    <3>1. /\ call'[w].k = call[w].k /\ call'[w].seen = call[w].seen
          /\ call'[w].answer = call[w].answer
      BY <1>0, <2>1, <2>2, AnsweredCall
    <3>2. /\ Id(w) \in object => Id(w)' \in object'
          /\ object # call[w].seen => object' # call'[w].seen
      BY <1>0, <3>1, ToldStays
    <3> QED
      BY <1>0, <3>1, <3>2 DEF Answer, Told
  <2> QED
    BY <2>3, <2>4, <2>5 DEF Replied, Answer
<1>10. CASE UNCHANGED vars
  <2>1. \A v \in Writers : Unheard(v)
    BY <1>10 DEF vars, Unheard
  <2> QED
    BY <1>1, <2>1
<1> QED
  BY <1>2, <1>5, <1>6, <1>7, <1>8, <1>9, <1>10 DEF Next

-----------------------------------------------------------------------------
(* Theorems *)

LEMMA SpecInv == Spec => []Inv
<1>1. Inv /\ [Next]_vars => Inv'
  BY TypeStep, WireStep, SeenKeptStep, ToldStep DEF Inv, Wire
<1> QED
  BY InitInv, <1>1, PTL DEF Spec

\* Requests, replies and calls are what write_object_conditional and its retry
\* loop can produce: no call sends more than its attempts.
THEOREM HttpTypes == Spec => []TypeOK
<1>1. Inv => TypeOK
  BY DEF Inv
<1> QED
  BY SpecInv, <1>1, PTL

\* write_object_conditional: a caller that is told "true" has its data in the
\* object, and everything it had read, whatever was retried or came late; and
\* "false" is only said when the object is no longer what the caller has read, or
\* the base collection does not exist.
THEOREM AnswersAreTrue == Spec => []AnswersTrue
<1>1. Inv => AnswersTrue
  BY DEF Inv, Answer, Told, SeenKept, AnswersTrue, TrueIsWritten, FalseHasReason
<1> QED
  BY SpecInv, <1>1, PTL

\* The conditional PUTs of any number of devices, sent again and delivered
\* late in any order, never take a written update out of the object.
THEOREM NothingLost == Spec => Grows
<1>1. TypeOK /\ [Next]_vars => [object \subseteq object']_object
  BY StepGrows
<1> QED
  BY HttpTypes, <1>1, PTL DEF Spec, Grows
-----------------------------------------------------------------------------
(* Calls are carried out once.  A call is made after its device has read the  *)
(* object, under a number that no earlier call has had: what it has read does *)
(* not contain it, and neither do the requests that carry what it has read.   *)

NotAhead == \A c \in object : c[2] <= call[c[1]].k

OwnUnread == \A w \in Writers : Id(w) \notin call[w].seen

Carried == \A r \in requests : r.id \notin r.seen /\ r.seen \subseteq object

Fresh == NotAhead /\ OwnUnread /\ Carried

\* What a step does to the numbers of the calls and to what they have read: a
\* device reads the object under its next number, or neither changes.
LEMMA StepReads ==
    ASSUME Inv, [Next]_vars, NEW w \in Writers
    PROVE  \/ call'[w].k = call[w].k /\ call'[w].seen = call[w].seen
           \/ call'[w].k = call[w].k + 1 /\ call'[w].seen = object
<1>0. TypeOK /\ Started /\ CallAssumption
  BY CallAssumption DEF Inv, Wire
<1>1. ASSUME NEW v \in Writers, Read(v)
      PROVE  \/ call'[w].k = call[w].k /\ call'[w].seen = call[w].seen
             \/ call'[w].k = call[w].k + 1 /\ call'[w].seen = object
  BY <1>0, <1>1, ReadCall DEF Others
<1>2. ASSUME NEW v \in Writers, NEW a \in {"true", "false", "error"}, Return(v, a)
      PROVE  call'[w].k = call[w].k /\ call'[w].seen = call[w].seen
  BY <1>0, <1>2, ReturnCall DEF Others
<1>3. ASSUME NEW v \in Writers, NEW n \in 1..MaxAttempts, Send(v, n), call[v].pc # "idle"
      PROVE  call'[w].k = call[w].k /\ call'[w].seen = call[w].seen
  BY <1>0, <1>3, SendCall DEF Others
<1>4. ASSUME NEW v \in Writers, Retry(v)
      PROVE  call'[w].k = call[w].k /\ call'[w].seen = call[w].seen
  <2>1. call[v].n < Attempts => call[v].n + 1 \in 1..MaxAttempts
    BY <1>0 DEF CallAssumption, Attempts, TypeOK, Call
  <2> QED
    BY <1>2, <1>3, <1>4, <2>1 DEF Retry
<1>5. ASSUME NEW v \in Writers, Put(v) \/ Receive(v) \/ Refused(v)
      PROVE  call'[w].k = call[w].k /\ call'[w].seen = call[w].seen
  <2>1. 1 \in 1..MaxAttempts
    BY CallAssumption
  <2> QED
    BY <1>2, <1>3, <1>5, <2>1 DEF Put, Receive, Refused
<1>6. ASSUME NEW r \in requests, Serve(r)
      PROVE  call'[w].k = call[w].k /\ call'[w].seen = call[w].seen
  <2>1. Status(r) \in Replies
    BY DEF Status, Replies
  <2> QED
    BY <1>0, <1>6, <2>1, AnsweredCall DEF Serve
<1> QED
  BY <1>1, <1>4, <1>5, <1>6 DEF Next, vars

\* What a step does to the wire: one request for the present call of a device
\* is sent, or one that is there is served, or nothing.
Sent(w) ==
    \E n \in 1..MaxAttempts :
        requests' = requests \cup {[id |-> Id(w), n |-> n, seen |-> call[w].seen]}

LEMMA StepWire ==
    ASSUME Inv, [Next]_vars
    PROVE  \/ requests' = requests /\ object' = object
           \/ \E w \in Writers : Sent(w) /\ call[w].pc # "idle" /\ object' = object
           \/ \E r \in requests : Serve(r)
<1>1. ASSUME NEW w \in Writers, Put(w)
      PROVE  object' = object /\ (requests' = requests \/ (Sent(w) /\ call[w].pc # "idle"))
  BY <1>1, CallAssumption DEF Put, Send, Sent
<1>2. ASSUME NEW w \in Writers, Retry(w)
      PROVE  object' = object /\ (requests' = requests \/ (Sent(w) /\ call[w].pc # "idle"))
  <2>1. call[w].n < Attempts => call[w].n + 1 \in 1..MaxAttempts
    BY CallAssumption DEF Attempts, Inv, TypeOK, Call
  <2> QED
    BY <1>2, <2>1 DEF Retry, Send, Sent
<1> QED
  BY <1>1, <1>2 DEF Next, vars, Read, Receive, Refused

LEMMA FreshStep ==
    ASSUME Inv, Fresh, [Next]_vars
    PROVE  Fresh'
<1>0. /\ TypeOK /\ TypeOK' /\ Started /\ Known /\ SeenKept
      /\ object \subseteq object'
      /\ NotAhead /\ OwnUnread /\ Carried
      /\ \A w \in Writers : call[w].k \in Nat
      /\ \A c \in object : c[1] \in Writers /\ c[2] \in Nat
      /\ \A r \in requests : r.id[1] \in Writers /\ r.id[2] \in Nat
  BY TypeStep, StepGrows, CallAssumption DEF Inv, Wire, Fresh, TypeOK, Objects, Calls, Call, Request
<1>1. \A w \in Writers : call[w].k <= call'[w].k
  BY <1>0, StepReads
<1>2. OwnUnread'
  <2> SUFFICES ASSUME NEW w \in Writers
               PROVE  <<w, call'[w].k>> \notin call'[w].seen
    BY DEF OwnUnread, Id
  <2>1. CASE call'[w].k = call[w].k /\ call'[w].seen = call[w].seen
    BY <1>0, <2>1 DEF OwnUnread, Id
  <2>2. CASE call'[w].k = call[w].k + 1 /\ call'[w].seen = object
    BY <1>0, <2>2 DEF NotAhead
  <2> QED
    BY <2>1, <2>2, StepReads
<1>3. CASE requests' = requests /\ object' = object
  <2>1. NotAhead'
    <3> SUFFICES ASSUME NEW c \in object PROVE c[2] <= call'[c[1]].k
      BY <1>3 DEF NotAhead
    <3>1. c[1] \in Writers /\ c[2] \in Nat /\ call'[c[1]].k \in Nat
      BY <1>0, CallAssumption DEF TypeOK, Call
    <3> QED
      BY <1>0, <1>1, <3>1 DEF NotAhead
  <2> QED
    BY <1>0, <1>2, <1>3, <2>1 DEF Carried, Fresh
<1>4. ASSUME NEW w \in Writers, Sent(w), call[w].pc # "idle", object' = object
      PROVE  Fresh'
  <2>1. NotAhead'
    <3> SUFFICES ASSUME NEW c \in object PROVE c[2] <= call'[c[1]].k
      BY <1>4 DEF NotAhead
    <3>1. c[1] \in Writers /\ c[2] \in Nat /\ call'[c[1]].k \in Nat
      BY <1>0, CallAssumption DEF TypeOK, Call
    <3> QED
      BY <1>0, <1>1, <3>1 DEF NotAhead
  <2>2. Carried'
    <3> SUFFICES ASSUME NEW r \in requests' PROVE r.id \notin r.seen /\ r.seen \subseteq object
      BY <1>4 DEF Carried
    <3>1. r \in requests \/ (r.id = Id(w) /\ r.seen = call[w].seen)
      BY <1>4 DEF Sent
    <3> QED
      BY <1>0, <3>1 DEF Carried, OwnUnread, SeenKept
  <2> QED
    BY <1>2, <2>1, <2>2 DEF Fresh
<1>5. ASSUME NEW r \in requests, Serve(r)
      PROVE  Fresh'
  <2>1. /\ requests' \subseteq requests
        /\ \A c \in object' : c \in object \/ c = r.id
    <3>1. r.seen \subseteq object
      BY <1>0 DEF Carried
    <3> QED
      BY <1>5, <3>1 DEF Serve
  <2>2. NotAhead'
    <3> SUFFICES ASSUME NEW c \in object' PROVE c[2] <= call'[c[1]].k
      BY DEF NotAhead
    <3>1. c[1] \in Writers /\ c[2] \in Nat /\ c[2] <= call[c[1]].k
      BY <1>0, <2>1 DEF NotAhead, Known
    <3>2. call'[c[1]].k \in Nat
      BY <1>0, <3>1, CallAssumption DEF TypeOK, Call
    <3> QED
      BY <1>0, <1>1, <3>1, <3>2
  <2>3. Carried'
    BY <1>0, <2>1 DEF Carried
  <2> QED
    BY <1>2, <2>2, <2>3 DEF Fresh
<1> QED
  BY <1>3, <1>4, <1>5, StepWire

LEMMA SpecFresh == Spec => [](Inv /\ Fresh)
<1>1. Init => Fresh
  BY DEF Init, Fresh, NotAhead, OwnUnread, Carried, Absent, Id
<1>2. Inv /\ Fresh /\ [Next]_vars => Fresh'
  BY FreshStep
<1> QED
  BY SpecInv, <1>1, <1>2, PTL DEF Spec

-----------------------------------------------------------------------------
(* Every step of the requests is a step of the late register. *)

Write(r) == [id |-> r.id, seen |-> r.seen]

LEMMA LateInit == Init => Late!Init
  BY DEF Init, Late!Init, Pending, Absent

LEMMA LateSend ==
    ASSUME Inv, Fresh, NEW w \in Writers, Sent(w), call[w].pc # "idle", object' = object
    PROVE  [Late!Next]_<<object, Pending>>
<1>1. Id(w) \in Calls /\ call[w].seen \subseteq object
  BY IdType DEF Inv, Wire, SeenKept
<1>2. PICK n \in 1..MaxAttempts :
        requests' = requests \cup {[id |-> Id(w), n |-> n, seen |-> call[w].seen]}
  BY DEF Sent
<1>3. CASE Id(w) \in object
  <2>1. Pending' = Pending
    BY <1>2, <1>3 DEF Pending
  <2> QED
    BY <2>1
<1>4. CASE Id(w) \notin object
  <2>1. Pending' = Pending \cup {[id |-> Id(w), seen |-> call[w].seen]}
    <3> DEFINE q == [id |-> Id(w), n |-> n, seen |-> call[w].seen]
    <3>1. {r \in requests' : r.id \notin object'} = {r \in requests : r.id \notin object} \cup {q}
      BY <1>2, <1>4
    <3>2. Pending' = {Write(r) : r \in {p \in requests : p.id \notin object} \cup {q}}
      BY <3>1 DEF Pending, Write
    <3>3. Pending = {Write(r) : r \in {p \in requests : p.id \notin object}}
      BY DEF Pending, Write
    <3>4. Write(q) = [id |-> Id(w), seen |-> call[w].seen]
      BY DEF Write
    <3> HIDE DEF q
    <3> QED
      BY <3>2, <3>3, <3>4, Zenon
  <2>2. Late!Ask([id |-> Id(w), seen |-> call[w].seen])
    BY <2>1 DEF Late!Ask
  <2> QED
    BY <1>1, <1>4, <2>2 DEF Late!Next
<1> QED
  BY <1>3, <1>4

LEMMA LateServe ==
    ASSUME Inv, Fresh, NEW r \in requests, Serve(r)
    PROVE  [Late!Next]_<<object, Pending>>
<1>0. r.id \notin r.seen
  BY DEF Fresh, Carried
<1>1. CASE Status(r) = "ok"
  <2>1. object = r.seen /\ object' = object \cup {r.id} /\ requests' = requests \ {r}
    BY <1>1 DEF Serve, Status
  <2>2. Write(r) \in Pending
    BY <1>0, <2>1 DEF Pending, Write
  <2>3. Pending' = {v \in Pending : v.id # r.id}
    BY <2>1 DEF Pending
  <2>4. Late!Apply(Write(r))
    BY <2>1, <2>3 DEF Late!Apply, Write
  <2> QED
    BY <2>2, <2>4 DEF Late!Next
<1>2. CASE Status(r) # "ok"
  <2>1. object' = object /\ requests' = requests \ {r}
    BY <1>2 DEF Serve
  <2>2. CASE \E q \in requests' : q.id = r.id /\ q.seen = r.seen
    <3>1. Pending' = Pending
      BY <2>1, <2>2 DEF Pending
    <3> QED
      BY <2>1, <3>1
  <2>3. CASE r.id \in object
    <3>1. Pending' = Pending
      BY <2>1, <2>3 DEF Pending
    <3> QED
      BY <2>1, <3>1
  <2>4. CASE r.id \notin object /\ \A q \in requests' : ~(q.id = r.id /\ q.seen = r.seen)
    <3>1. Write(r) \in Pending
      BY <2>4 DEF Pending, Write
    <3>2. Pending' = Pending \ {Write(r)}
      BY <2>1, <2>4 DEF Pending, Write
    <3>3. Late!Void(Write(r))
      BY <2>1, <3>2 DEF Late!Void
    <3> QED
      BY <3>1, <3>3 DEF Late!Next
  <2> QED
    BY <2>2, <2>3, <2>4
<1> QED
  BY <1>1, <1>2

LEMMA LateStep ==
    ASSUME Inv, Fresh, [Next]_vars
    PROVE  [Late!Next]_<<object, Pending>>
<1>1. CASE requests' = requests /\ object' = object
  BY <1>1 DEF Pending
<1> QED
  BY <1>1, LateSend, LateServe, StepWire

\* write_object_conditional: however often and however late the PUTs of a call
\* arrive, also after its caller has been told an error or "false", the call is
\* carried out at most once, and on exactly the object that its caller has read.
THEOREM HttpCasIsLateRegister == Spec => CarriedOutOnce
<1>1. Inv /\ Fresh /\ [Next]_vars => [Late!Next]_<<object, Pending>>
  BY LateStep
<1> QED
  BY SpecFresh, LateInit, <1>1, PTL DEF Spec, CarriedOutOnce, Late!Spec

\* write_object_conditional: as soon as anybody has written, the requests with
\* an older version are without effect for ever; a late one can only replace
\* the object that its caller has read.
THEOREM StaleStaysStale ==
    Spec => [][\A r \in requests : object # r.seen => object' # r.seen]_vars
<1>1. ASSUME Inv, Fresh, [Next]_vars, NEW r \in requests, object # r.seen
      PROVE  object' # r.seen
  BY <1>1, StepGrows DEF Inv, Fresh, Carried
<1>2. Inv /\ Fresh /\ [Next]_vars
        => [\A r \in requests : object # r.seen => object' # r.seen]_vars
  BY <1>1
<1> QED
  BY SpecFresh, <1>2, PTL DEF Spec
=============================================================================
