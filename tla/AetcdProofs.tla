---------------------------- MODULE AetcdProofs ----------------------------
(***************************************************************************)
(* What the adapter keeps over a network that loses and delays, for any    *)
(* calls, requests, watches, keys and bounds: what a caller may conclude   *)
(* about a transaction, the date of a page, the truth of an error, and     *)
(* that a consumer that resumes misses nothing.                            *)
(***************************************************************************)
EXTENDS Aetcd, FiniteSetTheorems, TLAPS

-----------------------------------------------------------------------------
(* The server and the calls.                                               *)

Entry == [keys : SUBSET Keys, deleted : SUBSET Keys, author : Calls \cup {None}]

ServerOK ==
  /\ log \in Seq(Entry)
  /\ floor \in Nat /\ granted \in Nat
  /\ leases \subseteq 1..granted

\* The server only goes forward: no batch changes, and an identity once granted
\* is not granted again.
Forward ==
  /\ \A r \in 1..revision : log'[r] = log[r]
  /\ floor <= floor' /\ granted <= granted'
  /\ leases' \cap 1..granted \subseteq leases

IsCall(record) ==
  record \in [phase : {"idle", "connecting", "sending", "waiting", "done"},
              request : {record.request}, wire : {"none", "request", "answer", "ended"},
              answer : {record.answer}, outcome : {record.outcome}]

\* How far a call has come.
Underway(c) ==
  /\ call[c].phase \in {"idle", "connecting", "sending"} => call[c].wire = "none"
  /\ call[c].phase # "idle" => /\ call[c].request \in Requests
                               /\ NamedLease(call[c].request) \in {None} \cup 1..granted
  /\ call[c].phase \in {"connecting", "sending"} => call[c].request.defect \in {"none", "operand"}
  /\ call[c].wire # "none" => call[c].request.defect = "none"
  /\ Ended(c) => \/ call[c].outcome \in {Unspecific, Refused}
                 \/ call[c].wire = "answer" /\ call[c].outcome = Answered(c)
                 \/ /\ call[c].wire = "ended"
                    /\ call[c].outcome =
                         Failure("LeaseNotFound", None, None, call[c].request.lease)

\* What the server tells of a transaction that it runs, and what that one wrote.
Told == [revision : Nat, succeeded : BOOLEAN, deleted : SUBSET Keys]
Written(request, told) == Selected(request, told.succeeded).puts \cup told.deleted

\* The log holds of a call what its answer says, and nothing before it.
Effected(c) ==
  LET request == call[c].request
      told == call[c].answer
  IN IF /\ call[c].wire = "answer" /\ request.kind = "transaction"
        /\ told \in Told /\ Written(request, told) # {}
     THEN /\ Effects(c) = {told.revision}
          /\ log[told.revision] = Batch(Written(request, told), told.deleted, c)
     ELSE Effects(c) = {}

\* An answer has the shape its request asks for, and stays true.
Fits(request, answer) ==
  \/ request.kind = "transaction" /\ answer \in Told \cup {Text("other")}
  \/ /\ request.kind = "range" /\ answer \in [revision : Nat, read : Nat]
     /\ answer.read = Dated(request, answer)
  \/ request.kind = "range" /\ answer = Text("future")
  \/ /\ request.kind = "range" /\ answer = Text("compacted")
     /\ request.revision # None => request.revision <= floor
  \/ request.kind = "grant" /\ answer \in [lease : Nat]
  \/ /\ request.kind = "keep_alive" /\ answer \in [ttl : {0, 1}]
     /\ answer.ttl = 0 => request.lease \notin leases
  \/ /\ request.kind = "revoke" /\ request.lease \notin leases
     /\ answer = Text("lease") \/ answer \in [lease : {request.lease}]

CallOK(c) ==
  /\ IsCall(call[c])
  /\ Underway(c)
  /\ Effected(c)
  /\ call[c].wire = "answer" => Fits(call[c].request, call[c].answer)

CallsOK == DOMAIN call = Calls /\ \A c \in Calls : CallOK(c)

Accounts == ServerOK /\ CallsOK

LEMMA RequestShapes ==
  ASSUME NEW request \in Requests
  PROVE  /\ request \in TxnRequest \cup RangeRequest \cup GrantRequest \cup LeaseRequest
         /\ request.kind = "transaction" => request \in TxnRequest
         /\ request.kind = "range" => request \in RangeRequest
         /\ request.kind = "grant" => request \in GrantRequest
         /\ request.kind \in {"keep_alive", "revoke"} => request \in LeaseRequest
<1>1. request \in TxnRequest \cup RangeRequest \cup GrantRequest \cup LeaseRequest
  BY AetcdConstantsOK DEF AetcdConstantsOK
<1> QED
  BY <1>1 DEF TxnRequest, RangeRequest, GrantRequest, LeaseRequest

\* What a call wrote does not change by what happens to its caller.
LEMMA EffectedStays ==
  ASSUME NEW c, Effected(c), log' = log, call'[c].wire = call[c].wire,
         call'[c].request = call[c].request, call'[c].answer = call[c].answer
  PROVE  Effected(c)'
BY DEF Effected, Effects, revision, Written, Selected, Batch, Told

LEMMA AppendEffects ==
  ASSUME log \in Seq(Entry), NEW entry \in Entry, log' = Append(log, entry), NEW d
  PROVE  /\ log' \in Seq(Entry)
         /\ \A r \in 1..revision : log'[r] = log[r]
         /\ log'[revision + 1] = entry /\ Len(log') = revision + 1
         /\ Effects(d)' = IF entry.author = d THEN Effects(d) \cup {revision + 1} ELSE Effects(d)
<1>1. /\ log' \in Seq(Entry) /\ Len(log') = Len(log) + 1 /\ Len(log) \in Nat
      /\ \A r \in 1..Len(log) : log'[r] = log[r]
      /\ log'[Len(log) + 1] = entry
  OBVIOUS
<1> QED
  BY <1>1 DEF Effects, revision

\* A call the step does not touch is as it was.
LEMMA Unmoved ==
  ASSUME Accounts, ServerOK', Forward, NEW d \in Calls,
         call'[d] = call[d], Effects(d)' = Effects(d)
  PROVE  CallOK(d)'
<1>1. CallOK(d)
  BY DEF Accounts, CallsOK
<1>2. IsCall(call[d])' /\ Effected(d)'
  <2>1. \A r \in Effects(d) : log'[r] = log[r]
    BY DEF Effects, Forward
  <2> QED
    BY <1>1, <2>1 DEF CallOK, IsCall, Effected, Written, Selected, Batch
<1>3. Underway(d)'
  <2>1. Answered(d)' = Answered(d) /\ Ended(d)' = Ended(d)
    BY DEF Answered, Ended
  <2>2. ASSUME NEW l \in 1..granted
        PROVE  l \in 1..granted'
    BY DEF Accounts, ServerOK, Forward
  <2> QED
    BY <1>1, <2>1, <2>2 DEF CallOK, Underway
<1>4. ASSUME call[d].wire = "answer"
      PROVE  Fits(call[d].request, call[d].answer)'
  <2> DEFINE request == call[d].request
             answer == call[d].answer
  <2>1. Fits(request, answer) /\ request \in Requests
    BY <1>1, <1>4 DEF CallOK, Underway
  <2>2. request' = request /\ answer' = answer
    OBVIOUS
  <2>3. ASSUME request.kind \in {"keep_alive", "revoke"}, request.lease \notin leases
        PROVE  request.lease \notin leases'
    <3>1. request \in LeaseRequest
      BY <2>1, <2>3, RequestShapes
    <3>2. NamedLease(request) \in {None} \cup 1..granted /\ NamedLease(request) = request.lease
      BY <1>1, <1>4, <2>3 DEF CallOK, Underway, NamedLease
    <3>3. request.lease \in 1..granted
      BY <3>1, <3>2, AetcdConstantsOK DEF LeaseRequest, AetcdConstantsOK
    <3> QED
      BY <2>3, <3>3 DEF Forward
  <2>4. ASSUME request.kind = "range", request.revision # None, request.revision <= floor
        PROVE  request.revision <= floor'
    <3>1. request.revision \in Nat
      BY <2>1, <2>4, RequestShapes DEF RangeRequest
    <3> QED
      BY <2>4, <3>1 DEF Accounts, ServerOK, Forward
  <2> QED
    BY <2>1, <2>2, <2>3, <2>4 DEF Fits, Dated, Text
<1> QED
  BY <1>1, <1>2, <1>3, <1>4 DEF CallOK
-----------------------------------------------------------------------------
(* A call at each of its steps.                                            *)

LEMMA StillServer ==
  ASSUME Accounts, UNCHANGED server
  PROVE  /\ ServerOK' /\ Forward
         /\ \A d : Effects(d)' = Effects(d)
BY DEF Accounts, ServerOK, Forward, server, Effects, revision

\* A step of the caller's side: one call gets a new record, the server sleeps.
LEMMA CallMoves ==
  ASSUME Accounts, UNCHANGED server, NEW c \in Calls, NEW new,
         call' = [call EXCEPT ![c] = new], CallOK(c)'
  PROVE  Accounts'
<1>1. \A d \in Calls \ {c} : call'[d] = call[d]
  BY DEF Accounts, CallsOK
<1>2. \A d \in Calls \ {c} : CallOK(d)'
  BY <1>1, StillServer, Unmoved
<1> QED
  BY <1>2, StillServer DEF Accounts, CallsOK

LEMMA CallAccounts ==
  ASSUME Accounts, NEW c \in Calls, NEW request \in Askable, Call(c, request)
  PROVE  Accounts'
<1> DEFINE outcome == CASE request.defect = "historical" -> Unspecific
                        [] request.defect \in {"limit", "ttl"} -> Refused
                        [] OTHER -> None
           phase == IF request.defect \in {"historical", "limit", "ttl"}
                    THEN "done" ELSE "connecting"
           new == [call[c] EXCEPT !.request = request, !.phase = phase, !.outcome = outcome]
<1>1. CallOK(c) /\ DOMAIN call = Calls /\ UNCHANGED server /\ call[c].phase = "idle"
  BY DEF Accounts, CallsOK, Call
<1>2. /\ request \in Requests /\ NamedLease(request) \in {None} \cup 1..granted
      /\ request.defect \in {"none", "historical", "operand", "limit", "ttl"}
  <2>1. request \in Requests
    BY DEF Askable
  <2>2. request.defect \in {"none", "historical", "operand", "limit", "ttl"}
    BY <2>1, RequestShapes DEF TxnRequest, RangeRequest, GrantRequest, LeaseRequest
  <2> QED
    BY <2>1, <2>2 DEF Askable
<1>3. call' = [call EXCEPT ![c] = new]
  BY <1>1 DEF Call
<1>4. /\ call'[c].phase = phase /\ call'[c].request = request /\ call'[c].outcome = outcome
      /\ call'[c].wire = "none" /\ IsCall(call'[c])
  BY <1>1, <1>3 DEF CallOK, IsCall, Underway
<1>5. phase = "done" => outcome \in {Unspecific, Refused}
  BY <1>2
<1>6. phase = "connecting" => request.defect \in {"none", "operand"}
  BY <1>2
<1> HIDE DEF new
<1>7. Effected(c)'
  <2>1. Effects(c)' = {}
    BY <1>1, StillServer DEF CallOK, Effected, Underway
  <2> QED
    BY <1>4, <2>1 DEF Effected
<1>8. Underway(c)'
  <2>1. granted' = granted
    BY <1>1 DEF server
  <2> HIDE DEF outcome
  <2> QED
    BY <1>2, <1>4, <1>5, <1>6, <2>1 DEF Underway, Ended
<1>9. CallOK(c)'
  BY <1>4, <1>7, <1>8 DEF CallOK, IsCall
<1> QED
  BY <1>1, <1>3, <1>9, CallMoves

\* The caller is told nothing it could hold for an effect.
LEMMA EndsUnspecific ==
  ASSUME Accounts, UNCHANGED server, NEW c \in Calls, call' = Done(c, Unspecific),
         call[c].phase # "idle"
  PROVE  Accounts'
<1> DEFINE new == [call[c] EXCEPT !.phase = "done", !.outcome = Unspecific]
<1>1. CallOK(c) /\ DOMAIN call = Calls
  BY DEF Accounts, CallsOK
<1>2. call' = [call EXCEPT ![c] = new]
  BY DEF Done
<1>3. /\ call'[c].phase = "done" /\ call'[c].outcome = Unspecific
      /\ call'[c].request = call[c].request /\ call'[c].wire = call[c].wire
      /\ call'[c].answer = call[c].answer /\ IsCall(call'[c])
  BY <1>1, <1>2 DEF CallOK, IsCall
<1> HIDE DEF new
<1>4. UNCHANGED <<granted, floor, leases>> /\ Effects(c)' = Effects(c)
  BY StillServer DEF server
<1>5. Effected(c)'
  <2>1. log' = log
    BY DEF server
  <2> QED
    BY <1>1, <1>3, <2>1, EffectedStays DEF CallOK
<1>6. Underway(c)'
  BY <1>1, <1>3, <1>4 DEF CallOK, Underway, Ended
<1>7. CallOK(c)'
  BY <1>1, <1>3, <1>4, <1>5, <1>6 DEF CallOK, Fits
<1> QED
  BY <1>2, <1>7, CallMoves

LEMMA OtherIsUnspecific ==
  ASSUME NEW requested, NEW lease
  PROVE  Translate(Text("other"), requested, lease) = Unspecific
BY DEF Translate, Text

LEMMA ConnectAccounts ==
  ASSUME Accounts, NEW c \in Calls, Connect(c)
  PROVE  Accounts'
<1> DEFINE new == [call[c] EXCEPT !.phase = "sending"]
<1>1. CallOK(c) /\ DOMAIN call = Calls /\ UNCHANGED server /\ call[c].phase = "connecting"
  BY DEF Accounts, CallsOK, Connect
<1>2. CASE call' = [call EXCEPT ![c].phase = "sending"]
  <2>1. call' = [call EXCEPT ![c] = new]
    BY <1>2
  <2>2. /\ call'[c].phase = "sending" /\ call'[c].outcome = call[c].outcome
        /\ call'[c].request = call[c].request /\ call'[c].wire = "none"
        /\ IsCall(call'[c])
    BY <1>1, <2>1 DEF CallOK, IsCall, Underway
  <2> HIDE DEF new
  <2>3. UNCHANGED granted /\ Effects(c)' = Effects(c)
    BY <1>1, StillServer DEF server
  <2>4. Effected(c)' /\ Underway(c)'
    BY <1>1, <2>2, <2>3 DEF CallOK, Effected, Underway, Ended
  <2>5. CallOK(c)'
    BY <2>2, <2>4 DEF CallOK
  <2> QED
    BY <1>1, <2>1, <2>5, CallMoves
<1>3. CASE call' = Done(c, Translate(Text("other"), None, None))
  BY <1>1, <1>3, OtherIsUnspecific, EndsUnspecific
<1> QED
  BY <1>2, <1>3 DEF Connect

LEMMA SendAccounts ==
  ASSUME Accounts, NEW c \in Calls, Send(c)
  PROVE  Accounts'
<1> DEFINE new == [call[c] EXCEPT !.phase = "waiting", !.wire = "request"]
           fails == call[c].request.defect = "operand" \/ ~connected
<1>1. CallOK(c) /\ DOMAIN call = Calls /\ UNCHANGED server /\ call[c].phase = "sending"
  BY DEF Accounts, CallsOK, Send
<1>2. CASE fails
  BY <1>1, <1>2, EndsUnspecific DEF Send
<1>3. CASE ~fails
  <2>1. call' = [call EXCEPT ![c] = new]
    BY <1>3 DEF Send
  <2>2. /\ call'[c].phase = "waiting" /\ call'[c].wire = "request"
        /\ call'[c].request = call[c].request /\ IsCall(call'[c])
        /\ call[c].request.defect = "none" /\ call[c].wire = "none"
    BY <1>1, <1>3, <2>1 DEF CallOK, IsCall, Underway
  <2> HIDE DEF new
  <2>3. UNCHANGED granted /\ Effects(c)' = Effects(c)
    BY <1>1, StillServer DEF server
  <2>4. Effected(c)' /\ Underway(c)'
    BY <1>1, <2>2, <2>3 DEF CallOK, Effected, Underway, Ended
  <2>5. CallOK(c)'
    BY <2>2, <2>4 DEF CallOK
  <2> QED
    BY <1>1, <2>1, <2>5, CallMoves
<1> QED
  BY <1>2, <1>3

LEMMA ReturnAccounts ==
  ASSUME Accounts, NEW c \in Calls, Return(c)
  PROVE  Accounts'
<1> DEFINE new == [call[c] EXCEPT !.phase = "done", !.outcome = Answered(c)]
<1>1. /\ CallOK(c) /\ DOMAIN call = Calls /\ UNCHANGED server
      /\ call[c].phase = "waiting" /\ call[c].wire = "answer"
  BY DEF Accounts, CallsOK, Return
<1>2. CASE call' = Done(c, Answered(c))
  <2>1. call' = [call EXCEPT ![c] = new]
    BY <1>2 DEF Done
  <2>2. /\ call'[c].phase = "done" /\ call'[c].outcome = Answered(c)
        /\ call'[c].request = call[c].request /\ call'[c].wire = call[c].wire
        /\ call'[c].answer = call[c].answer /\ IsCall(call'[c])
    BY <1>1, <2>1 DEF CallOK, IsCall
  <2> HIDE DEF new
  <2>3. Answered(c)' = Answered(c)
    BY <2>2 DEF Answered
  <2>4. UNCHANGED <<granted, floor, leases>> /\ Effects(c)' = Effects(c)
    BY <1>1, StillServer DEF server
  <2>5. Effected(c)'
    <3>1. log' = log
      BY <1>1 DEF server
    <3> QED
      BY <1>1, <2>2, <3>1, EffectedStays DEF CallOK
  <2>6. Underway(c)'
    BY <1>1, <2>2, <2>3, <2>4 DEF CallOK, Underway, Ended
  <2>7. CallOK(c)'
    BY <1>1, <2>2, <2>4, <2>5, <2>6 DEF CallOK, Fits
  <2> QED
    BY <1>1, <2>1, <2>7, CallMoves
<1>3. CASE call' = Done(c, Unspecific)
  BY <1>1, <1>3, EndsUnspecific
<1> QED
  BY <1>2, <1>3 DEF Return

LEMMA HangUpAccounts ==
  ASSUME Accounts, NEW c \in Calls, HangUp(c)
  PROVE  Accounts'
<1> DEFINE failure == Failure("LeaseNotFound", None, None, call[c].request.lease)
           new == [call[c] EXCEPT !.phase = "done", !.outcome = failure, !.wire = "ended"]
<1>1. /\ CallOK(c) /\ DOMAIN call = Calls /\ UNCHANGED server
      /\ call[c].phase = "waiting" /\ call[c].request.kind = "keep_alive"
  BY DEF Accounts, CallsOK, HangUp
<1>2. call' = [call EXCEPT ![c] = new]
  <2>1. call' = [Done(c, failure) EXCEPT ![c].wire = "ended"]
    BY DEF HangUp
  <2> HIDE DEF failure
  <2> QED
    BY <1>1, <2>1 DEF Done
<1>3. /\ call'[c].phase = "done" /\ call'[c].outcome = failure
      /\ call'[c].request = call[c].request /\ call'[c].wire = "ended"
      /\ IsCall(call'[c])
  BY <1>1, <1>2 DEF CallOK, IsCall
<1> HIDE DEF new
<1>4. UNCHANGED <<granted, floor, leases>> /\ Effects(c)' = Effects(c)
  BY <1>1, StillServer DEF server
<1>5. Effected(c)'
  BY <1>1, <1>3, <1>4 DEF CallOK, Effected
<1>6. call[c].request.defect = "none"
  <2>1. call[c].request \in Requests
    BY <1>1 DEF CallOK, Underway
  <2> QED
    BY <1>1, <2>1, RequestShapes DEF LeaseRequest
<1>7. Underway(c)'
  BY <1>1, <1>3, <1>4, <1>6 DEF CallOK, Underway, Ended
<1>8. CallOK(c)'
  BY <1>3, <1>5, <1>7 DEF CallOK
<1> QED
  BY <1>1, <1>2, <1>8, CallMoves

LEMMA TimeOutAccounts ==
  ASSUME Accounts, NEW c \in Calls, TimeOut(c)
  PROVE  Accounts'
BY OtherIsUnspecific, EndsUnspecific DEF TimeOut
-----------------------------------------------------------------------------
(* The server's steps.                                                     *)

\* The server answers one call, in a way that fits.
LEMMA AnswerAccounts ==
  ASSUME Accounts, ServerOK', Forward, NEW c \in Calls, call[c].wire = "request", NEW answer,
         call' = [call EXCEPT ![c].wire = "answer", ![c].answer = answer],
         Fits(call[c].request, call[c].answer)', Effected(c)',
         \A d \in Calls \ {c} : Effects(d)' = Effects(d)
  PROVE  Accounts'
<1> DEFINE new == [call[c] EXCEPT !.wire = "answer", !.answer = answer]
<1>1. CallOK(c) /\ DOMAIN call = Calls
  BY DEF Accounts, CallsOK
<1>2. call' = [call EXCEPT ![c] = new]
  OBVIOUS
<1>3. /\ call'[c].phase = call[c].phase /\ call'[c].outcome = call[c].outcome
      /\ call'[c].request = call[c].request /\ call'[c].wire = "answer"
      /\ IsCall(call'[c])
  BY <1>1, <1>2 DEF CallOK, IsCall
<1> HIDE DEF new
<1>4. Underway(c)'
  <2>1. \A l \in 1..granted : l \in 1..granted'
    BY DEF Accounts, ServerOK, Forward
  <2>2. call[c].phase \notin {"idle", "connecting", "sending"}
    BY <1>1 DEF CallOK, Underway
  <2>3. Ended(c) => call[c].outcome \in {Unspecific, Refused}
    BY <1>1 DEF CallOK, Underway
  <2> QED
    BY <1>1, <1>3, <2>1, <2>2, <2>3 DEF CallOK, Underway, Ended
<1>5. CallOK(c)'
  BY <1>3, <1>4 DEF CallOK
<1>6. \A d \in Calls \ {c} : CallOK(d)'
  <2>1. \A d \in Calls \ {c} : call'[d] = call[d]
    BY <1>1, <1>2
  <2> QED
    BY <2>1, Unmoved
<1> QED
  BY <1>1, <1>2, <1>5, <1>6 DEF Accounts, CallsOK

LEMMA AnswerRecord ==
  ASSUME Accounts, NEW c \in Calls, NEW answer,
         call' = [call EXCEPT ![c].wire = "answer", ![c].answer = answer]
  PROVE  /\ call'[c].wire = "answer" /\ call'[c].answer = answer
         /\ call'[c].request = call[c].request
<1>1. c \in DOMAIN call /\ IsCall(call[c])
  BY DEF Accounts, CallsOK, CallOK
<1>2. call'[c] = [call[c] EXCEPT !.wire = "answer", !.answer = answer]
  BY <1>1
<1> QED
  BY <1>1, <1>2 DEF IsCall

LEMMA ExecuteAccounts ==
  ASSUME Accounts, NEW c \in Calls, Execute(c)
  PROVE  Accounts'
<1> DEFINE request == call[c].request
           Answers(answer) == call' = [call EXCEPT ![c].wire = "answer", ![c].answer = answer]
<1>1. /\ CallOK(c) /\ ServerOK /\ call[c].wire = "request" /\ request \in Requests
      /\ Effects(c) = {} /\ c # None /\ revision \in Nat
  <2>1. CallOK(c) /\ ServerOK /\ call[c].wire = "request"
    BY DEF Accounts, CallsOK, Execute
  <2> QED
    BY <2>1, AetcdConstantsOK DEF CallOK, Underway, Effected, AetcdConstantsOK,
       ServerOK, revision
<1>2. ASSUME NEW succeeded \in BOOLEAN, NEW deleted, NEW keys,
             request.kind = "transaction",
             deleted \subseteq Selected(request, succeeded).deletes,
             keys = Selected(request, succeeded).puts \cup deleted,
             log' = IF keys = {} THEN log ELSE Append(log, Batch(keys, deleted, c)),
             Answers([revision |-> Len(log'), succeeded |-> succeeded, deleted |-> deleted]),
             UNCHANGED <<floor, leases, granted>>
      PROVE  Accounts'
  <2> DEFINE told == [revision |-> Len(log'), succeeded |-> succeeded, deleted |-> deleted]
  <2>1. keys \subseteq Keys /\ deleted \subseteq Keys
    <3>1. request \in TxnRequest
      BY <1>1, <1>2, RequestShapes
    <3> QED
      BY <1>2, <3>1 DEF TxnRequest, Branch, Selected
  <2>2. Batch(keys, deleted, c) \in Entry /\ Batch(keys, deleted, c).author = c
    BY <2>1 DEF Entry, Batch
  <2>3. /\ log' \in Seq(Entry) /\ Len(log') \in Nat
        /\ \A r \in 1..revision : log'[r] = log[r]
        /\ \A d \in Calls \ {c} : Effects(d)' = Effects(d)
        /\ keys = {} => Effects(c)' = {}
        /\ keys # {} => /\ Effects(c)' = {Len(log')}
                         /\ log'[Len(log')] = Batch(keys, deleted, c)
    <3>1. CASE keys = {}
      <4>1. log' = log
        BY <1>2, <3>1
      <4> QED
        BY <1>1, <3>1, <4>1 DEF Effects, revision, ServerOK
    <3>2. CASE keys # {}
      <4>1. log' = Append(log, Batch(keys, deleted, c))
        BY <1>2, <3>2
      <4>2. /\ log' \in Seq(Entry) /\ \A r \in 1..revision : log'[r] = log[r]
            /\ log'[revision + 1] = Batch(keys, deleted, c) /\ Len(log') = revision + 1
        BY <1>1, <2>2, <4>1, AppendEffects DEF ServerOK
      <4>3. \A d : Effects(d)' = IF c = d THEN Effects(d) \cup {revision + 1} ELSE Effects(d)
        BY <1>1, <2>2, <4>1, AppendEffects DEF ServerOK
      <4> QED
        BY <1>1, <3>2, <4>2, <4>3
    <3> QED
      BY <3>1, <3>2
  <2>4. ServerOK' /\ Forward
    <3>1. floor' = floor /\ leases' = leases /\ granted' = granted
      BY <1>2
    <3>2. log' \in Seq(Entry) /\ \A r \in 1..revision : log'[r] = log[r]
      BY <2>3
    <3> QED
      BY <1>1, <3>1, <3>2 DEF ServerOK, Forward
  <2>5. call'[c].wire = "answer" /\ call'[c].request = request /\ call'[c].answer = told
    <3>1. Answers(told)
      BY <1>2
    <3> HIDE DEF told
    <3> QED
      BY <3>1, AnswerRecord
  <2>6. told \in Told /\ told.revision = Len(log') /\ told.deleted = deleted
    BY <2>1, <2>3 DEF Told
  <2>7. Written(request, told) = keys
    BY <1>2 DEF Written
  <2>8. Answers(told)
    BY <1>2
  <2> HIDE DEF told
  <2>9. Fits(call[c].request, call[c].answer)'
    BY <1>2, <2>5, <2>6 DEF Fits
  <2>10. Effected(c)'
    <3>1. PICK asked : asked = request
      OBVIOUS
    <3>2. PICK answer : answer = told
      OBVIOUS
    <3>3. /\ call'[c].wire = "answer" /\ call'[c].request = asked /\ call'[c].answer = answer
          /\ asked.kind = "transaction" /\ answer \in Told /\ answer.deleted = deleted
          /\ answer.revision = Len(log')
          /\ Selected(asked, answer.succeeded).puts \cup answer.deleted = keys
      BY <1>2, <2>5, <2>6, <2>7, <3>1, <3>2 DEF Written
    <3> QED
      BY <2>3, <3>3 DEF Effected, Written, Selected, Batch, Told
  <2> QED
    BY <1>1, <2>3, <2>4, <2>8, <2>9, <2>10, AnswerAccounts
<1>3. CASE /\ request.kind = "transaction"
           /\ Answers(Text("other"))
           /\ UNCHANGED server
  <2>1. /\ call'[c].wire = "answer" /\ call'[c].request = request
        /\ call'[c].answer = Text("other")
    BY <1>3, AnswerRecord
  <2>2. Fits(call[c].request, call[c].answer)'
    BY <1>3, <2>1 DEF Fits
  <2>3. Text("other") \notin Told
    BY DEF Text, Told
  <2>4. Effected(c)'
    BY <1>1, <1>3, <2>1, <2>3, StillServer DEF Effected
  <2> QED
    BY <1>1, <1>3, <2>2, <2>4, StillServer, AnswerAccounts
<1>4. ASSUME request.kind = "range",
             Answers(LET at == IF request.revision \in {None, 0} THEN revision
                               ELSE request.revision
                     IN IF at < floor THEN Text("compacted")
                        ELSE IF at > revision THEN Text("future")
                        ELSE [revision |-> revision, read |-> at]),
             UNCHANGED server
      PROVE  Accounts'
  <2> DEFINE at == IF request.revision \in {None, 0} THEN revision ELSE request.revision
             answer == IF at < floor THEN Text("compacted")
                       ELSE IF at > revision THEN Text("future")
                       ELSE [revision |-> revision, read |-> at]
  <2>1. call'[c].wire = "answer" /\ call'[c].request = request /\ call'[c].answer = answer
    <3>1. Answers(answer)
      BY <1>4
    <3> HIDE DEF answer
    <3> QED
      BY <3>1, AnswerRecord
  <2>2. request.revision \in Nat \cup {None} /\ floor \in Nat
    BY <1>1, <1>4, RequestShapes DEF RangeRequest, ServerOK
  <2>3. at \in Nat
    BY <1>1, <2>2
  <2>4. Fits(request, answer)
    <3>1. CASE at < floor
      <4>1. request.revision # None => request.revision <= floor
        BY <2>2, <3>1
      <4> QED
        BY <1>4, <3>1, <4>1 DEF Fits
    <3>2. CASE ~(at < floor) /\ at > revision
      BY <1>4, <3>2 DEF Fits
    <3>3. CASE ~(at < floor) /\ ~(at > revision)
      <4>1. answer = [revision |-> revision, read |-> at]
        BY <3>3
      <4>2. answer \in [revision : Nat, read : Nat] /\ answer.read = at /\ answer.revision = revision
        BY <1>1, <2>3, <4>1
      <4>3. Dated(request, answer) = at
        BY <4>2 DEF Dated
      <4> QED
        BY <1>4, <4>2, <4>3 DEF Fits
    <3> QED
      BY <3>1, <3>2, <3>3
  <2> HIDE DEF answer
  <2>5. Fits(call[c].request, call[c].answer)'
    BY <1>4, <2>1, <2>4 DEF Fits, server, Dated
  <2>6. Effected(c)'
    BY <1>1, <1>4, <2>1, StillServer DEF Effected
  <2>7. Answers(answer)
    BY <1>4 DEF answer
  <2> QED
    BY <1>1, <1>4, <2>5, <2>6, <2>7, StillServer, AnswerAccounts
<1>5. CASE /\ request.kind = "grant"
           /\ granted' = granted + 1
           /\ leases' = leases \cup {granted + 1}
           /\ Answers([lease |-> granted + 1])
           /\ UNCHANGED <<log, floor>>
  <2>1. ServerOK' /\ Forward
    BY <1>1, <1>5 DEF ServerOK, Forward
  <2>2. \A d : Effects(d)' = Effects(d)
    BY <1>5 DEF Effects, revision
  <2>3. /\ call'[c].wire = "answer" /\ call'[c].request = request
        /\ call'[c].answer = [lease |-> granted + 1]
    BY <1>5, AnswerRecord
  <2>4. Fits(call[c].request, call[c].answer)'
    BY <1>1, <1>5, <2>3 DEF Fits, ServerOK
  <2>5. Effected(c)'
    BY <1>1, <1>5, <2>2, <2>3 DEF Effected
  <2> QED
    BY <1>1, <1>5, <2>1, <2>2, <2>4, <2>5, AnswerAccounts
<1>6. CASE /\ request.kind = "keep_alive"
           /\ Answers([ttl |-> IF request.lease \in leases THEN 1 ELSE 0])
           /\ UNCHANGED server
  <2> DEFINE answer == [ttl |-> IF request.lease \in leases THEN 1 ELSE 0]
  <2>1. call'[c].wire = "answer" /\ call'[c].request = request /\ call'[c].answer = answer
    <3>1. Answers(answer)
      BY <1>6
    <3> HIDE DEF answer
    <3> QED
      BY <3>1, AnswerRecord
  <2>2. Fits(call[c].request, call[c].answer)'
    BY <1>1, <1>6, <2>1 DEF Fits, server
  <2>3. Effected(c)'
    BY <1>1, <1>6, <2>1, StillServer DEF Effected
  <2> QED
    BY <1>1, <1>6, <2>2, <2>3, StillServer, AnswerAccounts
<1>7. CASE /\ request.kind = "revoke"
           /\ leases' = leases \ {request.lease}
           /\ Answers(IF request.lease \in leases THEN [lease |-> request.lease]
                      ELSE Text("lease"))
           /\ UNCHANGED <<log, floor, granted>>
  <2>1. ServerOK' /\ Forward
    BY <1>1, <1>7 DEF ServerOK, Forward
  <2>2. \A d : Effects(d)' = Effects(d)
    BY <1>7 DEF Effects, revision
  <2> DEFINE answer == IF request.lease \in leases THEN [lease |-> request.lease]
                       ELSE Text("lease")
  <2>3. call'[c].wire = "answer" /\ call'[c].request = request /\ call'[c].answer = answer
    <3>1. Answers(answer)
      BY <1>7
    <3> HIDE DEF answer
    <3> QED
      BY <3>1, AnswerRecord
  <2>4. Fits(call[c].request, call[c].answer)'
    BY <1>1, <1>7, <2>3 DEF Fits
  <2>5. Effected(c)'
    BY <1>1, <1>7, <2>2, <2>3 DEF Effected
  <2> QED
    BY <1>1, <1>7, <2>1, <2>2, <2>4, <2>5, AnswerAccounts
<1>8. CASE request.kind = "transaction"
  <2>1. ASSUME LET succeeded == request.expected \in {None, ModRevision(request.on)}
                   branch == Selected(request, succeeded)
                   deleted == {k \in branch.deletes : ModRevision(k) # 0}
                   keys == branch.puts \cup deleted
               IN /\ keys # {} => revision < MaxRevision
                  /\ log' = IF keys = {} THEN log ELSE Append(log, Batch(keys, deleted, c))
                  /\ Answers([revision |-> Len(log'), succeeded |-> succeeded,
                              deleted |-> deleted]),
               UNCHANGED <<floor, leases, granted>>
        PROVE  Accounts'
    <3> DEFINE succeeded == request.expected \in {None, ModRevision(request.on)}
               deleted == {k \in Selected(request, succeeded).deletes : ModRevision(k) # 0}
               keys == Selected(request, succeeded).puts \cup deleted
    <3>1. /\ succeeded \in BOOLEAN /\ deleted \subseteq Selected(request, succeeded).deletes
          /\ keys = Selected(request, succeeded).puts \cup deleted
      OBVIOUS
    <3>2. /\ log' = IF keys = {} THEN log ELSE Append(log, Batch(keys, deleted, c))
          /\ Answers([revision |-> Len(log'), succeeded |-> succeeded, deleted |-> deleted])
      BY <2>1
    <3> HIDE DEF succeeded, deleted, keys
    <3> QED
      BY <1>2, <1>8, <2>1, <3>1, <3>2
  <2> QED
    BY <1>3, <1>8, <2>1 DEF Execute
<1> QED
  BY <1>4, <1>5, <1>6, <1>7, <1>8 DEF Execute

\* Steps of others: no call moves, and no call's effects change.
LEMMA OthersMove ==
  ASSUME Accounts, ServerOK', Forward, UNCHANGED call,
         \A d \in Calls : Effects(d)' = Effects(d)
  PROVE  Accounts'
BY Unmoved DEF Accounts, CallsOK

LEMMA ElsewhereAccounts ==
  ASSUME Accounts, NEW keys \in SUBSET Keys, NEW deleted \in SUBSET keys,
         Elsewhere(keys, deleted)
  PROVE  Accounts'
<1>1. Batch(keys, deleted, None) \in Entry /\ Batch(keys, deleted, None).author = None
  BY DEF Entry, Batch
<1>2. log' \in Seq(Entry) /\ \A r \in 1..revision : log'[r] = log[r]
  BY <1>1, AppendEffects DEF Accounts, ServerOK, Elsewhere
<1>3. \A d \in Calls : Effects(d)' = Effects(d)
  <2>1. ASSUME NEW d \in Calls
        PROVE  Effects(d)' = IF None = d THEN Effects(d) \cup {revision + 1} ELSE Effects(d)
    BY <1>1, AppendEffects DEF Accounts, ServerOK, Elsewhere
  <2> QED
    BY <2>1, AetcdConstantsOK DEF AetcdConstantsOK
<1>4. ServerOK' /\ Forward /\ UNCHANGED call
  <2>1. UNCHANGED <<floor, leases, granted, call>>
    BY DEF Elsewhere
  <2> QED
    BY <1>2, <2>1 DEF Accounts, ServerOK, Forward
<1> QED
  BY <1>3, <1>4, OthersMove

LEMMA ExpireAccounts ==
  ASSUME Accounts, NEW lease \in leases, Expire(lease)
  PROVE  Accounts'
<1>1. ServerOK' /\ Forward /\ UNCHANGED call
  BY DEF Accounts, ServerOK, Forward, Expire
<1>2. \A d \in Calls : Effects(d)' = Effects(d)
  BY DEF Expire, Effects, revision
<1> QED
  BY <1>1, <1>2, OthersMove

LEMMA CompactAccounts ==
  ASSUME Accounts, NEW rev \in 1..revision, Compact(rev)
  PROVE  Accounts'
<1>1. ServerOK' /\ Forward /\ UNCHANGED call
  BY DEF Accounts, ServerOK, Forward, Compact
<1>2. \A d \in Calls : Effects(d)' = Effects(d)
  BY DEF Compact, Effects, revision
<1> QED
  BY <1>1, <1>2, OthersMove

LEMMA StillAccounts ==
  ASSUME Accounts, UNCHANGED <<server, call>>
  PROVE  Accounts'
BY StillServer, OthersMove

LEMMA InitAccounts ==
  ASSUME Init
  PROVE  Accounts
<1>1. ServerOK
  <2>1. Batch({}, {}, None) \in Entry
    BY DEF Entry, Batch
  <2> QED
    BY <2>1 DEF Init, ServerOK
<1>2. ASSUME NEW c \in Calls
      PROVE  CallOK(c)
  <2>1. call[c] = NoCall
    BY DEF Init
  <2>2. Effects(c) = {}
    <3>1. \A r \in 1..Len(log) : log[r].author = None
      BY DEF Init, Batch
    <3> QED
      BY <3>1, AetcdConstantsOK DEF Effects, revision, AetcdConstantsOK
  <2> QED
    BY <2>1, <2>2 DEF CallOK, IsCall, Underway, Effected, Ended, NoCall
<1> QED
  BY <1>1, <1>2 DEF Accounts, CallsOK, Init

LEMMA StepAccounts ==
  ASSUME Accounts, [Next]_vars
  PROVE  Accounts'
<1>1. ASSUME NEW c \in Calls, NEW request \in Askable, Call(c, request)
      PROVE  Accounts'
  BY <1>1, CallAccounts
<1>2. ASSUME NEW c \in Calls, Connect(c) \/ Send(c) \/ Execute(c) \/ Return(c) \/ HangUp(c) \/ TimeOut(c)
      PROVE  Accounts'
  BY <1>2, ConnectAccounts, SendAccounts, ExecuteAccounts, ReturnAccounts, HangUpAccounts,
     TimeOutAccounts
<1>3. CASE Others
  <2>1. PICK keys \in SUBSET Keys : \E deleted \in SUBSET keys : Elsewhere(keys, deleted)
    BY <1>3 DEF Others
  <2> QED
    BY <2>1, ElsewhereAccounts
<1>4. ASSUME NEW lease \in leases, Expire(lease)
      PROVE  Accounts'
  BY <1>4, ExpireAccounts
<1>5. ASSUME NEW rev \in 1..revision, Compact(rev)
      PROVE  Accounts'
  BY <1>5, CompactAccounts
<1>6. ASSUME NEW w \in Watches, Watch(w)
      PROVE  Accounts'
  BY <1>6, StillAccounts DEF Watch
<1>7. ASSUME ConnectWatch \/ OpenWatch \/ Yield \/ Break \/ Close \/ UNCHANGED vars
      PROVE  Accounts'
  BY <1>7, StillAccounts DEF ConnectWatch, OpenWatch, Yield, Break, Close, vars
<1> QED
  BY <1>1, <1>2, <1>3, <1>4, <1>5, <1>6, <1>7 DEF Next

LEMMA AlwaysAccounts == Spec => []Accounts
<1>1. Init => Accounts
  BY InitAccounts
<1>2. Accounts /\ [Next]_vars => Accounts'
  BY StepAccounts
<1> QED
  BY <1>1, <1>2, PTL DEF Spec
-----------------------------------------------------------------------------
(* What a caller may conclude.                                             *)

\* What the adapter returns for an answer it has no error to make of.
LEMMA AnswerReturned ==
  ASSUME NEW c \in Calls, call[c].request \in Requests,
         Fits(call[c].request, call[c].answer), Answered(c).ok
  PROVE  LET request == call[c].request
             answer == call[c].answer
         IN /\ request.kind = "transaction" =>
                 /\ answer \in Told
                 /\ Answered(c) = [ok |-> TRUE, revision |-> answer.revision,
                                   succeeded |-> answer.succeeded, deleted |-> answer.deleted]
            /\ request.kind = "range" =>
                 /\ answer.read = Dated(request, answer)
                 /\ Answered(c) = [ok |-> TRUE, revision |-> Dated(request, answer),
                                   read |-> answer.read]
<1> DEFINE request == call[c].request
           answer == call[c].answer
<1>1. ASSUME request.kind = "transaction"
      PROVE  /\ answer \in Told
             /\ Answered(c) = [ok |-> TRUE, revision |-> answer.revision,
                               succeeded |-> answer.succeeded, deleted |-> answer.deleted]
  <2>1. CASE answer = Text("other")
    <3>1. "text" \in DOMAIN answer
      BY <2>1 DEF Text
    <3>2. Answered(c) = Unspecific
      BY <1>1, <2>1, <3>1, OtherIsUnspecific DEF Answered
    <3> QED
      BY <3>2 DEF Unspecific, Failure
  <2>2. CASE answer \in Told
    <3>1. "text" \notin DOMAIN answer
      BY <2>2 DEF Told
    <3> QED
      BY <1>1, <2>2, <3>1 DEF Answered
  <2> QED
    BY <1>1, <2>1, <2>2 DEF Fits
<1>2. ASSUME request.kind = "range"
      PROVE  /\ answer.read = Dated(request, answer)
             /\ Answered(c) = [ok |-> TRUE, revision |-> Dated(request, answer),
                               read |-> answer.read]
  <2>1. CASE answer = Text("future") \/ answer = Text("compacted")
    <3>1. "text" \in DOMAIN answer
      BY <2>1 DEF Text
    <3>2. Answered(c) = Translate(answer, RequestedRevision(request), NamedLease(request))
      BY <1>2, <3>1 DEF Answered
    <3>3. ~Answered(c).ok
      BY <2>1, <3>2 DEF Translate, Text, Failure, Unspecific
    <3> QED
      BY <3>3
  <2>2. CASE answer \in [revision : Nat, read : Nat] /\ answer.read = Dated(request, answer)
    <3>1. "text" \notin DOMAIN answer
      BY <2>2
    <3> QED
      BY <1>2, <2>2, <3>1 DEF Answered
  <2> QED
    BY <1>2, <2>1, <2>2 DEF Fits
<1> QED
  BY <1>1, <1>2

LEMMA AccountsOfTransactions ==
  ASSUME Accounts
  PROVE  TransactionAccounted
<1> SUFFICES
      ASSUME NEW c \in Calls
      PROVE  /\ Cardinality(Effects(c)) <= 1
             /\ Ended(c) /\ call[c].outcome.ok /\ call[c].request.kind = "transaction" =>
                  LET result == call[c].outcome
                      written == Selected(call[c].request, result.succeeded).puts
                                   \cup result.deleted
                  IN /\ Effects(c) = IF written = {} THEN {} ELSE {result.revision}
                     /\ \A r \in Effects(c) : log[r] = Batch(written, result.deleted, c)
             /\ Ended(c) /\ call[c].request.defect # "none" => Effects(c) = {}
  BY DEF TransactionAccounted
<1>1. CallOK(c)
  BY DEF Accounts, CallsOK
<1>2. Cardinality(Effects(c)) <= 1
  <2>1. Effects(c) = {} \/ \E r : Effects(c) = {r}
    BY <1>1 DEF CallOK, Effected
  <2>2. CASE Effects(c) = {}
    BY <2>2, FS_EmptySet
  <2>3. ASSUME NEW r, Effects(c) = {r}
        PROVE  Cardinality(Effects(c)) <= 1
    <3>1. Cardinality({r}) = 1
      BY FS_Singleton
    <3> QED
      BY <2>3, <3>1
  <2> QED
    BY <2>1, <2>2, <2>3
<1>3. ASSUME Ended(c), call[c].outcome.ok, call[c].request.kind = "transaction"
      PROVE  LET result == call[c].outcome
                 written == Selected(call[c].request, result.succeeded).puts \cup result.deleted
             IN /\ Effects(c) = IF written = {} THEN {} ELSE {result.revision}
                /\ \A r \in Effects(c) : log[r] = Batch(written, result.deleted, c)
  <2>1. /\ call[c].outcome \notin {Unspecific, Refused}
        /\ call[c].outcome # Failure("LeaseNotFound", None, None, call[c].request.lease)
    BY <1>3 DEF Unspecific, Refused, Failure
  <2>2. call[c].wire = "answer" /\ call[c].outcome = Answered(c) /\ call[c].request \in Requests
    BY <1>1, <1>3, <2>1 DEF CallOK, Underway, Ended
  <2>3. /\ call[c].answer \in Told
        /\ Answered(c) = [ok |-> TRUE, revision |-> call[c].answer.revision,
                          succeeded |-> call[c].answer.succeeded,
                          deleted |-> call[c].answer.deleted]
    BY <1>1, <1>3, <2>2, AnswerReturned DEF CallOK
  <2>4. /\ call[c].outcome.succeeded = call[c].answer.succeeded
        /\ call[c].outcome.revision = call[c].answer.revision
        /\ call[c].outcome.deleted = call[c].answer.deleted
    BY <2>2, <2>3
  <2>5. Written(call[c].request, call[c].answer) =
          Selected(call[c].request, call[c].outcome.succeeded).puts \cup call[c].outcome.deleted
    BY <2>4 DEF Written
  <2>6. IF Written(call[c].request, call[c].answer) # {}
        THEN /\ Effects(c) = {call[c].answer.revision}
             /\ log[call[c].answer.revision] =
                  Batch(Written(call[c].request, call[c].answer), call[c].answer.deleted, c)
        ELSE Effects(c) = {}
    BY <1>1, <1>3, <2>2, <2>3 DEF CallOK, Effected
  <2> QED
    BY <2>4, <2>5, <2>6
<1>4. ASSUME Ended(c), call[c].request.defect # "none"
      PROVE  Effects(c) = {}
  BY <1>1, <1>4 DEF CallOK, Underway, Effected
<1> QED
  BY <1>2, <1>3, <1>4

\* A transaction has at most one effect, whatever the network loses or delays;
\* from the result transaction() returns follows which branch ran, whether and
\* at which revision it wrote, and all it wrote, failed compares and branches
\* that write nothing included; one refused without being sent has no effect.
THEOREM EveryTransactionAccounted == Spec => []TransactionAccounted
BY AlwaysAccounts, AccountsOfTransactions, PTL

LEMMA DatesOfPages ==
  ASSUME Accounts
  PROVE  PagesDated
<1> SUFFICES ASSUME NEW c \in Calls, Ended(c), call[c].outcome.ok,
                    call[c].request.kind = "range"
             PROVE  call[c].outcome.revision = call[c].outcome.read
  BY DEF PagesDated
<1>1. CallOK(c)
  BY DEF Accounts, CallsOK
<1>2. /\ call[c].outcome \notin {Unspecific, Refused}
      /\ call[c].outcome # Failure("LeaseNotFound", None, None, call[c].request.lease)
  BY DEF Unspecific, Refused, Failure
<1>3. call[c].wire = "answer" /\ call[c].outcome = Answered(c) /\ call[c].request \in Requests
  BY <1>1, <1>2 DEF CallOK, Underway, Ended
<1>4. /\ call[c].answer.read = Dated(call[c].request, call[c].answer)
      /\ Answered(c) = [ok |-> TRUE, revision |-> Dated(call[c].request, call[c].answer),
                        read |-> call[c].answer.read]
  BY <1>1, <1>3, AnswerReturned DEF CallOK
<1> QED
  BY <1>3, <1>4

\* Every page get_range returns is dated with the revision it was read at.
THEOREM EveryPageDated == Spec => []PagesDated
BY AlwaysAccounts, DatesOfPages, PTL
-----------------------------------------------------------------------------
(* The consumer and its watches.                                           *)

Seen == UNION {batch.events : batch \in consumer.handed}

IsStream(record) ==
  record \in [phase : {"idle", "connecting", "opening", "open", "cut", "over"},
              from : Nat, sent : {record.sent}]

IsConsumer ==
  consumer \in [watch : Watches \cup {None}, handed : {consumer.handed},
                last : 1..revision, raised : {consumer.raised}]

\* Every event before revision rev has been handed over.
SeenBefore(rev) == \A e \in Events(1) : e.revision < rev => e \in Seen

\* What the consumer has had, and what its present watch starts from.
Following ==
  /\ DOMAIN stream = Watches
  /\ \A w \in Watches : IsStream(stream[w])
  /\ \A w \in Watches : stream[w].phase = "idle" => stream[w].sent = {}
  /\ IsConsumer
  /\ SeenBefore(consumer.last)
  /\ Current # None => /\ stream[Current].from \in 1..revision
                       /\ stream[Current].sent \subseteq Seen
                       /\ SeenBefore(stream[Current].from)

LEMMA EventsAre ==
  ASSUME NEW from, NEW e
  PROVE  e \in Events(from) <=>
           \E r \in from..revision : \E k \in log[r].keys : e = [revision |-> r, key |-> k]
BY DEF Events, Event

LEMMA EventsSince ==
  ASSUME ServerOK, NEW from \in 1..revision, NEW e \in Events(1)
  PROVE  e.revision < from \/ e \in Events(from)
<1>1. PICK r \in 1..revision : \E k \in log[r].keys : e = [revision |-> r, key |-> k]
  BY EventsAre
<1>2. revision \in Nat /\ e.revision = r
  BY <1>1 DEF ServerOK, revision
<1>3. CASE r < from
  BY <1>2, <1>3
<1>4. CASE ~(r < from)
  <2>1. r \in from..revision
    BY <1>2, <1>4
  <2> QED
    BY <1>1, <2>1, EventsAre
<1> QED
  BY <1>3, <1>4

\* What is later appended to the log comes after what has been seen.
LEMMA SeenStays ==
  ASSUME ServerOK, ServerOK', revision <= revision', \A r \in 1..revision : log'[r] = log[r],
         UNCHANGED consumer, NEW rev \in 1..revision, SeenBefore(rev)
  PROVE  \A e \in Events(1)' : e.revision < rev => e \in Seen'
<1> SUFFICES ASSUME NEW e \in Events(1)', e.revision < rev
             PROVE  e \in Seen'
  OBVIOUS
<1>1. PICK r \in 1..revision' : \E k \in log'[r].keys : e = [revision |-> r, key |-> k]
  BY DEF Events, Event
<1>2. r \in 1..revision
  <2>1. revision \in Nat /\ revision' \in Nat
    BY DEF ServerOK, revision
  <2> QED
    BY <1>1, <2>1
<1>3. e \in Events(1)
  BY <1>1, <1>2, EventsAre
<1> QED
  BY <1>3 DEF SeenBefore, Seen

\* The log grows at its end only.
LogGrows == revision <= revision' /\ \A r \in 1..revision : log'[r] = log[r]

LEMMA StepGrows ==
  ASSUME Accounts, [Next]_vars
  PROVE  LogGrows
<1>1. log \in Seq(Entry) /\ revision \in Nat
  BY DEF Accounts, ServerOK, revision
<1>2. CASE log' = log
  BY <1>1, <1>2 DEF LogGrows, revision
<1>3. ASSUME NEW entry, log' = Append(log, entry)
      PROVE  LogGrows
  BY <1>1, <1>3 DEF LogGrows, revision
<1>4. log' = log \/ \E entry : log' = Append(log, entry)
  <2>1. ASSUME NEW c \in Calls, Execute(c)
        PROVE  log' = log \/ \E entry : log' = Append(log, entry)
    BY <2>1 DEF Execute, server
  <2>2. ASSUME Others
        PROVE  \E entry : log' = Append(log, entry)
    BY <2>2 DEF Others, Elsewhere
  <2>3. ASSUME NEW c \in Calls, Connect(c) \/ Send(c) \/ Return(c) \/ HangUp(c) \/ TimeOut(c)
        PROVE  log' = log
    BY <2>3 DEF Connect, Send, Return, HangUp, TimeOut, server
  <2>4. ASSUME NEW c \in Calls, NEW request \in Askable, Call(c, request)
        PROVE  log' = log
    BY <2>4 DEF Call, server
  <2>5. ASSUME NEW lease \in leases, Expire(lease)
        PROVE  log' = log
    BY <2>5 DEF Expire
  <2>6. ASSUME NEW rev \in 1..revision, Compact(rev)
        PROVE  log' = log
    BY <2>6 DEF Compact
  <2>7. ASSUME NEW w \in Watches, Watch(w)
        PROVE  log' = log
    BY <2>7 DEF Watch, server
  <2>8. ASSUME ConnectWatch \/ OpenWatch \/ Yield \/ Break \/ Close \/ UNCHANGED vars
        PROVE  log' = log
    BY <2>8 DEF ConnectWatch, OpenWatch, Yield, Break, Close, vars, server
  <2> QED
    BY <2>1, <2>2, <2>3, <2>4, <2>5, <2>6, <2>7, <2>8 DEF Next
<1> QED
  BY <1>2, <1>3, <1>4

\* A step that leaves the consumer's side alone.
LEMMA FollowingStays ==
  ASSUME Accounts, Accounts', LogGrows, Following, UNCHANGED <<stream, consumer>>
  PROVE  Following'
<1>1. ServerOK /\ ServerOK' /\ revision \in Nat /\ revision' \in Nat
  BY DEF Accounts, ServerOK, revision
<1>2. IsConsumer'
  BY <1>1 DEF Following, IsConsumer, LogGrows
<1>3. SeenBefore(consumer.last)'
  <2>1. consumer.last \in 1..revision /\ SeenBefore(consumer.last)
    BY DEF Following, IsConsumer
  <2> QED
    BY <1>1, <2>1, SeenStays DEF SeenBefore, LogGrows
<1>4. ASSUME Current # None
      PROVE  /\ stream'[Current].from \in 1..revision'
             /\ stream'[Current].sent \subseteq Seen'
             /\ SeenBefore(stream[Current].from)'
  <2>1. /\ stream[Current].from \in 1..revision /\ stream[Current].sent \subseteq Seen
        /\ SeenBefore(stream[Current].from)
    BY <1>4 DEF Following
  <2>2. SeenBefore(stream[Current].from)'
    BY <1>1, <2>1, SeenStays DEF SeenBefore, LogGrows, Current
  <2>3. stream[Current].from \in 1..revision'
    BY <1>1, <2>1 DEF LogGrows
  <2> QED
    BY <2>1, <2>2, <2>3 DEF Seen
<1>5. Current' = Current /\ stream' = stream
  BY DEF Current
<1> QED
  BY <1>2, <1>3, <1>4, <1>5 DEF Following, IsStream

\* A step of a stream, or of its consumer, that hands nothing over.
LEMMA FollowingOn ==
  ASSUME Following, UNCHANGED server, IsConsumer', consumer'.last = consumer.last,
         consumer'.handed = consumer.handed, DOMAIN stream' = Watches,
         NEW w \in Watches,
         \A v \in Watches : IsStream(stream[v])',
         \A v \in Watches : stream'[v].phase = "idle" => stream'[v].sent = {},
         \A v \in Watches : stream'[v].sent = stream[v].sent,
         Current' # None => \/ Current' = Current /\ stream'[Current].from = stream[Current].from
                            \/ /\ Current' = w /\ stream[w].phase = "idle"
                               /\ stream'[w].from = consumer.last
  PROVE  Following'
<1>1. revision' = revision /\ Seen' = Seen /\ \A rev : Events(rev)' = Events(rev)
  BY DEF server, revision, Seen, Events
<1>2. \A rev : SeenBefore(rev) => \A e \in Events(1)' : e.revision < rev => e \in Seen'
  BY <1>1 DEF SeenBefore
<1>3. SeenBefore(consumer.last)'
  BY <1>2 DEF SeenBefore, Following
<1>4. ASSUME Current' # None
      PROVE  /\ stream'[Current'].from \in 1..revision'
             /\ stream'[Current'].sent \subseteq Seen'
             /\ SeenBefore(stream[Current].from)'
  <2>1. CASE Current' = Current /\ stream'[Current].from = stream[Current].from
    <3>1. Current \in Watches
      BY <1>4, <2>1 DEF Following, IsConsumer, Current
    <3> QED
      BY <1>1, <1>2, <1>4, <2>1, <3>1 DEF Following, SeenBefore
  <2>2. CASE /\ Current' = w /\ stream[w].phase = "idle" /\ stream'[w].from = consumer.last
    <3>1. stream'[w].sent = {}
      BY <2>2 DEF Following
    <3>2. consumer.last \in 1..revision
      BY DEF Following, IsConsumer
    <3> QED
      BY <1>1, <1>2, <2>2, <3>1, <3>2 DEF Following, SeenBefore
  <2> QED
    BY <1>4, <2>1, <2>2
<1> QED
  BY <1>3, <1>4 DEF Following

LEMMA WatchFollows ==
  ASSUME ServerOK, Following, NEW w \in Watches, Watch(w)
  PROVE  Following'
<1> DEFINE new == [stream[w] EXCEPT !.phase = "connecting", !.from = consumer.last]
<1>1. /\ IsStream(stream[w]) /\ DOMAIN stream = Watches /\ IsConsumer
      /\ stream[w].phase = "idle" /\ UNCHANGED server
  BY DEF Following, Watch
<1>2. stream' = [stream EXCEPT ![w] = new]
  BY <1>1 DEF Watch
<1>3. /\ new.phase = "connecting" /\ new.from = consumer.last /\ new.sent = stream[w].sent
      /\ IsStream(new)
  <2>1. revision \in Nat
    BY DEF ServerOK, revision
  <2>2. consumer.last \in Nat
    BY <1>1, <2>1 DEF IsConsumer
  <2> QED
    BY <1>1, <2>2 DEF IsStream
<1> HIDE DEF new
<1>4. /\ DOMAIN stream' = Watches /\ stream'[w] = new
      /\ \A v \in Watches \ {w} : stream'[v] = stream[v]
  BY <1>1, <1>2
<1>5. \A v \in Watches : IsStream(stream[v])'
  BY <1>3, <1>4 DEF Following, IsStream
<1>6. \A v \in Watches : /\ stream'[v].phase = "idle" => stream'[v].sent = {}
                         /\ stream'[v].sent = stream[v].sent
  BY <1>3, <1>4 DEF Following
<1>7. /\ consumer'.last = consumer.last /\ consumer'.handed = consumer.handed
      /\ consumer'.watch = w /\ IsConsumer'
  BY <1>1 DEF Watch, IsConsumer, server, revision
<1> QED
  BY <1>1, <1>3, <1>4, <1>5, <1>6, <1>7, FollowingOn DEF Current

\* The present watch changes its phase, and the consumer at most lets it go.
LEMMA PhaseFollows ==
  ASSUME Following, UNCHANGED server, Current # None,
         NEW phase \in {"opening", "open", "over"},
         stream' = [stream EXCEPT ![Current].phase = phase],
         consumer' = consumer \/ \E failure : Raised(failure)
  PROVE  Following'
<1> DEFINE w == Current
           new == [stream[w] EXCEPT !.phase = phase]
<1>1. w \in Watches /\ IsStream(stream[w]) /\ DOMAIN stream = Watches /\ IsConsumer
  BY DEF Following, IsConsumer, Current
<1>2. stream' = [stream EXCEPT ![w] = new]
  OBVIOUS
<1>3. /\ new.phase = phase /\ new.from = stream[w].from /\ new.sent = stream[w].sent
      /\ IsStream(new)
  BY <1>1 DEF IsStream
<1> HIDE DEF new
<1>4. /\ DOMAIN stream' = Watches /\ stream'[w] = new
      /\ \A v \in Watches \ {w} : stream'[v] = stream[v]
  BY <1>1, <1>2
<1>5. \A v \in Watches : IsStream(stream[v])'
  BY <1>3, <1>4 DEF Following, IsStream
<1>6. \A v \in Watches : /\ stream'[v].phase = "idle" => stream'[v].sent = {}
                         /\ stream'[v].sent = stream[v].sent
  BY <1>3, <1>4 DEF Following
<1>7. /\ consumer'.last = consumer.last /\ consumer'.handed = consumer.handed
      /\ consumer'.watch \in {w, None} /\ IsConsumer'
  BY <1>1 DEF Raised, IsConsumer, server, revision, Current
<1>8. Current' # None => Current' = w /\ stream'[w].from = stream[w].from
  BY <1>3, <1>4, <1>7 DEF Current
<1> HIDE DEF w
<1>9. Current' # None => Current' = Current /\ stream'[Current].from = stream[Current].from
  BY <1>8 DEF w
<1> QED
  BY <1>1, <1>4, <1>5, <1>6, <1>7, <1>9, FollowingOn

LEMMA CloseFollows ==
  ASSUME Following, Close
  PROVE  Following'
<1>1. DOMAIN stream = Watches /\ IsConsumer /\ UNCHANGED <<server, consumer>>
  BY DEF Following, Close
<1>2. ASSUME NEW v \in Watches
      PROVE  /\ IsStream(stream[v])'
             /\ stream'[v].sent = stream[v].sent /\ stream'[v].from = stream[v].from
             /\ stream'[v].phase = "idle" => stream[v].phase = "idle"
  <2>1. IsStream(stream[v])
    BY DEF Following
  <2>2. stream'[v] = IF stream[v].phase \in {"opening", "open"}
                     THEN [stream[v] EXCEPT !.phase = "cut"] ELSE stream[v]
    BY DEF Close
  <2> QED
    BY <2>1, <2>2 DEF IsStream
<1>3. DOMAIN stream' = Watches
  BY DEF Close
<1>4. IsConsumer'
  BY <1>1 DEF IsConsumer, server, revision
<1>5. CASE Current = None
  <2>1. SeenBefore(consumer.last)'
    BY <1>1 DEF Following, SeenBefore, Seen, Events, revision, server
  <2> QED
    BY <1>1, <1>2, <1>3, <1>4, <1>5, <2>1 DEF Following, Current
<1>6. CASE Current # None
  <2>1. Current \in Watches
    BY <1>1, <1>6 DEF IsConsumer, Current
  <2>2. \A v \in Watches : stream'[v].phase = "idle" => stream'[v].sent = {}
    BY <1>2 DEF Following
  <2>3. Current' = Current
    BY <1>1 DEF Current
  <2> QED
    BY <1>1, <1>2, <1>3, <1>4, <2>1, <2>2, <2>3, FollowingOn
<1> QED
  BY <1>5, <1>6

\* A batch is handed over: the first event that is due, so all before it have
\* been seen.
LEMMA YieldFollows ==
  ASSUME Accounts, Following, Yield
  PROVE  Following'
<1> DEFINE w == Current
           due == Events(stream[w].from) \ stream[w].sent
<1>1. PICK event \in due :
        /\ \A f \in due : ~Before(f, event)
        /\ stream' = [stream EXCEPT ![w].sent = @ \cup {event}]
        /\ consumer' = [consumer EXCEPT !.handed = @ \cup {WatchBatch(event)},
                                        !.last = WatchBatch(event).revision]
  BY DEF Yield
<1> DEFINE new == [stream[w] EXCEPT !.sent = @ \cup {event}]
<1>2. /\ w # None /\ w \in Watches /\ IsStream(stream[w]) /\ DOMAIN stream = Watches
      /\ IsConsumer /\ UNCHANGED server /\ stream[w].phase = "open"
      /\ stream[w].from \in 1..revision /\ stream[w].sent \subseteq Seen
      /\ SeenBefore(stream[w].from) /\ ServerOK /\ revision \in Nat
  BY DEF Following, IsConsumer, Current, Yield, Accounts, ServerOK, revision
<1>3. stream' = [stream EXCEPT ![w] = new]
  BY <1>1
<1>4. /\ new.phase = "open" /\ new.from = stream[w].from
      /\ new.sent = stream[w].sent \cup {event} /\ IsStream(new)
  BY <1>2 DEF IsStream
<1> HIDE DEF new
<1>5. /\ DOMAIN stream' = Watches /\ stream'[w] = new
      /\ \A v \in Watches \ {w} : stream'[v] = stream[v]
  BY <1>2, <1>3
<1>6. event.revision \in stream[w].from..revision /\ event.revision \in 1..revision
  <2>1. PICK r \in stream[w].from..revision :
          \E k \in log[r].keys : event = [revision |-> r, key |-> k]
    BY EventsAre
  <2> QED
    BY <1>2, <2>1
<1>7. /\ consumer'.last = event.revision /\ consumer'.watch = w
      /\ consumer'.handed = consumer.handed \cup {WatchBatch(event)} /\ IsConsumer'
  BY <1>1, <1>2, <1>6 DEF IsConsumer, WatchBatch, server, revision, Current
<1>8. Seen' = Seen \cup {event}
  <2> DEFINE batch == WatchBatch(event)
  <2>1. batch.events = {event}
    BY DEF WatchBatch
  <2>2. consumer'.handed = consumer.handed \cup {batch}
    BY <1>7
  <2> HIDE DEF batch
  <2>3. \A e : e \in Seen' <=> \E b \in consumer'.handed : e \in b.events
    BY DEF Seen
  <2>4. \A e : e \in Seen <=> \E b \in consumer.handed : e \in b.events
    BY DEF Seen
  <2> QED
    BY <2>1, <2>2, <2>3, <2>4
<1>9. \A rev : Events(rev)' = Events(rev)
  BY <1>2 DEF Events, revision, server
<1>10. SeenBefore(consumer.last)'
  <2> SUFFICES ASSUME NEW e \in Events(1), e.revision < event.revision
               PROVE  e \in Seen
    BY <1>7, <1>8, <1>9 DEF SeenBefore
  <2>1. CASE e.revision < stream[w].from
    BY <1>2, <2>1 DEF SeenBefore
  <2>2. CASE e \in Events(stream[w].from)
    <3>1. e \notin due
      BY <1>1 DEF Before
    <3> QED
      BY <1>2, <2>2, <3>1
  <2> QED
    BY <1>2, <2>1, <2>2, EventsSince
<1>11. /\ Current' = w /\ stream'[w].from \in 1..revision' /\ stream'[w].sent \subseteq Seen'
  BY <1>2, <1>4, <1>5, <1>7, <1>8 DEF Current, revision, server
<1>12. SeenBefore(stream[Current].from)'
  <2>1. stream'[Current'].from = stream[w].from
    BY <1>4, <1>5, <1>11
  <2> QED
    BY <1>2, <1>8, <1>9, <2>1 DEF SeenBefore
<1>13. \A v \in Watches : /\ IsStream(stream[v])'
                          /\ stream'[v].phase = "idle" => stream'[v].sent = {}
  BY <1>4, <1>5 DEF Following, IsStream
<1> QED
  BY <1>5, <1>7, <1>10, <1>11, <1>12, <1>13 DEF Following

LEMMA StepFollows ==
  ASSUME Accounts, Following, [Next]_vars
  PROVE  Following'
<1>1. Accounts' /\ LogGrows
  BY StepAccounts, StepGrows
<1>2. CASE UNCHANGED <<stream, consumer>>
  BY <1>1, <1>2, FollowingStays
<1>3. ASSUME NEW c \in Calls,
             \/ Connect(c) \/ Send(c) \/ Execute(c) \/ Return(c) \/ HangUp(c) \/ TimeOut(c)
             \/ \E request \in Askable : Call(c, request)
      PROVE  UNCHANGED <<stream, consumer>>
  BY <1>3 DEF Connect, Send, Execute, Return, HangUp, TimeOut, Call
<1>4. ASSUME \/ Others
             \/ \E lease \in leases : Expire(lease)
             \/ \E rev \in 1..revision : Compact(rev)
             \/ UNCHANGED vars
      PROVE  UNCHANGED <<stream, consumer>>
  BY <1>4 DEF Others, Elsewhere, Expire, Compact, vars
<1>5. ASSUME NEW w \in Watches, Watch(w)
      PROVE  Following'
  BY <1>5, WatchFollows DEF Accounts
<1>6. CASE ConnectWatch
  BY <1>6, PhaseFollows DEF ConnectWatch
<1>7. CASE OpenWatch
  <2>1. CASE stream[Current].from < floor
    BY <1>7, <2>1, PhaseFollows DEF OpenWatch
  <2>2. CASE ~(stream[Current].from < floor)
    BY <1>7, <2>2, PhaseFollows DEF OpenWatch
  <2> QED
    BY <2>1, <2>2
<1>8. CASE Break
  BY <1>8, PhaseFollows DEF Break
<1>9. CASE Yield \/ Close
  BY <1>9, YieldFollows, CloseFollows
<1> QED
  BY <1>2, <1>3, <1>4, <1>5, <1>6, <1>7, <1>8, <1>9 DEF Next

LEMMA InitFollows ==
  ASSUME Init
  PROVE  Following
<1>1. consumer = [watch |-> None, handed |-> {}, last |-> 1, raised |-> {}] /\ revision = 1
  BY DEF Init, revision
<1>2. IsConsumer
  BY <1>1 DEF IsConsumer
<1>3. SeenBefore(consumer.last)
  <2>1. \A e \in Events(1) : e.revision = 1
    BY <1>1, EventsAre
  <2> QED
    BY <1>1, <2>1 DEF SeenBefore
<1>4. \A w \in Watches : stream[w] = NoStream /\ DOMAIN stream = Watches
  BY DEF Init
<1>5. DOMAIN stream = Watches
  BY DEF Init
<1> QED
  BY <1>1, <1>2, <1>3, <1>4, <1>5 DEF Following, IsStream, NoStream, Current

LEMMA FollowingIsComplete ==
  ASSUME Accounts, Following
  PROVE  ResumeComplete
<1>1. SeenBefore(consumer.last) /\ ServerOK
  BY DEF Following, Accounts
<1>2. ASSUME Current # None, Events(stream[Current].from) \subseteq stream[Current].sent,
             NEW e \in Events(1)
      PROVE  e \in Seen
  <2>1. /\ stream[Current].from \in 1..revision /\ stream[Current].sent \subseteq Seen
        /\ SeenBefore(stream[Current].from)
    BY <1>2 DEF Following
  <2> QED
    BY <1>1, <1>2, <2>1, EventsSince DEF SeenBefore
<1> QED
  BY <1>1, <1>2 DEF ResumeComplete, SeenBefore, Seen

\* A consumer that takes up a broken watch at the revision of its last batch
\* misses no event, wherever among the events of a revision the stream broke.
THEOREM ResumeMissesNothing == Spec => []ResumeComplete
<1>1. Init => Following
  BY InitFollows
<1>2. Accounts /\ Following /\ [Next]_vars => Following'
  BY StepFollows
<1>3. Accounts /\ Following => ResumeComplete
  BY FollowingIsComplete
<1> QED
  BY <1>1, <1>2, <1>3, AlwaysAccounts, PTL DEF Spec
-----------------------------------------------------------------------------
(* Errors.                                                                 *)

Truthful(f) ==
  /\ f.name = "CompactedRevision" => /\ f.requested \in Nat /\ f.bound \in Nat
                                     /\ f.requested <= f.bound /\ f.bound <= floor
  /\ f.name # "LeaseNotFound"

RaisedTruthful == \A f \in consumer.raised : Truthful(f)

\* An error made of an answer is true when the answer is.
LEMMA AnswerTruthful ==
  ASSUME Accounts, NEW c \in Calls, call[c].wire = "answer"
  PROVE  LET f == Answered(c)
         IN ~f.ok => /\ f.name = "CompactedRevision" =>
                          f.requested <= f.bound /\ f.bound <= floor
                     /\ f.name = "LeaseNotFound" => f.lease \notin leases
<1> DEFINE request == call[c].request
           answer == call[c].answer
           f == Answered(c)
<1>1. /\ request \in Requests /\ Fits(request, answer) /\ ServerOK
      /\ call[c].phase # "idle"
  BY DEF Accounts, CallsOK, CallOK, Underway
<1>2. CASE request.kind \in {"transaction", "grant"}
  <2>1. CASE answer = Text("other")
    <3>1. f = Unspecific
      <4>1. "text" \in DOMAIN answer
        BY <2>1 DEF Text
      <4> QED
        BY <2>1, <4>1, OtherIsUnspecific DEF Answered
    <3> QED
      BY <3>1 DEF Unspecific, Failure
  <2>2. CASE answer # Text("other")
    <3>1. "text" \notin DOMAIN answer
      BY <1>1, <1>2, <2>2 DEF Fits, Told
    <3>2. f.ok
      BY <1>2, <3>1 DEF Answered
    <3> QED
      BY <3>2
  <2> QED
    BY <2>1, <2>2
<1>3. CASE request.kind = "range"
  <2>1. CASE answer \in [revision : Nat, read : Nat]
    <3>1. "text" \notin DOMAIN answer
      BY <2>1
    <3>2. f.ok
      BY <1>3, <3>1 DEF Answered
    <3> QED
      BY <3>2
  <2>2. CASE answer = Text("future")
    <3>1. f = Translate(answer, request.revision, None)
      BY <1>3, <2>2 DEF Answered, Text, RequestedRevision, NamedLease
    <3> QED
      BY <2>2, <3>1 DEF Translate, Text, Failure, Unspecific
  <2>3. CASE answer = Text("compacted") /\ (request.revision # None => request.revision <= floor)
    <3>1. f = Translate(answer, request.revision, None)
      BY <1>3, <2>3 DEF Answered, Text, RequestedRevision, NamedLease
    <3>2. CASE request.revision = None
      BY <2>3, <3>1, <3>2 DEF Translate, Text, Failure, Unspecific
    <3>3. CASE request.revision # None
      <4>1. request.revision \in Nat
        BY <1>1, <1>3, <3>3, RequestShapes DEF RangeRequest
      <4> QED
        BY <2>3, <3>1, <3>3, <4>1 DEF Translate, Text, Failure
    <3> QED
      BY <3>2, <3>3
  <2> QED
    BY <1>1, <1>3, <2>1, <2>2, <2>3 DEF Fits
<1>4. CASE request.kind = "keep_alive"
  <2>1. answer \in [ttl : {0, 1}] /\ (answer.ttl = 0 => request.lease \notin leases)
    BY <1>1, <1>4 DEF Fits
  <2>2. "text" \notin DOMAIN answer
    BY <2>1
  <2>3. f = IF answer.ttl <= 0 THEN Failure("LeaseNotFound", None, None, request.lease)
            ELSE [ok |-> TRUE]
    BY <1>4, <2>1, <2>2 DEF Answered
  <2> QED
    BY <2>1, <2>3 DEF Failure
<1>5. CASE request.kind = "revoke"
  <2>1. CASE answer = Text("lease")
    <3>1. f = Translate(answer, None, request.lease) /\ request.lease \notin leases
      BY <1>1, <1>5, <2>1 DEF Answered, Text, RequestedRevision, NamedLease, Fits
    <3> QED
      BY <2>1, <3>1 DEF Translate, Text, Failure, Unspecific
  <2>2. CASE answer \in [lease : {request.lease}]
    <3>1. "text" \notin DOMAIN answer
      BY <2>2
    <3>2. f.ok
      BY <1>5, <3>1 DEF Answered
    <3> QED
      BY <3>2
  <2> QED
    BY <1>1, <1>5, <2>1, <2>2 DEF Fits
<1>6. request.kind \in {"transaction", "range", "grant", "keep_alive", "revoke"}
  BY <1>1, RequestShapes DEF TxnRequest, RangeRequest, GrantRequest, LeaseRequest
<1> QED
  BY <1>2, <1>3, <1>4, <1>5, <1>6

\* An error about the start of a watch is true when that has been compacted.
LEMMA StartTruthful ==
  ASSUME floor \in Nat, NEW from \in Nat, from < floor,
         NEW error \in {TypedCompaction(floor), Text("compacted")}
  PROVE  Truthful(Translate(error, from, None))
<1>1. from # None
  BY AetcdConstantsOK DEF AetcdConstantsOK
<1>2. CASE error = TypedCompaction(floor)
  <2>1. Translate(error, from, None) =
          Failure("CompactedRevision", IF from = 0 THEN floor ELSE from, floor, None)
    BY <1>1, <1>2 DEF Translate, TypedCompaction, Compaction
  <2> QED
    BY <2>1 DEF Truthful, Failure
<1>3. CASE error = Text("compacted")
  <2>1. Translate(error, from, None) = Failure("CompactedRevision", from, from, None)
    BY <1>1, <1>3 DEF Translate, Text
  <2> QED
    BY <2>1 DEF Truthful, Failure
<1> QED
  BY <1>2, <1>3

LEMMA StepTruthful ==
  ASSUME Accounts, Following, RaisedTruthful, [Next]_vars
  PROVE  RaisedTruthful'
<1>1. floor \in Nat /\ floor' \in Nat /\ floor <= floor'
  <2>1. floor' = floor \/ \E rev \in 1..revision : Compact(rev)
    <3>1. ASSUME NEW c \in Calls, \/ Connect(c) \/ Send(c) \/ Execute(c) \/ Return(c) \/ HangUp(c) \/ TimeOut(c)
                                  \/ \E request \in Askable : Call(c, request)
          PROVE  floor' = floor
      BY <3>1 DEF Connect, Send, Execute, Return, HangUp, TimeOut, Call, server
    <3>2. ASSUME \/ Others
                 \/ \E lease \in leases : Expire(lease)
                 \/ \E w \in Watches : Watch(w)
                 \/ ConnectWatch \/ OpenWatch \/ Yield \/ Break \/ Close \/ UNCHANGED vars
          PROVE  floor' = floor
      BY <3>2 DEF Others, Elsewhere, Expire, Watch, ConnectWatch, OpenWatch, Yield, Break, Close,
         vars, server
    <3> QED
      BY <3>1, <3>2 DEF Next
  <2>2. floor \in Nat
    BY DEF Accounts, ServerOK
  <2>3. ASSUME NEW rev \in 1..revision, Compact(rev)
        PROVE  floor' \in Nat /\ floor <= floor'
    BY <2>2, <2>3 DEF Compact
  <2> QED
    BY <2>1, <2>2, <2>3
<1>2. ASSUME NEW f, Truthful(f)
      PROVE  Truthful(f)'
  BY <1>1, <1>2 DEF Truthful
<1>3. CASE consumer'.raised = consumer.raised
  BY <1>2, <1>3 DEF RaisedTruthful
<1>4. ASSUME NEW failure, Truthful(failure), Raised(failure)
      PROVE  RaisedTruthful'
  <2>1. consumer'.raised = consumer.raised \cup {failure}
    BY <1>4 DEF Raised, Following, IsConsumer
  <2> QED
    BY <1>2, <1>4, <2>1 DEF RaisedTruthful
<1>5. ASSUME NEW c \in Calls,
             \/ Connect(c) \/ Send(c) \/ Execute(c) \/ Return(c) \/ HangUp(c) \/ TimeOut(c)
             \/ \E request \in Askable : Call(c, request)
      PROVE  consumer' = consumer
  BY <1>5 DEF Connect, Send, Execute, Return, HangUp, TimeOut, Call
<1>6. ASSUME \/ Others
             \/ \E lease \in leases : Expire(lease)
             \/ \E rev \in 1..revision : Compact(rev)
             \/ ConnectWatch \/ Close \/ UNCHANGED vars
      PROVE  consumer' = consumer
  BY <1>6 DEF Others, Elsewhere, Expire, Compact, ConnectWatch, Close, vars
<1>7. ASSUME Yield \/ \E w \in Watches : Watch(w)
      PROVE  consumer'.raised = consumer.raised
  BY <1>7 DEF Yield, Watch, Following, IsConsumer
<1>8. CASE OpenWatch
  <2>1. CASE stream[Current].from < floor
    <3>1. stream[Current].from \in Nat
      BY <1>8 DEF OpenWatch, Following, IsConsumer, IsStream, Current
    <3>2. PICK error \in {TypedCompaction(floor), Text("compacted")} :
            Raised(Translate(error, stream[Current].from, None))
      BY <1>8, <2>1 DEF OpenWatch
    <3>3. Truthful(Translate(error, stream[Current].from, None))
      BY <1>1, <2>1, <3>1, StartTruthful
    <3> QED
      BY <1>4, <3>2, <3>3
  <2>2. CASE ~(stream[Current].from < floor)
    BY <1>3, <1>8, <2>2 DEF OpenWatch
  <2> QED
    BY <2>1, <2>2
<1>9. CASE Break
  <2>1. Truthful(Unspecific)
    BY DEF Truthful, Unspecific, Failure
  <2>2. Raised(Unspecific)
    BY <1>9, OtherIsUnspecific DEF Break
  <2> QED
    BY <1>4, <2>1, <2>2
<1> QED
  BY <1>3, <1>5, <1>6, <1>7, <1>8, <1>9 DEF Next

LEMMA AllTruthful ==
  ASSUME Accounts, RaisedTruthful
  PROVE  ErrorsTrue
<1>1. ASSUME NEW f \in consumer.raised
      PROVE  /\ f.name = "CompactedRevision" => f.requested <= f.bound /\ f.bound <= floor
             /\ f.name # "LeaseNotFound"
  BY <1>1 DEF RaisedTruthful, Truthful
<1>2. ASSUME NEW c \in Calls, Ended(c), ~call[c].outcome.ok
      PROVE  LET f == call[c].outcome
             IN /\ f.name = "CompactedRevision" => f.requested <= f.bound /\ f.bound <= floor
                /\ c \notin Unanswered => (f.name = "LeaseNotFound" => f.lease \notin leases)
  <2> DEFINE f == call[c].outcome
  <2>1. \/ f \in {Unspecific, Refused}
        \/ call[c].wire = "answer" /\ f = Answered(c)
        \/ /\ call[c].wire = "ended"
           /\ f = Failure("LeaseNotFound", None, None, call[c].request.lease)
    BY <1>2 DEF Accounts, CallsOK, CallOK, Underway
  <2>2. CASE f \in {Unspecific, Refused}
    BY <2>2 DEF Unspecific, Refused, Failure
  <2>3. CASE call[c].wire = "answer" /\ f = Answered(c)
    BY <1>2, <2>3, AnswerTruthful
  <2>4. CASE /\ call[c].wire = "ended"
             /\ f = Failure("LeaseNotFound", None, None, call[c].request.lease)
    BY <2>4 DEF Unanswered, Failure
  <2> QED
    BY <2>1, <2>2, <2>3, <2>4
<1> QED
  BY <1>1, <1>2 DEF ErrorsTrue, Failures

\* An error that names a cause is true, whenever it is looked at: what
\* _translate_error makes of an answer, or of a bare text, never reports a
\* compaction beyond the one there was nor the loss of a lease that lives.  It
\* says nothing of a keep-alive whose stream ended without an answer, where
\* LeaseNotFound may be raised for a lease that lives.
THEOREM ErrorsAlwaysTrue == Spec => []ErrorsTrue
<1>1. Init => Following /\ RaisedTruthful
  <2>1. Init => consumer.raised = {}
    BY DEF Init
  <2>2. consumer.raised = {} => RaisedTruthful
    BY DEF RaisedTruthful
  <2> QED
    BY <2>1, <2>2, InitFollows
<1>2. Accounts /\ Following /\ RaisedTruthful /\ [Next]_vars => Following' /\ RaisedTruthful'
  BY StepFollows, StepTruthful
<1>3. Accounts /\ RaisedTruthful => ErrorsTrue
  BY AllTruthful
<1> QED
  BY <1>1, <1>2, <1>3, AlwaysAccounts, PTL DEF Spec
=============================================================================
