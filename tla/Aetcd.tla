------------------------------- MODULE Aetcd -------------------------------
(***************************************************************************)
(* The adapter that keeps the EtcdBackend contract over a network.  Every  *)
(* call connects, sends one request and waits for the answer; the request, *)
(* the answer or both may be lost or late, and the caller is then told     *)
(* BackendError, which does not say whether the request was executed.  A   *)
(* watch is a stream of single events, each made into a batch of its own.  *)
(* The etcd server and the aetcd client are external: they are modelled as *)
(* far as the adapter relies on them.                                      *)
(***************************************************************************)
EXTENDS Integers, Sequences, FiniteSets, FiniteSetsExt

CONSTANTS
  Calls,        \* one identity per call of a unary method
  Requests,     \* what may be asked
  Watches,      \* one identity per call of watch()
  Keys,         \* the keys, all of them in the range watched
  None,
  MaxRevision,  \* bound: no commit at or beyond this revision
  MaxLease      \* bound on leases granted

\* What a branch puts and what it deletes, no key twice; a branch of reads
\* does neither.
Branch == {branch \in [puts : SUBSET Keys, deletes : SUBSET Keys] :
             branch.puts \cap branch.deletes = {}}

\* A transaction runs `success` if the key `on` has the mod revision `expected`
\* (None: no compare), and `failure` otherwise.
TxnRequest == [kind : {"transaction"}, on : Keys, expected : Nat \cup {None},
               success : Branch, failure : Branch,
               defect : {"none", "historical", "operand"}]
RangeRequest == [kind : {"range"}, revision : Nat \cup {None}, defect : {"none", "limit"}]
GrantRequest == [kind : {"grant"}, defect : {"none", "ttl"}]
LeaseRequest == [kind : {"keep_alive", "revoke"}, lease : Nat, defect : {"none"}]

ASSUME AetcdConstantsOK ==
  /\ Requests \subseteq TxnRequest \cup RangeRequest \cup GrantRequest \cup LeaseRequest
  /\ Keys \subseteq Nat
  /\ None \notin Nat \cup Calls \cup Watches
  /\ MaxRevision \in Nat /\ MaxLease \in Nat

VARIABLES
  log,          \* server: the batch of each revision: its keys, those of them
                \* that it deletes, and its author
  floor,        \* server: the newest compacted revision
  leases,       \* server: the leases that live
  granted,      \* server: how many leases it has granted
  connected,    \* the client holds an open channel
  call,         \* the unary calls
  stream,       \* the generators made by watch()
  consumer      \* who iterates over them, one after the other

server == <<log, floor, leases, granted>>
vars == <<server, connected, call, stream, consumer>>

NoCall == [phase |-> "idle", request |-> None, wire |-> "none", answer |-> None,
           outcome |-> None]
NoStream == [phase |-> "idle", from |-> 0, sent |-> {}]

Batch(keys, deleted, author) == [keys |-> keys, deleted |-> deleted, author |-> author]

\* An etcd starts at revision 1.
Init ==
  /\ log = <<Batch({}, {}, None)>> /\ floor = 0 /\ leases = {} /\ granted = 0
  /\ connected = FALSE
  /\ call = [c \in Calls |-> NoCall]
  /\ stream = [w \in Watches |-> NoStream]
  /\ consumer = [watch |-> None, handed |-> {}, last |-> 1, raised |-> {}]

revision == Len(log)
-----------------------------------------------------------------------------
(* Errors, and what the adapter makes of them.                             *)

\* What the client raises: RevisionCompactedError, or an error told by its text.
TypedCompaction(rev) == [typed |-> TRUE, text |-> "compacted", compacted |-> rev]
Text(text) == [typed |-> FALSE, text |-> text, compacted |-> 0]

Failure(name, requested, bound, lease) ==
  [ok |-> FALSE, name |-> name, requested |-> requested, bound |-> bound, lease |-> lease]
Unspecific == Failure("BackendError", None, None, None)
Refused == Failure("ValueError", None, None, None)

\* The client knows the compacted revision.
Compaction(error, requested) ==
  Failure("CompactedRevision", IF requested \in {None, 0} THEN error.compacted ELSE requested,
          error.compacted, None)

\* bound: the compacted revision, or the current one, that the error reports;
\* by a text alone the adapter knows neither.
Translate(error, requested, lease) ==
  CASE error.typed -> Compaction(error, requested)
    [] ~error.typed /\ error.text = "compacted" /\ requested # None ->
         Failure("CompactedRevision", requested, requested, None)
    [] ~error.typed /\ error.text = "future" /\ requested # None ->
         Failure("FutureRevision", requested, 0, None)
    [] ~error.typed /\ error.text = "lease" /\ lease # None ->
         Failure("LeaseNotFound", None, None, lease)
    [] OTHER -> Unspecific

RequestedRevision(request) == IF request.kind = "range" THEN request.revision ELSE None
NamedLease(request) == IF request.kind \in {"keep_alive", "revoke"} THEN request.lease ELSE None
-----------------------------------------------------------------------------
(* The server, and the other clients it has.                               *)

\* The last revision that wrote the key, 0 when the key does not exist.
ModRevision(key) ==
  LET last == Max({0} \cup {r \in 1..revision : key \in log[r].keys})
  IN IF last # 0 /\ key \in log[last].deleted THEN 0 ELSE last

\* The branch that runs.
Selected(request, succeeded) == IF succeeded THEN request.success ELSE request.failure

\* What the server makes of a request, and the answers it may give.  A branch
\* that writes nothing makes no revision, and a delete writes the keys there
\* are.  A transaction may be refused, for a lease that is gone or otherwise.
Execute(c) ==
  LET request == call[c].request
      answered(answer) ==
        call' = [call EXCEPT ![c].wire = "answer", ![c].answer = answer]
  IN /\ call[c].wire = "request"
     /\ \/ /\ request.kind = "transaction"
           /\ LET succeeded == request.expected \in {None, ModRevision(request.on)}
                  branch == Selected(request, succeeded)
                  deleted == {k \in branch.deletes : ModRevision(k) # 0}
                  keys == branch.puts \cup deleted
              IN /\ keys # {} => revision < MaxRevision
                 /\ log' = IF keys = {} THEN log ELSE Append(log, Batch(keys, deleted, c))
                 /\ answered([revision |-> Len(log'), succeeded |-> succeeded,
                              deleted |-> deleted])
           /\ UNCHANGED <<floor, leases, granted>>
        \/ /\ request.kind = "transaction"
           /\ answered(Text("other"))
           /\ UNCHANGED server
        \/ /\ request.kind = "range"
           /\ LET at == IF request.revision \in {None, 0} THEN revision ELSE request.revision
              IN answered(IF at < floor THEN Text("compacted")
                          ELSE IF at > revision THEN Text("future")
                          ELSE [revision |-> revision, read |-> at])
           /\ UNCHANGED server
        \/ /\ request.kind = "grant"
           /\ granted < MaxLease
           /\ granted' = granted + 1
           /\ leases' = leases \cup {granted + 1}
           /\ answered([lease |-> granted + 1])
           /\ UNCHANGED <<log, floor>>
        \/ /\ request.kind = "keep_alive"
           /\ answered([ttl |-> IF request.lease \in leases THEN 1 ELSE 0])
           /\ UNCHANGED server
        \/ /\ request.kind = "revoke"
           /\ leases' = leases \ {request.lease}
           /\ answered(IF request.lease \in leases THEN [lease |-> request.lease]
                       ELSE Text("lease"))
           /\ UNCHANGED <<log, floor, granted>>
     /\ UNCHANGED <<connected, stream, consumer>>

\* Other clients commit, leases run out, the history is compacted.
Elsewhere(keys, deleted) ==
  /\ revision < MaxRevision
  /\ log' = Append(log, Batch(keys, deleted, None))
  /\ UNCHANGED <<floor, leases, granted, connected, call, stream, consumer>>

Others ==
  \E keys \in SUBSET Keys \ {{}} :
    \E deleted \in SUBSET {k \in keys : ModRevision(k) # 0} : Elsewhere(keys, deleted)

Expire(lease) ==
  /\ leases' = leases \ {lease}
  /\ UNCHANGED <<log, floor, granted, connected, call, stream, consumer>>

Compact(rev) ==
  /\ rev > floor
  /\ floor' = rev
  /\ UNCHANGED <<log, leases, granted, connected, call, stream, consumer>>
-----------------------------------------------------------------------------
(* Unary calls.                                                            *)

Done(c, outcome) == [call EXCEPT ![c].phase = "done", ![c].outcome = outcome]

\* A limit or TTL that is not positive and a transactional read of the past
\* are refused before anything else happens.
Call(c, request) ==
  /\ call[c].phase = "idle"
  /\ call' = [call EXCEPT
                ![c].request = request,
                ![c].phase = IF request.defect \in {"historical", "limit", "ttl"}
                             THEN "done" ELSE "connecting",
                ![c].outcome = CASE request.defect = "historical" -> Unspecific
                                 [] request.defect \in {"limit", "ttl"} -> Refused
                                 [] OTHER -> None]
  /\ UNCHANGED <<server, connected, stream, consumer>>

\* Every call connects, also one made after close().
Connect(c) ==
  /\ call[c].phase = "connecting"
  /\ \/ /\ connected' = TRUE
        /\ call' = [call EXCEPT ![c].phase = "sending"]
     \/ /\ call' = Done(c, Translate(Text("other"), None, None))
        /\ UNCHANGED connected
  /\ UNCHANGED <<server, stream, consumer>>

\* Build the request, which fails on an operand of the wrong type, and send
\* it, which fails when the channel has been closed in between.
Send(c) ==
  /\ call[c].phase = "sending"
  /\ call' = IF call[c].request.defect = "operand" \/ ~connected
             THEN Done(c, Unspecific)
             ELSE [call EXCEPT ![c].phase = "waiting", ![c].wire = "request"]
  /\ UNCHANGED <<server, connected, stream, consumer>>

\* Mutant: a page is dated with the revision of the answer's header.
DatedMutant(request, answer) == answer.revision

\* The revision a page is dated with.
Dated(request, answer) ==
  IF request.revision \in {None, 0} THEN answer.revision ELSE request.revision

\* What the adapter returns or raises for an answer.
Answered(c) ==
  LET request == call[c].request
      answer == call[c].answer
      failed == "text" \in DOMAIN answer
  IN CASE failed -> Translate(answer, RequestedRevision(request), NamedLease(request))
       [] ~failed /\ request.kind = "range" ->
            [ok |-> TRUE, revision |-> Dated(request, answer), read |-> answer.read]
       [] ~failed /\ request.kind = "transaction" ->
            [ok |-> TRUE, revision |-> answer.revision, succeeded |-> answer.succeeded,
             deleted |-> answer.deleted]
       [] ~failed /\ request.kind = "keep_alive" /\ answer.ttl <= 0 ->
            Failure("LeaseNotFound", None, None, request.lease)
       [] OTHER -> [ok |-> TRUE]

\* The answer arrives; one that does not have the shape of the request raises.
Return(c) ==
  /\ call[c].phase = "waiting"
  /\ call[c].wire = "answer"
  /\ \/ call' = Done(c, Answered(c))
     \/ /\ call[c].request.kind \in {"transaction", "range"}
        /\ call' = Done(c, Unspecific)
  /\ UNCHANGED <<server, connected, stream, consumer>>

\* The stream of a keep-alive ends without an answer, which the adapter takes
\* for a lease that is gone.
HangUp(c) ==
  /\ call[c].phase = "waiting"
  /\ call[c].request.kind = "keep_alive"
  /\ call' = [Done(c, Failure("LeaseNotFound", None, None, call[c].request.lease))
                EXCEPT ![c].wire = "ended"]
  /\ UNCHANGED <<server, connected, stream, consumer>>

\* Mutant: a call that times out is made again, however often.
TimeOutRetry(c) ==
  /\ call[c].phase = "waiting"
  /\ call' = [call EXCEPT ![c].phase = "connecting", ![c].wire = "none"]
  /\ UNCHANGED <<server, connected, stream, consumer>>

\* Mutant: the first call that times out is made again.
TimeOutRetryOnce(c) ==
  /\ call[c].phase = "waiting"
  /\ call' = IF call[c].outcome = None
             THEN [call EXCEPT ![c].phase = "connecting", ![c].wire = "none",
                               ![c].outcome = Unspecific]
             ELSE Done(c, Unspecific)
  /\ UNCHANGED <<server, connected, stream, consumer>>

\* Mutant: a keep-alive that fails is taken for a lease that is gone.
TimeOutLeaseGone(c) ==
  /\ call[c].phase = "waiting"
  /\ call' = Done(c, Translate(Text("lease"), None, NamedLease(call[c].request)))
  /\ UNCHANGED <<server, connected, stream, consumer>>

\* The client gives up, the request being executed or not, now or later.
TimeOut(c) ==
  /\ call[c].phase = "waiting"
  /\ call' = Done(c, Translate(Text("other"), RequestedRevision(call[c].request),
                               NamedLease(call[c].request)))
  /\ UNCHANGED <<server, connected, stream, consumer>>

\* The client lets its channel go and ends its watches.  Nothing remembers
\* it: a later call connects again.
Close ==
  /\ connected' = FALSE
  /\ stream' = [w \in Watches |-> IF stream[w].phase \in {"opening", "open"}
                                  THEN [stream[w] EXCEPT !.phase = "cut"] ELSE stream[w]]
  /\ UNCHANGED <<server, call, consumer>>
-----------------------------------------------------------------------------
(* Watches, one event at a time, and a consumer that follows them one after *)
(* another.                                                                *)

Event(rev, key) == [revision |-> rev, key |-> key]
Events(from) == UNION {{Event(r, k) : k \in log[r].keys} : r \in from..revision}
Before(e, f) == e.revision < f.revision \/ (e.revision = f.revision /\ e.key < f.key)

Current == consumer.watch
Raised(failure) == consumer' = [consumer EXCEPT !.watch = None, !.raised = @ \cup {failure}]

\* watch() runs nothing yet.  The consumer starts at revision 1 and, when a
\* watch has broken off, resumes at the last revision it has been handed; it
\* stops when that has been compacted.
Watch(w) ==
  /\ consumer.watch = None
  /\ \A f \in consumer.raised : f.name # "CompactedRevision"
  /\ stream[w].phase = "idle"
  /\ stream' = [stream EXCEPT ![w].phase = "connecting", ![w].from = consumer.last]
  /\ consumer' = [consumer EXCEPT !.watch = w]
  /\ UNCHANGED <<server, connected, call>>

\* The generator's first step.
ConnectWatch ==
  /\ Current # None /\ stream[Current].phase = "connecting"
  /\ connected' = TRUE
  /\ stream' = [stream EXCEPT ![Current].phase = "opening"]
  /\ UNCHANGED <<server, call, consumer>>

\* The client opens the watch, or reports that its start has been compacted.
OpenWatch ==
  /\ Current # None /\ stream[Current].phase = "opening"
  /\ IF stream[Current].from < floor
     THEN /\ stream' = [stream EXCEPT ![Current].phase = "over"]
          /\ \E error \in {TypedCompaction(floor), Text("compacted")} :
               Raised(Translate(error, stream[Current].from, None))
     ELSE /\ stream' = [stream EXCEPT ![Current].phase = "open"]
          /\ UNCHANGED consumer
  /\ UNCHANGED <<server, connected, call>>

\* Mutant: the batch is dated with the revision the server has reached.
BatchMutant(event) == [events |-> {event}, revision |-> revision]

\* One batch for each event.
WatchBatch(event) == [events |-> {event}, revision |-> event.revision]

\* The next event of the stream becomes a batch.
Yield ==
  /\ Current # None /\ stream[Current].phase = "open"
  /\ LET due == Events(stream[Current].from) \ stream[Current].sent
     IN \E event \in due :
          /\ \A f \in due : ~Before(f, event)
          /\ stream' = [stream EXCEPT ![Current].sent = @ \cup {event}]
          /\ LET batch == WatchBatch(event)
             IN consumer' = [consumer EXCEPT !.handed = @ \cup {batch}, !.last = batch.revision]
  /\ UNCHANGED <<server, connected, call>>

\* A stream breaks off, or was cut by close(); the error is translated, and a
\* consumer that stops by itself cancels the watch in the same way.
Break ==
  /\ Current # None
  /\ stream[Current].phase \in {"connecting", "opening", "open", "cut"}
  /\ stream' = [stream EXCEPT ![Current].phase = "over"]
  /\ Raised(Translate(Text("other"), stream[Current].from, None))
  /\ UNCHANGED <<server, connected, call>>
-----------------------------------------------------------------------------
\* A lease is named by one who has been granted it.
Askable == {request \in Requests : NamedLease(request) \in {None} \cup 1..granted}

Next ==
  \/ \E c \in Calls : \E request \in Askable : Call(c, request)
  \/ \E c \in Calls : \/ Connect(c) \/ Send(c) \/ Execute(c)
                      \/ Return(c) \/ HangUp(c) \/ TimeOut(c)
  \/ Others
  \/ \E lease \in leases : Expire(lease)
  \/ \E rev \in 1..revision : Compact(rev)
  \/ \E w \in Watches : Watch(w)
  \/ ConnectWatch \/ OpenWatch \/ Yield \/ Break
  \/ Close

Spec == Init /\ [][Next]_vars

\* The event loop runs every call, and a request for which a timeout is
\* configured ends by it at the latest; the network promises nothing.
Fairness == \A c \in Calls : WF_vars(Connect(c)) /\ WF_vars(Send(c)) /\ WF_vars(TimeOut(c))

FairSpec == Spec /\ Fairness
-----------------------------------------------------------------------------
(* Properties.                                                             *)

Ended(c) == call[c].phase = "done"
Effects(c) == {r \in 1..revision : log[r].author = c}

\* What a caller may conclude about a transaction: it has at most one effect
\* even if its answer was lost or the caller gave up before it was executed;
\* the result of one that returns says which branch ran, whether and at which
\* revision it wrote, and what; one refused without being sent has no effect,
\* now or ever (transaction sends once and never retries).
TransactionAccounted ==
  \A c \in Calls :
    /\ Cardinality(Effects(c)) <= 1
    /\ Ended(c) /\ call[c].outcome.ok /\ call[c].request.kind = "transaction" =>
         LET result == call[c].outcome
             written == Selected(call[c].request, result.succeeded).puts \cup result.deleted
         IN /\ Effects(c) = IF written = {} THEN {} ELSE {result.revision}
            /\ \A r \in Effects(c) : log[r] = Batch(written, result.deleted, c)
    /\ Ended(c) /\ call[c].request.defect # "none" => Effects(c) = {}

\* A page is dated with the revision it was read at: the pages after it, pinned
\* to that date, show the same state of the range.
PagesDated ==
  \A c \in Calls : Ended(c) /\ call[c].outcome.ok /\ call[c].request.kind = "range"
                     => call[c].outcome.revision = call[c].outcome.read

Failures(calls) == consumer.raised \cup
  {call[c].outcome : c \in {d \in calls : Ended(d) /\ ~call[d].outcome.ok}}

\* The calls whose end says nothing of the lease they name.
Unanswered == {c \in Calls : call[c].wire = "ended"}

\* An error that names its cause is true, even when all the adapter had was a
\* text: the revision was compacted, and the bound reported lies between it
\* and what has been compacted; the lease is gone.  The one exception is a
\* keep-alive whose stream ended without an answer: keep_alive raises
\* LeaseNotFound then, and the lease may well live.
ErrorsTrue ==
  /\ \A f \in Failures(Calls) :
       f.name = "CompactedRevision" => f.requested <= f.bound /\ f.bound <= floor
  /\ \A f \in Failures(Calls \ Unanswered) :
       f.name = "LeaseNotFound" => f.lease \notin leases

\* A consumer that resumes at the revision of its last batch misses no event:
\* it has had all the earlier ones, and all of them once its stream holds no
\* more, though the events of one revision come in several batches and the
\* stream may break off between two of them (_watch dates a batch with the
\* mod_revision of its event).
ResumeComplete ==
  LET seen == UNION {batch.events : batch \in consumer.handed}
      open == Current # None /\ stream[Current].phase = "open"
  IN /\ \A e \in Events(1) : e.revision < consumer.last => e \in seen
     /\ open /\ Events(stream[Current].from) \subseteq stream[Current].sent
          => Events(1) \subseteq seen

\* Every call that is sent comes back to its caller, whatever the network
\* loses, when a timeout is configured.
CallsReturn == \A c \in Calls : call[c].phase = "connecting" ~> Ended(c)
=============================================================================
