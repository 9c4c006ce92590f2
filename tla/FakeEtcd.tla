------------------------------ MODULE FakeEtcd ------------------------------
(***************************************************************************)
(* The in-memory MVCC implementation of the EtcdBackend contract: versioned *)
(* keys, compare-and-write transactions, compaction, watches that replay   *)
(* and then stream, and leases on a manual clock.  Every coroutine runs    *)
(* under one asyncio lock and never awaits inside it, so each is one       *)
(* action; advance_time, which loops over the leases that ran out, holds   *)
(* the lock from AdvanceTime until ExpireNext has emptied its list.  A     *)
(* call that raises before it has written anything leaves the state as it  *)
(* was and is not a step.                                                  *)
(***************************************************************************)
EXTENDS KeyRange, Sequences, FiniteSetsExt

CONSTANTS
  Keys,          \* the keys that may be stored
  Txns,          \* the transactions clients submit
  Watches,       \* one identity per call of watch()
  WatchRanges,   \* the ranges they may watch
  TTLs,          \* the lease times clients ask for
  TimeSteps,     \* the arguments of advance_time
  Ahead,         \* a watch starts at most this far beyond the current revision
  MaxRevision,   \* bound: no transaction commits at or beyond this revision
  MaxLease,      \* bound on leases granted
  MaxClock       \* bound on the clock

NoLease == 0
End == 0         \* the None that close() puts in a watcher's queue

Targets == {"value", "create_revision", "mod_revision", "version", "lease"}
Operators == {"equal", "not_equal", "greater", "less"}

Compare == [key : Keys, target : Targets, operator : Operators,
            operand : Nat, bytes : BOOLEAN]
Put == [kind : {"put"}, key : Keys, value : Nat, lease : Nat]
DeleteRange == [kind : {"delete"}, start : Nat, end : Nat \cup {None}]
GetRange == [kind : {"get"}, revision : Nat \cup {None}, limit : Nat \cup {None}]
Operation == Put \cup DeleteRange \cup GetRange
Transaction == [compares : Seq(Compare), success : Seq(Operation), failure : Seq(Operation)]

ASSUME ConstantsOK ==
  /\ Keys \subseteq {k \in Nat : k > Unbounded}
  /\ Txns \subseteq Transaction
  /\ WatchRanges \subseteq KeyRanges
  /\ TTLs \subseteq Nat \ {0}
  /\ TimeSteps \subseteq Nat
  /\ Ahead \in Nat /\ MaxRevision \in Nat /\ MaxLease \in Nat /\ MaxClock \in Nat

VARIABLES
  revision,      \* self._revision
  compacted,     \* self._compacted_revision
  history,       \* self._history: the versions of each key, oldest first
  log,           \* the batch published at each revision, as a set of events
  events,        \* self._events: the revisions whose batch is still replayable
  watch,         \* the generators made by watch(), and self._watchers
  leases,        \* self._leases: the live leases by identity
  nextLease,     \* self._next_lease_id
  clock,         \* self._clock
  expired,       \* what is left of advance_time's list; non-empty: lock held
  closed         \* self._closed

store == <<revision, history, log, events, watch>>
leasing == <<leases, nextLease, clock, expired>>
vars == <<store, compacted, leasing, closed>>

Version == [value : Nat \cup {None}, create_revision : Nat, mod_revision : Nat,
            version : Nat, lease : Nat]
Event == [key : Keys, value : Nat \cup {None}]     \* a None value: a DELETE event
Phases == {"idle", "called", "open", "done", "cancelled", "compacted", "refused"}
Watcher == [phase : Phases, range : KeyRanges, from : Nat, registered : BOOLEAN,
            backlog : SUBSET Nat, queue : Seq(Nat), delivered : Seq(Nat)]

TypeOK ==
  /\ revision \in Nat /\ compacted \in Nat
  /\ history \in [Keys -> Seq(Version)]
  /\ log \in Seq(SUBSET Event)
  /\ events \in SUBSET Nat
  /\ watch \in [Watches -> Watcher]
  /\ nextLease \in Nat \ {0}
  /\ DOMAIN leases \subseteq 1..(nextLease - 1)
  /\ leases \in [DOMAIN leases -> [ttl : Nat \ {0}, deadline : Nat]]
  /\ clock \in Nat
  /\ expired \subseteq DOMAIN leases
  /\ closed \in BOOLEAN

Idle == [phase |-> "idle", range |-> [start |-> 0, end |-> None], from |-> 0,
         registered |-> FALSE, backlog |-> {}, queue |-> <<>>, delivered |-> <<>>]

Init ==
  /\ revision = 0 /\ compacted = 0
  /\ history = [k \in Keys |-> <<>>]
  /\ log = <<>> /\ events = {}
  /\ watch = [w \in Watches |-> Idle]
  /\ leases = <<>> /\ nextLease = 1 /\ clock = 0 /\ expired = {}
  /\ closed = FALSE

Serving == ~closed /\ expired = {}      \* the lock is free and _ensure_open passes
-----------------------------------------------------------------------------
(* Reading a key as of a revision.                                         *)

Absent == [value |-> None, create_revision |-> 0, mod_revision |-> 0,
           version |-> 0, lease |-> NoLease]

\* Position of the newest version not newer than rev; 0 when there is none.
Newest(versions, rev) ==
  LET older == {i \in DOMAIN versions : versions[i].mod_revision <= rev}
  IN IF older = {} THEN 0 ELSE Max(older)

\* A missing key and a tombstone both read as Absent.
KeyValueAt(key, rev) ==
  LET i == Newest(history[key], rev)
  IN IF i = 0 \/ history[key][i].value = None THEN Absent ELSE history[key][i]

Current(key) == KeyValueAt(key, revision)
Live(key) == Current(key).value # None
-----------------------------------------------------------------------------
(* Writing.                                                                *)

Tombstone(key, rev) ==
  [value |-> None, create_revision |-> Current(key).create_revision,
   mod_revision |-> rev, version |-> Current(key).version + 1, lease |-> NoLease]

\* Mutant: a key created again keeps the creation revision it once had.
PutVersionMutant(op, rev) ==
  [value |-> op.value,
   create_revision |-> IF history[op.key] = <<>> THEN rev
                       ELSE history[op.key][1].create_revision,
   mod_revision |-> rev, version |-> Current(op.key).version + 1, lease |-> op.lease]

PutVersion(op, rev) ==
  [value |-> op.value,
   create_revision |-> IF Live(op.key) THEN Current(op.key).create_revision ELSE rev,
   mod_revision |-> rev, version |-> Current(op.key).version + 1, lease |-> op.lease]

Touches(batch, range) == \E e \in batch : KeyInRange(e.key, range.start, range.end)

\* One batch at the next revision: retained for replay, queued for every
\* registered watcher whose range it touches.
Publish(batch) ==
  /\ revision' = revision + 1
  /\ log' = Append(log, batch)
  /\ events' = events \cup {revision + 1}
  /\ watch' = [w \in Watches |->
                 IF watch[w].registered /\ Touches(batch, watch[w].range)
                 THEN [watch[w] EXCEPT !.queue = Append(@, revision + 1)]
                 ELSE watch[w]]

\* Mutant: the keys go in the current revision, with no batch of their own.
ExpireLeaseKeysMutant(lease) ==
  /\ history' = [k \in Keys |-> IF Live(k) /\ Current(k).lease = lease
                                THEN Append(history[k], Tombstone(k, revision))
                                ELSE history[k]]
  /\ UNCHANGED <<revision, log, events, watch>>

\* Mutant: the tombstones are written, the revision and the batch forgotten.
ExpireLeaseKeysSilent(lease) ==
  /\ history' = [k \in Keys |-> IF Live(k) /\ Current(k).lease = lease
                                THEN Append(history[k], Tombstone(k, revision + 1))
                                ELSE history[k]]
  /\ UNCHANGED <<revision, log, events, watch>>

\* Delete every key the lease holds, in one revision of their own.
ExpireLeaseKeys(lease) ==
  LET held == {k \in Keys : Live(k) /\ Current(k).lease = lease}
  IN IF held = {} THEN UNCHANGED store
     ELSE /\ history' = [k \in Keys |->
                           IF k \in held
                           THEN Append(history[k], Tombstone(k, revision + 1))
                           ELSE history[k]]
          /\ Publish({[key |-> k, value |-> None] : k \in held})
-----------------------------------------------------------------------------
(* Transactions.                                                           *)

\* Mutant: the compare reads one revision behind.
ActualMutant(compare) ==
  LET stale == KeyValueAt(compare.key, revision - 1)
  IN IF compare.target = "value" /\ stale.value = None THEN 0 ELSE stale[compare.target]

\* A missing key compares as 0, or as b"" (also 0) when its value is compared.
Actual(compare) ==
  IF compare.target = "value" /\ ~Live(compare.key) THEN 0
  ELSE Current(compare.key)[compare.target]

Holds(compare) ==
  \/ compare.operator = "equal" /\ Actual(compare) = compare.operand
  \/ compare.operator = "not_equal" /\ Actual(compare) # compare.operand
  \/ compare.operator = "greater" /\ Actual(compare) > compare.operand
  \/ compare.operator = "less" /\ Actual(compare) < compare.operand

Succeeded(compares) == \A i \in DOMAIN compares : Holds(compares[i])

\* An operand of the wrong type raises, once evaluation reaches it.
CompareRaises(compares) ==
  \E i \in DOMAIN compares :
    /\ compares[i].bytes # (compares[i].target = "value")
    /\ \A j \in 1..(i - 1) : Holds(compares[j])

IsWrite(op) == op.kind \in {"put", "delete"}

WriteRange(op) == [start |-> IF op.kind = "put" THEN op.key ELSE op.start,
                   end |-> IF op.kind = "put" THEN op.key + 1 ELSE op.end]

\* Mutant: the lease of a put is not looked up.
ValidMutant(ops) ==
  \A i, j \in DOMAIN ops :
    i < j /\ IsWrite(ops[i]) /\ IsWrite(ops[j])
      => ~RangesOverlap(WriteRange(ops[j]), WriteRange(ops[i]))

\* Every leased put names a live lease and no two writes overlap.
Valid(ops) ==
  /\ \A i \in DOMAIN ops :
       ops[i].kind = "put" => ops[i].lease \in DOMAIN leases \cup {NoLease}
  /\ \A i, j \in DOMAIN ops :
       i < j /\ IsWrite(ops[i]) /\ IsWrite(ops[j])
         => ~RangesOverlap(WriteRange(ops[j]), WriteRange(ops[i]))

\* The operation writes a version of the key.
Writes(op, key) ==
  \/ op.kind = "put" /\ op.key = key
  \/ op.kind = "delete" /\ KeyInRange(key, op.start, op.end) /\ Live(key)

\* A read raises when it names a revision, has no room for a result, or the
\* current revision, at which it reads, has itself been compacted.
Raises(op) ==
  /\ op.kind = "get"
  /\ \/ op.revision # None
     \/ op.limit = 0
     \/ revision # 0 /\ compacted # 0 /\ revision <= compacted

\* The operations that run: all of them, or those before the first that raises.
Executed(ops) == {i \in DOMAIN ops : \A j \in 1..i : ~Raises(ops[j])}

WrittenVersion(op, key, rev) ==
  IF op.kind = "put" THEN PutVersion(op, rev) ELSE Tombstone(key, rev)

Branch(txn) == IF Succeeded(txn.compares) THEN txn.success ELSE txn.failure

\* Operations write as they run; the revision advances and the batch is
\* published only when none of them raised.
Transact(txn) ==
  LET ops == Branch(txn)
      run == {ops[i] : i \in Executed(ops)}
      written == {k \in Keys : \E op \in run : Writes(op, k)}
      version == [k \in written |->
                    WrittenVersion(CHOOSE op \in run : Writes(op, k), k, revision + 1)]
  IN /\ Serving
     /\ revision < MaxRevision
     /\ ~CompareRaises(txn.compares)
     /\ Valid(ops)
     /\ written # {}
     /\ history' = [k \in Keys |-> IF k \in written THEN Append(history[k], version[k])
                                   ELSE history[k]]
     /\ IF Executed(ops) = DOMAIN ops
        THEN Publish({[key |-> k, value |-> version[k].value] : k \in written})
        ELSE UNCHANGED <<revision, log, events, watch>>
     /\ UNCHANGED <<compacted, leasing, closed>>

\* Mutant: no baseline is kept below the compacted revision.
CompactMutant(rev) ==
  /\ Serving
  /\ rev <= revision /\ rev > compacted
  /\ compacted' = rev
  /\ events' = {r \in events : r > rev}
  /\ history' = [k \in Keys |-> SelectSeq(history[k], LAMBDA v : v.mod_revision > rev)]
  /\ UNCHANGED <<revision, log, watch, leasing, closed>>

\* Versions up to rev go, except the newest of each key.
Compact(rev) ==
  /\ Serving
  /\ rev <= revision /\ rev > compacted
  /\ compacted' = rev
  /\ events' = {r \in events : r > rev}
  /\ history' = [k \in Keys |->
       LET base == Newest(history[k], rev)
       IN IF base = 0 THEN history[k]
          ELSE SubSeq(history[k], base, Len(history[k]))]
  /\ UNCHANGED <<revision, log, watch, leasing, closed>>
-----------------------------------------------------------------------------
(* Leases and the clock.                                                   *)

\* Mutant: the identity just given out is not used up.
GrantLeaseMutant(ttl) ==
  /\ Serving
  /\ nextLease <= MaxLease
  /\ leases' = [l \in DOMAIN leases \cup {nextLease} |->
                  IF l = nextLease THEN [ttl |-> ttl, deadline |-> clock + ttl]
                  ELSE leases[l]]
  /\ UNCHANGED <<store, compacted, nextLease, clock, expired, closed>>

GrantLease(ttl) ==
  /\ Serving
  /\ nextLease <= MaxLease
  /\ leases' = [l \in DOMAIN leases \cup {nextLease} |->
                  IF l = nextLease THEN [ttl |-> ttl, deadline |-> clock + ttl]
                  ELSE leases[l]]
  /\ nextLease' = nextLease + 1
  /\ UNCHANGED <<store, compacted, clock, expired, closed>>

KeepAlive(lease) ==
  /\ Serving
  /\ leases' = [leases EXCEPT ![lease].deadline = clock + leases[lease].ttl]
  /\ UNCHANGED <<store, compacted, nextLease, clock, expired, closed>>

Without(lease) == [l \in DOMAIN leases \ {lease} |-> leases[l]]

RevokeLease(lease) ==
  /\ Serving
  /\ leases' = Without(lease)
  /\ ExpireLeaseKeys(lease)
  /\ UNCHANGED <<compacted, nextLease, clock, expired, closed>>

\* Mutant: a lease lasts through the instant of its deadline.
AdvanceTimeMutant(seconds) ==
  /\ Serving
  /\ clock + seconds <= MaxClock
  /\ clock' = clock + seconds
  /\ expired' = {l \in DOMAIN leases : leases[l].deadline < clock'}
  /\ UNCHANGED <<store, compacted, leases, nextLease, closed>>

AdvanceTime(seconds) ==
  /\ Serving
  /\ clock + seconds <= MaxClock
  /\ clock' = clock + seconds
  /\ expired' = {l \in DOMAIN leases : leases[l].deadline <= clock'}
  /\ UNCHANGED <<store, compacted, leases, nextLease, closed>>

\* One turn of advance_time's loop, in the order the leases were granted.
ExpireNext ==
  /\ expired # {}
  /\ LET lease == Min(expired)
     IN /\ expired' = expired \ {lease}
        /\ leases' = Without(lease)
        /\ ExpireLeaseKeys(lease)
  /\ UNCHANGED <<compacted, nextLease, clock, closed>>
-----------------------------------------------------------------------------
(* Watches: generators that do nothing until they are first advanced.      *)

Watch(w, range, from) ==
  /\ watch[w].phase = "idle"
  /\ expired = {}
  /\ watch' = [watch EXCEPT ![w].phase = "called", ![w].range = range, ![w].from = from]
  /\ UNCHANGED <<revision, history, log, events, compacted, leasing, closed>>

\* Mutant: the replay skips the revision the watch was asked to start at.
BeginWatchLate(w) ==
  /\ watch[w].phase = "called"
  /\ Serving
  /\ compacted = 0 \/ watch[w].from > compacted
  /\ watch' = [watch EXCEPT
                 ![w].phase = "open",
                 ![w].registered = TRUE,
                 ![w].backlog = {r \in events : /\ r > watch[w].from
                                                /\ Touches(log[r], watch[w].range)}]
  /\ UNCHANGED <<revision, history, log, events, compacted, leasing, closed>>

\* Mutant: everything retained is replayed, from before the start as well.
BeginWatchEarly(w) ==
  /\ watch[w].phase = "called"
  /\ Serving
  /\ compacted = 0 \/ watch[w].from > compacted
  /\ watch' = [watch EXCEPT
                 ![w].phase = "open",
                 ![w].registered = TRUE,
                 ![w].backlog = {r \in events : Touches(log[r], watch[w].range)}]
  /\ UNCHANGED <<revision, history, log, events, compacted, leasing, closed>>

\* The generator's first step: raise, or take the backlog and register.
BeginWatch(w) ==
  /\ watch[w].phase = "called"
  /\ expired = {}
  /\ watch' =
       IF closed THEN [watch EXCEPT ![w].phase = "refused"]
       ELSE IF compacted # 0 /\ watch[w].from <= compacted
       THEN [watch EXCEPT ![w].phase = "compacted"]
       ELSE [watch EXCEPT
               ![w].phase = "open",
               ![w].registered = TRUE,
               ![w].backlog = {r \in events : /\ r >= watch[w].from
                                              /\ Touches(log[r], watch[w].range)}]
  /\ UNCHANGED <<revision, history, log, events, compacted, leasing, closed>>

\* Mutant: live batches overtake the replay.
DeliverMutant(w) ==
  /\ watch[w].phase = "open"
  /\ expired = {}
  /\ IF watch[w].queue # <<>> /\ Head(watch[w].queue) # End
     THEN watch' = [watch EXCEPT ![w].queue = Tail(@),
                                 ![w].delivered = Append(@, Head(watch[w].queue))]
     ELSE /\ watch[w].backlog # {}
          /\ watch' = [watch EXCEPT ![w].backlog = @ \ {Min(@)},
                                    ![w].delivered = Append(@, Min(watch[w].backlog))]
  /\ UNCHANGED <<revision, history, log, events, compacted, leasing, closed>>

\* The consumer takes the next batch: the backlog in order, then the queue.
Deliver(w) ==
  /\ watch[w].phase = "open"
  /\ expired = {}
  /\ IF watch[w].backlog # {}
     THEN LET r == Min(watch[w].backlog)
          IN watch' = [watch EXCEPT ![w].backlog = @ \ {r},
                                    ![w].delivered = Append(@, r)]
     ELSE /\ watch[w].queue # <<>>
          /\ LET r == Head(watch[w].queue)
             IN IF r = End
                THEN watch' = [watch EXCEPT ![w].queue = Tail(@), ![w].phase = "done",
                                            ![w].registered = FALSE]
                ELSE watch' = [watch EXCEPT ![w].queue = Tail(@),
                                            ![w].delivered = Append(@, r)]
  /\ UNCHANGED <<revision, history, log, events, compacted, leasing, closed>>

\* The consumer closes the generator, or is cancelled while it waits.
CancelWatch(w) ==
  /\ watch[w].phase \in {"called", "open"}
  /\ expired = {}
  /\ watch' = [watch EXCEPT ![w].phase = "cancelled", ![w].registered = FALSE]
  /\ UNCHANGED <<revision, history, log, events, compacted, leasing, closed>>

\* Mutant: the watchers are dropped without being told.
CloseSilently ==
  /\ ~closed /\ expired = {}
  /\ closed' = TRUE
  /\ watch' = [w \in Watches |-> [watch[w] EXCEPT !.registered = FALSE]]
  /\ UNCHANGED <<revision, history, log, events, compacted, leasing>>

\* Mutant: the sentinel replaces what is queued instead of following it.
CloseAbruptly ==
  /\ ~closed /\ expired = {}
  /\ closed' = TRUE
  /\ watch' = [w \in Watches |->
                 IF watch[w].registered
                 THEN [watch[w] EXCEPT !.queue = <<End>>, !.registered = FALSE]
                 ELSE watch[w]]
  /\ UNCHANGED <<revision, history, log, events, compacted, leasing>>

Close ==
  /\ ~closed /\ expired = {}
  /\ closed' = TRUE
  /\ watch' = [w \in Watches |->
                 IF watch[w].registered
                 THEN [watch[w] EXCEPT !.queue = Append(@, End), !.registered = FALSE]
                 ELSE watch[w]]
  /\ UNCHANGED <<revision, history, log, events, compacted, leasing>>
-----------------------------------------------------------------------------
Next ==
  \/ \E txn \in Txns : Transact(txn)
  \/ \E rev \in 1..revision : Compact(rev)
  \/ \E ttl \in TTLs : GrantLease(ttl)
  \/ \E lease \in DOMAIN leases : KeepAlive(lease)
  \/ \E lease \in DOMAIN leases : RevokeLease(lease)
  \/ \E seconds \in TimeSteps : AdvanceTime(seconds)
  \/ ExpireNext
  \/ \E w \in Watches, range \in WatchRanges, from \in 1..(revision + Ahead) :
       Watch(w, range, from)
  \/ \E w \in Watches : BeginWatch(w)
  \/ \E w \in Watches : Deliver(w)
  \/ \E w \in Watches : CancelWatch(w)
  \/ Close

Spec == Init /\ [][Next]_vars

\* advance_time's loop never yields to the event loop, and a consumer keeps
\* asking its generator for the next batch until it ends.
Fairness ==
  /\ WF_vars(ExpireNext)
  /\ \A w \in Watches : WF_vars(BeginWatch(w)) /\ WF_vars(Deliver(w))

FairSpec == Spec /\ Fairness

\* A workload that never reads after a write of the same branch; any other
\* may see its read raise, after a compaction up to the present, with the
\* write already in the history (transaction).
ReadsFirst ==
  \A txn \in Txns : \A ops \in {txn.success, txn.failure} :
    \A i, j \in DOMAIN ops : i < j /\ IsWrite(ops[i]) => IsWrite(ops[j])

\* The operation claims the key under a lease.
Claims(op, key) == op.kind = "put" /\ op.key = key /\ op.lease # NoLease

\* The compare holds only of a key that is absent.
OnAbsence(compare, key) ==
  /\ compare.key = key /\ compare.target \in {"create_revision", "version"}
  /\ compare.operator = "equal" /\ compare.operand = 0

\* A workload that claims a key only in the success branch of a compare on its
\* absence.
ClaimsCompare ==
  \A txn \in Txns, k \in Keys :
    /\ \A i \in DOMAIN txn.failure : ~Claims(txn.failure[i], k)
    /\ \A i \in DOMAIN txn.success :
         Claims(txn.success[i], k) => \E j \in DOMAIN txn.compares : OnAbsence(txn.compares[j], k)
-----------------------------------------------------------------------------
(* Properties.                                                             *)

\* A branch runs whole or not at all: no version is stored for a revision the
\* backend has not reached, so no failed transaction leaves a write behind for
\* the next one to bring to light (transaction; _backend.py:168 promises
\* "Atomically evaluate compares and execute one operation branch.").
AllCommitted == \A k \in Keys : \A i \in DOMAIN history[k] : history[k][i].mod_revision <= revision

\* A key has at most one version per revision, oldest first: what lets
\* _key_value_at_unlocked stop at the first version it meets from the end.
VersionsAscend ==
  \A k \in Keys : \A i, j \in DOMAIN history[k] :
    i < j => history[k][i].mod_revision < history[k][j].mod_revision

\* A live key never outlives its lease: whatever the order of grants, puts,
\* detaching puts, keep-alives, revocations and expiries, the lease a stored
\* value names is one the backend still holds (_expire_lease_keys_unlocked).
LeaseIntegrity == \A k \in Keys : Live(k) => Current(k).lease \in DOMAIN leases \cup {NoLease}

\* The batches explain the store: at every revision still readable a key's
\* value is the one the batch of that revision carries, or, where the batch
\* does not name the key, the value of the revision before.  A watcher that
\* applies the batches to a snapshot therefore holds the store.
LogExplainsHistory ==
  \A k \in Keys, r \in (compacted + 1)..revision :
    LET named == {e \in log[r] : e.key = k}
    IN IF named = {} THEN KeyValueAt(k, r) = KeyValueAt(k, r - 1)
       ELSE \A e \in named : e.value = KeyValueAt(k, r).value

\* A write is identified by create_revision and version: a compare on both
\* cannot mistake a key that was deleted and created again for the old one.
WritesIdentified ==
  \A k \in Keys : \A i, j \in DOMAIN history[k] :
    /\ history[k][i].create_revision = history[k][j].create_revision
    /\ history[k][i].version = history[k][j].version
    => i = j

\* Once advance_time has returned, no lease past its deadline is left.
NoOverdueLease == expired = {} => \A l \in DOMAIN leases : leases[l].deadline > clock

\* What a pinned reader sees never changes: no transaction, expiry or
\* compaction alters a key at a revision that is still readable (the newest
\* compacted one included, since unpinned reads may still fall on it).
ReadsRepeat ==
  [][\A k \in Keys : \A r \in compacted'..revision : KeyValueAt(k, r)' = KeyValueAt(k, r)]_vars

\* A claim written with a compare on its absence does not pass from one
\* lease to another: between two owners the key has been deleted.
ClaimExclusive ==
  [][\A k \in Keys : Current(k).lease # NoLease /\ Current(k)'.lease # NoLease
       => Current(k)'.lease = Current(k).lease]_vars

\* Every batch of an open watch that its consumer has yet to see.
Pending(w) == watch[w].backlog \cup {watch[w].queue[i] : i \in DOMAIN watch[w].queue}
Seen(w) == {watch[w].delivered[i] : i \in DOMAIN watch[w].delivered}
Owed(w) == {r \in 1..revision : r >= watch[w].from /\ Touches(log[r], watch[w].range)}

\* No gap between replay and live stream: an open watch has delivered or
\* holds every batch of its range since its start, compaction, other
\* watchers and the moment of registration notwithstanding; one that ended
\* because the backend closed has delivered them all.
WatchComplete ==
  \A w \in Watches :
    /\ watch[w].phase = "open" => Owed(w) \subseteq Seen(w) \cup Pending(w)
    /\ watch[w].phase = "done" => Owed(w) \subseteq Seen(w)

\* Nothing is delivered twice or out of order: delivered, backlog and queue
\* follow one another in strictly increasing revisions.
WatchOrdered ==
  \A w \in Watches :
    LET d == watch[w].delivered
        q == watch[w].queue
        batches == {j \in DOMAIN q : q[j] # End}
    IN /\ \A i, j \in DOMAIN d : i < j => d[i] < d[j]
       /\ \A i, j \in batches : i < j => q[i] < q[j]
       /\ \A i \in DOMAIN d : \A r \in watch[w].backlog : d[i] < r
       /\ \A i \in DOMAIN d, j \in batches : d[i] < q[j]
       /\ \A r \in watch[w].backlog, j \in batches : r < q[j]

\* A watch yields nothing older than the revision it was asked to start at.
WatchFromStart == \A w \in Watches : \A r \in Seen(w) : r >= watch[w].from

\* Every generator still running when the backend closes comes to an end.
CloseEndsWatches ==
  \A w \in Watches : closed /\ watch[w].phase \in {"called", "open"}
                       ~> watch[w].phase \notin {"called", "open"}

\* Every batch an open watch owes is delivered, unless its consumer gives up.
BatchesArrive ==
  \A w \in Watches : \A r \in 1..(2 * MaxRevision) :
    watch[w].phase = "open" /\ r \in Pending(w)
      ~> r \in Seen(w) \/ watch[w].phase = "cancelled"
=============================================================================
