--------------------------- MODULE FakeEtcdProofs ---------------------------
(***************************************************************************)
(* What the store of FakeEtcd keeps, for any keys, any number of watches   *)
(* and any bounds: types and lease integrity and, for transactions that    *)
(* read before they write, versions in order, reads that repeat, and       *)
(* batches that tell the same story as the versions.                       *)
(***************************************************************************)
EXTENDS FakeEtcd, WellFoundedInduction, SequenceTheorems, TLAPS
-----------------------------------------------------------------------------
(* Least and greatest elements of sets of naturals, with which the model   *)
(* picks the newest version of a key or the next batch of a watch.         *)

Below == {pair \in Nat \X Nat : pair[1] < pair[2]}

LEMMA BelowWellFounded == IsWellFoundedOn(Below, Nat)
<1>1. OpToRel(<, Nat) = Below
  BY SMT DEF OpToRel, Below
<1> QED
  BY <1>1, NatLessThanWellFounded, Zenon

\* Every non-empty set of naturals has a least element.
LEMMA LeastExists ==
  ASSUME NEW S \in SUBSET Nat, S # {}
  PROVE  \E m \in S : \A x \in S : m <= x
<1>1. PICK m \in S : \A y \in S : <<y, m>> \notin Below
  BY BelowWellFounded, WFMin, Zenon
<1>2. \A x, y \in Nat : x < y => <<x, y>> \in Below
  BY SMT DEF Below
<1>3. ASSUME NEW x \in S
      PROVE  m <= x
  <2>1. x \in Nat /\ m \in Nat
    OBVIOUS
  <2>2. ~(x < m)
    BY <1>1, <1>2, <2>1, Zenon
  <2> QED
    BY <2>1, <2>2
<1> QED
  BY <1>3

LEMMA MinProperties ==
  ASSUME NEW S \in SUBSET Nat, S # {}
  PROVE  Min(S) \in S /\ \A x \in S : Min(S) <= x
<1>1. PICK m \in S : \A x \in S : m <= x
  BY LeastExists
<1> QED
  BY <1>1 DEF Min

\* A bounded set of naturals has a greatest element: reflect it in its bound.
LEMMA MaxProperties ==
  ASSUME NEW n \in Nat, NEW S \in SUBSET (0..n), S # {}
  PROVE  Max(S) \in S /\ \A x \in S : x <= Max(S)
<1> DEFINE T == {m \in Nat : \E x \in S : m = n - x}
<1>1. T # {}
  <2>1. PICK x \in S : TRUE
    OBVIOUS
  <2>2. n - x \in T
    OBVIOUS
  <2> QED
    BY <2>2
<1>2. PICK m \in T : \A y \in T : m <= y
  BY <1>1, LeastExists
<1>3. PICK x \in S : m = n - x
  BY <1>2
<1>4. ASSUME NEW y \in S
      PROVE  x >= y
  <2>1. n - y \in T
    OBVIOUS
  <2> QED
    BY <2>1, <1>2, <1>3
<1> QED
  BY <1>4 DEF Max
-----------------------------------------------------------------------------
(* Types.                                                                  *)

\* The newest version not newer than rev is a version of the key, or there
\* is none; no later version is as old.
LEMMA NewestProperties ==
  ASSUME NEW versions \in Seq(Version), NEW rev
  PROVE  /\ Newest(versions, rev) \in 0..Len(versions)
         /\ Newest(versions, rev) # 0 =>
              /\ Newest(versions, rev) \in 1..Len(versions)
              /\ versions[Newest(versions, rev)].mod_revision <= rev
         /\ \A i \in 1..Len(versions) :
              versions[i].mod_revision <= rev => i <= Newest(versions, rev)
<1> DEFINE older == {i \in DOMAIN versions : versions[i].mod_revision <= rev}
<1>1. Len(versions) \in Nat /\ DOMAIN versions = 1..Len(versions)
  OBVIOUS
<1>2. older \in SUBSET (0..Len(versions))
  BY <1>1
<1>3. CASE older = {}
  BY <1>1, <1>3 DEF Newest
<1>4. CASE older # {}
  <2>1. Max(older) \in older /\ \A i \in older : i <= Max(older)
    BY <1>1, <1>2, <1>4, MaxProperties
  <2>2. Newest(versions, rev) = Max(older)
    BY <1>4 DEF Newest
  <2> HIDE DEF older
  <2>3. /\ Newest(versions, rev) \in DOMAIN versions
        /\ versions[Newest(versions, rev)].mod_revision <= rev
    BY <2>1, <2>2 DEF older
  <2>4. \A i \in 1..Len(versions) :
          versions[i].mod_revision <= rev => i <= Newest(versions, rev)
    BY <1>1, <2>1, <2>2 DEF older
  <2> QED
    BY <1>1, <2>3, <2>4
<1> QED
  BY <1>3, <1>4

LEMMA AbsentType == Absent \in Version
  BY DEF Absent, Version, NoLease

LEMMA KeyValueAtType ==
  ASSUME NEW k \in Keys, NEW rev, history \in [Keys -> Seq(Version)]
  PROVE  KeyValueAt(k, rev) \in Version
<1> DEFINE i == Newest(history[k], rev)
<1>1. history[k] \in Seq(Version)
  OBVIOUS
<1>2. i \in 0..Len(history[k])
  BY <1>1, NewestProperties
<1>3. i # 0 => history[k][i] \in Version
  BY <1>1, <1>2, ElementOfSeq
<1> QED
  BY <1>3, AbsentType DEF KeyValueAt

LEMMA TombstoneType ==
  ASSUME TypeOK, NEW k \in Keys, NEW rev \in Nat
  PROVE  Tombstone(k, rev) \in Version
<1>1. Current(k) \in Version
  BY KeyValueAtType DEF TypeOK, Current
<1> QED
  BY <1>1 DEF Tombstone, Version, NoLease

LEMMA PutVersionType ==
  ASSUME TypeOK, NEW op \in Put, NEW rev \in Nat
  PROVE  PutVersion(op, rev) \in Version
<1>1. op.key \in Keys /\ op.value \in Nat /\ op.lease \in Nat
  BY DEF Put
<1>2. Current(op.key) \in Version
  BY <1>1, KeyValueAtType DEF TypeOK, Current
<1> QED
  BY <1>1, <1>2 DEF PutVersion, Version

StoreType ==
  /\ revision \in Nat
  /\ history \in [Keys -> Seq(Version)]
  /\ log \in Seq(SUBSET Event)
  /\ events \in SUBSET Nat
  /\ watch \in [Watches -> Watcher]

LEMMA PublishType ==
  ASSUME TypeOK, NEW batch \in SUBSET Event, Publish(batch)
  PROVE  /\ revision' \in Nat
         /\ log' \in Seq(SUBSET Event)
         /\ events' \in SUBSET Nat
         /\ watch' \in [Watches -> Watcher]
<1> USE DEF TypeOK
<1>1. revision' \in Nat /\ events' \in SUBSET Nat
  BY DEF Publish
<1>2. log' \in Seq(SUBSET Event)
  BY DEF Publish
<1>3. ASSUME NEW w \in Watches
      PROVE  [watch[w] EXCEPT !.queue = Append(@, revision + 1)] \in Watcher
  <2>1. watch[w] \in Watcher
    OBVIOUS
  <2>2. Append(watch[w].queue, revision + 1) \in Seq(Nat)
    BY <2>1 DEF Watcher
  <2> QED
    BY <2>1, <2>2 DEF Watcher
<1>4. watch' \in [Watches -> Watcher]
  BY <1>3 DEF Publish
<1> QED
  BY <1>1, <1>2, <1>4

LEMMA ExpireType ==
  ASSUME TypeOK, NEW lease, ExpireLeaseKeys(lease)
  PROVE  StoreType'
<1> DEFINE held == {k \in Keys : Live(k) /\ Current(k).lease = lease}
<1>1. CASE held = {}
  BY <1>1 DEF ExpireLeaseKeys, StoreType, TypeOK, store
<1>2. CASE held # {}
  <2>1. Publish({[key |-> k, value |-> None] : k \in held})
    BY <1>2 DEF ExpireLeaseKeys
  <2>2. {[key |-> k, value |-> None] : k \in held} \in SUBSET Event
    BY DEF Event
  <2>3. history' = [k \in Keys |-> IF k \in held
                                  THEN Append(history[k], Tombstone(k, revision + 1))
                                  ELSE history[k]]
    BY <1>2 DEF ExpireLeaseKeys
  <2>4. ASSUME NEW k \in Keys
        PROVE  Append(history[k], Tombstone(k, revision + 1)) \in Seq(Version)
    <3>1. revision + 1 \in Nat /\ history[k] \in Seq(Version)
      BY DEF TypeOK
    <3>2. Tombstone(k, revision + 1) \in Version
      BY <3>1, TombstoneType
    <3> QED
      BY <3>1, <3>2
  <2>5. history' \in [Keys -> Seq(Version)]
    BY <2>3, <2>4 DEF TypeOK
  <2> QED
    BY <2>1, <2>2, <2>5, PublishType DEF StoreType
<1> QED
  BY <1>1, <1>2

\* The version an executed write stores for a key.
LEMMA WrittenVersionType ==
  ASSUME TypeOK, NEW op \in Operation, NEW k \in Keys, Writes(op, k), NEW rev \in Nat
  PROVE  WrittenVersion(op, k, rev) \in Version
<1>1. CASE op.kind = "put"
  <2>1. op \in Put
    BY <1>1 DEF Operation, Put, DeleteRange, GetRange
  <2> QED
    BY <1>1, <2>1, PutVersionType DEF WrittenVersion
<1>2. CASE op.kind # "put"
  BY <1>2, TombstoneType DEF WrittenVersion
<1> QED
  BY <1>1, <1>2

LEMMA TransactType ==
  ASSUME TypeOK, NEW txn \in Txns, Transact(txn)
  PROVE  StoreType'
<1> DEFINE ops == Branch(txn)
           run == {ops[i] : i \in Executed(ops)}
           written == {k \in Keys : \E op \in run : Writes(op, k)}
           chosen(k) == CHOOSE op \in run : Writes(op, k)
           version == [k \in written |-> WrittenVersion(chosen(k), k, revision + 1)]
<1>1. txn \in Transaction
  BY ConstantsOK DEF ConstantsOK
<1>2. ops \in Seq(Operation)
  BY <1>1 DEF Branch, Transaction
<1>3. run \subseteq Operation
  BY <1>2, ElementOfSeq DEF Executed
<1>4. ASSUME NEW k \in written
      PROVE  version[k] \in Version
  <2>1. chosen(k) \in run /\ Writes(chosen(k), k)
    OBVIOUS
  <2>2. chosen(k) \in Operation /\ k \in Keys /\ revision + 1 \in Nat
    BY <1>3, <2>1 DEF TypeOK
  <2>3. WrittenVersion(chosen(k), k, revision + 1) \in Version
    BY <2>1, <2>2, WrittenVersionType
  <2> QED
    BY <2>3
<1> DEFINE batch == {[key |-> k, value |-> version[k].value] : k \in written}
<1>5. /\ history' = [k \in Keys |-> IF k \in written THEN Append(history[k], version[k])
                                    ELSE history[k]]
      /\ IF Executed(ops) = DOMAIN ops THEN Publish(batch)
         ELSE UNCHANGED <<revision, log, events, watch>>
  BY DEF Transact
<1>6. batch \in SUBSET Event
  <2>1. \A k \in written : version[k] \in Version /\ k \in Keys
    BY <1>4
  <2> HIDE DEF version, written
  <2> QED
    BY <2>1 DEF Event, Version
<1> HIDE DEF ops, run, written, version, batch
<1>7. history' \in [Keys -> Seq(Version)]
  BY <1>4, <1>5 DEF TypeOK
<1>8. CASE Executed(ops) = DOMAIN ops
  BY <1>5, <1>6, <1>7, <1>8, PublishType DEF StoreType
<1>9. CASE Executed(ops) # DOMAIN ops
  BY <1>5, <1>7, <1>9 DEF StoreType, TypeOK
<1> QED
  BY <1>8, <1>9

LEMMA CompactType ==
  ASSUME TypeOK, NEW rev \in 1..revision, Compact(rev)
  PROVE  StoreType' /\ compacted' \in Nat
<1> DEFINE base(k) == Newest(history[k], rev)
<1>1. ASSUME NEW k \in Keys, base(k) # 0
      PROVE  SubSeq(history[k], base(k), Len(history[k])) \in Seq(Version)
  <2>1. history[k] \in Seq(Version)
    BY DEF TypeOK
  <2>2. base(k) \in 1..Len(history[k]) /\ Len(history[k]) \in Nat
    BY <1>1, <2>1, NewestProperties
  <2>3. \A i \in base(k)..Len(history[k]) : history[k][i] \in Version
    BY <2>1, <2>2, ElementOfSeq
  <2> HIDE DEF base
  <2> QED
    BY <2>2, <2>3, SubSeqProperties
<1>2. history' = [k \in Keys |-> IF base(k) = 0 THEN history[k]
                                 ELSE SubSeq(history[k], base(k), Len(history[k]))]
  BY DEF Compact
<1>3. history' \in [Keys -> Seq(Version)]
  <2> HIDE DEF base
  <2> QED
    BY <1>1, <1>2 DEF TypeOK
<1> QED
  BY <1>3 DEF Compact, StoreType, TypeOK

LEMMA WatchType ==
  ASSUME TypeOK, NEW w \in Watches, NEW range \in WatchRanges, NEW from \in Nat,
         Watch(w, range, from)
  PROVE  watch' \in [Watches -> Watcher]
<1>1. watch[w] \in Watcher /\ range \in KeyRanges
  BY ConstantsOK DEF TypeOK, ConstantsOK
<1>2. [watch[w] EXCEPT !.phase = "called", !.range = range, !.from = from] \in Watcher
  BY <1>1 DEF Watcher, Phases
<1>3. watch' = [watch EXCEPT ![w] = [watch[w] EXCEPT !.phase = "called", !.range = range,
                                                     !.from = from]]
  BY DEF Watch, TypeOK
<1> QED
  BY <1>2, <1>3 DEF TypeOK

\* Changing one watch to a well-typed one.
LEMMA WatchUpdateType ==
  ASSUME TypeOK, NEW w \in Watches, NEW new \in Watcher,
         watch' = [watch EXCEPT ![w] = new]
  PROVE  watch' \in [Watches -> Watcher]
BY DEF TypeOK

LEMMA BeginWatchType ==
  ASSUME TypeOK, NEW w \in Watches, BeginWatch(w)
  PROVE  watch' \in [Watches -> Watcher]
<1> DEFINE replay == {r \in events : r >= watch[w].from /\ Touches(log[r], watch[w].range)}
           ended(phase) == [watch[w] EXCEPT !.phase = phase]
           open == [watch[w] EXCEPT !.phase = "open", !.registered = TRUE, !.backlog = replay]
<1>1. watch[w] \in Watcher /\ replay \in SUBSET Nat
  BY DEF TypeOK
<1>2. \/ watch' = [watch EXCEPT ![w] = ended("refused")]
      \/ watch' = [watch EXCEPT ![w] = ended("compacted")]
      \/ watch' = [watch EXCEPT ![w] = open]
  BY DEF BeginWatch
<1>3. ended("refused") \in Watcher /\ ended("compacted") \in Watcher
  BY <1>1 DEF Watcher, Phases
<1>4. open \in Watcher
  <2> HIDE DEF replay
  <2> QED
    BY <1>1 DEF Watcher, Phases
<1> HIDE DEF ended, open
<1> QED
  BY <1>2, <1>3, <1>4, WatchUpdateType

LEMMA DeliverType ==
  ASSUME TypeOK, NEW w \in Watches, Deliver(w)
  PROVE  watch' \in [Watches -> Watcher]
<1>1. watch[w] \in Watcher
  BY DEF TypeOK
<1>2. CASE watch[w].backlog # {}
  <2> DEFINE r == Min(watch[w].backlog)
             new == [watch[w] EXCEPT !.backlog = watch[w].backlog \ {r},
                                     !.delivered = Append(watch[w].delivered, r)]
  <2>1. r \in Nat
    BY <1>1, <1>2, MinProperties DEF Watcher
  <2>2. watch' = [watch EXCEPT ![w] = new]
    BY <1>2 DEF Deliver
  <2> HIDE DEF r
  <2>3. Append(watch[w].delivered, r) \in Seq(Nat)
    BY <1>1, <2>1 DEF Watcher
  <2>4. new \in Watcher
    BY <1>1, <2>3 DEF Watcher
  <2> QED
    BY <2>2, <2>4, WatchUpdateType
<1>3. CASE watch[w].backlog = {}
  <2> DEFINE q == watch[w].queue
             done == [watch[w] EXCEPT !.queue = Tail(q), !.phase = "done",
                                      !.registered = FALSE]
             next == [watch[w] EXCEPT !.queue = Tail(q),
                                      !.delivered = Append(watch[w].delivered, Head(q))]
  <2>1. q \in Seq(Nat) /\ q # <<>>
    BY <1>1, <1>3 DEF Deliver, Watcher
  <2>2. Head(q) \in Nat /\ Tail(q) \in Seq(Nat)
    BY <2>1, HeadTailProperties
  <2>3. Append(watch[w].delivered, Head(q)) \in Seq(Nat)
    BY <1>1, <2>2 DEF Watcher
  <2>4. \/ watch' = [watch EXCEPT ![w] = done]
        \/ watch' = [watch EXCEPT ![w] = next]
    BY <1>3 DEF Deliver
  <2> HIDE DEF q
  <2>5. done \in Watcher /\ next \in Watcher
    BY <1>1, <2>2, <2>3 DEF Watcher, Phases
  <2> HIDE DEF done, next
  <2> QED
    BY <2>4, <2>5, WatchUpdateType
<1> QED
  BY <1>2, <1>3

LEMMA CancelWatchType ==
  ASSUME TypeOK, NEW w \in Watches, CancelWatch(w)
  PROVE  watch' \in [Watches -> Watcher]
<1> DEFINE new == [watch[w] EXCEPT !.phase = "cancelled", !.registered = FALSE]
<1>1. watch[w] \in Watcher
  BY DEF TypeOK
<1>2. new \in Watcher
  BY <1>1 DEF Watcher, Phases
<1>3. watch' = [watch EXCEPT ![w] = new]
  BY DEF CancelWatch
<1> QED
  BY <1>2, <1>3, WatchUpdateType

LEMMA CloseType ==
  ASSUME TypeOK, Close
  PROVE  watch' \in [Watches -> Watcher]
<1>1. ASSUME NEW w \in Watches
      PROVE  /\ watch[w] \in Watcher
             /\ Append(watch[w].queue, End) \in Seq(Nat)
  BY DEF TypeOK, Watcher, End
<1>2. ASSUME NEW w \in Watches
      PROVE  [watch[w] EXCEPT !.queue = Append(watch[w].queue, End),
                              !.registered = FALSE] \in Watcher
  BY <1>1 DEF Watcher
<1>3. watch' = [w \in Watches |->
                 IF watch[w].registered
                 THEN [watch[w] EXCEPT !.queue = Append(watch[w].queue, End),
                                       !.registered = FALSE]
                 ELSE watch[w]]
  BY DEF Close
<1> QED
  BY <1>1, <1>2, <1>3

LeaseType ==
  /\ nextLease \in Nat \ {0}
  /\ DOMAIN leases \subseteq 1..(nextLease - 1)
  /\ leases \in [DOMAIN leases -> [ttl : Nat \ {0}, deadline : Nat]]
  /\ expired \subseteq DOMAIN leases

LEMMA GrantLeaseType ==
  ASSUME TypeOK, NEW ttl \in TTLs, GrantLease(ttl)
  PROVE  LeaseType'
<1>1. ttl \in Nat \ {0}
  BY ConstantsOK DEF ConstantsOK
<1>2. DOMAIN leases' = DOMAIN leases \cup {nextLease}
  BY DEF GrantLease
<1>3. ASSUME NEW l \in DOMAIN leases'
      PROVE  leases'[l] \in [ttl : Nat \ {0}, deadline : Nat]
  BY <1>1, <1>2 DEF GrantLease, TypeOK
<1>4. leases' \in [DOMAIN leases' -> [ttl : Nat \ {0}, deadline : Nat]]
  BY <1>2, <1>3 DEF GrantLease
<1>5. /\ nextLease \in Nat \ {0} /\ nextLease' = nextLease + 1 /\ expired' = expired
      /\ expired \subseteq DOMAIN leases /\ DOMAIN leases \subseteq 1..(nextLease - 1)
  BY DEF GrantLease, TypeOK
<1>6. DOMAIN leases' \subseteq 1..(nextLease' - 1)
  BY <1>2, <1>5
<1> QED
  BY <1>2, <1>4, <1>5, <1>6 DEF LeaseType

LEMMA KeepAliveType ==
  ASSUME TypeOK, NEW lease \in DOMAIN leases, KeepAlive(lease)
  PROVE  LeaseType'
<1>1. leases[lease] \in [ttl : Nat \ {0}, deadline : Nat] /\ clock \in Nat
  BY DEF TypeOK
<1>2. [leases[lease] EXCEPT !.deadline = clock + leases[lease].ttl]
        \in [ttl : Nat \ {0}, deadline : Nat]
  BY <1>1
<1>3. leases' = [leases EXCEPT ![lease] =
                   [leases[lease] EXCEPT !.deadline = clock + leases[lease].ttl]]
  BY DEF KeepAlive
<1> QED
  BY <1>2, <1>3 DEF KeepAlive, LeaseType, TypeOK

LEMMA WithoutType ==
  ASSUME TypeOK, NEW lease
  PROVE  /\ DOMAIN Without(lease) = DOMAIN leases \ {lease}
         /\ Without(lease) \in [DOMAIN Without(lease) -> [ttl : Nat \ {0}, deadline : Nat]]
BY DEF Without, TypeOK

LEMMA RevokeLeaseType ==
  ASSUME TypeOK, NEW lease \in DOMAIN leases, RevokeLease(lease)
  PROVE  LeaseType'
<1>1. leases' = Without(lease) /\ nextLease' = nextLease /\ expired' = {}
  BY DEF RevokeLease, Serving
<1> QED
  BY <1>1, WithoutType DEF LeaseType, TypeOK

LEMMA ExpireNextType ==
  ASSUME TypeOK, ExpireNext
  PROVE  LeaseType'
<1> DEFINE lease == Min(expired)
<1>1. leases' = Without(lease) /\ nextLease' = nextLease /\ expired' = expired \ {lease}
  BY DEF ExpireNext
<1> HIDE DEF lease
<1> QED
  BY <1>1, WithoutType DEF LeaseType, TypeOK

LEMMA InitType == Init => TypeOK
<1> SUFFICES ASSUME Init
             PROVE  TypeOK
  OBVIOUS
<1>1. Idle \in Watcher
  BY DEF Idle, Watcher, Phases, KeyRanges, None
<1>2. watch \in [Watches -> Watcher]
  BY <1>1 DEF Init
<1>3. leases \in [DOMAIN leases -> [ttl : Nat \ {0}, deadline : Nat]] /\ DOMAIN leases = {}
  BY DEF Init
<1>4. history \in [Keys -> Seq(Version)] /\ log \in Seq(SUBSET Event)
  BY DEF Init
<1>5. closed \in BOOLEAN /\ expired = {} /\ events = {}
  BY DEF Init
<1>6. revision = 0 /\ compacted = 0 /\ nextLease = 1 /\ clock = 0
  BY DEF Init
<1> QED
  BY <1>2, <1>3, <1>4, <1>5, <1>6 DEF TypeOK

LEMMA StepType ==
  ASSUME TypeOK, [Next]_vars
  PROVE  TypeOK'
<1> USE DEF store, leasing
<1>1. ASSUME NEW txn \in Txns, Transact(txn)
      PROVE  TypeOK'
  BY <1>1, TransactType DEF Transact, StoreType, TypeOK
<1>2. ASSUME NEW rev \in 1..revision, Compact(rev)
      PROVE  TypeOK'
  BY <1>2, CompactType DEF Compact, StoreType, TypeOK
<1>3. ASSUME NEW ttl \in TTLs, GrantLease(ttl)
      PROVE  TypeOK'
  BY <1>3, GrantLeaseType DEF GrantLease, LeaseType, TypeOK
<1>4. ASSUME NEW lease \in DOMAIN leases, KeepAlive(lease)
      PROVE  TypeOK'
  BY <1>4, KeepAliveType DEF KeepAlive, LeaseType, TypeOK
<1>5. ASSUME NEW lease \in DOMAIN leases, RevokeLease(lease)
      PROVE  TypeOK'
  <2>1. StoreType'
    BY <1>5, ExpireType DEF RevokeLease
  <2> QED
    BY <1>5, <2>1, RevokeLeaseType DEF RevokeLease, StoreType, LeaseType, TypeOK
<1>6. ASSUME NEW seconds \in TimeSteps, AdvanceTime(seconds)
      PROVE  TypeOK'
  <2>1. seconds \in Nat
    BY ConstantsOK DEF ConstantsOK
  <2> QED
    BY <1>6, <2>1 DEF AdvanceTime, TypeOK
<1>7. ASSUME ExpireNext
      PROVE  TypeOK'
  <2>1. StoreType'
    BY <1>7, ExpireType DEF ExpireNext
  <2> QED
    BY <1>7, <2>1, ExpireNextType DEF ExpireNext, StoreType, LeaseType, TypeOK
<1>8. ASSUME NEW w \in Watches, NEW range \in WatchRanges,
             NEW from \in 1..(revision + Ahead), Watch(w, range, from)
      PROVE  TypeOK'
  <2>1. from \in Nat
    OBVIOUS
  <2> QED
    BY <1>8, <2>1, WatchType DEF Watch, TypeOK
<1>9. ASSUME NEW w \in Watches, BeginWatch(w)
      PROVE  TypeOK'
  BY <1>9, BeginWatchType DEF BeginWatch, TypeOK
<1>10. ASSUME NEW w \in Watches, Deliver(w)
       PROVE  TypeOK'
  BY <1>10, DeliverType DEF Deliver, TypeOK
<1>11. ASSUME NEW w \in Watches, CancelWatch(w)
       PROVE  TypeOK'
  BY <1>11, CancelWatchType DEF CancelWatch, TypeOK
<1>12. ASSUME Close
       PROVE  TypeOK'
  BY <1>12, CloseType DEF Close, TypeOK
<1>13. ASSUME UNCHANGED vars
       PROVE  TypeOK'
  BY <1>13 DEF vars, TypeOK
<1> QED
  BY <1>1, <1>2, <1>3, <1>4, <1>5, <1>6, <1>7, <1>8, <1>9, <1>10, <1>11, <1>12, <1>13
     DEF Next

\* Type correctness: every state the backend reaches is one its data classes
\* describe, however its operations interleave.
THEOREM TypeCorrect == Spec => []TypeOK
<1>1. TypeOK /\ [Next]_vars => TypeOK'
  BY StepType
<1> QED
  BY <1>1, InitType, PTL DEF Spec
-----------------------------------------------------------------------------
(* Reading the versions of one key.                                        *)

\* KeyValueAt, of the versions alone.
Read(versions, rev) ==
  LET i == Newest(versions, rev)
  IN IF i = 0 \/ versions[i].value = None THEN Absent ELSE versions[i]

Shown(version) == IF version.value = None THEN Absent ELSE version

NoneAfter(versions, rev) == \A i \in DOMAIN versions : versions[i].mod_revision <= rev

\* When no version is newer than rev, the last one is read.
LEMMA ReadLast ==
  ASSUME NEW versions \in Seq(Version), NEW rev, NoneAfter(versions, rev)
  PROVE  Read(versions, rev) = IF versions = <<>> THEN Absent
                               ELSE Shown(versions[Len(versions)])
<1>1. Len(versions) \in Nat /\ DOMAIN versions = 1..Len(versions)
  OBVIOUS
<1>2. Newest(versions, rev) = Len(versions)
  <2>1. /\ Newest(versions, rev) \in 0..Len(versions)
        /\ \A i \in 1..Len(versions) : i <= Newest(versions, rev)
    BY <1>1, NewestProperties DEF NoneAfter
  <2> QED
    BY <1>1, <2>1
<1>3. CASE versions = <<>>
  BY <1>2, <1>3 DEF Read
<1>4. CASE versions # <<>>
  <2>1. Len(versions) # 0
    BY <1>4
  <2> QED
    BY <1>2, <1>4, <2>1 DEF Read, Shown
<1> QED
  BY <1>3, <1>4

LEMMA ReadAppend ==
  ASSUME NEW versions \in Seq(Version), NEW v \in Version, NEW rev,
         NoneAfter(versions, rev), v.mod_revision <= rev
  PROVE  /\ NoneAfter(Append(versions, v), rev)
         /\ Read(Append(versions, v), rev) = Shown(v)
<1> DEFINE longer == Append(versions, v)
<1>1. /\ longer \in Seq(Version) /\ longer # <<>>
      /\ Len(longer) = Len(versions) + 1
      /\ \A i \in 1..Len(versions) : longer[i] = versions[i]
      /\ longer[Len(longer)] = v
  BY AppendProperties
<1>2. Len(versions) \in Nat /\ DOMAIN versions = 1..Len(versions) /\ DOMAIN longer = 1..Len(longer)
  BY <1>1
<1> HIDE DEF longer
<1>3. NoneAfter(longer, rev)
  <2> SUFFICES ASSUME NEW i \in DOMAIN longer
               PROVE  longer[i].mod_revision <= rev
    BY DEF NoneAfter
  <2>1. CASE i \in 1..Len(versions)
    BY <1>1, <1>2, <2>1 DEF NoneAfter
  <2>2. CASE i = Len(longer)
    BY <1>1, <2>2
  <2> QED
    BY <1>1, <1>2, <2>1, <2>2
<1>4. Read(longer, rev) = Shown(v)
  BY <1>1, <1>3, ReadLast
<1> QED
  BY <1>3, <1>4 DEF longer

LEMMA ReadSuffix ==
  ASSUME NEW versions \in Seq(Version), NEW rev, NoneAfter(versions, rev),
         NEW base \in 1..Len(versions)
  PROVE  LET kept == SubSeq(versions, base, Len(versions))
         IN /\ NoneAfter(kept, rev)
            /\ Read(kept, rev) = Read(versions, rev)
<1> DEFINE n == Len(versions)
           kept == SubSeq(versions, base, n)
<1>1. n \in Nat /\ DOMAIN versions = 1..n
  OBVIOUS
<1>2. /\ kept \in Seq(Version) /\ Len(kept) = n - base + 1
      /\ \A i \in 1..(n - base + 1) : kept[i] = versions[base + i - 1]
  <2>1. \A i \in base..n : versions[i] \in Version
    BY <1>1, ElementOfSeq
  <2> QED
    BY <1>1, <2>1, SubSeqProperties
<1>3. DOMAIN kept = 1..(n - base + 1)
  BY <1>2
<1> HIDE DEF n, kept
<1>4. NoneAfter(kept, rev)
  <2> SUFFICES ASSUME NEW i \in DOMAIN kept
               PROVE  kept[i].mod_revision <= rev
    BY DEF NoneAfter
  <2>1. i \in 1..(n - base + 1) /\ base \in 1..n
    BY <1>3 DEF n
  <2>2. base + i - 1 \in 1..n
    BY <1>1, <2>1
  <2>3. kept[i] = versions[base + i - 1]
    BY <1>2, <2>1
  <2> QED
    BY <1>1, <2>2, <2>3 DEF NoneAfter
<1>5. kept # <<>> /\ kept[Len(kept)] = versions[n]
  <2>1. Len(kept) \in 1..(n - base + 1) /\ base + Len(kept) - 1 = n
    BY <1>1, <1>2 DEF n
  <2> QED
    BY <1>2, <2>1
<1>6. versions # <<>>
  BY <1>1 DEF n
<1>7. Read(kept, rev) = Read(versions, rev)
  BY <1>2, <1>4, <1>5, <1>6, ReadLast DEF n
<1> QED
  BY <1>4, <1>7 DEF n, kept
-----------------------------------------------------------------------------
(* Leases.  A key's current value is its last version only while no version *)
(* is newer than the current revision: AllCommitted is what makes lease      *)
(* integrity inductive.                                                      *)

LeaseInv == TypeOK /\ AllCommitted /\ LeaseIntegrity

LEMMA CurrentIsRead == \A k : Current(k) = Read(history[k], revision)
BY DEF Current, KeyValueAt, Read

\* The version goes on with the life of the key, or starts a new one.
Continues(key, version) ==
  /\ version.create_revision = IF Live(key) THEN Current(key).create_revision ELSE revision + 1
  /\ version.version = Current(key).version + 1

\* One revision that appends the versions v to the keys of W, leaving the
\* others alone.
Grows(W, v) ==
  /\ W \subseteq Keys
  /\ \A k \in W : v[k] \in Version /\ v[k].mod_revision = revision + 1 /\ Continues(k, v[k])
  /\ history' = [k \in Keys |-> IF k \in W THEN Append(history[k], v[k]) ELSE history[k]]
  /\ revision' = revision + 1

\* A revision with the batch that tells of it.
Commits(W, v) ==
  /\ Grows(W, v)
  /\ log' = Append(log, {[key |-> k, value |-> v[k].value] : k \in W})
  /\ compacted' = compacted

LEMMA GrowCurrent ==
  ASSUME TypeOK, AllCommitted, NEW W, NEW v, Grows(W, v)
  PROVE  /\ AllCommitted'
         /\ \A k \in Keys : Current(k)' = IF k \in W THEN Shown(v[k]) ELSE Current(k)
<1> USE DEF Grows
<1>1. ASSUME NEW k \in Keys
      PROVE  /\ NoneAfter(history'[k], revision')
             /\ Read(history'[k], revision') = IF k \in W THEN Shown(v[k])
                                               ELSE Read(history[k], revision)
  <2>1. history[k] \in Seq(Version) /\ revision \in Nat
    BY DEF TypeOK
  <2>2. NoneAfter(history[k], revision)
    BY DEF AllCommitted, NoneAfter
  <2>3. NoneAfter(history[k], revision')
    <3>1. ASSUME NEW i \in DOMAIN history[k]
          PROVE  history[k][i].mod_revision \in Nat
      <4>1. history[k][i] \in Version
        BY <2>1
      <4> QED
        BY <4>1 DEF Version
    <3> QED
      BY <2>1, <2>2, <3>1 DEF NoneAfter
  <2>4. CASE k \in W
    <3>1. v[k] \in Version /\ v[k].mod_revision <= revision'
      BY <2>1, <2>4
    <3>2. history'[k] = Append(history[k], v[k])
      BY <2>4
    <3> QED
      BY <2>1, <2>3, <2>4, <3>1, <3>2, ReadAppend
  <2>5. CASE k \notin W
    <3>1. history'[k] = history[k]
      BY <2>5
    <3>2. Read(history[k], revision') = Read(history[k], revision)
      BY <2>1, <2>2, <2>3, ReadLast
    <3> QED
      BY <2>3, <2>5, <3>1, <3>2
  <2> QED
    BY <2>4, <2>5
<1>2. AllCommitted'
  BY <1>1 DEF AllCommitted, NoneAfter
<1>3. \A k \in Keys : Current(k)' = Read(history'[k], revision')
  BY DEF Current, KeyValueAt, Read
<1> QED
  BY <1>1, <1>2, <1>3, CurrentIsRead

\* No read of a branch raises once one of its writes has run.
LEMMA WholeBranchRuns ==
  ASSUME ReadsFirst, NEW txn \in Txns, Transact(txn)
  PROVE  Executed(Branch(txn)) = DOMAIN Branch(txn)
<1> DEFINE ops == Branch(txn)
           run == {ops[i] : i \in Executed(ops)}
<1>1. \E k \in Keys : \E op \in run : Writes(op, k)
  BY DEF Transact
<1>2. PICK i \in Executed(ops) : IsWrite(ops[i])
  BY <1>1 DEF Writes, IsWrite
<1>3. ops \in Seq(Operation)
  BY ConstantsOK DEF ConstantsOK, Branch, Transaction
<1>4. DOMAIN ops = 1..Len(ops) /\ Len(ops) \in Nat /\ i \in DOMAIN ops
  BY <1>2, <1>3 DEF Executed
<1>5. \A m \in DOMAIN ops : m > i => IsWrite(ops[m])
  BY <1>2, <1>4 DEF ReadsFirst, Branch
<1>6. ASSUME NEW m \in DOMAIN ops
      PROVE  ~Raises(ops[m])
  <2>1. CASE m <= i
    BY <1>2, <1>4, <2>1 DEF Executed
  <2>2. CASE m > i
    BY <1>5, <2>2 DEF IsWrite, Raises
  <2> QED
    BY <1>4, <2>1, <2>2
<1>7. Executed(ops) = {m \in DOMAIN ops : \A j \in 1..m : ~Raises(ops[j])}
  BY DEF Executed
<1> HIDE DEF ops
<1> QED
  BY <1>4, <1>6, <1>7 DEF ops

\* A transaction that changes something is one revision, whose versions name
\* leases that are there.
LEMMA TransactCommits ==
  ASSUME ReadsFirst, LeaseInv, NEW txn \in Txns, Transact(txn)
  PROVE  \E W \in SUBSET Keys : \E v \in [W -> Version] :
           /\ Commits(W, v)
           /\ leases' = leases
           /\ \A k \in W :
                /\ Shown(v[k]).lease \in DOMAIN leases \cup {NoLease}
                /\ \/ Shown(v[k]).lease = NoLease
                   \/ \E i \in DOMAIN Branch(txn) : Claims(Branch(txn)[i], k)
<1> DEFINE ops == Branch(txn)
           run == {ops[i] : i \in Executed(ops)}
           written == {k \in Keys : \E op \in run : Writes(op, k)}
           chosen(k) == CHOOSE op \in run : Writes(op, k)
           version == [k \in written |-> WrittenVersion(chosen(k), k, revision + 1)]
<1>1. ops \in Seq(Operation) /\ Valid(ops)
  BY ConstantsOK DEF ConstantsOK, Branch, Transaction, Transact
<1>2. /\ history' = [k \in Keys |-> IF k \in written THEN Append(history[k], version[k])
                                    ELSE history[k]]
      /\ revision' = revision + 1
      /\ log' = Append(log, {[key |-> k, value |-> version[k].value] : k \in written})
      /\ compacted' = compacted /\ leases' = leases
  BY WholeBranchRuns DEF Transact, Publish, leasing
<1>3. ASSUME NEW k \in written
      PROVE  /\ version[k] \in Version /\ version[k].mod_revision = revision + 1
             /\ Continues(k, version[k])
             /\ Shown(version[k]).lease \in DOMAIN leases \cup {NoLease}
             /\ Shown(version[k]).lease = NoLease \/ \E i \in DOMAIN ops : Claims(ops[i], k)
  <2>1. PICK i \in Executed(ops) : chosen(k) = ops[i] /\ Writes(ops[i], k)
    <3>1. chosen(k) \in run /\ Writes(chosen(k), k)
      OBVIOUS
    <3> QED
      BY <3>1
  <2>2. i \in DOMAIN ops
    BY DEF Executed
  <2>3. ops[i] \in Operation
    BY <1>1, <2>2
  <2>4. version[k] = WrittenVersion(ops[i], k, revision + 1) /\ k \in Keys
    BY <2>1
  <2>5. revision + 1 \in Nat
    BY DEF LeaseInv, TypeOK
  <2> HIDE DEF ops, run, written, chosen, version
  <2>6. version[k] \in Version
    BY <2>1, <2>3, <2>4, <2>5, WrittenVersionType DEF LeaseInv
  <2>7. version[k].mod_revision = revision + 1
    BY <2>4 DEF WrittenVersion, PutVersion, Tombstone
  <2>8. CASE ops[i].kind = "put"
    <3>1. ops[i].lease \in DOMAIN leases \cup {NoLease}
      BY <1>1, <2>2, <2>8 DEF Valid
    <3>2. ops[i].key = k
      BY <2>1, <2>8 DEF Writes
    <3>3. version[k].lease = ops[i].lease /\ Continues(k, version[k])
      BY <2>4, <2>8, <3>2 DEF WrittenVersion, PutVersion, Continues
    <3>4. Shown(version[k]).lease = NoLease \/ Claims(ops[i], k)
      BY <2>8, <3>2, <3>3 DEF Shown, Absent, Claims
    <3> QED
      BY <2>2, <2>6, <2>7, <3>1, <3>3, <3>4 DEF Shown, Absent
  <2>9. CASE ops[i].kind # "put"
    <3>1. version[k].value = None /\ Live(k)
      BY <2>1, <2>4, <2>9 DEF WrittenVersion, Tombstone, Writes
    <3>2. Continues(k, version[k])
      BY <2>4, <2>9, <3>1 DEF WrittenVersion, Tombstone, Continues
    <3> QED
      BY <2>6, <2>7, <3>1, <3>2 DEF Shown, Absent
  <2> QED
    BY <2>8, <2>9
<1>4. written \in SUBSET Keys /\ version \in [written -> Version]
  BY <1>3
<1> HIDE DEF ops, run, written, chosen, version
<1>5. Commits(written, version)
  BY <1>2, <1>3, <1>4 DEF Commits, Grows
<1> QED
  BY <1>2, <1>3, <1>4, <1>5 DEF ops

LEMMA TransactGrows ==
  ASSUME ReadsFirst, LeaseInv, NEW txn \in Txns, Transact(txn)
  PROVE  AllCommitted' /\ LeaseIntegrity'
<1>1. PICK W \in SUBSET Keys : \E v \in [W -> Version] :
             /\ Commits(W, v)
             /\ leases' = leases
             /\ \A k \in W : Shown(v[k]).lease \in DOMAIN leases \cup {NoLease}
  BY TransactCommits
<1>2. PICK v \in [W -> Version] :
             /\ Commits(W, v)
             /\ leases' = leases
             /\ \A k \in W : Shown(v[k]).lease \in DOMAIN leases \cup {NoLease}
  BY <1>1
<1>3. Grows(W, v) /\ TypeOK /\ AllCommitted
  BY <1>2 DEF Commits, LeaseInv
<1>4. /\ AllCommitted'
      /\ \A k \in Keys : Current(k)' = IF k \in W THEN Shown(v[k]) ELSE Current(k)
  BY <1>3, GrowCurrent, Zenon
<1> QED
  BY <1>2, <1>4 DEF LeaseInv, LeaseIntegrity, Live, Shown

\* The expiry of a lease changes nothing, or is one revision that takes every
\* key it holds.
LEMMA ExpireCommits ==
  ASSUME LeaseInv, NEW lease \in Nat, ExpireLeaseKeys(lease), compacted' = compacted
  PROVE  LET held == {k \in Keys : Live(k) /\ Current(k).lease = lease}
         IN \/ held = {} /\ UNCHANGED store
            \/ \E v \in [held -> Version] :
                 Commits(held, v) /\ \A k \in held : Shown(v[k]) = Absent
<1> DEFINE held == {k \in Keys : Live(k) /\ Current(k).lease = lease}
           version == [k \in held |-> Tombstone(k, revision + 1)]
<1>1. CASE held = {}
  BY <1>1 DEF ExpireLeaseKeys
<1>2. CASE held # {}
  <2>1. /\ history' = [k \in Keys |-> IF k \in held THEN Append(history[k], version[k])
                                      ELSE history[k]]
        /\ revision' = revision + 1
        /\ log' = Append(log, {[key |-> k, value |-> None] : k \in held})
    BY <1>2 DEF ExpireLeaseKeys, Publish
  <2>2. ASSUME NEW k \in held
        PROVE  /\ version[k] \in Version /\ version[k].mod_revision = revision + 1
               /\ Continues(k, version[k])
               /\ version[k].value = None /\ Shown(version[k]) = Absent
    <3>1. /\ version[k] = Tombstone(k, revision + 1) /\ Live(k)
          /\ revision + 1 \in Nat /\ k \in Keys
      BY DEF LeaseInv, TypeOK
    <3> HIDE DEF version, held
    <3>2. version[k] \in Version
      BY <3>1, TombstoneType DEF LeaseInv
    <3> QED
      BY <3>1, <3>2 DEF Tombstone, Shown, Continues
  <2>3. held \in SUBSET Keys /\ version \in [held -> Version]
    BY <2>2
  <2> HIDE DEF held, version
  <2>4. {[key |-> k, value |-> None] : k \in held}
          = {[key |-> k, value |-> version[k].value] : k \in held}
    BY <2>2
  <2>5. Commits(held, version)
    BY <2>1, <2>2, <2>3, <2>4 DEF Commits, Grows
  <2> QED
    BY <2>2, <2>3, <2>5 DEF held
<1> QED
  BY <1>1, <1>2

\* Once its keys are gone, nothing needs the lease.
LEMMA ExpireGrows ==
  ASSUME LeaseInv, NEW lease \in DOMAIN leases, ExpireLeaseKeys(lease),
         leases' = Without(lease), compacted' = compacted
  PROVE  AllCommitted' /\ LeaseIntegrity'
<1> DEFINE held == {k \in Keys : Live(k) /\ Current(k).lease = lease}
<1>1. DOMAIN leases' = DOMAIN leases \ {lease}
  BY WithoutType DEF LeaseInv
<1>2. lease # NoLease /\ lease \in Nat
  BY DEF LeaseInv, TypeOK, NoLease
<1>3. \A k \in Keys : k \notin held => ~Live(k) \/ Current(k).lease # lease
  OBVIOUS
<1>4. \/ held = {} /\ UNCHANGED store
      \/ \E v \in [held -> Version] :
           Commits(held, v) /\ \A k \in held : Shown(v[k]) = Absent
  BY <1>2, ExpireCommits
<1>5. CASE held = {} /\ UNCHANGED store
  <2>1. \A k \in Keys : Current(k)' = Current(k)
    BY <1>5 DEF store, Current, KeyValueAt
  <2>2. AllCommitted'
    BY <1>5 DEF store, AllCommitted, LeaseInv
  <2> QED
    BY <1>1, <1>5, <2>1, <2>2 DEF LeaseInv, LeaseIntegrity, Live
<1>6. ASSUME NEW v \in [held -> Version], Commits(held, v),
             \A k \in held : Shown(v[k]) = Absent
      PROVE  AllCommitted' /\ LeaseIntegrity'
  <2> HIDE DEF held
  <2>1. TypeOK /\ AllCommitted /\ Grows(held, v)
    BY <1>6 DEF LeaseInv, Commits
  <2>2. /\ AllCommitted'
        /\ \A k \in Keys : Current(k)' = IF k \in held THEN Shown(v[k]) ELSE Current(k)
    BY <2>1, GrowCurrent, Zenon
  <2>3. \A k \in Keys : Current(k)' = IF k \in held THEN Absent ELSE Current(k)
    BY <1>6, <2>2
  <2> QED
    BY <1>1, <1>3, <2>2, <2>3 DEF LeaseInv, LeaseIntegrity, Live, Absent
<1> QED
  BY <1>4, <1>5, <1>6

\* Compaction changes no current value.
LEMMA CompactReads ==
  ASSUME LeaseInv, NEW rev \in 1..revision, Compact(rev)
  PROVE  AllCommitted' /\ \A k \in Keys : Current(k)' = Current(k)
<1>1. revision' = revision
  BY DEF Compact
<1>2. ASSUME NEW k \in Keys
      PROVE  /\ NoneAfter(history'[k], revision)
             /\ Read(history'[k], revision) = Read(history[k], revision)
  <2> DEFINE base == Newest(history[k], rev)
  <2>1. history[k] \in Seq(Version)
    BY DEF LeaseInv, TypeOK
  <2>2. NoneAfter(history[k], revision)
    BY DEF LeaseInv, AllCommitted, NoneAfter
  <2>3. history'[k] = IF base = 0 THEN history[k]
                      ELSE SubSeq(history[k], base, Len(history[k]))
    BY DEF Compact
  <2>4. base # 0 => base \in 1..Len(history[k])
    BY <2>1, NewestProperties
  <2> HIDE DEF base
  <2> QED
    BY <2>1, <2>2, <2>3, <2>4, ReadSuffix
<1>3. AllCommitted'
  BY <1>1, <1>2 DEF AllCommitted, NoneAfter
<1>4. \A k \in Keys : Current(k)' = Read(history'[k], revision')
  BY DEF Current, KeyValueAt, Read
<1>5. \A k \in Keys : Current(k)' = Current(k)
  BY <1>1, <1>2, <1>4, CurrentIsRead
<1> QED
  BY <1>3, <1>5

LEMMA CompactKeeps ==
  ASSUME LeaseInv, NEW rev \in 1..revision, Compact(rev)
  PROVE  AllCommitted' /\ LeaseIntegrity'
<1>1. leases' = leases
  BY DEF Compact, leasing
<1> QED
  BY <1>1, CompactReads DEF LeaseInv, LeaseIntegrity, Live

\* Steps that change neither the store nor the set of leases, except to add one.
LEMMA StoreUntouched ==
  ASSUME LeaseInv, UNCHANGED <<history, revision>>, DOMAIN leases \subseteq DOMAIN leases'
  PROVE  AllCommitted' /\ LeaseIntegrity'
<1>1. \A k \in Keys : Current(k)' = Current(k)
  BY DEF Current, KeyValueAt
<1>2. AllCommitted'
  BY DEF LeaseInv, AllCommitted
<1> QED
  BY <1>1, <1>2 DEF LeaseInv, LeaseIntegrity, Live

LEMMA InitStore == Init => AllCommitted /\ LeaseIntegrity
<1> SUFFICES ASSUME Init
             PROVE  AllCommitted /\ LeaseIntegrity
  OBVIOUS
<1>1. \A k \in Keys : history[k] = <<>>
  BY DEF Init
<1>2. \A k \in Keys : Current(k) = Absent
  <2>1. ASSUME NEW k \in Keys
        PROVE  NoneAfter(history[k], revision) /\ history[k] \in Seq(Version)
    <3>1. history[k] \in Seq(Version) /\ Len(history[k]) = 0
      BY <1>1, EmptySeq, Zenon
    <3>2. DOMAIN history[k] = {}
      BY <3>1
    <3> QED
      BY <3>1, <3>2 DEF NoneAfter
  <2> QED
    BY <1>1, <2>1, ReadLast, CurrentIsRead
<1> QED
  BY <1>1, <1>2 DEF AllCommitted, LeaseIntegrity, Live, Absent

\* The two invariants hold together: that the last version of a key is its
\* current one, which AllCommitted says, is what LeaseIntegrity rests on.
LEMMA StepStore ==
  ASSUME ReadsFirst, LeaseInv, [Next]_vars
  PROVE  (AllCommitted /\ LeaseIntegrity)'
<1> SUFFICES AllCommitted' /\ LeaseIntegrity'
  OBVIOUS
<1> USE DEF store
<1>1. ASSUME NEW txn \in Txns, Transact(txn)
      PROVE  AllCommitted' /\ LeaseIntegrity'
  BY <1>1, TransactGrows
<1>2. ASSUME NEW rev \in 1..revision, Compact(rev)
      PROVE  AllCommitted' /\ LeaseIntegrity'
  BY <1>2, CompactKeeps
<1>3. ASSUME NEW ttl \in TTLs, GrantLease(ttl)
      PROVE  AllCommitted' /\ LeaseIntegrity'
  BY <1>3, StoreUntouched DEF GrantLease
<1>4. ASSUME NEW lease \in DOMAIN leases, KeepAlive(lease)
      PROVE  AllCommitted' /\ LeaseIntegrity'
  BY <1>4, StoreUntouched DEF KeepAlive
<1>5. ASSUME NEW lease \in DOMAIN leases, RevokeLease(lease)
      PROVE  AllCommitted' /\ LeaseIntegrity'
  BY <1>5, ExpireGrows DEF RevokeLease
<1>6. ASSUME NEW seconds \in TimeSteps, AdvanceTime(seconds)
      PROVE  AllCommitted' /\ LeaseIntegrity'
  BY <1>6, StoreUntouched DEF AdvanceTime
<1>7. ASSUME ExpireNext
      PROVE  AllCommitted' /\ LeaseIntegrity'
  <2> DEFINE lease == Min(expired)
  <2>1. /\ ExpireLeaseKeys(lease) /\ leases' = Without(lease)
        /\ expired # {} /\ compacted' = compacted
    BY <1>7 DEF ExpireNext
  <2>2. expired \in SUBSET Nat /\ expired \subseteq DOMAIN leases
    BY DEF LeaseInv, TypeOK
  <2>3. lease \in DOMAIN leases
    BY <2>1, <2>2, MinProperties
  <2> HIDE DEF lease
  <2> QED
    BY <2>1, <2>3, ExpireGrows
<1>8. ASSUME NEW w \in Watches, NEW range \in WatchRanges,
             NEW from \in 1..(revision + Ahead), Watch(w, range, from)
      PROVE  AllCommitted' /\ LeaseIntegrity'
  BY <1>8, StoreUntouched DEF Watch, leasing
<1>9. ASSUME NEW w \in Watches, BeginWatch(w)
      PROVE  AllCommitted' /\ LeaseIntegrity'
  BY <1>9, StoreUntouched DEF BeginWatch, leasing
<1>10. ASSUME NEW w \in Watches, Deliver(w)
       PROVE  AllCommitted' /\ LeaseIntegrity'
  BY <1>10, StoreUntouched DEF Deliver, leasing
<1>11. ASSUME NEW w \in Watches, CancelWatch(w)
       PROVE  AllCommitted' /\ LeaseIntegrity'
  BY <1>11, StoreUntouched DEF CancelWatch, leasing
<1>12. ASSUME Close
       PROVE  AllCommitted' /\ LeaseIntegrity'
  BY <1>12, StoreUntouched DEF Close, leasing
<1>13. ASSUME UNCHANGED vars
       PROVE  AllCommitted' /\ LeaseIntegrity'
  BY <1>13, StoreUntouched DEF vars, leasing
<1> QED
  BY <1>1, <1>2, <1>3, <1>4, <1>5, <1>6, <1>7, <1>8, <1>9, <1>10, <1>11, <1>12, <1>13
     DEF Next

LEMMA StoreInvariant ==
  ASSUME ReadsFirst
  PROVE  Spec => [](AllCommitted /\ LeaseIntegrity)
<1>1. LeaseInv /\ [Next]_vars => (AllCommitted /\ LeaseIntegrity)'
  BY StepStore
<1> QED
  BY <1>1, InitStore, TypeCorrect, PTL DEF Spec, LeaseInv

\* No branch runs in part, in a workload whose reads come before its writes:
\* no version is stored for a revision the backend has not reached.
THEOREM BranchesWhole ==
  ASSUME ReadsFirst
  PROVE  Spec => []AllCommitted
<1> QED
  BY StoreInvariant, PTL

\* A live key never outlives its lease, in such a workload: revocation and
\* expiry take every key the lease holds, a put names a live lease, and
\* nothing else changes a current value.
THEOREM LeasesHold ==
  ASSUME ReadsFirst
  PROVE  Spec => []LeaseIntegrity
<1> QED
  BY StoreInvariant, PTL
-----------------------------------------------------------------------------
(* Time.                                                                   *)

\* A lease past its deadline is one advance_time has yet to come to.
Timely == \A l \in DOMAIN leases : leases[l].deadline > clock \/ l \in expired

LEMMA StepTimely ==
  ASSUME TypeOK, Timely, [Next]_vars
  PROVE  Timely'
<1>1. /\ clock \in Nat /\ nextLease \in Nat
      /\ \A l \in DOMAIN leases : leases[l].ttl \in Nat \ {0} /\ leases[l].deadline \in Nat
  BY DEF TypeOK
<1>2. ASSUME NEW ttl \in TTLs, GrantLease(ttl)
      PROVE  Timely'
  <2>1. ttl \in Nat \ {0}
    BY ConstantsOK DEF ConstantsOK
  <2> QED
    BY <1>1, <1>2, <2>1 DEF GrantLease, Timely
<1>3. ASSUME NEW lease \in DOMAIN leases, KeepAlive(lease)
      PROVE  Timely'
  <2>1. /\ leases' = [leases EXCEPT ![lease] = [leases[lease] EXCEPT
                                        !.deadline = clock + leases[lease].ttl]]
        /\ clock' = clock /\ expired' = expired
    BY <1>3 DEF KeepAlive
  <2>2. \A l \in DOMAIN leases : leases[l] \in [ttl : Nat \ {0}, deadline : Nat]
    BY DEF TypeOK
  <2>3. /\ leases'[lease].deadline = clock + leases[lease].ttl
        /\ DOMAIN leases' = DOMAIN leases
        /\ \A l \in DOMAIN leases : l # lease => leases'[l] = leases[l]
    BY <2>1, <2>2
  <2> QED
    BY <1>1, <2>1, <2>3 DEF Timely
<1>4. ASSUME NEW lease \in DOMAIN leases, RevokeLease(lease)
      PROVE  Timely'
  BY <1>4 DEF RevokeLease, Without, Timely
<1>5. ASSUME ExpireNext
      PROVE  Timely'
  <2> DEFINE lease == Min(expired)
  <2>1. /\ expired' = expired \ {lease} /\ leases' = Without(lease) /\ clock' = clock
    BY <1>5 DEF ExpireNext
  <2> HIDE DEF lease
  <2> QED
    BY <2>1 DEF Without, Timely
<1>6. ASSUME NEW seconds \in TimeSteps, AdvanceTime(seconds)
      PROVE  Timely'
  <2>1. seconds \in Nat
    BY ConstantsOK DEF ConstantsOK
  <2> QED
    BY <1>1, <1>6, <2>1 DEF AdvanceTime, Timely
<1>7. ASSUME UNCHANGED leasing
      PROVE  Timely'
  BY <1>7 DEF leasing, Timely
<1>8. ASSUME NEW w \in Watches, BeginWatch(w) \/ Deliver(w) \/ CancelWatch(w)
      PROVE  UNCHANGED leasing
  BY <1>8 DEF BeginWatch, Deliver, CancelWatch
<1>9. ASSUME \/ \E txn \in Txns : Transact(txn)
             \/ \E rev \in 1..revision : Compact(rev)
             \/ \E w \in Watches, range \in WatchRanges, from \in 1..(revision + Ahead) :
                  Watch(w, range, from)
             \/ Close
      PROVE  UNCHANGED leasing
  BY <1>9 DEF Transact, Compact, Watch, Close
<1>10. UNCHANGED vars => UNCHANGED leasing
  BY DEF vars
<1> QED
  BY <1>2, <1>3, <1>4, <1>5, <1>6, <1>7, <1>8, <1>9, <1>10 DEF Next

\* When advance_time has returned, no lease past its deadline is left: it takes
\* every lease that ran out, and no grant or keep-alive sets a deadline in the
\* past.
THEOREM LeasesEndInTime == Spec => []NoOverdueLease
<1>1. Init => Timely
  BY DEF Init, Timely
<1>2. TypeOK /\ Timely /\ [Next]_vars => Timely'
  BY StepTimely
<1>3. Timely => NoOverdueLease
  BY DEF Timely, NoOverdueLease
<1> QED
  BY <1>1, <1>2, <1>3, TypeCorrect, PTL DEF Spec
-----------------------------------------------------------------------------
(* The history.                                                            *)

\* A step of the backend commits one revision, compacts, or leaves the store
\* alone.
LEMMA StepShape ==
  ASSUME ReadsFirst, LeaseInv, [Next]_vars
  PROVE  \/ \E W \in SUBSET Keys : \E v \in [W -> Version] : Commits(W, v)
         \/ \E rev \in 1..revision : Compact(rev)
         \/ UNCHANGED <<history, revision, log, compacted>>
<1> DEFINE Shape == \/ \E W \in SUBSET Keys : \E v \in [W -> Version] : Commits(W, v)
                    \/ \E rev \in 1..revision : Compact(rev)
                    \/ UNCHANGED <<history, revision, log, compacted>>
<1>1. ASSUME NEW txn \in Txns, Transact(txn)
      PROVE  Shape
  BY <1>1, TransactCommits
<1>2. ASSUME NEW lease \in Nat, ExpireLeaseKeys(lease), compacted' = compacted
      PROVE  Shape
  BY <1>2, ExpireCommits DEF store
<1>3. ASSUME NEW lease \in DOMAIN leases, RevokeLease(lease)
      PROVE  Shape
  <2>1. lease \in Nat
    BY DEF LeaseInv, TypeOK
  <2> QED
    BY <1>2, <1>3, <2>1 DEF RevokeLease
<1>4. ASSUME ExpireNext
      PROVE  Shape
  <2> DEFINE lease == Min(expired)
  <2>1. ExpireLeaseKeys(lease) /\ expired # {} /\ compacted' = compacted
    BY <1>4 DEF ExpireNext
  <2>2. expired \in SUBSET Nat
    BY DEF LeaseInv, TypeOK
  <2>3. lease \in Nat
    BY <2>1, <2>2, MinProperties
  <2> HIDE DEF lease, Shape
  <2> QED
    BY <1>2, <2>1, <2>3
<1>5. ASSUME NEW w \in Watches, NEW range \in WatchRanges,
             NEW from \in 1..(revision + Ahead), Watch(w, range, from)
      PROVE  Shape
  BY <1>5 DEF Watch
<1>6. ASSUME NEW w \in Watches, BeginWatch(w) \/ Deliver(w) \/ CancelWatch(w)
      PROVE  Shape
  BY <1>6 DEF BeginWatch, Deliver, CancelWatch
<1>7. ASSUME NEW ttl \in TTLs, GrantLease(ttl)
      PROVE  Shape
  BY <1>7 DEF GrantLease, store
<1>8. ASSUME NEW lease \in DOMAIN leases, KeepAlive(lease)
      PROVE  Shape
  BY <1>8 DEF KeepAlive, store
<1>9. ASSUME NEW seconds \in TimeSteps, AdvanceTime(seconds)
      PROVE  Shape
  BY <1>9 DEF AdvanceTime, store
<1>10. ASSUME Close \/ UNCHANGED vars
       PROVE  Shape
  BY <1>10 DEF Close, vars, store
<1>11. ASSUME NEW rev \in 1..revision, Compact(rev)
       PROVE  Shape
  BY <1>11
<1> HIDE DEF Shape
<1>12. Shape
  BY <1>1, <1>3, <1>4, <1>5, <1>6, <1>7, <1>8, <1>9, <1>10, <1>11 DEF Next
<1> QED
  BY <1>12 DEF Shape

\* What the store invariant and type correctness give together.
LEMMA LeaseInvariant ==
  ASSUME ReadsFirst
  PROVE  Spec => []LeaseInv
<1> QED
  BY TypeCorrect, StoreInvariant, PTL DEF LeaseInv
-----------------------------------------------------------------------------
(* The order of a key's versions.                                          *)

Ascends(versions) ==
  \A i, j \in DOMAIN versions : i < j => versions[i].mod_revision < versions[j].mod_revision

LEMMA AppendAscends ==
  ASSUME NEW versions \in Seq(Version), Ascends(versions), NEW v \in Version,
         \A i \in DOMAIN versions : versions[i].mod_revision < v.mod_revision
  PROVE  Ascends(Append(versions, v))
<1> DEFINE longer == Append(versions, v)
           n == Len(versions)
<1>1. /\ n \in Nat /\ DOMAIN versions = 1..n /\ DOMAIN longer = 1..(n + 1)
      /\ \A i \in 1..n : longer[i] = versions[i]
      /\ longer[n + 1] = v
  BY AppendProperties
<1> HIDE DEF longer, n
<1>2. ASSUME NEW i \in DOMAIN longer, NEW j \in DOMAIN longer, i < j
      PROVE  longer[i].mod_revision < longer[j].mod_revision
  <2>1. i \in 1..n /\ j \in 1..(n + 1)
    BY <1>1, <1>2
  <2>2. CASE j = n + 1
    BY <1>1, <2>1, <2>2
  <2>3. CASE j # n + 1
    BY <1>1, <1>2, <2>1, <2>3 DEF Ascends
  <2> QED
    BY <2>2, <2>3
<1> QED
  BY <1>2 DEF Ascends, longer

\* The positions of what compaction keeps.
LEMMA Suffix ==
  ASSUME NEW versions \in Seq(Version), NEW base \in 1..Len(versions)
  PROVE  LET kept == SubSeq(versions, base, Len(versions))
         IN /\ kept \in Seq(Version)
            /\ Len(kept) = Len(versions) - base + 1
            /\ \A i \in 1..Len(kept) : /\ base + i - 1 \in 1..Len(versions)
                                       /\ kept[i] = versions[base + i - 1]
<1> DEFINE n == Len(versions)
<1>1. n \in Nat /\ \A i \in base..n : versions[i] \in Version
  BY ElementOfSeq
<1> QED
  BY <1>1, SubSeqProperties

LEMMA SuffixAscends ==
  ASSUME NEW versions \in Seq(Version), Ascends(versions), NEW base \in 1..Len(versions)
  PROVE  Ascends(SubSeq(versions, base, Len(versions)))
<1> DEFINE kept == SubSeq(versions, base, Len(versions))
<1>1. /\ kept \in Seq(Version)
      /\ \A i \in 1..Len(kept) : /\ base + i - 1 \in 1..Len(versions)
                                 /\ kept[i] = versions[base + i - 1]
  BY Suffix
<1> HIDE DEF kept
<1>2. ASSUME NEW i \in DOMAIN kept, NEW j \in DOMAIN kept, i < j
      PROVE  kept[i].mod_revision < kept[j].mod_revision
  <2>1. i \in 1..Len(kept) /\ j \in 1..Len(kept) /\ DOMAIN versions = 1..Len(versions)
    BY <1>1
  <2>2. base + i - 1 < base + j - 1
    BY <1>2, <2>1
  <2>3. kept[i] = versions[base + i - 1] /\ kept[j] = versions[base + j - 1]
    BY <1>1, <2>1
  <2>4. base + i - 1 \in DOMAIN versions /\ base + j - 1 \in DOMAIN versions
    BY <1>1, <2>1
  <2> QED
    BY <2>2, <2>3, <2>4 DEF Ascends
<1> QED
  BY <1>2 DEF Ascends, kept

LEMMA StepAscends ==
  ASSUME ReadsFirst, LeaseInv, [Next]_vars, VersionsAscend
  PROVE  VersionsAscend'
<1>1. ASSUME NEW k \in Keys
      PROVE  history[k] \in Seq(Version) /\ Ascends(history[k])
  BY DEF LeaseInv, TypeOK, VersionsAscend, Ascends
<1>2. ASSUME NEW W \in SUBSET Keys, NEW v \in [W -> Version], Commits(W, v), NEW k \in Keys
      PROVE  Ascends(history'[k])
  <2>1. CASE k \in W
    <3>1. v[k] \in Version /\ v[k].mod_revision = revision + 1 /\ revision \in Nat
      BY <1>2, <2>1 DEF Commits, Grows, LeaseInv, TypeOK
    <3>2. ASSUME NEW i \in DOMAIN history[k]
          PROVE  history[k][i].mod_revision < v[k].mod_revision
      <4>1. history[k][i] \in Version
        BY <1>1
      <4>2. history[k][i].mod_revision <= revision
        BY DEF LeaseInv, AllCommitted
      <4> QED
        BY <3>1, <4>1, <4>2 DEF Version
    <3>3. history'[k] = Append(history[k], v[k])
      BY <1>2, <2>1 DEF Commits, Grows
    <3> QED
      BY <1>1, <3>1, <3>2, <3>3, AppendAscends
  <2>2. CASE k \notin W
    BY <1>1, <1>2, <2>2 DEF Commits, Grows
  <2> QED
    BY <2>1, <2>2
<1>3. ASSUME NEW rev \in 1..revision, Compact(rev), NEW k \in Keys
      PROVE  Ascends(history'[k])
  <2> DEFINE base == Newest(history[k], rev)
  <2>1. history'[k] = IF base = 0 THEN history[k]
                      ELSE SubSeq(history[k], base, Len(history[k]))
    BY <1>3 DEF Compact
  <2>2. base # 0 => base \in 1..Len(history[k])
    BY <1>1, NewestProperties
  <2> HIDE DEF base
  <2> QED
    BY <1>1, <2>1, <2>2, SuffixAscends
<1>4. ASSUME UNCHANGED <<history, revision, log, compacted>>, NEW k \in Keys
      PROVE  Ascends(history'[k])
  BY <1>1, <1>4
<1>5. \A k \in Keys : Ascends(history'[k])
  BY <1>2, <1>3, <1>4, StepShape
<1> QED
  BY <1>5 DEF VersionsAscend, Ascends

\* A key's versions stay in the order of their revisions, one to a revision,
\* through every commit, expiry and compaction, in a workload whose reads come
\* before its writes: so the newest version not newer than a revision is the
\* first that _key_value_at_unlocked meets from the end.
THEOREM HistoryAscends ==
  ASSUME ReadsFirst
  PROVE  Spec => []VersionsAscend
<1>1. Init => VersionsAscend
  BY DEF Init, VersionsAscend
<1>2. VersionsAscend /\ LeaseInv /\ [Next]_vars => VersionsAscend'
  BY StepAscends
<1> QED
  BY <1>1, <1>2, LeaseInvariant, PTL DEF Spec
-----------------------------------------------------------------------------
(* Reads that repeat.                                                      *)

\* A version newer than rev is not read as of rev.
LEMMA ReadBeforeAppend ==
  ASSUME NEW versions \in Seq(Version), NEW v \in Version, NEW rev \in Nat,
         v.mod_revision > rev
  PROVE  Read(Append(versions, v), rev) = Read(versions, rev)
<1> DEFINE longer == Append(versions, v)
           n == Len(versions)
<1>1. /\ n \in Nat /\ DOMAIN versions = 1..n /\ DOMAIN longer = 1..(n + 1)
      /\ \A i \in 1..n : longer[i] = versions[i]
      /\ longer[n + 1] = v
  BY AppendProperties
<1>2. ~(longer[n + 1].mod_revision <= rev)
  BY <1>1 DEF Version
<1> HIDE DEF longer, n
<1>3. {i \in DOMAIN longer : longer[i].mod_revision <= rev}
        = {i \in DOMAIN versions : versions[i].mod_revision <= rev}
  BY <1>1, <1>2
<1>4. Newest(longer, rev) = Newest(versions, rev)
  BY <1>3 DEF Newest
<1>5. Newest(versions, rev) # 0 => Newest(versions, rev) \in 1..n
  BY NewestProperties DEF n
<1> QED
  BY <1>1, <1>4, <1>5 DEF Read, longer

\* What compaction at rev keeps still reads the same as of any later revision:
\* the version it keeps below rev is the one a read as of rev falls on.
LEMMA ReadCompacted ==
  ASSUME NEW versions \in Seq(Version), NEW rev \in Nat, NEW r \in Nat, rev <= r,
         Newest(versions, rev) # 0
  PROVE  Read(SubSeq(versions, Newest(versions, rev), Len(versions)), r) = Read(versions, r)
<1> DEFINE base == Newest(versions, rev)
           n == Len(versions)
           kept == SubSeq(versions, base, n)
           m == Newest(versions, r)
           top == Newest(kept, r)
<1>1. n \in Nat /\ base \in 1..n /\ versions[base].mod_revision <= rev
  BY NewestProperties
<1>2. \A i \in 1..n : versions[i] \in Version
  BY ElementOfSeq
<1>3. versions[base].mod_revision <= r
  <2>1. versions[base].mod_revision \in Nat
    BY <1>1, <1>2 DEF Version
  <2> QED
    BY <1>1, <2>1
<1>4. m \in base..n /\ versions[m].mod_revision <= r
  BY <1>1, <1>3, NewestProperties
<1>5. \A i \in 1..n : versions[i].mod_revision <= r => i <= m
  BY NewestProperties
<1>6. /\ kept \in Seq(Version) /\ Len(kept) = n - base + 1
      /\ \A i \in 1..Len(kept) : base + i - 1 \in 1..n /\ kept[i] = versions[base + i - 1]
  BY <1>1, Suffix
<1>7. /\ top \in 0..Len(kept)
      /\ top # 0 => top \in 1..Len(kept) /\ kept[top].mod_revision <= r
      /\ \A i \in 1..Len(kept) : kept[i].mod_revision <= r => i <= top
  BY <1>6, NewestProperties
<1> HIDE DEF base, n, kept, m, top
<1>8. m - base + 1 \in 1..Len(kept) /\ kept[m - base + 1] = versions[m]
  <2>1. m - base + 1 \in 1..Len(kept) /\ base + (m - base + 1) - 1 = m
    BY <1>1, <1>4, <1>6
  <2> QED
    BY <1>6, <2>1
<1>9. m - base + 1 <= top
  BY <1>4, <1>7, <1>8
<1>10. top \in 1..Len(kept) /\ base + top - 1 <= m
  <2>1. top \in 1..Len(kept)
    BY <1>7, <1>8, <1>9
  <2>2. base + top - 1 \in 1..n /\ versions[base + top - 1].mod_revision <= r
    BY <1>6, <1>7, <2>1
  <2> QED
    BY <1>5, <2>1, <2>2
<1>11. top = m - base + 1
  BY <1>1, <1>4, <1>6, <1>9, <1>10
<1>12. kept[top] = versions[m] /\ top # 0 /\ m # 0
  <2>1. kept[top] = versions[m]
    BY <1>8, <1>11
  <2>2. top # 0
    BY <1>10
  <2>3. m # 0
    BY <1>1, <1>4
  <2> QED
    BY <2>1, <2>2, <2>3
<1> QED
  BY <1>12 DEF Read, base, n, kept, m, top

\* A step leaves every read at a revision still readable as it was.
LEMMA StepReads ==
  ASSUME ReadsFirst, LeaseInv, [Next]_vars,
         NEW k \in Keys, NEW r \in compacted'..revision
  PROVE  Read(history'[k], r) = Read(history[k], r)
<1>1. history[k] \in Seq(Version) /\ revision \in Nat /\ compacted \in Nat
  BY DEF LeaseInv, TypeOK
<1>2. ASSUME NEW W \in SUBSET Keys, NEW v \in [W -> Version], Commits(W, v)
      PROVE  Read(history'[k], r) = Read(history[k], r)
  <2>1. r \in Nat /\ r <= revision
    BY <1>1, <1>2 DEF Commits
  <2>2. CASE k \in W
    <3>1. v[k] \in Version /\ v[k].mod_revision > r
      BY <1>1, <1>2, <2>1, <2>2 DEF Commits, Grows
    <3>2. history'[k] = Append(history[k], v[k])
      BY <1>2, <2>2 DEF Commits, Grows
    <3> QED
      BY <1>1, <2>1, <3>1, <3>2, ReadBeforeAppend
  <2>3. CASE k \notin W
    BY <1>2, <2>3 DEF Commits, Grows
  <2> QED
    BY <2>2, <2>3
<1>3. ASSUME NEW rev \in 1..revision, Compact(rev)
      PROVE  Read(history'[k], r) = Read(history[k], r)
  <2> DEFINE base == Newest(history[k], rev)
  <2>1. history'[k] = IF base = 0 THEN history[k]
                      ELSE SubSeq(history[k], base, Len(history[k]))
    BY <1>3 DEF Compact
  <2>2. rev \in Nat /\ r \in Nat /\ rev <= r
    BY <1>1, <1>3 DEF Compact
  <2>3. base # 0 => Read(SubSeq(history[k], base, Len(history[k])), r) = Read(history[k], r)
    BY <1>1, <2>2, ReadCompacted
  <2> HIDE DEF base
  <2> QED
    BY <2>1, <2>3
<1>4. ASSUME UNCHANGED <<history, revision, log, compacted>>
      PROVE  Read(history'[k], r) = Read(history[k], r)
  BY <1>4
<1> QED
  BY <1>2, <1>3, <1>4, StepShape

\* A pinned read repeats: no commit, expiry or compaction changes what any key
\* reads as at a revision that is still readable, in such a workload.
THEOREM PinnedReadsRepeat ==
  ASSUME ReadsFirst
  PROVE  Spec => ReadsRepeat
<1> DEFINE Repeats == \A k \in Keys : \A r \in compacted'..revision :
                        KeyValueAt(k, r)' = KeyValueAt(k, r)
<1>1. LeaseInv /\ [Next]_vars => Repeats
  BY StepReads DEF KeyValueAt, Read
<1>2. LeaseInv /\ [Next]_vars => [Repeats]_vars
  BY <1>1
<1> QED
  BY <1>2, LeaseInvariant, PTL DEF Spec, ReadsRepeat
-----------------------------------------------------------------------------
(* The batches and the versions.                                           *)

\* A batch tells of a key what its versions say of revision r.
Tells(batch, key, versions, r) ==
  LET named == {e \in batch : e.key = key}
  IN IF named = {} THEN Read(versions, r) = Read(versions, r - 1)
     ELSE \A e \in named : e.value = Read(versions, r).value

LEMMA TellsNothing ==
  ASSUME NEW batch, NEW key, NEW versions, NEW r, {e \in batch : e.key = key} = {},
         Read(versions, r) = Read(versions, r - 1)
  PROVE  Tells(batch, key, versions, r)
BY DEF Tells

\* Every revision has its batch, and each still readable is explained by it.
Explained ==
  /\ Len(log) = revision
  /\ \A k \in Keys, r \in (compacted + 1)..revision : Tells(log[r], k, history[k], r)

LEMMA ExplainedIsStory == Explained => LogExplainsHistory
BY DEF Explained, LogExplainsHistory, Tells, KeyValueAt, Read

LEMMA Window ==
  ASSUME NEW old \in Nat, NEW new \in Nat, NEW top \in Nat, new >= old,
         NEW r \in (new + 1)..top
  PROVE  r \in new..top /\ r - 1 \in new..top /\ r \in (old + 1)..top
OBVIOUS

\* What was explained stays explained.
LEMMA StoryKept ==
  ASSUME ReadsFirst, LeaseInv, [Next]_vars, Explained, compacted' \in Nat,
         compacted' >= compacted, NEW k \in Keys, NEW r \in (compacted' + 1)..revision
  PROVE  Tells(log[r], k, history'[k], r)
<1>1. revision \in Nat /\ compacted \in Nat
  BY DEF LeaseInv, TypeOK
<1>2. /\ r \in compacted'..revision /\ r - 1 \in compacted'..revision
      /\ r \in (compacted + 1)..revision
  BY <1>1, Window
<1>3. Tells(log[r], k, history[k], r)
  BY <1>2 DEF Explained
<1>4. Read(history'[k], r) = Read(history[k], r)
  BY <1>2, StepReads
<1>5. Read(history'[k], r - 1) = Read(history[k], r - 1)
  BY <1>2, StepReads
<1> QED
  BY <1>3, <1>4, <1>5 DEF Tells

\* The batch of a commit tells of every key what the commit made of it.
LEMMA CommitTells ==
  ASSUME ReadsFirst, LeaseInv, [Next]_vars, NEW W \in SUBSET Keys,
         NEW v \in [W -> Version], Commits(W, v), NEW k \in Keys
  PROVE  Tells({[key |-> x, value |-> v[x].value] : x \in W}, k, history'[k], revision + 1)
<1> DEFINE batch == {[key |-> x, value |-> v[x].value] : x \in W}
           named == {e \in batch : e.key = k}
<1>1. /\ TypeOK /\ AllCommitted /\ Grows(W, v)
      /\ revision' = revision + 1 /\ compacted' = compacted /\ revision \in Nat
  BY DEF LeaseInv, Commits, Grows, TypeOK
<1>2. Read(history'[k], revision + 1) = IF k \in W THEN Shown(v[k])
                                        ELSE Read(history[k], revision)
  <2>1. Current(k)' = IF k \in W THEN Shown(v[k]) ELSE Current(k)
    BY <1>1, GrowCurrent, Zenon
  <2>2. Current(k)' = Read(history'[k], revision')
    BY DEF Current, KeyValueAt, Read
  <2> QED
    BY <1>1, <2>1, <2>2, CurrentIsRead
<1>3. CASE k \in W
  <2>1. [key |-> k, value |-> v[k].value] \in named
    BY <1>3
  <2>2. \A e \in named : e.value = v[k].value
    OBVIOUS
  <2>3. Shown(v[k]).value = v[k].value
    BY DEF Shown, Absent
  <2> QED
    BY <1>2, <1>3, <2>1, <2>2, <2>3 DEF Tells
<1>4. CASE k \notin W
  <2> DEFINE next == revision + 1
  <2>1. {e \in batch : e.key = k} = {}
    BY <1>4
  <2>2. history'[k] = history[k]
    BY <1>1, <1>4 DEF Grows
  <2>3. Read(history'[k], next) = Read(history'[k], next - 1)
    BY <1>1, <1>2, <1>4, <2>2
  <2> HIDE DEF batch, next
  <2>4. Tells(batch, k, history'[k], next)
    BY <2>1, <2>3, TellsNothing
  <2> QED
    BY <2>4 DEF batch, next
<1> QED
  BY <1>3, <1>4

LEMMA StepExplained ==
  ASSUME ReadsFirst, LeaseInv, [Next]_vars, Explained
  PROVE  Explained'
<1>1. revision \in Nat /\ compacted \in Nat /\ log \in Seq(SUBSET Event)
  BY DEF LeaseInv, TypeOK
<1>2. ASSUME NEW W \in SUBSET Keys, NEW v \in [W -> Version], Commits(W, v)
      PROVE  Explained'
  <2> DEFINE batch == {[key |-> x, value |-> v[x].value] : x \in W}
  <2>1. log' = Append(log, batch) /\ revision' = revision + 1 /\ compacted' = compacted
    BY <1>2 DEF Commits, Grows
  <2>2. batch \in SUBSET Event
    BY DEF Event, Version
  <2>3. \A k \in Keys : Tells(batch, k, history'[k], revision + 1)
    BY <1>2, CommitTells
  <2> HIDE DEF batch
  <2>4. /\ Len(log') = revision + 1 /\ log'[revision + 1] = batch
        /\ \A r \in 1..revision : log'[r] = log[r]
    BY <1>1, <2>1, <2>2, AppendProperties DEF Explained
  <2>5. ASSUME NEW k \in Keys, NEW r \in (compacted' + 1)..revision'
        PROVE  Tells(log'[r], k, history'[k], r)
    <3>1. CASE r = revision + 1
      BY <2>3, <2>4, <3>1
    <3>2. CASE r # revision + 1
      <4>1. r \in (compacted' + 1)..revision /\ r \in 1..revision
        BY <1>1, <2>1, <3>2
      <4>2. compacted' \in Nat /\ compacted' >= compacted
        BY <1>1, <2>1
      <4> QED
        BY <2>4, <4>1, <4>2, StoryKept
    <3> QED
      BY <3>1, <3>2
  <2> QED
    BY <2>1, <2>4, <2>5 DEF Explained
<1>3. ASSUME NEW rev \in 1..revision, Compact(rev)
      PROVE  Explained'
  <2>1. /\ revision' = revision /\ log' = log
        /\ compacted' \in Nat /\ compacted' >= compacted
    BY <1>1, <1>3 DEF Compact
  <2>2. \A k \in Keys, r \in (compacted' + 1)..revision : Tells(log[r], k, history'[k], r)
    BY <2>1, StoryKept
  <2> QED
    BY <2>1, <2>2 DEF Explained
<1>4. ASSUME UNCHANGED <<history, revision, log, compacted>>
      PROVE  Explained'
  BY <1>4 DEF Explained
<1> QED
  BY <1>2, <1>3, <1>4, StepShape

\* A watcher that applies the batches to a snapshot holds the store: at every
\* revision still readable the batch says of each key what a read of it says,
\* in such a workload.
THEOREM BatchesTellTheStory ==
  ASSUME ReadsFirst
  PROVE  Spec => []LogExplainsHistory
<1>1. Init => Explained
  BY DEF Init, Explained
<1>2. Explained /\ LeaseInv /\ [Next]_vars => Explained'
  BY StepExplained
<1> QED
  BY <1>1, <1>2, ExplainedIsStory, LeaseInvariant, PTL DEF Spec
-----------------------------------------------------------------------------
(* One write, one identity.                                                *)

\* The older version was created before, or in the same life it comes before.
Precedes(old, new) ==
  \/ old.create_revision < new.create_revision
  \/ old.create_revision = new.create_revision /\ old.version < new.version

\* The versions of a key follow each other life by life, each created no later
\* than it was written.
LifeByLife(versions) ==
  /\ \A i, j \in DOMAIN versions : i < j => Precedes(versions[i], versions[j])
  /\ \A i \in DOMAIN versions : versions[i].create_revision <= versions[i].mod_revision

LEMMA AppendLife ==
  ASSUME NEW versions \in Seq(Version), LifeByLife(versions), NEW v \in Version,
         v.create_revision <= v.mod_revision,
         \A i \in DOMAIN versions : Precedes(versions[i], v)
  PROVE  LifeByLife(Append(versions, v))
<1> DEFINE longer == Append(versions, v)
           n == Len(versions)
<1>1. /\ n \in Nat /\ DOMAIN versions = 1..n /\ DOMAIN longer = 1..(n + 1)
      /\ \A i \in 1..n : longer[i] = versions[i]
      /\ longer[n + 1] = v
  BY AppendProperties
<1> HIDE DEF longer, n
<1>2. ASSUME NEW i \in DOMAIN longer, NEW j \in DOMAIN longer, i < j
      PROVE  Precedes(longer[i], longer[j])
  <2>1. i \in 1..n /\ j \in 1..(n + 1)
    BY <1>1, <1>2
  <2>2. CASE j = n + 1
    BY <1>1, <2>1, <2>2
  <2>3. CASE j # n + 1
    <3>1. j \in 1..n
      BY <1>1, <2>1, <2>3
    <3> QED
      BY <1>1, <1>2, <2>1, <3>1 DEF LifeByLife
  <2> QED
    BY <2>2, <2>3
<1>3. ASSUME NEW i \in DOMAIN longer
      PROVE  longer[i].create_revision <= longer[i].mod_revision
  <2>1. CASE i = n + 1
    BY <1>1, <2>1
  <2>2. CASE i # n + 1
    <3>1. i \in 1..n
      BY <1>1, <2>2
    <3> QED
      BY <1>1, <3>1 DEF LifeByLife
  <2> QED
    BY <2>1, <2>2
<1> QED
  BY <1>2, <1>3 DEF LifeByLife, longer

LEMMA SuffixLife ==
  ASSUME NEW versions \in Seq(Version), LifeByLife(versions), NEW base \in 1..Len(versions)
  PROVE  LifeByLife(SubSeq(versions, base, Len(versions)))
<1> DEFINE kept == SubSeq(versions, base, Len(versions))
<1>1. /\ kept \in Seq(Version)
      /\ \A i \in 1..Len(kept) : /\ base + i - 1 \in 1..Len(versions)
                                 /\ kept[i] = versions[base + i - 1]
  BY Suffix
<1>2. DOMAIN kept = 1..Len(kept) /\ DOMAIN versions = 1..Len(versions)
  BY <1>1
<1> HIDE DEF kept
<1>3. ASSUME NEW i \in DOMAIN kept, NEW j \in DOMAIN kept, i < j
      PROVE  Precedes(kept[i], kept[j])
  <2>1. base + i - 1 < base + j - 1
    BY <1>2, <1>3
  <2>2. kept[i] = versions[base + i - 1] /\ kept[j] = versions[base + j - 1]
    BY <1>1, <1>2
  <2>3. base + i - 1 \in DOMAIN versions /\ base + j - 1 \in DOMAIN versions
    BY <1>1, <1>2
  <2> QED
    BY <2>1, <2>2, <2>3 DEF LifeByLife
<1>4. ASSUME NEW i \in DOMAIN kept
      PROVE  kept[i].create_revision <= kept[i].mod_revision
  <2>1. kept[i] = versions[base + i - 1] /\ base + i - 1 \in DOMAIN versions
    BY <1>1, <1>2
  <2> QED
    BY <2>1 DEF LifeByLife
<1> QED
  BY <1>3, <1>4 DEF LifeByLife, kept

\* What continues the life of a key comes after every version it has.
LEMMA ContinuesLife ==
  ASSUME LeaseInv, NEW k \in Keys, LifeByLife(history[k]), NEW v \in Version,
         Continues(k, v), v.mod_revision = revision + 1
  PROVE  /\ v.create_revision <= v.mod_revision
         /\ \A i \in DOMAIN history[k] : Precedes(history[k][i], v)
<1> DEFINE versions == history[k]
           n == Len(versions)
           last == versions[n]
<1>1. /\ versions \in Seq(Version) /\ revision \in Nat /\ n \in Nat
      /\ DOMAIN versions = 1..n
  BY DEF LeaseInv, TypeOK
<1>2. \A i \in 1..n : /\ versions[i] \in Version
                      /\ versions[i].mod_revision <= revision
                      /\ versions[i].create_revision <= versions[i].mod_revision
  BY <1>1 DEF LeaseInv, AllCommitted, LifeByLife
<1>3. Current(k) = IF versions = <<>> THEN Absent ELSE Shown(last)
  <2>1. NoneAfter(versions, revision)
    BY <1>1, <1>2 DEF NoneAfter
  <2> QED
    BY <1>1, <2>1, CurrentIsRead, ReadLast
<1>4. CASE Live(k)
  <2>1. versions # <<>> /\ last.value # None /\ Current(k) = last
    BY <1>3, <1>4 DEF Live, Shown, Absent
  <2>2. n \in 1..n /\ last \in Version
    BY <1>1, <1>2, <2>1
  <2>3. v.create_revision = last.create_revision /\ v.version = last.version + 1
    BY <1>4, <2>1 DEF Continues
  <2>4. ASSUME NEW i \in 1..n
        PROVE  Precedes(versions[i], v)
    <3>1. versions[i] \in Version
      BY <1>2
    <3>2. CASE i = n
      BY <2>2, <2>3, <3>2 DEF Precedes, Version
    <3>3. CASE i # n
      <4>1. Precedes(versions[i], last)
        BY <1>1, <2>2, <3>3 DEF LifeByLife
      <4> QED
        <5> DEFINE early == versions[i]
        <5>1. /\ early.create_revision \in Nat /\ early.version \in Nat
              /\ last.create_revision \in Nat /\ last.version \in Nat
          BY <2>2, <3>1 DEF Version
        <5> HIDE DEF early, last
        <5> QED
          BY <2>3, <4>1, <5>1 DEF Precedes, early
    <3> QED
      BY <3>2, <3>3
  <2>5. v.create_revision <= v.mod_revision
    <3>1. last.create_revision <= last.mod_revision /\ last.mod_revision <= revision
      BY <1>2, <2>2
    <3>2. /\ last.create_revision \in Nat /\ last.mod_revision \in Nat
          /\ revision \in Nat
      BY <2>2 DEF Version, LeaseInv, TypeOK
    <3> HIDE DEF last
    <3> QED
      BY <2>3, <3>1, <3>2
  <2> QED
    BY <1>1, <2>4, <2>5
<1>5. CASE ~Live(k)
  <2>1. v.create_revision = revision + 1
    BY <1>5 DEF Continues
  <2>2. ASSUME NEW i \in 1..n
        PROVE  Precedes(versions[i], v)
    <3>1. /\ versions[i] \in Version /\ versions[i].mod_revision <= revision
          /\ versions[i].create_revision <= versions[i].mod_revision
      BY <1>2
    <3>2. versions[i].create_revision \in Nat /\ versions[i].mod_revision \in Nat
      BY <3>1 DEF Version
    <3>3. versions[i].create_revision < revision + 1
      BY <1>1, <3>1, <3>2
    <3> QED
      BY <2>1, <3>3 DEF Precedes
  <2> QED
    BY <1>1, <2>1, <2>2
<1> QED
  BY <1>4, <1>5

EveryLife == \A k \in Keys : LifeByLife(history[k])

LEMMA StepLife ==
  ASSUME ReadsFirst, LeaseInv, [Next]_vars, EveryLife
  PROVE  EveryLife'
<1>1. ASSUME NEW k \in Keys
      PROVE  history[k] \in Seq(Version) /\ LifeByLife(history[k])
  BY DEF LeaseInv, TypeOK, EveryLife
<1>2. ASSUME NEW W \in SUBSET Keys, NEW v \in [W -> Version], Commits(W, v), NEW k \in Keys
      PROVE  LifeByLife(history'[k])
  <2>1. CASE k \in W
    <3>1. v[k] \in Version /\ v[k].mod_revision = revision + 1 /\ Continues(k, v[k])
      BY <1>2, <2>1 DEF Commits, Grows
    <3>2. history'[k] = Append(history[k], v[k])
      BY <1>2, <2>1 DEF Commits, Grows
    <3>3. /\ v[k].create_revision <= v[k].mod_revision
          /\ \A i \in DOMAIN history[k] : Precedes(history[k][i], v[k])
      BY <1>1, <3>1, ContinuesLife
    <3> QED
      BY <1>1, <3>1, <3>2, <3>3, AppendLife
  <2>2. CASE k \notin W
    BY <1>1, <1>2, <2>2 DEF Commits, Grows
  <2> QED
    BY <2>1, <2>2
<1>3. ASSUME NEW rev \in 1..revision, Compact(rev), NEW k \in Keys
      PROVE  LifeByLife(history'[k])
  <2> DEFINE base == Newest(history[k], rev)
  <2>1. history'[k] = IF base = 0 THEN history[k]
                      ELSE SubSeq(history[k], base, Len(history[k]))
    BY <1>3 DEF Compact
  <2>2. base # 0 => base \in 1..Len(history[k])
    BY <1>1, NewestProperties
  <2> HIDE DEF base
  <2> QED
    BY <1>1, <2>1, <2>2, SuffixLife
<1>4. ASSUME UNCHANGED <<history, revision, log, compacted>>, NEW k \in Keys
      PROVE  LifeByLife(history'[k])
  BY <1>1, <1>4
<1>5. \A k \in Keys : LifeByLife(history'[k])
  BY <1>2, <1>3, <1>4, StepShape
<1> QED
  BY <1>5 DEF EveryLife

LEMMA LivesIdentify ==
  ASSUME TypeOK, EveryLife
  PROVE  WritesIdentified
<1> SUFFICES ASSUME NEW k \in Keys, NEW i \in DOMAIN history[k], NEW j \in DOMAIN history[k],
                    history[k][i].create_revision = history[k][j].create_revision,
                    history[k][i].version = history[k][j].version
             PROVE  i = j
  BY DEF WritesIdentified
<1>1. history[k] \in Seq(Version) /\ i \in Nat /\ j \in Nat
  BY DEF TypeOK
<1>2. history[k][i] \in Version /\ history[k][j] \in Version
  BY <1>1
<1>3. ~Precedes(history[k][i], history[k][j]) /\ ~Precedes(history[k][j], history[k][i])
  BY <1>2 DEF Precedes, Version
<1>4. ~(i < j) /\ ~(j < i)
  BY <1>3 DEF EveryLife, LifeByLife
<1> QED
  BY <1>1, <1>4

\* A compare on create_revision and version names one write: no commit, expiry
\* or compaction leaves a key two versions that agree in both, in such a
\* workload, so a claim cannot take a key created again for the one it read.
THEOREM WritesNeverConfused ==
  ASSUME ReadsFirst
  PROVE  Spec => []WritesIdentified
<1>1. Init => EveryLife
  BY DEF Init, EveryLife, LifeByLife
<1>2. EveryLife /\ LeaseInv /\ [Next]_vars => EveryLife'
  BY StepLife
<1>3. EveryLife /\ LeaseInv => WritesIdentified
  BY LivesIdentify DEF LeaseInv
<1> QED
  BY <1>1, <1>2, <1>3, LeaseInvariant, PTL DEF Spec
-----------------------------------------------------------------------------
(* Claims.  A compare with 0 holds only of an absent key because a live one  *)
(* has positive numbers.                                                     *)

Numbered ==
  \A k \in Keys : Live(k) => Current(k).create_revision > 0 /\ Current(k).version > 0

LEMMA CurrentType ==
  ASSUME TypeOK, NEW k \in Keys
  PROVE  Current(k) \in Version /\ (~Live(k) => Current(k) = Absent)
<1>1. Current(k) \in Version
  BY KeyValueAtType DEF TypeOK, Current
<1> QED
  BY <1>1 DEF Live, Current, KeyValueAt

LEMMA StepNumbered ==
  ASSUME ReadsFirst, LeaseInv, [Next]_vars, Numbered
  PROVE  Numbered'
<1>1. TypeOK /\ AllCommitted /\ revision \in Nat
  BY DEF LeaseInv, TypeOK
<1>2. ASSUME NEW W \in SUBSET Keys, NEW v \in [W -> Version], Commits(W, v)
      PROVE  Numbered'
  <2>1. Grows(W, v)
    BY <1>2 DEF Commits
  <2>2. \A k \in Keys : Current(k)' = IF k \in W THEN Shown(v[k]) ELSE Current(k)
    BY <1>1, <2>1, GrowCurrent, Zenon
  <2>3. ASSUME NEW k \in W
        PROVE  v[k].create_revision > 0 /\ v[k].version > 0
    <3>1. Continues(k, v[k]) /\ k \in Keys
      BY <2>1 DEF Grows
    <3>2. Current(k) \in Version
      BY <1>1, <3>1, CurrentType
    <3>3. Current(k).version \in Nat
      BY <3>2 DEF Version
    <3> QED
      BY <1>1, <3>1, <3>3 DEF Continues, Numbered
  <2>4. ASSUME NEW k \in Keys, Live(k)'
        PROVE  Current(k)'.create_revision > 0 /\ Current(k)'.version > 0
    <3>1. CASE k \in W
      <4>1. Current(k)' = Shown(v[k])
        BY <2>2, <3>1
      <4>2. Current(k)' = v[k]
        BY <2>4, <4>1 DEF Live, Shown, Absent
      <4> QED
        BY <2>3, <3>1, <4>2
    <3>2. CASE k \notin W
      <4>1. Current(k)' = Current(k)
        BY <2>2, <3>2
      <4> QED
        BY <2>4, <4>1 DEF Live, Numbered
    <3> QED
      BY <3>1, <3>2
  <2> QED
    BY <2>4 DEF Numbered
<1>3. ASSUME \A k \in Keys : Current(k)' = Current(k)
      PROVE  Numbered'
  BY <1>3 DEF Numbered, Live
<1>4. ASSUME UNCHANGED <<history, revision, log, compacted>>
      PROVE  \A k \in Keys : Current(k)' = Current(k)
  BY <1>4 DEF Current, KeyValueAt
<1> QED
  BY <1>2, <1>3, <1>4, StepShape, CompactReads

LEMMA InitNumbered == Init => Numbered
<1> SUFFICES ASSUME Init, NEW k \in Keys
             PROVE  ~Live(k)
  BY DEF Numbered
<1>1. history[k] = <<>>
  BY DEF Init
<1>2. DOMAIN <<>> = {}
  OBVIOUS
<1>3. Newest(<<>>, revision) = 0
  BY <1>2 DEF Newest
<1> QED
  BY <1>1, <1>3 DEF Live, Current, KeyValueAt, Absent

\* A key whose compare on absence held is absent.
LEMMA AbsenceSeen ==
  ASSUME TypeOK, Numbered, NEW k \in Keys, NEW compare, OnAbsence(compare, k), Holds(compare)
  PROVE  Current(k) = Absent
<1>1. Current(k)[compare.target] = 0
  BY DEF OnAbsence, Holds, Actual
<1>2. ~Live(k)
  BY <1>1 DEF OnAbsence, Numbered
<1> QED
  BY <1>2, CurrentType

KeepsClaims ==
  \A k \in Keys : Current(k).lease # NoLease /\ Current(k)'.lease # NoLease
    => Current(k)'.lease = Current(k).lease

LEMMA StepClaims ==
  ASSUME ReadsFirst, ClaimsCompare, LeaseInv, Numbered, [Next]_vars
  PROVE  KeepsClaims
<1>1. TypeOK /\ AllCommitted
  BY DEF LeaseInv
<1>2. ASSUME \A k \in Keys : Current(k)' = Current(k)
      PROVE  KeepsClaims
  BY <1>2 DEF KeepsClaims
<1>3. ASSUME UNCHANGED <<history, revision>>
      PROVE  KeepsClaims
  BY <1>2, <1>3 DEF Current, KeyValueAt
<1>4. ASSUME NEW txn \in Txns, Transact(txn)
      PROVE  KeepsClaims
  <2>1. PICK W \in SUBSET Keys : \E v \in [W -> Version] :
               /\ Commits(W, v)
               /\ \A k \in W : \/ Shown(v[k]).lease = NoLease
                               \/ \E i \in DOMAIN Branch(txn) : Claims(Branch(txn)[i], k)
    BY <1>4, TransactCommits
  <2>2. PICK v \in [W -> Version] :
               /\ Commits(W, v)
               /\ \A k \in W : \/ Shown(v[k]).lease = NoLease
                               \/ \E i \in DOMAIN Branch(txn) : Claims(Branch(txn)[i], k)
    BY <2>1
  <2>3. \A k \in Keys : Current(k)' = IF k \in W THEN Shown(v[k]) ELSE Current(k)
    <3>1. Grows(W, v)
      BY <2>2 DEF Commits
    <3> QED
      BY <1>1, <3>1, GrowCurrent, Zenon
  <2>4. ASSUME NEW k \in Keys, NEW i \in DOMAIN Branch(txn), Claims(Branch(txn)[i], k)
        PROVE  Current(k).lease = NoLease
    <3>1. Succeeded(txn.compares) /\ Branch(txn) = txn.success
      BY <2>4 DEF Branch, ClaimsCompare
    <3>2. PICK j \in DOMAIN txn.compares : OnAbsence(txn.compares[j], k)
      BY <2>4, <3>1 DEF ClaimsCompare
    <3>3. Holds(txn.compares[j])
      BY <3>1 DEF Succeeded
    <3> QED
      BY <1>1, <3>2, <3>3, AbsenceSeen DEF Absent
  <2> QED
    BY <2>2, <2>3, <2>4 DEF KeepsClaims
<1>5. ASSUME NEW lease \in Nat, ExpireLeaseKeys(lease), compacted' = compacted
      PROVE  KeepsClaims
  <2> DEFINE held == {k \in Keys : Live(k) /\ Current(k).lease = lease}
  <2>1. \/ held = {} /\ UNCHANGED store
        \/ \E v \in [held -> Version] :
             Commits(held, v) /\ \A k \in held : Shown(v[k]) = Absent
    BY <1>5, ExpireCommits
  <2> HIDE DEF held
  <2>2. ASSUME NEW v \in [held -> Version], Commits(held, v),
               \A k \in held : Shown(v[k]) = Absent
        PROVE  KeepsClaims
    <3>1. Grows(held, v)
      BY <2>2 DEF Commits
    <3>2. \A k \in Keys : Current(k)' = IF k \in held THEN Shown(v[k]) ELSE Current(k)
      BY <1>1, <3>1, GrowCurrent, Zenon
    <3> QED
      BY <2>2, <3>2 DEF KeepsClaims, Absent
  <2> QED
    BY <1>3, <2>1, <2>2 DEF store
<1>6. ASSUME NEW lease \in DOMAIN leases, RevokeLease(lease)
      PROVE  KeepsClaims
  BY <1>5, <1>6 DEF RevokeLease, LeaseInv, TypeOK
<1>7. ASSUME ExpireNext
      PROVE  KeepsClaims
  <2> DEFINE lease == Min(expired)
  <2>1. ExpireLeaseKeys(lease) /\ expired # {} /\ compacted' = compacted
    BY <1>7 DEF ExpireNext
  <2>2. expired \in SUBSET Nat
    BY DEF LeaseInv, TypeOK
  <2>3. lease \in Nat
    BY <2>1, <2>2, MinProperties
  <2> HIDE DEF lease
  <2> QED
    BY <1>5, <2>1, <2>3
<1>8. ASSUME NEW rev \in 1..revision, Compact(rev)
      PROVE  KeepsClaims
  BY <1>2, <1>8, CompactReads
<1>9. ASSUME NEW w \in Watches, BeginWatch(w) \/ Deliver(w) \/ CancelWatch(w)
      PROVE  KeepsClaims
  BY <1>3, <1>9 DEF BeginWatch, Deliver, CancelWatch
<1>10. ASSUME NEW w \in Watches, NEW range \in WatchRanges,
              NEW from \in 1..(revision + Ahead), Watch(w, range, from)
       PROVE  KeepsClaims
  BY <1>3, <1>10 DEF Watch
<1>11. ASSUME NEW ttl \in TTLs, GrantLease(ttl)
       PROVE  KeepsClaims
  BY <1>3, <1>11 DEF GrantLease, store
<1>12. ASSUME NEW lease \in DOMAIN leases, KeepAlive(lease)
       PROVE  KeepsClaims
  BY <1>3, <1>12 DEF KeepAlive, store
<1>13. ASSUME NEW seconds \in TimeSteps, AdvanceTime(seconds)
       PROVE  KeepsClaims
  BY <1>3, <1>13 DEF AdvanceTime, store
<1>14. ASSUME Close \/ UNCHANGED vars
       PROVE  KeepsClaims
  BY <1>3, <1>14 DEF Close, vars, store
<1> QED
  BY <1>4, <1>6, <1>7, <1>8, <1>9, <1>10, <1>11, <1>12, <1>13, <1>14 DEF Next

\* A claim keeps its owner: where a key is put under a lease only by a
\* transaction that found it absent, no step takes a claimed key from one lease
\* to another.  The compare and the put are one step, and what the compare
\* reads is the key's newest version (_compare_unlocked, transaction).
THEOREM ClaimsKeepOwners ==
  ASSUME ReadsFirst, ClaimsCompare
  PROVE  Spec => ClaimExclusive
<1>1. Numbered /\ LeaseInv /\ [Next]_vars => Numbered'
  BY StepNumbered
<1>2. Numbered /\ LeaseInv /\ [Next]_vars => [KeepsClaims]_vars
  BY StepClaims
<1> QED
  BY <1>1, <1>2, InitNumbered, LeaseInvariant, PTL DEF Spec, ClaimExclusive, KeepsClaims
=============================================================================
