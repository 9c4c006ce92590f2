--------------------------- MODULE ReconcileProofs ---------------------------
(***************************************************************************)
(* What a reader of the in-memory backend holds, for any range, page size, *)
(* keys, transactions that read before they write, and number of broken    *)
(* watches: never a torn mirror, and the present once its watch has        *)
(* nothing more for it.                                                    *)
(***************************************************************************)
EXTENDS Reconcile, FakeEtcdWatchProofs, FiniteSetTheorems

-----------------------------------------------------------------------------
(* The story of a key, as the batches tell it.                             *)

Named(batch, k) == \E e \in batch : e.key = k
Value(batch, k) == (CHOOSE e \in batch : e.key = k).value
Naming(told, k, rev) == {r \in 1..rev : Named(told[r], k)}

Story(told, k, rev) ==
  IF Naming(told, k, rev) = {} THEN None ELSE Value(told[Max(Naming(told, k, rev))], k)

IsFollowed(k) == KeyInRange(k, Followed.start, Followed.end)

\* The range at a revision, as the batches told tell it.
Tell(told, rev) ==
  [k \in Keys |-> IF IsFollowed(k) THEN Story(told, k, rev) ELSE None]

LEMMA ToldIsTell == \A rev : Told(rev) = Tell(log, rev)
BY DEF Told, Tell, IsFollowed, Story, Naming, Named, Value

\* The latest batch that names the key is one that names it.
LEMMA LatestNaming ==
  ASSUME NEW told, NEW k, NEW rev \in Nat, Naming(told, k, rev) # {}
  PROVE  /\ Max(Naming(told, k, rev)) \in Naming(told, k, rev)
         /\ \A r \in Naming(told, k, rev) : r <= Max(Naming(told, k, rev))
<1>1. Naming(told, k, rev) \in SUBSET (0..rev)
  BY DEF Naming
<1> QED
  BY <1>1, MaxProperties

LEMMA StoryNamed ==
  ASSUME NEW told, NEW k, NEW rev \in Nat, rev >= 1, Named(told[rev], k)
  PROVE  Story(told, k, rev) = Value(told[rev], k)
<1>1. rev \in Naming(told, k, rev)
  BY DEF Naming
<1>2. Max(Naming(told, k, rev)) = rev
  <2>1. /\ Max(Naming(told, k, rev)) \in Naming(told, k, rev)
        /\ rev <= Max(Naming(told, k, rev))
    BY <1>1, LatestNaming
  <2> QED
    BY <2>1 DEF Naming
<1> QED
  BY <1>1, <1>2 DEF Story

LEMMA StoryUnnamed ==
  ASSUME NEW told, NEW k, NEW old \in Nat, NEW new \in Nat, old <= new,
         \A r \in (old + 1)..new : ~Named(told[r], k)
  PROVE  Story(told, k, new) = Story(told, k, old)
<1>1. Naming(told, k, new) = Naming(told, k, old)
  BY DEF Naming
<1> QED
  BY <1>1 DEF Story

LEMMA StorySame ==
  ASSUME NEW old, NEW new, NEW k, NEW rev \in Nat, \A r \in 1..rev : new[r] = old[r]
  PROVE  Story(new, k, rev) = Story(old, k, rev)
<1>1. Naming(new, k, rev) = Naming(old, k, rev)
  BY DEF Naming
<1>2. Naming(old, k, rev) # {} => Max(Naming(old, k, rev)) \in 1..rev
  BY LatestNaming DEF Naming
<1> QED
  BY <1>1, <1>2 DEF Story

LEMMA TellSame ==
  ASSUME NEW old, NEW new, NEW rev \in Nat, \A r \in 1..rev : new[r] = old[r]
  PROVE  Tell(new, rev) = Tell(old, rev)
<1>1. \A k \in Keys : Story(new, k, rev) = Story(old, k, rev)
  BY StorySame
<1> QED
  BY <1>1 DEF Tell

\* Applying a batch to what was told of an earlier revision tells of its own,
\* when no batch in between touches the range.
LEMMA AppliedTold ==
  ASSUME NEW told, NEW at \in Nat, NEW r \in Nat, r >= 1, at <= r,
         \A s \in (at + 1)..(r - 1) : ~Touches(told[s], Followed)
  PROVE  Applied(Tell(told, at), told[r]) = Tell(told, r)
<1> DEFINE applied == Applied(Tell(told, at), told[r])
<1>1. ASSUME NEW k \in Keys
      PROVE  applied[k] = Tell(told, r)[k]
  <2>1. /\ applied[k] = IF IsFollowed(k) /\ Named(told[r], k) THEN Value(told[r], k)
                        ELSE Tell(told, at)[k]
        /\ \A rev : Tell(told, rev)[k] = IF IsFollowed(k) THEN Story(told, k, rev) ELSE None
    BY DEF Applied, Tell, IsFollowed, Named, Value
  <2> HIDE DEF applied
  <2>2. CASE ~IsFollowed(k)
    BY <2>1, <2>2
  <2>3. CASE IsFollowed(k) /\ Named(told[r], k)
    BY <2>1, <2>3, StoryNamed
  <2>4. CASE IsFollowed(k) /\ ~Named(told[r], k)
    <3>1. \A s \in (at + 1)..r : ~Named(told[s], k)
      <4>1. \A s \in (at + 1)..(r - 1) : ~Named(told[s], k)
        BY <2>4 DEF Touches, IsFollowed, Named
      <4>2. \A s \in (at + 1)..r : s = r \/ s \in (at + 1)..(r - 1)
        OBVIOUS
      <4> QED
        BY <2>4, <4>1, <4>2
    <3>2. Story(told, k, r) = Story(told, k, at)
      BY <3>1, StoryUnnamed
    <3> QED
      BY <2>1, <2>4, <3>2
  <2> QED
    BY <2>2, <2>3, <2>4
<1>2. applied = [k \in Keys |-> applied[k]]
  BY DEF Applied
<1>3. Tell(told, r) = [k \in Keys |-> Tell(told, r)[k]]
  BY DEF Tell
<1> HIDE DEF applied
<1>4. applied = Tell(told, r)
  BY <1>1, <1>2, <1>3
<1> QED
  BY <1>4 DEF applied
-----------------------------------------------------------------------------
(* The story and the store.                                                *)

\* At every revision still readable the batches since the first tell of a key
\* what a read of it says.
Tale ==
  \A k \in Keys : \A r \in compacted..revision :
    Story(log, k, r) = Read(history[k], r).value

LEMMA InitTale == Init => Tale
<1> SUFFICES ASSUME Init, NEW k \in Keys, NEW r \in compacted..revision
             PROVE  Story(log, k, r) = Read(history[k], r).value
  BY DEF Tale
<1>1. r = 0 /\ history[k] = <<>>
  BY DEF Init
<1>2. Naming(log, k, r) = {}
  BY <1>1 DEF Naming
<1>3. Newest(history[k], r) = 0
  BY <1>1 DEF Newest
<1> QED
  BY <1>2, <1>3 DEF Story, Read, Absent

\* A step adds at most one revision and leaves the batches before it.
LEMMA StepLog ==
  ASSUME ReadsFirst, LeaseInv, Len(log) = revision, [Next]_vars
  PROVE  /\ \/ revision' = revision
            \/ revision' = revision + 1 /\ compacted' = compacted
         /\ compacted' \in Nat /\ compacted' >= compacted
         /\ \A s \in 1..revision : log'[s] = log[s]
<1>1. revision \in Nat /\ compacted \in Nat /\ log \in Seq(SUBSET Event)
  BY DEF LeaseInv, TypeOK
<1>2. ASSUME NEW W \in SUBSET Keys, NEW v \in [W -> Version], Commits(W, v)
      PROVE  /\ revision' = revision + 1 /\ compacted' = compacted
             /\ \A s \in 1..revision : log'[s] = log[s]
  <2> DEFINE batch == {[key |-> x, value |-> v[x].value] : x \in W}
  <2>1. log' = Append(log, batch) /\ revision' = revision + 1 /\ compacted' = compacted
    BY <1>2 DEF Commits, Grows
  <2>2. batch \in SUBSET Event
    BY DEF Event, Version
  <2> HIDE DEF batch
  <2> QED
    BY <1>1, <2>1, <2>2, AppendProperties
<1>3. ASSUME NEW rev \in 1..revision, Compact(rev)
      PROVE  /\ revision' = revision /\ log' = log
             /\ compacted' \in compacted..revision
  BY <1>1, <1>3 DEF Compact
<1>4. ASSUME UNCHANGED <<history, revision, log, compacted>>
      PROVE  revision' = revision /\ log' = log /\ compacted' = compacted
  BY <1>4
<1> QED
  BY <1>1, <1>2, <1>3, <1>4, StepShape
LEMMA StepTale ==
  ASSUME ReadsFirst, LeaseInv, LeaseInv', Explained, Explained', compacted <= revision,
         [Next]_vars, Tale
  PROVE  Tale'
<1>1. /\ revision \in Nat /\ compacted \in Nat /\ Len(log) = revision
      /\ revision' \in Nat /\ compacted' \in Nat
  BY DEF LeaseInv, TypeOK, Explained
<1>2. /\ \/ revision' = revision
         \/ revision' = revision + 1 /\ compacted' = compacted
      /\ compacted' >= compacted
      /\ \A s \in 1..revision : log'[s] = log[s]
  BY <1>1, StepLog
<1>3. ASSUME NEW k \in Keys, NEW r \in compacted'..revision
      PROVE  Story(log', k, r) = Read(history'[k], r).value
  <2>1. r \in compacted..revision /\ r \in Nat /\ \A s \in 1..r : log'[s] = log[s]
    BY <1>1, <1>2
  <2>2. Story(log', k, r) = Story(log, k, r)
    BY <2>1, StorySame
  <2>3. Read(history'[k], r) = Read(history[k], r)
    BY StepReads
  <2> QED
    BY <2>1, <2>2, <2>3 DEF Tale
<1>4. ASSUME revision' = revision + 1, compacted' = compacted, NEW k \in Keys
      PROVE  Story(log', k, revision + 1) = Read(history'[k], revision + 1).value
  <2> DEFINE top == revision + 1
  <2>1. /\ top \in Nat /\ top >= 1 /\ top - 1 = revision /\ revision <= top
        /\ top \in (compacted' + 1)..revision' /\ \A s \in (revision + 1)..top : s = top
    BY <1>1, <1>4
  <2> SUFFICES Story(log', k, top) = Read(history'[k], top).value
    OBVIOUS
  <2> HIDE DEF top
  <2>2. Tells(log'[top], k, history'[k], top)
    BY <2>1 DEF Explained
  <2>3. CASE Named(log'[top], k)
    <3>1. Story(log', k, top) = Value(log'[top], k)
      BY <2>1, <2>3, StoryNamed
    <3>2. PICK e \in log'[top] : e.key = k /\ Value(log'[top], k) = e.value
      BY <2>3 DEF Named, Value
    <3>3. e.value = Read(history'[k], top).value
      BY <2>2, <3>2 DEF Tells
    <3> QED
      BY <3>1, <3>2, <3>3
  <2>4. CASE ~Named(log'[top], k)
    <3>1. Story(log', k, top) = Story(log', k, revision)
      BY <1>1, <2>1, <2>4, StoryUnnamed
    <3>2. Read(history'[k], top) = Read(history'[k], revision)
      BY <2>1, <2>2, <2>4 DEF Tells, Named
    <3>3. Story(log', k, revision) = Read(history'[k], revision).value
      BY <1>1, <1>3, <1>4
    <3> QED
      BY <3>1, <3>2, <3>3
  <2> QED
    BY <2>3, <2>4
<1>5. ASSUME NEW r \in compacted'..revision'
      PROVE  \/ r \in compacted'..revision
             \/ r = revision + 1 /\ revision' = revision + 1 /\ compacted' = compacted
  BY <1>1, <1>2
<1> QED
  BY <1>3, <1>4, <1>5 DEF Tale

LEMMA AlwaysTale ==
  ASSUME ReadsFirst
  PROVE  Spec => []Tale
<1>1. Init => Explained
  BY DEF Init, Explained
<1>2. Explained /\ LeaseInv /\ [Next]_vars => Explained'
  BY StepExplained
<1>3. /\ LeaseInv /\ LeaseInv' /\ Explained /\ Explained' /\ TypeOK /\ StreamInv
      /\ [Next]_vars /\ Tale
      => Tale'
  BY StepTale DEF StreamInv
<1> QED
  BY <1>1, <1>2, <1>3, InitTale, LeaseInvariant, StreamInvariant, PTL DEF Spec
-----------------------------------------------------------------------------
(* One page.                                                               *)

\* The first elements of a set, at most limit of them.
FirstOf(found, limit) ==
  {k \in found : limit = None \/ Cardinality({j \in found : j < k}) < limit}

\* What lies below an element of the page is in the page.
LEMMA PageDownward ==
  ASSUME NEW found \in SUBSET Nat, NEW limit \in Nat \cup {None},
         NEW k \in found, NEW p \in FirstOf(found, limit), k <= p
  PROVE  k \in FirstOf(found, limit)
<1>0. p \in found /\ \A j \in found : j \in Nat
  BY DEF FirstOf
<1>1. CASE limit = None
  BY <1>1 DEF FirstOf
<1>2. CASE limit # None
  <2> DEFINE below == {j \in found : j < p}
             lower == {j \in found : j < k}
  <2>1. IsFiniteSet(below)
    <3>1. below \in SUBSET Nat /\ p \in Nat
      BY <1>0
    <3>2. ASSUME NEW j \in below
          PROVE  j <= p
      BY <1>0
    <3> QED
      BY <3>1, <3>2, FS_BoundedSetOfNaturals
  <2>2. lower \in SUBSET below
    <3>1. \A j \in found : j < k => j < p
      BY <1>0
    <3> QED
      BY <3>1
  <2> HIDE DEF below, lower
  <2>3. IsFiniteSet(lower) /\ Cardinality(lower) <= Cardinality(below)
    BY <2>1, <2>2, FS_Subset
  <2>4. Cardinality(lower) \in Nat /\ Cardinality(below) \in Nat
    BY <2>1, <2>3, FS_CardinalityType
  <2>5. Cardinality(below) < limit
    BY <1>2 DEF FirstOf, below
  <2>6. Cardinality(lower) < limit
    BY <1>2, <2>3, <2>4, <2>5
  <2> QED
    BY <2>6 DEF FirstOf, lower
<1> QED
  BY <1>1, <1>2

\* A page with a limit above zero has an element when there is one.
LEMMA PageBegins ==
  ASSUME NEW found \in SUBSET Nat, NEW limit \in Nat \cup {None}, limit # 0, found # {}
  PROVE  \E p \in FirstOf(found, limit) : \A k \in found : p <= k
<1>1. PICK p \in found : \A k \in found : p <= k
  BY LeastExists
<1>2. {j \in found : j < p} = {}
  <2>1. ASSUME NEW j \in found
        PROVE  ~(j < p)
    <3>1. j \in Nat /\ p \in Nat
      OBVIOUS
    <3> QED
      BY <1>1, <3>1
  <2> QED
    BY <2>1
<1>3. Cardinality({j \in found : j < p}) = 0
  BY <1>2, FS_EmptySet
<1> QED
  BY <1>1, <1>3 DEF FirstOf, None

\* A page that leaves something out has a last element, below what it leaves
\* out.
LEMMA PageEnds ==
  ASSUME NEW found \in SUBSET Nat, NEW limit \in Nat \cup {None}, limit # 0,
         FirstOf(found, limit) # found
  PROVE  /\ Max(FirstOf(found, limit)) \in FirstOf(found, limit)
         /\ \A p \in FirstOf(found, limit) : p <= Max(FirstOf(found, limit))
         /\ \A k \in found : k <= Max(FirstOf(found, limit)) => k \in FirstOf(found, limit)
<1> DEFINE page == FirstOf(found, limit)
<1>1. page \subseteq found
  BY DEF FirstOf
<1>2. PICK out \in found : out \notin page
  BY <1>1
<1>3. \A p \in page : p < out
  <2>1. ASSUME NEW p \in page, out <= p
        PROVE  FALSE
    BY <1>2, <2>1, PageDownward
  <2>2. \A p \in page : p \in Nat /\ out \in Nat
    BY <1>1
  <2> HIDE DEF page
  <2> QED
    BY <2>1, <2>2
<1>4. page # {}
  BY <1>2, PageBegins
<1>5. out \in Nat /\ page \in SUBSET (0..out)
  <2>1. ASSUME NEW p \in page
        PROVE  p \in 0..out
    <3>1. p \in Nat /\ out \in Nat
      BY <1>1
    <3> HIDE DEF page
    <3> QED
      BY <1>3, <3>1
  <2> QED
    BY <2>1
<1>6. Max(page) \in page /\ \A p \in page : p <= Max(page)
  BY <1>4, <1>5, MaxProperties
<1> HIDE DEF page
<1>7. \A k \in found : k <= Max(page) => k \in page
  BY <1>6, PageDownward DEF page
<1> QED
  BY <1>6, <1>7 DEF page
-----------------------------------------------------------------------------
(* What the reader holds: r is a reader of a store at revision rev with      *)
(* batches told and watches ws.                                            *)

IsReader(r) ==
  r \in [phase : {"scan", "scanned", "follow", "broken", "over"},
         pin : Nat \cup {None}, next : Nat, mirror : {r.mirror}, at : Nat,
         watch : Watches \cup {None}, breaks : Nat]

\* The keys before the next page are as they stood at the pinned revision, the
\* others not yet read.
Scanning(r, told) ==
  /\ r.next >= Followed.start
  /\ r.pin = None \/ Followed.end = None => r.next = Followed.start
  /\ r.pin # None => r.pin = r.at
  /\ \A k \in Keys : r.mirror[k] = IF k < r.next THEN Tell(told, r.at)[k] ELSE None

\* The watch is of the range, and is to go on where the reader stands.
Follows(r, x) ==
  /\ x.phase \in {"called", "open"} /\ x.range = Followed
  /\ IF x.delivered = <<>> THEN x.from \in {r.at, r.at + 1}
     ELSE x.delivered[Len(x.delivered)] = r.at

Keeps(r, rev, told, ws) ==
  /\ IsReader(r)
  /\ r.mirror = [k \in Keys |-> r.mirror[k]]
  /\ r.at <= rev
  /\ r.phase = "scan" => Scanning(r, told)
  /\ r.phase = "scanned" => r.pin = r.at
  /\ r.phase \in {"scanned", "follow", "broken"} => r.mirror = Tell(told, r.at)
  /\ r.phase = "follow" => r.watch \in Watches /\ Follows(r, ws[r.watch])

ReaderOK == Keeps(reader, revision, log, watch)

LEMMA FollowedRange ==
  /\ Followed \in KeyRanges /\ Followed.start \in Nat /\ Followed.end \in Nat \cup {None}
  /\ \A k \in Keys : k \in Nat
BY ConstantsOK, ReaderConstantsOK DEF KeyRanges

\* A reader that is to scan from the start has read nothing, and the range
\* begins no earlier.
LEMMA FreshScans ==
  ASSUME NEW n \in Nat, NEW rev \in Nat, NEW told, NEW ws
  PROVE  Keeps([Fresh EXCEPT !.breaks = n], rev, told, ws)
<1> DEFINE r == [Fresh EXCEPT !.breaks = n]
<1>1. r = [phase |-> "scan", pin |-> None, next |-> Followed.start, mirror |-> NoValues,
           at |-> 0, watch |-> None, breaks |-> n]
  BY DEF Fresh
<1>2. ASSUME NEW k \in Keys
      PROVE  NoValues[k] = IF k < Followed.start THEN Tell(told, 0)[k] ELSE None
  <2>1. k < Followed.start => ~IsFollowed(k)
    BY FollowedRange DEF IsFollowed, KeyInRange, None
  <2> QED
    BY <2>1 DEF Tell, NoValues
<1>3. NoValues = [k \in Keys |-> NoValues[k]]
  BY DEF NoValues
<1> HIDE DEF r
<1>4. IsReader(r)
  BY <1>1, FollowedRange DEF IsReader
<1>5. Scanning(r, told)
  BY <1>1, <1>2, FollowedRange DEF Scanning
<1>6. Keeps(r, rev, told, ws)
  BY <1>1, <1>3, <1>4, <1>5 DEF Keeps
<1> QED
  BY <1>6 DEF r

\* Another revision, or another step of a watch that delivers nothing, takes
\* nothing from what the reader holds.
LEMMA KeepsOn ==
  ASSUME NEW r, NEW old, NEW new, NEW oldRev \in Nat, NEW newRev \in Nat, NEW ws, NEW vs,
         Keeps(r, oldRev, old, ws), oldRev <= newRev,
         \A s \in 1..oldRev : new[s] = old[s],
         \A w \in Watches : /\ vs[w].phase = ws[w].phase /\ vs[w].range = ws[w].range
                            /\ vs[w].from = ws[w].from /\ vs[w].delivered = ws[w].delivered
  PROVE  Keeps(r, newRev, new, vs)
<1>1. IsReader(r) /\ r.at \in Nat /\ r.at <= oldRev
  BY DEF Keeps, IsReader
<1>2. Tell(new, r.at) = Tell(old, r.at)
  BY <1>1, TellSame
<1>3. r.at <= newRev
  BY <1>1
<1>4. r.phase = "follow" => Follows(r, vs[r.watch])
  BY DEF Keeps, Follows
<1>5. r.phase = "scan" => Scanning(r, new)
  BY <1>2 DEF Keeps, Scanning
<1> QED
  BY <1>1, <1>2, <1>3, <1>4, <1>5 DEF Keeps
-----------------------------------------------------------------------------
(* The steps of the backend.                                               *)

\* No watch starts, ends or is handed anything.
Undisturbed ==
  \A w \in Watches : /\ watch'[w].phase = watch[w].phase /\ watch'[w].range = watch[w].range
                     /\ watch'[w].from = watch[w].from
                     /\ watch'[w].delivered = watch[w].delivered

LEMMA PublishUndisturbed ==
  ASSUME TypeOK, (\E batch : Publish(batch)) \/ UNCHANGED <<revision, log, events, watch>>
  PROVE  Undisturbed
<1>1. ASSUME NEW batch, Publish(batch), NEW w \in Watches
      PROVE  \/ watch'[w] = watch[w]
             \/ watch'[w] = [watch[w] EXCEPT !.queue = Append(@, revision + 1)]
  BY <1>1 DEF Publish
<1>2. \A w \in Watches : watch[w] \in Watcher
  BY DEF TypeOK
<1> QED
  BY <1>1, <1>2 DEF Undisturbed, Watcher

LEMMA BackendUndisturbed ==
  ASSUME TypeOK, BackendStep
  PROVE  Undisturbed
<1>1. ASSUME NEW txn \in Txns, Transact(txn)
      PROVE  Undisturbed
  BY <1>1, PublishUndisturbed DEF Transact
<1>2. ASSUME NEW lease, ExpireLeaseKeys(lease)
      PROVE  Undisturbed
  BY <1>2, ExpirePublishes, PublishUndisturbed
<1>3. ASSUME NEW lease, RevokeLease(lease)
      PROVE  Undisturbed
  BY <1>2, <1>3 DEF RevokeLease
<1>4. ASSUME ExpireNext
      PROVE  Undisturbed
  BY <1>2, <1>4 DEF ExpireNext
<1>5. ASSUME \/ \E rev \in 1..revision : Compact(rev)
             \/ \E ttl \in TTLs : GrantLease(ttl)
             \/ \E lease \in DOMAIN leases : KeepAlive(lease)
             \/ \E seconds \in TimeSteps : AdvanceTime(seconds)
      PROVE  Undisturbed
  <2>1. watch' = watch
    BY <1>5 DEF Compact, GrantLease, KeepAlive, AdvanceTime, store
  <2> QED
    BY <2>1 DEF Undisturbed
<1>6. ASSUME Close
      PROVE  Undisturbed
  <2>1. ASSUME NEW w \in Watches
        PROVE  \/ watch'[w] = watch[w]
               \/ watch'[w] = [watch[w] EXCEPT !.queue = Append(@, End), !.registered = FALSE]
    BY <1>6 DEF Close
  <2>2. \A w \in Watches : watch[w] \in Watcher
    BY DEF TypeOK
  <2> QED
    BY <2>1, <2>2 DEF Undisturbed, Watcher
<1> QED
  BY <1>1, <1>3, <1>4, <1>5, <1>6 DEF BackendStep

LEMMA BackendKeeps ==
  ASSUME ReadsFirst, LeaseInv, StreamInv, [Next]_vars, LeaseInv', ReaderOK,
         Undisturbed, UNCHANGED reader
  PROVE  ReaderOK'
<1>1. revision \in Nat /\ revision' \in Nat /\ Len(log) = revision
  BY DEF LeaseInv, TypeOK, StreamInv
<1>2. /\ revision' = revision \/ revision' = revision + 1
      /\ \A s \in 1..revision : log'[s] = log[s]
  BY <1>1, StepLog
<1>3. Keeps(reader, revision', log', watch')
  BY <1>1, <1>2, KeepsOn DEF ReaderOK, Undisturbed
<1> QED
  BY <1>3 DEF ReaderOK
-----------------------------------------------------------------------------
(* The steps of the reader.                                                *)

\* What is to be read from the next page on.
Wanted(told, next) == {k \in Keys : IsFollowed(k) /\ k >= next /\ told[k] # None}

\* A page goes on from where the last one ended, and says where to go on.
LEMMA PageAdds ==
  ASSUME NEW told, NEW mirror, NEW next \in Nat, NEW limit \in Nat \cup {None}, limit # 0,
         \A k \in Keys : ~IsFollowed(k) => told[k] = None,
         \A k \in Keys : mirror[k] = IF k < next THEN told[k] ELSE None,
         Followed.end = None => next = Followed.start,
         NEW page, page = FirstOf(Wanted(told, next), limit),
         NEW added, \A k \in Keys : added[k] = IF k \in page THEN told[k] ELSE mirror[k]
  PROVE  /\ page = Wanted(told, next) => \A k \in Keys : added[k] = told[k]
         /\ page # Wanted(told, next) =>
              /\ Max(page) \in Nat /\ Max(page) >= next /\ Followed.end # None
              /\ \A k \in Keys : added[k] = IF k < Max(page) + 1 THEN told[k] ELSE None
<1> DEFINE found == Wanted(told, next)
<1>1. found \in SUBSET Nat /\ page \subseteq found
  BY FollowedRange DEF FirstOf, Wanted
<1>2. ASSUME NEW k \in Keys, k \notin found
      PROVE  mirror[k] = told[k]
  <2>1. k >= next => told[k] = None
    BY <1>2 DEF Wanted
  <2>2. k \in Nat
    BY FollowedRange
  <2> QED
    BY <2>1, <2>2
<1>3. ASSUME page = found, NEW k \in Keys
      PROVE  added[k] = told[k]
  BY <1>2, <1>3
<1>4. ASSUME page # found
      PROVE  /\ Max(page) \in Nat /\ Max(page) >= next /\ Followed.end # None
             /\ \A k \in Keys : added[k] = IF k < Max(page) + 1 THEN told[k] ELSE None
  <2>1. /\ Max(page) \in page
        /\ \A p \in page : p <= Max(page)
        /\ \A k \in found : k <= Max(page) => k \in page
    BY <1>1, <1>4, PageEnds
  <2>2. Max(page) \in Nat /\ Max(page) >= next
    BY <1>1, <2>1 DEF Wanted
  <2>3. ASSUME Followed.end = None
        PROVE  FALSE
    <3>1. \A k \in found : k = Followed.start
      BY <2>3 DEF IsFollowed, KeyInRange, Wanted
    <3> QED
      BY <1>1, <1>4, <2>1, <3>1
  <2>4. ASSUME NEW k \in Keys
        PROVE  added[k] = IF k < Max(page) + 1 THEN told[k] ELSE None
    <3>0. k \in Nat
      BY FollowedRange
    <3>1. CASE k \in page
      <4>1. k <= Max(page)
        BY <2>1, <3>1
      <4> QED
        BY <2>2, <3>0, <3>1, <4>1
    <3>2. CASE k \notin page /\ k <= Max(page)
      <4>1. mirror[k] = told[k]
        BY <1>2, <2>1, <3>2
      <4> QED
        BY <2>2, <3>0, <3>2, <4>1
    <3>3. CASE k \notin page /\ ~(k <= Max(page))
      <4>1. mirror[k] = None
        BY <2>2, <3>0, <3>3
      <4> QED
        BY <2>2, <3>0, <3>3, <4>1
    <3> QED
      BY <3>1, <3>2, <3>3
  <2> QED
    BY <2>2, <2>3, <2>4
<1> QED
  BY <1>3, <1>4

\* What a page of the followed range is, when it is not refused.
LEMMA PageShown ==
  ASSUME Tale, compacted \in Nat, revision \in Nat, compacted <= revision,
         NEW next \in Nat, next >= Followed.start, Followed.end = None => next = Followed.start,
         NEW pin \in Nat \cup {None}, NEW request,
         request = [start |-> next, end |-> Followed.end, revision |-> pin, limit |-> Limit],
         ~RangeRaises(request),
         NEW at, at = ReadRevision(request),
         NEW page, page = FirstOf(Wanted(Tell(log, at), next), Limit),
         NEW result, result = RangeResult(request)
  PROVE  /\ at \in Nat /\ at <= revision /\ (pin # None => at = pin)
         /\ Limit # 0 /\ result.revision = at /\ DOMAIN result.values = page
         /\ \A k \in page : result.values[k].value = Tell(log, at)[k]
         /\ IF page = Wanted(Tell(log, at), next) THEN ~result.more
            ELSE result.more /\ result.next_key = Max(page) + 1
<1> DEFINE told == Tell(log, at)
           found == Wanted(told, next)
<1>1. /\ request.start = next /\ request.end = Followed.end /\ request.revision = pin
      /\ request.limit = Limit
  OBVIOUS
<1>2. Limit # 0 /\ (pin # None => at = pin) /\ at \in compacted..revision /\ at \in Nat
  BY <1>1 DEF RangeRaises, ReadRevision, None
<1>3. ASSUME NEW k \in Keys
      PROVE  /\ KeyInRange(k, next, Followed.end) <=> IsFollowed(k) /\ k >= next
             /\ IsFollowed(k) => told[k] = KeyValueAt(k, at).value
  <2>1. KeyInRange(k, next, Followed.end) <=> IsFollowed(k) /\ k >= next
    BY FollowedRange DEF KeyInRange, IsFollowed
  <2>2. Story(log, k, at) = KeyValueAt(k, at).value
    BY <1>2 DEF Tale, KeyValueAt, Read
  <2> QED
    BY <2>1, <2>2 DEF Tell
<1> HIDE DEF told
<1>4. found = {k \in Keys : /\ KeyInRange(k, next, Followed.end)
                            /\ KeyValueAt(k, at).value # None}
  BY <1>3 DEF Wanted
<1>5. /\ page = {k \in found : Limit = None \/ Cardinality({j \in found : j < k}) < Limit}
      /\ \A k \in page : k \in Keys /\ IsFollowed(k)
  BY DEF FirstOf, Wanted, told
<1> HIDE DEF found
<1>6. result = [values |-> [k \in page |-> KeyValueAt(k, at)], revision |-> at,
                more |-> page # found,
                next_key |-> IF page # found THEN Max(page) + 1 ELSE None]
  BY <1>1, <1>4, <1>5 DEF RangeResult, NextKey
<1>7. /\ result.values = [k \in page |-> KeyValueAt(k, at)] /\ result.revision = at
      /\ IF page = found THEN ~result.more
         ELSE result.more /\ result.next_key = Max(page) + 1
  <2>1. CASE page = found
    <3>1. result = [values |-> [k \in page |-> KeyValueAt(k, at)], revision |-> at,
                    more |-> FALSE, next_key |-> None]
      BY <1>6, <2>1
    <3>2. /\ result.values = [k \in page |-> KeyValueAt(k, at)] /\ result.revision = at
          /\ result.more = FALSE
      BY <3>1
    <3> QED
      BY <2>1, <3>2
  <2>2. CASE page # found
    <3>1. result = [values |-> [k \in page |-> KeyValueAt(k, at)], revision |-> at,
                    more |-> TRUE, next_key |-> Max(page) + 1]
      BY <1>6, <2>2
    <3> QED
      BY <2>2, <3>1
  <2> QED
    BY <2>1, <2>2
<1>8. /\ \A k \in page : result.values[k].value = told[k]
      /\ DOMAIN result.values = page
  BY <1>3, <1>5, <1>7
<1> QED
  BY <1>2, <1>7, <1>8 DEF found, told

LEMMA AgainKeeps ==
  ASSUME ReaderOK, NEW rev \in Nat, NEW told, NEW ws
  PROVE  Keeps(Again, rev, told, ws)
<1>1. reader.breaks \in Nat
  BY DEF ReaderOK, Keeps, IsReader
<1> QED
  BY <1>1, FreshScans DEF Again

\* A reader that has ended holds nothing that matters.
LEMMA OverKeeps ==
  ASSUME NEW r, NEW rev, NEW told, NEW ws, NEW newRev, NEW newTold, NEW vs,
         Keeps(r, rev, told, ws), r.at <= newRev
  PROVE  Keeps([r EXCEPT !.phase = "over"], newRev, newTold, vs)
<1> DEFINE s == [r EXCEPT !.phase = "over"]
<1>1. /\ s.phase = "over" /\ s.mirror = r.mirror /\ s.at = r.at
      /\ IsReader(s)
  BY DEF Keeps, IsReader
<1> HIDE DEF s
<1>2. Keeps(s, newRev, newTold, vs)
  BY <1>1 DEF Keeps
<1> QED
  BY <1>2 DEF s

LEMMA PageKeeps ==
  ASSUME LeaseInv, StreamInv, Tale, ReaderOK, ReadPage
  PROVE  ReaderOK'
<1> DEFINE request == [start |-> reader.next, end |-> Followed.end, revision |-> reader.pin,
                       limit |-> Limit]
           result == RangeResult(request)
           added == [k \in Keys |-> IF k \in DOMAIN result.values THEN result.values[k].value
                                    ELSE reader.mirror[k]]
           onward == [reader EXCEPT
                        !.pin = result.revision, !.at = result.revision, !.mirror = added,
                        !.next = IF result.more THEN result.next_key ELSE @,
                        !.phase = IF result.more THEN @ ELSE "scanned"]
<1>1. /\ UNCHANGED <<revision, log, watch>> /\ reader.phase = "scan"
      /\ reader' = IF closed THEN [reader EXCEPT !.phase = "over"]
                   ELSE IF RangeRaises(request) THEN Again ELSE onward
  BY DEF ReadPage, vars, store
<1>2. revision \in Nat /\ compacted \in Nat /\ compacted <= revision
  BY DEF LeaseInv, TypeOK, StreamInv
<1>3. /\ Keeps(reader, revision, log, watch) /\ IsReader(reader) /\ Scanning(reader, log)
      /\ reader.at \in Nat /\ reader.at <= revision /\ reader.next \in Nat
      /\ reader.pin \in Nat \cup {None}
  BY <1>1 DEF ReaderOK, Keeps, IsReader
<1>4. Keeps([reader EXCEPT !.phase = "over"], revision, log, watch)
  BY <1>3, OverKeeps
<1>5. Keeps(Again, revision, log, watch)
  BY <1>2, AgainKeeps
<1>6. ASSUME ~RangeRaises(request)
      PROVE  Keeps(onward, revision, log, watch)
  <2> DEFINE at == ReadRevision(request)
             told == Tell(log, at)
             found == Wanted(told, reader.next)
             page == FirstOf(found, Limit)
  <2>0. /\ reader.next >= Followed.start
        /\ Followed.end = None => reader.next = Followed.start
    BY <1>3 DEF Scanning
  <2>1. /\ at \in Nat /\ at <= revision /\ (reader.pin # None => at = reader.pin)
        /\ Limit # 0 /\ result.revision = at /\ DOMAIN result.values = page
        /\ \A k \in page : result.values[k].value = told[k]
        /\ IF page = found THEN ~result.more
           ELSE result.more /\ result.next_key = Max(page) + 1
    BY <1>2, <1>3, <1>6, <2>0, PageShown
  <2>2. \A k \in Keys : ~IsFollowed(k) => told[k] = None
    BY DEF Tell
  <2>3. told = [k \in Keys |-> told[k]]
    BY DEF Tell
  <2> HIDE DEF at
  <2>4. \A k \in Keys : reader.mirror[k] = IF k < reader.next THEN told[k] ELSE None
    <3>1. CASE reader.pin # None
      BY <1>3, <2>1, <3>1 DEF Scanning
    <3>2. CASE reader.pin = None
      <4>1. reader.next = Followed.start
        BY <1>3, <3>2 DEF Scanning
      <4>2. \A k \in Keys : k < reader.next => ~IsFollowed(k)
        BY <4>1, FollowedRange DEF IsFollowed, KeyInRange, None
      <4>3. \A k \in Keys : k < reader.next => reader.mirror[k] = None
        BY <1>3, <4>2 DEF Scanning, Tell
      <4> HIDE DEF told
      <4> QED
        BY <1>3, <2>2, <4>2, <4>3 DEF Scanning
    <3> QED
      BY <3>1, <3>2
  <2>5. /\ page = found => \A k \in Keys : added[k] = told[k]
        /\ page # found =>
             /\ Max(page) \in Nat /\ Max(page) >= reader.next /\ Followed.end # None
             /\ \A k \in Keys : added[k] = IF k < Max(page) + 1 THEN told[k] ELSE None
    <3>1. \A k \in Keys : added[k] = IF k \in page THEN told[k] ELSE reader.mirror[k]
      BY <2>1
    <3>2. Limit \in Nat \cup {None}
      BY ReaderConstantsOK
    <3>3. reader.next \in Nat /\ Limit # 0
      BY <1>3, <2>1
    <3> DEFINE next == reader.next
               mirror == reader.mirror
    <3>4. /\ \A k \in Keys : mirror[k] = IF k < next THEN told[k] ELSE None
          /\ Followed.end = None => next = Followed.start
          /\ page = FirstOf(Wanted(told, next), Limit)
          /\ \A k \in Keys : added[k] = IF k \in page THEN told[k] ELSE mirror[k]
          /\ next \in Nat
      BY <2>0, <2>4, <3>1, <3>3
    <3> HIDE DEF request, result, told, added, onward, page, mirror, next
    <3>5. /\ page = Wanted(told, next) => \A k \in Keys : added[k] = told[k]
          /\ page # Wanted(told, next) =>
               /\ Max(page) \in Nat /\ Max(page) >= next /\ Followed.end # None
               /\ \A k \in Keys : added[k] = IF k < Max(page) + 1 THEN told[k] ELSE None
      BY <2>2, <3>2, <3>3, <3>4, PageAdds
    <3> QED
      BY <3>5 DEF next
  <2>6. added = [k \in Keys |-> added[k]]
    OBVIOUS
  <2> HIDE DEF added, result, found, page, at
  <2>7. /\ onward.pin = at /\ onward.at = at /\ onward.mirror = added
        /\ onward.next = (IF result.more THEN result.next_key ELSE reader.next)
        /\ onward.phase = (IF result.more THEN "scan" ELSE "scanned")
        /\ onward.watch = reader.watch /\ onward.breaks = reader.breaks
        /\ IsReader(onward)
    <3>1. result.more => result.next_key \in Nat
      BY <2>1, <2>5
    <3> QED
      BY <1>1, <1>3, <2>1, <3>1 DEF IsReader
  <2> HIDE DEF onward
  <2>8. CASE result.more
    <3>1. onward.next = Max(page) + 1 /\ page # found
      BY <2>1, <2>7, <2>8
    <3>2. /\ onward.next >= Followed.start
          /\ onward.pin # None /\ Followed.end # None /\ onward.pin = onward.at
      BY <1>3, <2>0, <2>1, <2>5, <2>7, <3>1, FollowedRange DEF None
    <3>3. Scanning(onward, log)
      BY <2>5, <2>7, <3>1, <3>2 DEF Scanning
    <3> QED
      BY <2>1, <2>6, <2>7, <2>8, <3>3 DEF Keeps
  <2>9. CASE ~result.more
    <3>1. added = told
      BY <2>1, <2>3, <2>5, <2>6, <2>9
    <3> QED
      BY <2>1, <2>6, <2>7, <2>9, <3>1 DEF Keeps
  <2> QED
    BY <2>8, <2>9
<1> HIDE DEF onward
<1>7. Keeps(reader', revision, log, watch)
  BY <1>1, <1>4, <1>5, <1>6
<1> QED
  BY <1>1, <1>7 DEF ReaderOK

\* A watch not yet used, to go on where the reader stands.
LEMMA CallKeeps ==
  ASSUME LeaseInv, StreamInv, ReaderOK, Unused # {}, reader.mirror = Tell(log, reader.at),
         NEW from \in {reader.at, reader.at + 1}, Watch(Min(Unused), Followed, from),
         reader' = [reader EXCEPT !.phase = "follow", !.watch = Min(Unused)]
  PROVE  ReaderOK'
<1> DEFINE w == Min(Unused)
<1>1. w \in Watches /\ watch[w].phase = "idle"
  <2>1. Unused \in SUBSET Nat
    BY ReaderConstantsOK DEF Unused
  <2>2. w \in Unused
    BY <2>1, MinProperties
  <2> QED
    BY <2>2 DEF Unused
<1> HIDE DEF w
<1>2. watch[w] \in Watcher /\ watch[w].delivered = <<>>
  BY <1>1 DEF LeaseInv, TypeOK, StreamInv, Sound, Quiet
<1>3. /\ watch'[w] = [watch[w] EXCEPT !.phase = "called", !.range = Followed, !.from = from]
      /\ UNCHANGED <<revision, log>>
  BY <1>1 DEF Watch, LeaseInv, TypeOK, w
<1>4. /\ watch'[w].phase = "called" /\ watch'[w].range = Followed /\ watch'[w].from = from
      /\ watch'[w].delivered = <<>>
  BY <1>2, <1>3 DEF Watcher
<1>5. /\ reader'.phase = "follow" /\ reader'.watch = w /\ reader'.at = reader.at
      /\ reader'.mirror = reader.mirror /\ IsReader(reader')
  BY <1>1 DEF ReaderOK, Keeps, IsReader, w
<1>6. Follows(reader', watch'[w])
  BY <1>4, <1>5 DEF Follows
<1>7. Keeps(reader', revision, log, watch')
  BY <1>1, <1>5, <1>6 DEF Keeps, ReaderOK
<1> QED
  BY <1>3, <1>7 DEF ReaderOK

LEMMA FollowKeeps ==
  ASSUME LeaseInv, StreamInv, ReaderOK, Follow \/ Resume
  PROVE  ReaderOK'
<1>1. reader.at \in Nat
  BY DEF ReaderOK, Keeps, IsReader
<1>2. CASE Follow
  <2>1. reader.mirror = Tell(log, reader.at) /\ reader.pin = reader.at
    BY <1>2 DEF Follow, ReaderOK, Keeps
  <2> QED
    BY <1>2, <2>1, CallKeeps DEF Follow
<1>3. CASE Resume
  <2>1. reader.mirror = Tell(log, reader.at)
    BY <1>3 DEF Resume, ReaderOK, Keeps
  <2>2. (IF reader.at = 0 THEN 1 ELSE reader.at) \in {reader.at, reader.at + 1}
    BY <1>1
  <2> QED
    BY <1>3, <2>1, <2>2, CallKeeps DEF Resume
<1> QED
  BY <1>2, <1>3

LEMMA BeginKeeps ==
  ASSUME LeaseInv, StreamInv, ReaderOK, Begin
  PROVE  ReaderOK'
<1> DEFINE w == reader.watch
           x == watch[w]
           replay == {r \in events : r >= x.from /\ Touches(log[r], x.range)}
           open == [x EXCEPT !.phase = "open", !.registered = TRUE, !.backlog = replay]
<1>1. /\ reader.phase = "follow" /\ w \in Watches /\ x \in Watcher
      /\ watch \in [Watches -> Watcher] /\ revision \in Nat
      /\ reader.at \in Nat /\ reader.at <= revision /\ Keeps(reader, revision, log, watch)
      /\ UNCHANGED <<revision, log>>
  BY DEF Begin, BeginWatch, ReaderOK, Keeps, IsReader, LeaseInv, TypeOK
<1>2. \/ watch'[w] = [x EXCEPT !.phase = "refused"]
      \/ watch'[w] = [x EXCEPT !.phase = "compacted"]
      \/ watch'[w] = open
  BY <1>1 DEF Begin, BeginWatch
<1>3. reader' = CASE watch'[w].phase = "compacted" -> Again
                  [] watch'[w].phase = "refused" -> [reader EXCEPT !.phase = "over"]
                  [] OTHER -> reader
  BY DEF Begin
<1> HIDE DEF w, x, replay
<1>4. CASE watch'[w] = [x EXCEPT !.phase = "refused"]
  <2>1. watch'[w].phase = "refused"
    BY <1>1, <1>4 DEF Watcher
  <2>2. reader' = [reader EXCEPT !.phase = "over"]
    BY <1>3, <2>1
  <2>3. Keeps([reader EXCEPT !.phase = "over"], revision, log, watch')
    BY <1>1, OverKeeps
  <2> QED
    BY <1>1, <2>2, <2>3 DEF ReaderOK
<1>5. CASE watch'[w] = [x EXCEPT !.phase = "compacted"]
  <2>1. watch'[w].phase = "compacted"
    BY <1>1, <1>5 DEF Watcher
  <2>2. reader' = Again
    BY <1>3, <2>1
  <2>3. Keeps(Again, revision, log, watch')
    BY <1>1, AgainKeeps
  <2> QED
    BY <1>1, <2>2, <2>3 DEF ReaderOK
<1>6. CASE watch'[w] = open
  <2>1. /\ watch'[w].phase = "open" /\ watch'[w].range = x.range
        /\ watch'[w].from = x.from /\ watch'[w].delivered = x.delivered
    BY <1>1, <1>6 DEF Watcher
  <2>2. reader' = reader
    BY <1>3, <2>1
  <2>3. Follows(reader, watch'[w])
    BY <1>1, <2>1 DEF Keeps, Follows, w, x
  <2>4. Keeps(reader, revision, log, watch')
    BY <1>1, <2>3 DEF Keeps, w
  <2> QED
    BY <1>1, <2>2, <2>4 DEF ReaderOK
<1> QED
  BY <1>2, <1>4, <1>5, <1>6

LEMMA BreakKeeps ==
  ASSUME ReaderOK, Break
  PROVE  ReaderOK'
<1>1. /\ Keeps(reader, revision, log, watch) /\ UNCHANGED <<revision, log>>
      /\ reader.phase = "follow" /\ reader' = [reader EXCEPT !.phase = "broken", !.breaks = @ + 1]
  BY DEF Break, CancelWatch, ReaderOK
<1>2. /\ reader'.phase = "broken" /\ reader'.mirror = reader.mirror /\ reader'.at = reader.at
      /\ IsReader(reader')
  <2>1. reader.breaks + 1 \in Nat /\ IsReader(reader)
    BY <1>1 DEF Keeps, IsReader
  <2> DEFINE more == reader.breaks + 1
  <2> HIDE DEF more
  <2>2. reader' = [reader EXCEPT !.phase = "broken", !.breaks = more] /\ more \in Nat
    BY <1>1, <2>1 DEF more
  <2> QED
    BY <2>1, <2>2 DEF IsReader
<1>3. Keeps(reader', revision, log, watch')
  BY <1>1, <1>2 DEF Keeps
<1> QED
  BY <1>1, <1>3 DEF ReaderOK

\* What a batch after the last one seen owes the range is held.
LEMMA OwedHeld ==
  ASSUME Ahead <= 1, NEW x \in Watcher, NEW rev \in Nat, NEW told, NEW shut \in BOOLEAN,
         Sound(x, rev, told, shut), x.phase = "open",
         NEW at \in Nat, at <= rev,
         IF x.delivered = <<>> THEN x.from \in {at, at + 1}
         ELSE x.delivered[Len(x.delivered)] = at,
         NEW s \in (at + 1)..rev, Touches(told[s], x.range)
  PROVE  Holding(x, s)
<1>1. /\ x.from \in Nat /\ x.delivered \in Seq(Nat) /\ Len(x.delivered) \in Nat
      /\ \A i \in 1..Len(x.delivered) : x.delivered[i] \in Nat
  BY WatcherFields
<1>2. x.from <= s /\ ~Has(x, s)
  <2>1. CASE x.delivered = <<>>
    <3>1. Len(x.delivered) = 0
      BY <2>1
    <3> QED
      BY <1>1, <2>1, <3>1 DEF Has
  <2>2. CASE x.delivered # <<>>
    <3> DEFINE n == Len(x.delivered)
    <3>1. n \in 1..n /\ x.delivered[n] = at
      BY <1>1, <2>2
    <3> HIDE DEF n
    <3>2. /\ \A i \in 1..n : x.delivered[i] >= x.from
          /\ \A i, j \in 1..n : i < j => x.delivered[i] < x.delivered[j]
      BY DEF Sound, Starts, Ordered, n
    <3>3. ASSUME NEW i \in 1..n
          PROVE  x.delivered[i] <= at
      <4>1. i = n \/ i < n
        BY <1>1 DEF n
      <4>2. x.delivered[i] \in Nat
        BY <1>1 DEF n
      <4> QED
        BY <3>1, <3>2, <4>1, <4>2
    <3>4. ~Has(x, s)
      BY <3>3 DEF Has, n
    <3>5. x.from <= at
      BY <3>1, <3>2
    <3> QED
      BY <1>1, <3>4, <3>5
  <2> QED
    BY <2>1, <2>2
<1>3. s \in Due(x, rev, told)
  BY <1>1, <1>2 DEF Due
<1> QED
  BY <1>2, <1>3 DEF Sound, Complete

\* The next batch is the next one of the range.
LEMMA NextBatch ==
  ASSUME Ahead <= 1, NEW x \in Watcher, NEW rev \in Nat, NEW told, NEW shut \in BOOLEAN,
         Sound(x, rev, told, shut), x.phase = "open",
         NEW at \in Nat, at <= rev,
         IF x.delivered = <<>> THEN x.from \in {at, at + 1}
         ELSE x.delivered[Len(x.delivered)] = at,
         NEW r, r # End,
         IF x.backlog # {} THEN r = Min(x.backlog) ELSE x.queue # <<>> /\ r = Head(x.queue)
  PROVE  /\ r \in 1..rev /\ at <= r
         /\ \A s \in (at + 1)..(r - 1) : ~Touches(told[s], x.range)
<1>1. /\ x.from \in Nat /\ x.backlog \in SUBSET Nat
      /\ x.delivered \in Seq(Nat) /\ Len(x.delivered) \in Nat
      /\ \A i \in 1..Len(x.delivered) : x.delivered[i] \in Nat
      /\ Len(x.queue) \in Nat /\ \A j \in 1..Len(x.queue) : x.queue[j] \in Nat
  BY WatcherFields
<1>2. Within(x, rev) /\ Ordered(x) /\ Starts(x, rev)
  BY DEF Sound
<1>3. /\ r \in 1..rev /\ r >= x.from
      /\ \A i \in 1..Len(x.delivered) : x.delivered[i] < r
      /\ \A s \in Nat : Holding(x, s) /\ s # End => r <= s
  <2>1. CASE x.backlog # {}
    <3>1. r \in x.backlog /\ \A s \in x.backlog : r <= s
      BY <1>1, <2>1, MinProperties
    <3>2. ASSUME NEW s \in Nat, Holding(x, s), s # End
          PROVE  r <= s
      <4>1. CASE s \in x.backlog
        BY <3>1, <4>1
      <4>2. CASE s \notin x.backlog
        <5>1. PICK j \in Batches(x) : x.queue[j] = s
          BY <3>2, <4>2 DEF Holding, Batches
        <5> QED
          BY <1>1, <1>2, <3>1, <5>1 DEF Ordered
      <4> QED
        BY <4>1, <4>2
    <3> QED
      BY <1>2, <3>1, <3>2 DEF Within, Ordered, Starts
  <2>2. CASE x.backlog = {}
    <3>1. r = x.queue[1] /\ Len(x.queue) >= 1
      BY <2>2, TailQueue
    <3>2. 1 \in Batches(x)
      BY <1>1, <3>1 DEF Batches
    <3>3. ASSUME NEW s \in Nat, Holding(x, s), s # End
          PROVE  r <= s
      <4>1. PICK j \in Batches(x) : x.queue[j] = s
        BY <2>2, <3>3 DEF Holding, Batches
      <4>2. j # 1 => x.queue[1] < x.queue[j]
        BY <1>1, <1>2, <3>2, <4>1 DEF Ordered, Batches
      <4> QED
        BY <1>1, <3>1, <4>1, <4>2 DEF Batches
    <3> QED
      BY <1>2, <3>1, <3>2, <3>3 DEF Within, Ordered, Starts
  <2> QED
    BY <2>1, <2>2
<1>4. at <= r
  <2>1. CASE x.delivered = <<>>
    BY <1>1, <1>3, <2>1
  <2>2. CASE x.delivered # <<>>
    <3>1. Len(x.delivered) \in 1..Len(x.delivered) /\ x.delivered[Len(x.delivered)] = at
      BY <1>1, <2>2
    <3> QED
      BY <1>3, <3>1
  <2> QED
    BY <2>1, <2>2
<1>5. ASSUME NEW s \in (at + 1)..(r - 1), Touches(told[s], x.range)
      PROVE  FALSE
  <2>1. s \in (at + 1)..rev /\ s \in Nat /\ s # End /\ ~(r <= s)
    BY <1>3 DEF End
  <2>2. Holding(x, s)
    BY <1>5, <2>1, OwedHeld
  <2> QED
    BY <1>3, <2>1, <2>2
<1> QED
  BY <1>3, <1>4, <1>5

LEMMA LastAppended ==
  ASSUME NEW batches \in Seq(Nat), NEW r \in Nat
  PROVE  /\ Append(batches, r) # <<>>
         /\ Append(batches, r)[Len(Append(batches, r))] = r
<1> DEFINE longer == Append(batches, r)
<1>1. /\ Len(batches) \in Nat /\ Len(longer) = Len(batches) + 1
      /\ longer[Len(longer)] = r
  BY AppendProperties
<1> HIDE DEF longer
<1>2. longer # <<>>
  BY <1>1
<1> QED
  BY <1>1, <1>2 DEF longer

LEMMA ApplyKeeps ==
  ASSUME Ahead <= 1, LeaseInv, StreamInv, ReaderOK, Apply
  PROVE  ReaderOK'
<1> DEFINE w == reader.watch
           x == watch[w]
           least == Min(x.backlog)
           first == Head(x.queue)
           seen == watch'[w].delivered
<1>1. /\ reader.phase = "follow" /\ w \in Watches /\ x \in Watcher /\ x.phase = "open"
      /\ watch \in [Watches -> Watcher] /\ revision \in Nat /\ closed \in BOOLEAN
      /\ Sound(x, revision, log, closed) /\ Follows(reader, x)
      /\ reader.at \in Nat /\ reader.at <= revision /\ reader.mirror = Tell(log, reader.at)
      /\ Keeps(reader, revision, log, watch) /\ IsReader(reader)
      /\ UNCHANGED <<revision, log>>
  BY DEF Apply, Deliver, ReaderOK, Keeps, IsReader, LeaseInv, TypeOK, StreamInv
<1>2. \/ /\ x.backlog # {}
         /\ watch'[w] = [x EXCEPT !.backlog = @ \ {least}, !.delivered = Append(@, least)]
      \/ /\ x.backlog = {} /\ x.queue # <<>> /\ first # End
         /\ watch'[w] = [x EXCEPT !.queue = Tail(@), !.delivered = Append(@, first)]
      \/ watch'[w] = [x EXCEPT !.queue = Tail(@), !.phase = "done", !.registered = FALSE]
  BY <1>1 DEF Apply, Deliver
<1>3. reader' = IF watch'[w].phase = "done" THEN [reader EXCEPT !.phase = "over"]
                ELSE [reader EXCEPT !.mirror = Applied(@, log[seen[Len(seen)]]),
                                    !.at = seen[Len(seen)]]
  BY DEF Apply
<1>4. x.delivered \in Seq(Nat) /\ Len(x.delivered) \in Nat /\ x.backlog \in SUBSET Nat
  BY <1>1, WatcherFields
<1>5. ASSUME NEW r, r # End,
             IF x.backlog # {} THEN r = Min(x.backlog)
             ELSE x.queue # <<>> /\ r = Head(x.queue),
             watch'[w].phase = "open", watch'[w].range = x.range,
             watch'[w].delivered = Append(x.delivered, r)
      PROVE  ReaderOK'
  <2> HIDE DEF x, w
  <2>1. /\ x.range = Followed
        /\ IF x.delivered = <<>> THEN x.from \in {reader.at, reader.at + 1}
           ELSE x.delivered[Len(x.delivered)] = reader.at
    BY <1>1 DEF Follows
  <2>2. /\ r \in 1..revision /\ reader.at <= r
        /\ \A s \in (reader.at + 1)..(r - 1) : ~Touches(log[s], Followed)
    BY <1>1, <1>5, <2>1, NextBatch
  <2>3. Applied(reader.mirror, log[r]) = Tell(log, r)
    BY <1>1, <2>2, AppliedTold
  <2>4. seen[Len(seen)] = r /\ seen # <<>>
    BY <1>4, <1>5, <2>2, LastAppended
  <2>5. reader' = [reader EXCEPT !.mirror = Tell(log, r), !.at = r]
    BY <1>3, <1>5, <2>3, <2>4
  <2>6. /\ reader'.phase = "follow" /\ reader'.mirror = Tell(log, r) /\ reader'.at = r
        /\ reader'.watch = w /\ IsReader(reader')
    <3> DEFINE mirror == Tell(log, r)
    <3> HIDE DEF mirror
    <3>1. reader' = [reader EXCEPT !.mirror = mirror, !.at = r] /\ r \in Nat
      BY <2>2, <2>5 DEF mirror
    <3>2. /\ reader'.phase = "follow" /\ reader'.mirror = mirror /\ reader'.at = r
          /\ reader'.watch = w /\ IsReader(reader')
      BY <1>1, <3>1 DEF IsReader, w
    <3> QED
      BY <3>2 DEF mirror
  <2>7. Follows(reader', watch'[w])
    BY <1>5, <2>1, <2>4, <2>6 DEF Follows
  <2>8. Tell(log, r) = [k \in Keys |-> Tell(log, r)[k]]
    BY DEF Tell
  <2>9. Keeps(reader', revision, log, watch')
    BY <1>1, <2>2, <2>6, <2>7, <2>8 DEF Keeps
  <2> QED
    BY <1>1, <2>9 DEF ReaderOK
<1>6. CASE /\ x.backlog # {}
           /\ watch'[w] = [x EXCEPT !.backlog = @ \ {least}, !.delivered = Append(@, least)]
  <2>1. /\ watch'[w].phase = "open" /\ watch'[w].range = x.range
        /\ watch'[w].delivered = Append(x.delivered, least)
    BY <1>1, <1>6 DEF Watcher
  <2>2. least # End
    <3>1. least \in x.backlog
      BY <1>4, <1>6, MinProperties
    <3> QED
      BY <1>1, <3>1 DEF Sound, Within, End
  <2> HIDE DEF x, w
  <2> QED
    BY <1>5, <1>6, <2>1, <2>2
<1>7. CASE /\ x.backlog = {} /\ x.queue # <<>> /\ first # End
           /\ watch'[w] = [x EXCEPT !.queue = Tail(@), !.delivered = Append(@, first)]
  <2>1. /\ watch'[w].phase = "open" /\ watch'[w].range = x.range
        /\ watch'[w].delivered = Append(x.delivered, first)
    BY <1>1, <1>7 DEF Watcher
  <2> HIDE DEF x, w
  <2> QED
    BY <1>5, <1>7, <2>1
<1>8. CASE watch'[w] = [x EXCEPT !.queue = Tail(@), !.phase = "done", !.registered = FALSE]
  <2>1. watch'[w].phase = "done"
    BY <1>1, <1>8 DEF Watcher
  <2>2. reader' = [reader EXCEPT !.phase = "over"]
    BY <1>3, <2>1
  <2>3. Keeps([reader EXCEPT !.phase = "over"], revision, log, watch')
    BY <1>1, OverKeeps
  <2> QED
    BY <1>1, <2>2, <2>3 DEF ReaderOK
<1> QED
  BY <1>2, <1>6, <1>7, <1>8
-----------------------------------------------------------------------------
(* The reader and its backend together.                                    *)

Together == LeaseInv /\ StreamInv /\ Explained /\ Tale /\ ReaderOK

\* What the reader asks of the backend is among what anyone may ask of it.
LEMMA ReaderAsks ==
  ASSUME LeaseInv, ReaderOK, [ReaderNext]_rvars
  PROVE  [Next]_vars
<1>1. revision \in Nat /\ Ahead \in Nat /\ Ahead >= 1 /\ Followed \in WatchRanges
  BY ConstantsOK, ReaderConstantsOK DEF LeaseInv, TypeOK
<1>2. CASE BackendStep
  BY <1>2 DEF BackendStep, Next
<1>3. CASE ReadPage
  BY <1>3 DEF ReadPage
<1>4. ASSUME Unused # {}, NEW from \in {reader.at, reader.at + 1}, from # 0,
             Watch(Min(Unused), Followed, from)
      PROVE  Next
  <2>1. Min(Unused) \in Watches
    <3>1. Unused \in SUBSET Nat
      BY ReaderConstantsOK DEF Unused
    <3>2. Min(Unused) \in Unused
      BY <1>4, <3>1, MinProperties
    <3> QED
      BY <3>2 DEF Unused
  <2>2. from \in 1..(revision + Ahead)
    BY <1>1, <1>4 DEF ReaderOK, Keeps, IsReader
  <2> QED
    BY <1>1, <1>4, <2>1, <2>2 DEF Next
<1>5. reader.at \in Nat /\ (reader.phase = "scanned" => reader.pin = reader.at)
  BY DEF ReaderOK, Keeps, IsReader
<1>6. CASE Follow
  BY <1>4, <1>5, <1>6 DEF Follow
<1>7. CASE Resume
  <2>1. /\ (IF reader.at = 0 THEN 1 ELSE reader.at) \in {reader.at, reader.at + 1}
        /\ (IF reader.at = 0 THEN 1 ELSE reader.at) # 0
    BY <1>5
  <2> QED
    BY <1>4, <1>7, <2>1 DEF Resume
<1>8. reader.phase = "follow" => reader.watch \in Watches
  BY DEF ReaderOK, Keeps
<1>9. CASE Begin \/ Apply \/ Break
  BY <1>8, <1>9 DEF Begin, Apply, Break, Next
<1>10. CASE UNCHANGED rvars
  BY <1>10 DEF rvars
<1> QED
  BY <1>2, <1>3, <1>6, <1>7, <1>9, <1>10 DEF ReaderNext

LEMMA StepTogether ==
  ASSUME ReadsFirst, Ahead <= 1, Together, [ReaderNext]_rvars
  PROVE  Together'
<1>1. /\ LeaseInv /\ TypeOK /\ StreamInv /\ Explained /\ Tale /\ ReaderOK
      /\ compacted <= revision /\ [Next]_vars
  BY ReaderAsks DEF Together, LeaseInv, StreamInv
<1>2. LeaseInv'
  <2>1. TypeOK'
    BY <1>1, StepType
  <2>2. (AllCommitted /\ LeaseIntegrity)'
    BY <1>1, StepStore
  <2> QED
    BY <2>1, <2>2 DEF LeaseInv
<1>3. StreamInv'
  BY <1>1, <1>2, StepStreams DEF LeaseInv
<1>4. Explained'
  BY <1>1, StepExplained
<1>5. Tale'
  BY <1>1, <1>2, <1>4, StepTale
<1>6. ReaderOK'
  <2>1. CASE BackendStep /\ UNCHANGED reader
    <3>1. Undisturbed
      BY <1>1, <2>1, BackendUndisturbed
    <3> QED
      BY <1>1, <1>2, <2>1, <3>1, BackendKeeps
  <2>2. CASE ReadPage
    BY <1>1, <2>2, PageKeeps
  <2>3. CASE Follow \/ Resume
    BY <1>1, <2>3, FollowKeeps
  <2>4. CASE Begin
    BY <1>1, <2>4, BeginKeeps
  <2>5. CASE Apply
    BY <1>1, <2>5, ApplyKeeps
  <2>6. CASE Break
    BY <1>1, <2>6, BreakKeeps
  <2>7. CASE UNCHANGED rvars
    BY <1>1, <2>7 DEF rvars, vars, store, ReaderOK
  <2> QED
    BY <2>1, <2>2, <2>3, <2>4, <2>5, <2>6, <2>7 DEF ReaderNext
<1> QED
  BY <1>2, <1>3, <1>4, <1>5, <1>6 DEF Together

LEMMA InitTogether == ReaderInit => Together
<1> SUFFICES ASSUME Init, reader = Fresh
             PROVE  Together
  BY DEF ReaderInit
<1>1. LeaseInv
  BY InitType, InitStore DEF LeaseInv
<1>2. Explained
  BY DEF Init, Explained
<1>3. ReaderOK
  <2>1. Fresh = [Fresh EXCEPT !.breaks = 0]
    BY DEF Fresh
  <2>2. revision \in Nat
    BY <1>1 DEF LeaseInv, TypeOK
  <2>3. Keeps([Fresh EXCEPT !.breaks = 0], revision, log, watch)
    BY <2>2, FreshScans
  <2> QED
    BY <2>1, <2>3 DEF ReaderOK
<1> QED
  BY <1>1, <1>2, <1>3, InitStreams, InitTale DEF Together

LEMMA AlwaysTogether ==
  ASSUME ReadsFirst, Ahead <= 1
  PROVE  ReaderSpec => []Together
<1>1. Together /\ [ReaderNext]_rvars => Together'
  BY StepTogether
<1> QED
  BY <1>1, InitTogether, PTL DEF ReaderSpec

\* No page and no batch is torn: once its scan is over a reader holds, key for
\* key, its range as it stood at one revision, the last it has seen, for any
\* range, page size, number of broken watches and workload that reads before
\* it writes, whatever is committed, expires or is compacted meanwhile.
THEOREM MirrorNeverTorn ==
  ASSUME ReadsFirst, Ahead <= 1
  PROVE  ReaderSpec => []MirrorExact
<1>1. Together => MirrorExact
  BY ToldIsTell DEF Together, ReaderOK, Keeps, MirrorExact
<1> QED
  BY <1>1, AlwaysTogether, PTL

\* No gap between scan and watch, or between one watch and the next: a reader
\* whose open watch has nothing more for it holds what a read of the store
\* would return now.
THEOREM NothingLeftBehind ==
  ASSUME ReadsFirst, Ahead <= 1
  PROVE  ReaderSpec => []CaughtUp
<1>1. Together => CaughtUp
  <2> SUFFICES ASSUME Together, reader.phase = "follow", watch[reader.watch].phase = "open",
                      Pending(reader.watch) = {}, NEW k \in Keys, IsFollowed(k)
               PROVE  reader.mirror[k] = Current(k).value
    BY DEF CaughtUp, IsFollowed
  <2> DEFINE x == watch[reader.watch]
             at == reader.at
  <2>1. /\ x \in Watcher /\ Sound(x, revision, log, closed) /\ closed \in BOOLEAN
        /\ revision \in Nat /\ compacted \in Nat /\ compacted <= revision
        /\ at \in Nat /\ at <= revision /\ reader.mirror = Tell(log, at) /\ Follows(reader, x)
    BY DEF Together, LeaseInv, TypeOK, StreamInv, ReaderOK, Keeps, IsReader
  <2>2. \A s : ~Holding(x, s)
    <3>1. Len(x.queue) \in Nat /\ DOMAIN x.queue = 1..Len(x.queue)
      BY <2>1, WatcherFields
    <3> QED
      BY <3>1 DEF Pending, Holding
  <2>3. ASSUME NEW s \in (at + 1)..revision
        PROVE  ~Named(log[s], k)
    <3>1. /\ x.range = Followed /\ x.phase = "open"
          /\ IF x.delivered = <<>> THEN x.from \in {at, at + 1}
             ELSE x.delivered[Len(x.delivered)] = at
      BY <2>1 DEF Follows
    <3> HIDE DEF x, at
    <3>2. ~Touches(log[s], Followed)
      BY <2>1, <2>2, <3>1, OwedHeld
    <3> QED
      BY <3>2 DEF Touches, Named, IsFollowed
  <2>4. Story(log, k, revision) = Story(log, k, at)
    <3> HIDE DEF at
    <3> QED
      BY <2>1, <2>3, StoryUnnamed
  <2>5. Story(log, k, revision) = Current(k).value
    BY <2>1, CurrentIsRead DEF Together, Tale
  <2> QED
    BY <2>1, <2>4, <2>5 DEF Tell
<1> QED
  BY <1>1, AlwaysTogether, PTL

\* The backend cannot tell the reader from any other client: whatever is
\* proved of the backend alone holds when it is read in this way.
THEOREM ReaderIsAClient ==
  ASSUME ReadsFirst, Ahead <= 1
  PROVE  ReaderSpec => Spec
<1>1. Together /\ [ReaderNext]_rvars => [Next]_vars
  BY ReaderAsks DEF Together
<1>2. ReaderInit => Init
  BY DEF ReaderInit
<1> QED
  BY <1>1, <1>2, AlwaysTogether, PTL DEF ReaderSpec, Spec
=============================================================================
