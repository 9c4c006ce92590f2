------------------------ MODULE FakeEtcdWatchProofs ------------------------
(***************************************************************************)
(* What the watches of FakeEtcd deliver: every batch owed, once, in order  *)
(* and from the start, for any number of watches and any transactions,     *)
(* those that raise half way included; and that the backend as a whole     *)
(* keeps the contract of EtcdContract.                                     *)
(***************************************************************************)
EXTENDS FakeEtcdProofs, FakeEtcdRefinement

(* What holds of one watch x of a store at revision rev with batches told;  *)
(* shut: the backend is closed.                                            *)

Batches(x) == {j \in 1..Len(x.queue) : x.queue[j] # End}

Has(x, r) == \E i \in 1..Len(x.delivered) : x.delivered[i] = r
Holding(x, r) == r \in x.backlog \/ \E j \in 1..Len(x.queue) : x.queue[j] = r

Due(x, rev, told) == {r \in 1..rev : r >= x.from /\ Touches(told[r], x.range)}

\* A watch that has not started has nothing.
Quiet(x) ==
  x.phase \in {"idle", "called", "refused", "compacted"} =>
    x.queue = <<>> /\ x.delivered = <<>> /\ x.backlog = {} /\ ~x.registered

\* It is registered from its start until it ends or the backend closes, and
\* close is the only one to queue an end, as the last thing.
Tied(x, shut) ==
  /\ x.registered => x.phase = "open" /\ ~shut
  /\ x.phase = "open" /\ ~shut => x.registered
  /\ x.phase = "done" => shut
  /\ \A j \in 1..Len(x.queue) : x.queue[j] = End => j = Len(x.queue) /\ shut

\* What it has or holds is the past.
Within(x, rev) ==
  /\ \A i \in 1..Len(x.delivered) : x.delivered[i] \in 1..rev
  /\ x.backlog \subseteq 1..rev
  /\ \A j \in Batches(x) : x.queue[j] \in 1..rev

Ordered(x) ==
  /\ \A i, j \in 1..Len(x.delivered) : i < j => x.delivered[i] < x.delivered[j]
  /\ \A i, j \in Batches(x) : i < j => x.queue[i] < x.queue[j]
  /\ \A i \in 1..Len(x.delivered) : \A r \in x.backlog : x.delivered[i] < r
  /\ \A i \in 1..Len(x.delivered) : \A j \in Batches(x) : x.delivered[i] < x.queue[j]
  /\ \A r \in x.backlog : \A j \in Batches(x) : r < x.queue[j]

Complete(x, rev, told) ==
  /\ x.phase = "open" => \A r \in Due(x, rev, told) : Has(x, r) \/ Holding(x, r)
  /\ x.phase = "done" => \A r \in Due(x, rev, told) : Has(x, r)

\* It starts at the next revision at the latest, and holds nothing older.
Starts(x, rev) ==
  /\ x.phase \in {"called", "open"} => x.from <= rev + 1
  /\ \A i \in 1..Len(x.delivered) : x.delivered[i] >= x.from
  /\ \A r \in x.backlog : r >= x.from
  /\ \A j \in Batches(x) : x.queue[j] >= x.from

Sound(x, rev, told, shut) ==
  /\ Quiet(x) /\ Tied(x, shut) /\ Within(x, rev) /\ Ordered(x)
  /\ Complete(x, rev, told)
  /\ Ahead <= 1 => Starts(x, rev)

LEMMA WatcherFields ==
  ASSUME NEW x \in Watcher
  PROVE  /\ x.phase \in Phases /\ x.from \in Nat /\ x.registered \in BOOLEAN
         /\ x.backlog \in SUBSET Nat
         /\ x.queue \in Seq(Nat) /\ Len(x.queue) \in Nat
         /\ \A j \in 1..Len(x.queue) : x.queue[j] \in Nat
         /\ x.delivered \in Seq(Nat) /\ Len(x.delivered) \in Nat
         /\ \A i \in 1..Len(x.delivered) : x.delivered[i] \in Nat
<1>1. x.queue \in Seq(Nat) /\ x.delivered \in Seq(Nat)
  BY DEF Watcher
<1>2. \A s \in Seq(Nat) : Len(s) \in Nat /\ \A i \in 1..Len(s) : s[i] \in Nat
  OBVIOUS
<1> QED
  BY <1>1, <1>2 DEF Watcher

\* A revision comes that is not of the watch's range, or of no concern to it.
LEMMA PassedOver ==
  ASSUME NEW x \in Watcher, NEW rev \in Nat, NEW told \in Seq(SUBSET Event),
         NEW batch \in SUBSET Event, NEW shut \in BOOLEAN,
         Len(told) = rev, ~shut, Sound(x, rev, told, shut),
         ~(x.registered /\ Touches(batch, x.range))
  PROVE  Sound(x, rev + 1, Append(told, batch), shut)
<1> DEFINE more == Append(told, batch)
<1>1. \A r \in 1..rev : more[r] = told[r]
  BY AppendProperties
<1>2. more[rev + 1] = batch
  BY AppendProperties
<1> HIDE DEF more
<1>3. x.from \in Nat
  BY WatcherFields
<1>4. Complete(x, rev + 1, more)
  <2>1. CASE x.phase = "open"
    <3>1. x.registered /\ ~Touches(batch, x.range)
      BY <2>1 DEF Sound, Tied
    <3>2. \A r \in Due(x, rev + 1, more) : r \in Due(x, rev, told)
      BY <1>1, <1>2, <3>1 DEF Due
    <3> QED
      BY <2>1, <3>2 DEF Complete, Sound
  <2>2. CASE x.phase # "open"
    BY <2>2 DEF Complete, Sound, Tied
  <2> QED
    BY <2>1, <2>2
<1>5. Within(x, rev + 1)
  BY DEF Within, Sound
<1>6. Ahead <= 1 => Starts(x, rev + 1)
  BY <1>3 DEF Starts, Sound
<1> QED
  BY <1>4, <1>5, <1>6 DEF Sound, more

\* A revision of its range is queued.
LEMMA Queued ==
  ASSUME NEW x \in Watcher, NEW rev \in Nat, NEW told \in Seq(SUBSET Event),
         NEW batch \in SUBSET Event, NEW shut \in BOOLEAN,
         Len(told) = rev, ~shut, Sound(x, rev, told, shut), x.registered
  PROVE  Sound([x EXCEPT !.queue = Append(@, rev + 1)], rev + 1, Append(told, batch), shut)
<1> DEFINE y == [x EXCEPT !.queue = Append(@, rev + 1)]
           more == Append(told, batch)
           n == Len(x.queue)
<1>1. /\ n \in Nat /\ x.from \in Nat /\ x.backlog \in SUBSET Nat
      /\ \A j \in 1..n : x.queue[j] \in Nat
      /\ \A i \in 1..Len(x.delivered) : x.delivered[i] \in Nat
      /\ Len(x.delivered) \in Nat
  BY WatcherFields
<1>2. /\ y.phase = x.phase /\ y.range = x.range /\ y.from = x.from
      /\ y.registered = x.registered /\ y.backlog = x.backlog /\ y.delivered = x.delivered
      /\ y.queue = Append(x.queue, rev + 1)
  BY DEF Watcher
<1>3. /\ Len(y.queue) = n + 1 /\ y.queue[n + 1] = rev + 1
      /\ \A j \in 1..n : y.queue[j] = x.queue[j]
  BY <1>2, WatcherFields, AppendProperties
<1>4. /\ \A r \in 1..rev : more[r] = told[r]
      /\ x.phase = "open"
  BY AppendProperties DEF Sound, Tied
<1> HIDE DEF y, more, n
<1>5. Quiet(y)
  BY <1>2, <1>4 DEF Quiet
<1>6. \A j \in 1..n : x.queue[j] # End
  BY DEF Sound, Tied, n
<1>7. Batches(x) = 1..n /\ Batches(y) = 1..(n + 1)
  <2>1. Batches(x) = 1..n
    BY <1>6 DEF Batches, n
  <2>2. ASSUME NEW j \in 1..(n + 1)
        PROVE  y.queue[j] # End
    <3>1. CASE j = n + 1
      BY <1>3, <3>1 DEF End
    <3>2. CASE j # n + 1
      <4>1. j \in 1..n
        BY <1>1, <3>2
      <4> QED
        BY <1>3, <1>6, <4>1
    <3> QED
      BY <3>1, <3>2
  <2>3. Batches(y) = 1..(n + 1)
    BY <1>3, <2>2 DEF Batches
  <2> QED
    BY <2>1, <2>3
<1>8. Tied(y, shut)
  BY <1>1, <1>2, <1>3, <1>6 DEF Tied, Sound, End
<1>9. Within(y, rev + 1)
  <2>1. /\ \A i \in 1..Len(y.delivered) : y.delivered[i] \in 1..rev
        /\ y.backlog \subseteq 1..rev
        /\ \A j \in 1..n : y.queue[j] \in 1..rev
    BY <1>2, <1>3, <1>7 DEF Within, Sound
  <2>2. \A j \in Batches(y) : y.queue[j] \in 1..(rev + 1)
    BY <1>1, <1>3, <1>7, <2>1
  <2> QED
    BY <2>1, <2>2 DEF Within
<1>10. Ordered(y)
  <2>0. /\ \A i, j \in 1..n : i < j => x.queue[i] < x.queue[j]
        /\ \A i \in 1..Len(x.delivered) : \A j \in 1..n : x.delivered[i] < x.queue[j]
        /\ \A r \in x.backlog : \A j \in 1..n : r < x.queue[j]
        /\ \A j \in 1..n : x.queue[j] \in 1..rev
        /\ \A i \in 1..Len(x.delivered) : x.delivered[i] \in 1..rev
        /\ \A r \in x.backlog : r \in 1..rev
    BY <1>7 DEF Ordered, Within, Sound
  <2>1. ASSUME NEW i \in 1..(n + 1), NEW j \in 1..(n + 1), i < j
        PROVE  y.queue[i] < y.queue[j]
    <3>1. i \in 1..n /\ y.queue[i] = x.queue[i]
      BY <1>1, <1>3, <2>1
    <3>2. CASE j = n + 1
      BY <1>3, <2>0, <3>1, <3>2
    <3>3. CASE j # n + 1
      BY <1>1, <1>3, <2>0, <2>1, <3>1, <3>3
    <3> QED
      BY <3>2, <3>3
  <2>2. ASSUME NEW i \in 1..Len(x.delivered), NEW j \in 1..(n + 1)
        PROVE  x.delivered[i] < y.queue[j]
    <3>1. CASE j = n + 1
      BY <1>3, <2>0, <3>1
    <3>2. CASE j # n + 1
      <4>1. j \in 1..n
        BY <1>1, <3>2
      <4> QED
        BY <1>3, <2>0, <4>1
    <3> QED
      BY <3>1, <3>2
  <2>3. ASSUME NEW r \in x.backlog, NEW j \in 1..(n + 1)
        PROVE  r < y.queue[j]
    <3>1. CASE j = n + 1
      BY <1>3, <2>0, <3>1
    <3>2. CASE j # n + 1
      <4>1. j \in 1..n
        BY <1>1, <3>2
      <4> QED
        BY <1>3, <2>0, <4>1
    <3> QED
      BY <3>1, <3>2
  <2> QED
    BY <1>2, <1>7, <2>1, <2>2, <2>3 DEF Ordered, Sound
<1>11. Complete(y, rev + 1, more)
  <2>1. ASSUME NEW r \in Due(y, rev + 1, more)
        PROVE  Has(y, r) \/ Holding(y, r)
    <3>1. CASE r = rev + 1
      <4>1. n + 1 \in 1..Len(y.queue) /\ y.queue[n + 1] = r
        BY <1>1, <1>3, <3>1
      <4> QED
        BY <4>1 DEF Holding
    <3>2. CASE r # rev + 1
      <4>1. r \in Due(x, rev, told)
        BY <1>2, <1>4, <3>2 DEF Due
      <4>2. Has(x, r) \/ Holding(x, r)
        BY <1>4, <4>1 DEF Complete, Sound
      <4>3. Holding(x, r) => Holding(y, r)
        BY <1>1, <1>2, <1>3 DEF Holding, n
      <4> QED
        BY <1>2, <4>2, <4>3 DEF Has
    <3> QED
      BY <3>1, <3>2
  <2> QED
    BY <1>2, <1>4, <2>1 DEF Complete
<1>12. Ahead <= 1 => Starts(y, rev + 1)
  BY <1>1, <1>2, <1>3, <1>4, <1>7 DEF Starts, Sound
<1> QED
  BY <1>5, <1>8, <1>9, <1>10, <1>11, <1>12 DEF Sound, y, more
-----------------------------------------------------------------------------
(* The steps of one watch.                                                 *)

\* The least batch of the backlog is handed over.
LEMMA Replayed ==
  ASSUME NEW x \in Watcher, NEW rev \in Nat, NEW told, NEW shut \in BOOLEAN,
         Sound(x, rev, told, shut), x.phase = "open", x.backlog # {}
  PROVE  LET r == Min(x.backlog)
         IN Sound([x EXCEPT !.backlog = @ \ {r}, !.delivered = Append(@, r)], rev, told, shut)
<1> DEFINE r == Min(x.backlog)
           y == [x EXCEPT !.backlog = @ \ {r}, !.delivered = Append(@, r)]
           n == Len(x.delivered)
<1>1. /\ n \in Nat /\ x.from \in Nat /\ x.backlog \in SUBSET Nat
      /\ \A j \in 1..Len(x.queue) : x.queue[j] \in Nat
      /\ \A i \in 1..n : x.delivered[i] \in Nat
  BY WatcherFields
<1>2. r \in x.backlog /\ \A q \in x.backlog : r <= q
  BY <1>1, MinProperties
<1> HIDE DEF r
<1>3. /\ y.phase = x.phase /\ y.range = x.range /\ y.from = x.from
      /\ y.registered = x.registered /\ y.queue = x.queue
      /\ y.backlog = x.backlog \ {r} /\ y.delivered = Append(x.delivered, r)
  BY DEF Watcher
<1>4. /\ Len(y.delivered) = n + 1 /\ y.delivered[n + 1] = r
      /\ \A i \in 1..n : y.delivered[i] = x.delivered[i]
  BY <1>1, <1>2, <1>3, WatcherFields, AppendProperties
<1> HIDE DEF y, n
<1>5. Batches(y) = Batches(x) /\ Batches(x) \subseteq 1..Len(x.queue)
  BY <1>3 DEF Batches
<1>6. Quiet(y) /\ Tied(y, shut)
  BY <1>3 DEF Quiet, Tied, Sound
<1>7. ASSUME NEW i \in 1..(n + 1)
      PROVE  i = n + 1 \/ (i \in 1..n /\ y.delivered[i] = x.delivered[i])
  BY <1>1, <1>4
<1>8. /\ \A i \in 1..n : x.delivered[i] \in 1..rev
      /\ x.backlog \subseteq 1..rev /\ \A j \in Batches(x) : x.queue[j] \in 1..rev
  BY DEF Sound, Within, n
<1>9. Within(y, rev)
  <2>1. \A i \in 1..(n + 1) : y.delivered[i] \in 1..rev
    BY <1>2, <1>4, <1>7, <1>8
  <2> QED
    BY <1>3, <1>4, <1>5, <1>8, <2>1 DEF Within
<1>10. Ordered(y)
  <2>1. /\ \A i, j \in 1..n : i < j => x.delivered[i] < x.delivered[j]
        /\ \A i, j \in Batches(x) : i < j => x.queue[i] < x.queue[j]
        /\ \A i \in 1..n : \A q \in x.backlog : x.delivered[i] < q
        /\ \A i \in 1..n : \A j \in Batches(x) : x.delivered[i] < x.queue[j]
        /\ \A q \in x.backlog : \A j \in Batches(x) : q < x.queue[j]
    BY DEF Sound, Ordered, n
  <2>2. ASSUME NEW i \in 1..(n + 1), NEW j \in 1..(n + 1), i < j
        PROVE  y.delivered[i] < y.delivered[j]
    <3>1. i \in 1..n /\ y.delivered[i] = x.delivered[i]
      BY <1>1, <1>4, <2>2
    <3>2. CASE j = n + 1
      BY <1>2, <1>4, <2>1, <3>1, <3>2
    <3>3. CASE j # n + 1
      BY <1>7, <2>1, <2>2, <3>1, <3>3
    <3> QED
      BY <3>2, <3>3
  <2>3. ASSUME NEW i \in 1..(n + 1), NEW q \in x.backlog \ {r}
        PROVE  y.delivered[i] < q
    <3>1. CASE i = n + 1
      BY <1>1, <1>2, <1>4, <3>1
    <3>2. CASE i # n + 1
      BY <1>7, <2>1, <3>2
    <3> QED
      BY <3>1, <3>2
  <2>4. ASSUME NEW i \in 1..(n + 1), NEW j \in Batches(x)
        PROVE  y.delivered[i] < x.queue[j]
    <3>1. CASE i = n + 1
      BY <1>2, <1>4, <2>1, <3>1
    <3>2. CASE i # n + 1
      BY <1>7, <2>1, <3>2
    <3> QED
      BY <3>1, <3>2
  <2> QED
    BY <1>3, <1>4, <1>5, <2>1, <2>2, <2>3, <2>4 DEF Ordered
<1>11. Complete(y, rev, told)
  <2>1. ASSUME NEW q, Has(x, q) \/ Holding(x, q)
        PROVE  Has(y, q) \/ Holding(y, q)
    <3>1. CASE q = r
      <4>1. n + 1 \in 1..Len(y.delivered) /\ y.delivered[n + 1] = q
        BY <1>1, <1>4, <3>1
      <4> QED
        BY <4>1 DEF Has
    <3>2. CASE q # r
      <4>1. Has(x, q) => Has(y, q)
        BY <1>1, <1>4 DEF Has, n
      <4>2. Holding(x, q) => Holding(y, q)
        BY <1>3, <3>2 DEF Holding
      <4> QED
        BY <2>1, <4>1, <4>2
    <3> QED
      BY <3>1, <3>2
  <2>2. Due(y, rev, told) = Due(x, rev, told)
    BY <1>3 DEF Due
  <2> QED
    BY <1>3, <2>1, <2>2 DEF Complete, Sound
<1>12. Ahead <= 1 => Starts(y, rev)
  <2>1. ASSUME Ahead <= 1, NEW i \in 1..(n + 1)
        PROVE  y.delivered[i] >= x.from
    BY <1>2, <1>4, <1>7, <2>1 DEF Starts, Sound, n
  <2> QED
    BY <1>3, <1>4, <1>5, <2>1 DEF Starts, Sound
<1> QED
  BY <1>6, <1>9, <1>10, <1>11, <1>12 DEF Sound, y, r

\* The queue of a watch after its head is taken.
LEMMA TailQueue ==
  ASSUME NEW x \in Watcher, x.queue # <<>>
  PROVE  /\ Head(x.queue) = x.queue[1] /\ Len(x.queue) >= 1
         /\ Len(Tail(x.queue)) = Len(x.queue) - 1
         /\ \A j \in 1..(Len(x.queue) - 1) : Tail(x.queue)[j] = x.queue[j + 1]
<1>1. x.queue \in Seq(Nat)
  BY WatcherFields
<1>2. /\ Len(Tail(x.queue)) = Len(x.queue) - 1
      /\ \A j \in 1..Len(Tail(x.queue)) : Tail(x.queue)[j] = x.queue[j + 1]
  BY <1>1, HeadTailProperties
<1> QED
  BY <1>1, <1>2

\* The backlog is spent and the head of the queue, a batch, handed over.
LEMMA Streamed ==
  ASSUME NEW x \in Watcher, NEW rev \in Nat, NEW told, NEW shut \in BOOLEAN,
         Sound(x, rev, told, shut), x.phase = "open", x.backlog = {},
         x.queue # <<>>, Head(x.queue) # End
  PROVE  Sound([x EXCEPT !.queue = Tail(@), !.delivered = Append(@, Head(x.queue))],
               rev, told, shut)
<1> DEFINE r == Head(x.queue)
           y == [x EXCEPT !.queue = Tail(@), !.delivered = Append(@, r)]
           n == Len(x.delivered)
           m == Len(x.queue)
<1>1. /\ n \in Nat /\ m \in Nat /\ x.from \in Nat
      /\ \A j \in 1..m : x.queue[j] \in Nat
      /\ \A i \in 1..n : x.delivered[i] \in Nat
  BY WatcherFields
<1>2. /\ r = x.queue[1] /\ r # End /\ 1 \in 1..m /\ r \in Nat
      /\ Len(Tail(x.queue)) = m - 1
      /\ \A j \in 1..(m - 1) : Tail(x.queue)[j] = x.queue[j + 1]
  BY <1>1, TailQueue
<1> HIDE DEF r
<1>3. /\ y.phase = x.phase /\ y.range = x.range /\ y.from = x.from
      /\ y.registered = x.registered /\ y.backlog = {}
      /\ y.queue = Tail(x.queue) /\ y.delivered = Append(x.delivered, r)
  BY DEF Watcher
<1>4. /\ Len(y.delivered) = n + 1 /\ y.delivered[n + 1] = r
      /\ \A i \in 1..n : y.delivered[i] = x.delivered[i]
  BY <1>2, <1>3, WatcherFields, AppendProperties
<1>5. Len(y.queue) = m - 1 /\ \A j \in 1..(m - 1) : y.queue[j] = x.queue[j + 1]
  BY <1>2, <1>3
<1> HIDE DEF y, n, m
<1>6. 1 \in Batches(x)
  BY <1>2 DEF Batches, m
<1>7. \A j \in Batches(y) : j + 1 \in Batches(x) /\ y.queue[j] = x.queue[j + 1] /\ j \in Nat \ {0}
  BY <1>1, <1>5 DEF Batches, m
<1>8. Quiet(y)
  BY <1>3 DEF Quiet
<1>9. Tied(y, shut)
  <2>1. \A j \in 1..(m - 1) : y.queue[j] = End => j = m - 1 /\ shut
    <3>1. ASSUME NEW j \in 1..(m - 1), x.queue[j + 1] = End
          PROVE  j = m - 1 /\ shut
      <4>1. j + 1 \in 1..m
        BY <1>1
      <4>2. j + 1 = m /\ shut
        BY <3>1, <4>1 DEF Tied, Sound, m
      <4> QED
        BY <1>1, <4>2
    <3> QED
      BY <1>5, <3>1
  <2> QED
    BY <1>3, <1>5, <2>1 DEF Tied, Sound
<1>10. /\ \A i \in 1..n : x.delivered[i] \in 1..rev
       /\ \A j \in Batches(x) : x.queue[j] \in 1..rev
  BY DEF Sound, Within, n
<1>11. ASSUME NEW i \in 1..(n + 1)
       PROVE  i = n + 1 \/ (i \in 1..n /\ y.delivered[i] = x.delivered[i])
  BY <1>1, <1>4
<1>12. Within(y, rev)
  <2>1. \A i \in 1..(n + 1) : y.delivered[i] \in 1..rev
    BY <1>2, <1>4, <1>6, <1>10, <1>11
  <2> QED
    BY <1>3, <1>4, <1>7, <1>10, <2>1 DEF Within
<1>13. Ordered(y)
  <2>1. /\ \A i, j \in 1..n : i < j => x.delivered[i] < x.delivered[j]
        /\ \A i, j \in Batches(x) : i < j => x.queue[i] < x.queue[j]
        /\ \A i \in 1..n : \A j \in Batches(x) : x.delivered[i] < x.queue[j]
    BY DEF Sound, Ordered, n
  <2>2. ASSUME NEW i \in 1..(n + 1), NEW j \in 1..(n + 1), i < j
        PROVE  y.delivered[i] < y.delivered[j]
    <3>1. i \in 1..n /\ y.delivered[i] = x.delivered[i]
      BY <1>1, <1>4, <2>2
    <3>2. CASE j = n + 1
      BY <1>2, <1>4, <1>6, <2>1, <3>1, <3>2
    <3>3. CASE j # n + 1
      BY <1>11, <2>1, <2>2, <3>1, <3>3
    <3> QED
      BY <3>2, <3>3
  <2>3. ASSUME NEW i \in Batches(y), NEW j \in Batches(y), i < j
        PROVE  y.queue[i] < y.queue[j]
    <3>1. i + 1 < j + 1
      BY <1>7, <2>3
    <3> QED
      BY <1>7, <2>1, <3>1
  <2>4. ASSUME NEW i \in 1..(n + 1), NEW j \in Batches(y)
        PROVE  y.delivered[i] < y.queue[j]
    <3>1. CASE i = n + 1
      <4>1. 1 < j + 1
        BY <1>7
      <4> QED
        BY <1>2, <1>4, <1>6, <1>7, <2>1, <3>1, <4>1
    <3>2. CASE i # n + 1
      BY <1>7, <1>11, <2>1, <3>2
    <3> QED
      BY <3>1, <3>2
  <2> QED
    BY <1>3, <1>4, <2>2, <2>3, <2>4 DEF Ordered
<1>14. Complete(y, rev, told)
  <2>1. ASSUME NEW q, Has(x, q) \/ Holding(x, q)
        PROVE  Has(y, q) \/ Holding(y, q)
    <3>1. CASE q = r
      <4>1. n + 1 \in 1..Len(y.delivered) /\ y.delivered[n + 1] = q
        BY <1>1, <1>4, <3>1
      <4> QED
        BY <4>1 DEF Has
    <3>2. CASE q # r /\ Has(x, q)
      <4>1. PICK i \in 1..n : x.delivered[i] = q
        BY <3>2 DEF Has, n
      <4>2. i \in 1..Len(y.delivered) /\ y.delivered[i] = q
        BY <1>1, <1>4, <4>1
      <4> QED
        BY <4>2 DEF Has
    <3>3. CASE q # r /\ Holding(x, q)
      <4>1. PICK j \in 1..m : x.queue[j] = q
        BY <3>3 DEF Holding, m
      <4>2. j - 1 \in 1..(m - 1) /\ (j - 1) + 1 = j
        BY <1>1, <1>2, <3>3, <4>1
      <4>3. y.queue[j - 1] = q
        BY <1>5, <4>1, <4>2
      <4> QED
        BY <1>5, <4>2, <4>3 DEF Holding
    <3> QED
      BY <2>1, <3>1, <3>2, <3>3
  <2>2. Due(y, rev, told) = Due(x, rev, told)
    BY <1>3 DEF Due
  <2> QED
    BY <1>3, <2>1, <2>2 DEF Complete, Sound
<1>15. Ahead <= 1 => Starts(y, rev)
  <2>1. ASSUME Ahead <= 1, NEW i \in 1..(n + 1)
        PROVE  y.delivered[i] >= x.from
    BY <1>2, <1>4, <1>6, <1>11, <2>1 DEF Starts, Sound, n
  <2> QED
    BY <1>3, <1>4, <1>7, <2>1 DEF Starts, Sound
<1> QED
  BY <1>8, <1>9, <1>12, <1>13, <1>14, <1>15 DEF Sound, y, r

\* The end in the queue is reached: nothing is left that is owed.
LEMMA Drained ==
  ASSUME NEW x \in Watcher, NEW rev \in Nat, NEW told, NEW shut \in BOOLEAN,
         Sound(x, rev, told, shut), x.phase = "open", x.backlog = {},
         x.queue # <<>>, Head(x.queue) = End
  PROVE  Sound([x EXCEPT !.queue = Tail(@), !.phase = "done", !.registered = FALSE],
               rev, told, shut)
<1> DEFINE y == [x EXCEPT !.queue = Tail(@), !.phase = "done", !.registered = FALSE]
<1>1. x.queue[1] = End /\ Len(x.queue) = 1 /\ shut
  <2>1. x.queue[1] = End /\ Len(x.queue) >= 1 /\ Len(x.queue) \in Nat
    BY TailQueue, WatcherFields
  <2>2. \A j \in 1..Len(x.queue) : x.queue[j] = End => j = Len(x.queue) /\ shut
    BY DEF Sound, Tied
  <2>3. 1 \in 1..Len(x.queue)
    BY <2>1
  <2> QED
    BY <2>1, <2>2, <2>3
<1>2. /\ y.phase = "done" /\ y.range = x.range /\ y.from = x.from
      /\ ~y.registered /\ y.backlog = {} /\ y.delivered = x.delivered
      /\ y.queue = Tail(x.queue)
  BY DEF Watcher
<1>3. Len(y.queue) = 0
  BY <1>1, <1>2, TailQueue
<1> HIDE DEF y
<1>4. Batches(y) = {}
  BY <1>3 DEF Batches
<1>5. Quiet(y) /\ Tied(y, shut)
  BY <1>1, <1>2, <1>3 DEF Quiet, Tied
<1>6. Within(y, rev) /\ Ordered(y) /\ (Ahead <= 1 => Starts(y, rev))
  BY <1>2, <1>4 DEF Within, Ordered, Starts, Sound
<1>7. Complete(y, rev, told)
  <2>1. ASSUME NEW r \in Due(x, rev, told)
        PROVE  Has(x, r)
    <3>1. r # End
      BY DEF Due, End
    <3>2. ~Holding(x, r)
      BY <1>1, <3>1 DEF Holding
    <3> QED
      BY <3>2 DEF Sound, Complete
  <2> QED
    BY <1>2, <2>1 DEF Complete, Due, Has
<1> QED
  BY <1>5, <1>6, <1>7 DEF Sound, y

\* A watch that was called starts: it is refused, or holds what is owed.
LEMMA Begun ==
  ASSUME NEW x \in Watcher, NEW rev \in Nat, NEW told, NEW shut \in BOOLEAN,
         Sound(x, rev, told, shut), x.phase = "called"
  PROVE  /\ ~shut => Sound([x EXCEPT !.phase = "open", !.registered = TRUE,
                                     !.backlog = Due(x, rev, told)], rev, told, shut)
         /\ Sound([x EXCEPT !.phase = "refused"], rev, told, shut)
         /\ Sound([x EXCEPT !.phase = "compacted"], rev, told, shut)
<1>1. x.queue = <<>> /\ x.delivered = <<>> /\ x.backlog = {} /\ ~x.registered
  BY DEF Sound, Quiet
<1>2. ASSUME NEW y, y.queue = <<>>, y.delivered = <<>>
      PROVE  /\ Len(y.queue) = 0 /\ Len(y.delivered) = 0
             /\ Batches(y) = {} /\ Ordered(y)
  <2>1. Len(y.queue) = 0 /\ Len(y.delivered) = 0
    BY <1>2
  <2>2. Batches(y) = {}
    BY <2>1 DEF Batches
  <2> QED
    BY <2>1, <2>2 DEF Ordered
<1>3. ASSUME ~shut
      PROVE  Sound([x EXCEPT !.phase = "open", !.registered = TRUE,
                             !.backlog = Due(x, rev, told)], rev, told, shut)
  <2> DEFINE y == [x EXCEPT !.phase = "open", !.registered = TRUE,
                            !.backlog = Due(x, rev, told)]
  <2>1. /\ y.phase = "open" /\ y.registered /\ y.range = x.range /\ y.from = x.from
        /\ y.backlog = Due(x, rev, told) /\ y.queue = <<>> /\ y.delivered = <<>>
    BY <1>1 DEF Watcher
  <2> HIDE DEF y
  <2>2. Len(y.queue) = 0 /\ Len(y.delivered) = 0 /\ Batches(y) = {} /\ Ordered(y)
    BY <1>2, <2>1
  <2>3. Quiet(y) /\ Tied(y, shut)
    BY <1>3, <2>1, <2>2 DEF Quiet, Tied
  <2>4. Within(y, rev)
    BY <2>1, <2>2 DEF Within, Due
  <2>5. Complete(y, rev, told)
    BY <2>1 DEF Complete, Due, Holding
  <2>6. Ahead <= 1 => Starts(y, rev)
    BY <2>1, <2>2 DEF Starts, Sound, Due
  <2> QED
    BY <2>2, <2>3, <2>4, <2>5, <2>6 DEF Sound, y
<1>4. ASSUME NEW phase \in {"refused", "compacted"}
      PROVE  Sound([x EXCEPT !.phase = phase], rev, told, shut)
  <2> DEFINE y == [x EXCEPT !.phase = phase]
  <2>1. /\ y.phase = phase /\ ~y.registered /\ y.backlog = {}
        /\ y.queue = <<>> /\ y.delivered = <<>>
    BY <1>1 DEF Watcher
  <2> HIDE DEF y
  <2>2. Len(y.queue) = 0 /\ Len(y.delivered) = 0 /\ Batches(y) = {} /\ Ordered(y)
    BY <1>2, <2>1
  <2>3. Quiet(y) /\ Tied(y, shut) /\ Within(y, rev) /\ Complete(y, rev, told) /\ Starts(y, rev)
    BY <2>1, <2>2 DEF Quiet, Tied, Within, Complete, Starts
  <2> QED
    BY <2>2, <2>3 DEF Sound, y
<1> QED
  BY <1>3, <1>4

\* A watch is called.
LEMMA Called ==
  ASSUME NEW x \in Watcher, NEW rev \in Nat, NEW told, NEW shut \in BOOLEAN,
         Sound(x, rev, told, shut), x.phase = "idle",
         NEW range, NEW from \in 1..(rev + Ahead)
  PROVE  Sound([x EXCEPT !.phase = "called", !.range = range, !.from = from], rev, told, shut)
<1> DEFINE y == [x EXCEPT !.phase = "called", !.range = range, !.from = from]
<1>1. /\ y.phase = "called" /\ y.from = from /\ ~y.registered
      /\ y.backlog = {} /\ y.queue = <<>> /\ y.delivered = <<>>
  BY DEF Watcher, Sound, Quiet
<1> HIDE DEF y
<1>2. Len(y.queue) = 0 /\ Len(y.delivered) = 0
  BY <1>1
<1>3. Batches(y) = {}
  BY <1>2 DEF Batches
<1>4. Quiet(y) /\ Tied(y, shut) /\ Within(y, rev) /\ Ordered(y) /\ Complete(y, rev, told)
  BY <1>1, <1>2, <1>3 DEF Quiet, Tied, Within, Ordered, Complete
<1>5. Ahead \in Nat
  BY ConstantsOK DEF ConstantsOK
<1>6. Ahead <= 1 => Starts(y, rev)
  BY <1>1, <1>2, <1>3, <1>5 DEF Starts
<1> QED
  BY <1>4, <1>6 DEF Sound, y

\* Its consumer gives it up.
LEMMA GivenUp ==
  ASSUME NEW x \in Watcher, NEW rev \in Nat, NEW told, NEW shut \in BOOLEAN,
         Sound(x, rev, told, shut)
  PROVE  Sound([x EXCEPT !.phase = "cancelled", !.registered = FALSE], rev, told, shut)
<1> DEFINE y == [x EXCEPT !.phase = "cancelled", !.registered = FALSE]
<1>1. /\ y.phase = "cancelled" /\ ~y.registered /\ y.from = x.from
      /\ y.backlog = x.backlog /\ y.queue = x.queue /\ y.delivered = x.delivered
  BY DEF Watcher
<1> HIDE DEF y
<1>2. Batches(y) = Batches(x)
  BY <1>1 DEF Batches
<1>3. Quiet(y) /\ Tied(y, shut)
  BY <1>1 DEF Quiet, Tied, Sound
<1>4. Within(y, rev) /\ Ordered(y)
  BY <1>1, <1>2 DEF Within, Ordered, Sound
<1>5. Complete(y, rev, told) /\ (Ahead <= 1 => Starts(y, rev))
  BY <1>1, <1>2 DEF Complete, Starts, Sound
<1> QED
  BY <1>3, <1>4, <1>5 DEF Sound, y

\* The backend closes: a registered watch gets its end queued.
LEMMA ToldOfClose ==
  ASSUME NEW x \in Watcher, NEW rev \in Nat, NEW told, Sound(x, rev, told, FALSE)
  PROVE  /\ x.registered => Sound([x EXCEPT !.queue = Append(@, End), !.registered = FALSE],
                                  rev, told, TRUE)
         /\ ~x.registered => Sound(x, rev, told, TRUE)
<1>1. ASSUME x.registered
      PROVE  Sound([x EXCEPT !.queue = Append(@, End), !.registered = FALSE], rev, told, TRUE)
  <2> DEFINE y == [x EXCEPT !.queue = Append(@, End), !.registered = FALSE]
             n == Len(x.queue)
  <2>1. /\ y.phase = x.phase /\ y.range = x.range /\ y.from = x.from
        /\ ~y.registered /\ y.backlog = x.backlog /\ y.delivered = x.delivered
        /\ y.queue = Append(x.queue, End)
    BY DEF Watcher
  <2>2. n \in Nat /\ x.queue \in Seq(Nat) /\ End \in Nat
    BY WatcherFields DEF End
  <2>3. /\ Len(y.queue) = n + 1 /\ y.queue[n + 1] = End
        /\ \A j \in 1..n : y.queue[j] = x.queue[j]
    BY <2>1, <2>2, AppendProperties
  <2> HIDE DEF y, n
  <2>4. x.phase = "open" /\ \A j \in 1..n : x.queue[j] # End
    BY <1>1 DEF Sound, Tied, n
  <2>5. ASSUME NEW j \in 1..(n + 1)
        PROVE  j = n + 1 \/ (j \in 1..n /\ y.queue[j] = x.queue[j])
    BY <2>2, <2>3
  <2>6. \A j : j \in Batches(y) <=> j \in Batches(x)
    <3>1. Batches(x) = 1..n
      BY <2>4 DEF Batches, n
    <3>2. ASSUME NEW j \in Batches(y)
          PROVE  j \in 1..n
      <4>1. j \in 1..(n + 1) /\ y.queue[j] # End
        BY <2>3 DEF Batches
      <4> QED
        BY <2>3, <2>5, <4>1
    <3>3. ASSUME NEW j \in 1..n
          PROVE  j \in Batches(y)
      <4>1. j \in 1..(n + 1) /\ y.queue[j] # End
        BY <2>2, <2>3, <2>4
      <4> QED
        BY <2>3, <4>1 DEF Batches
    <3> QED
      BY <3>1, <3>2, <3>3
  <2>7. \A j \in Batches(y) : y.queue[j] = x.queue[j]
    BY <2>3, <2>5 DEF Batches
  <2>8. Quiet(y) /\ Tied(y, TRUE)
    BY <2>1, <2>2, <2>3, <2>4, <2>5 DEF Quiet, Tied
  <2>9. Within(y, rev) /\ (Ahead <= 1 => Starts(y, rev))
    BY <2>1, <2>6, <2>7 DEF Within, Starts, Sound
  <2>10. Ordered(y)
    BY <2>1, <2>6, <2>7 DEF Ordered, Sound
  <2>11. \A r : Holding(x, r) => Holding(y, r)
    <3>1. ASSUME NEW r, NEW j \in 1..n, x.queue[j] = r
          PROVE  \E i \in 1..Len(y.queue) : y.queue[i] = r
      <4>1. j \in 1..Len(y.queue) /\ y.queue[j] = r
        BY <2>2, <2>3, <3>1
      <4> QED
        BY <4>1
    <3> QED
      BY <2>1, <3>1 DEF Holding, n
  <2>12. Due(y, rev, told) = Due(x, rev, told)
    BY <2>1 DEF Due
  <2>13. Complete(y, rev, told)
    BY <2>1, <2>11, <2>12 DEF Complete, Has, Sound
  <2> QED
    BY <2>8, <2>9, <2>10, <2>13 DEF Sound, y
<1>2. ASSUME ~x.registered
      PROVE  Sound(x, rev, told, TRUE)
  BY <1>2 DEF Sound, Tied
<1> QED
  BY <1>1, <1>2
-----------------------------------------------------------------------------
(* The steps of the backend.                                               *)

\* Every revision has its batch, those after the compacted one are there to
\* be replayed, and a closed backend is not expiring leases.
StreamInv ==
  /\ Len(log) = revision /\ compacted <= revision
  /\ events = (compacted + 1)..revision
  /\ closed => expired = {}
  /\ \A w \in Watches : Sound(watch[w], revision, log, closed)

LEMMA PublishStreams ==
  ASSUME TypeOK, TypeOK', StreamInv, ~closed, ~closed', compacted' = compacted,
         NEW batch, Publish(batch)
  PROVE  StreamInv'
<1>1. /\ revision \in Nat /\ compacted \in Nat /\ log \in Seq(SUBSET Event)
      /\ log' \in Seq(SUBSET Event) /\ watch \in [Watches -> Watcher]
  BY DEF TypeOK
<1>2. /\ revision' = revision + 1 /\ log' = Append(log, batch)
      /\ events' = events \cup {revision + 1}
  BY DEF Publish
<1>3. batch \in SUBSET Event
  <2>1. Len(log') = Len(log) + 1 /\ log'[Len(log) + 1] = batch
    BY <1>1, <1>2
  <2> QED
    BY <1>1, <2>1, ElementOfSeq
<1>4. Len(log') = revision'
  BY <1>1, <1>2, <1>3, AppendProperties DEF StreamInv
<1>5. compacted' <= revision' /\ events' = (compacted' + 1)..revision'
  BY <1>1, <1>2 DEF StreamInv
<1>6. ASSUME NEW w \in Watches
      PROVE  Sound(watch'[w], revision', log', closed')
  <2>1. /\ watch[w] \in Watcher /\ closed \in BOOLEAN /\ Len(log) = revision
        /\ Sound(watch[w], revision, log, closed) /\ closed = FALSE /\ closed' = FALSE
    BY <1>1 DEF StreamInv, TypeOK
  <2>2. CASE watch[w].registered /\ Touches(batch, watch[w].range)
    <3>1. watch'[w] = [watch[w] EXCEPT !.queue = Append(@, revision + 1)]
      BY <2>2 DEF Publish
    <3>2. Sound([watch[w] EXCEPT !.queue = Append(@, revision + 1)],
                revision + 1, Append(log, batch), closed)
      BY <1>1, <1>3, <2>1, <2>2, Queued
    <3> QED
      BY <1>2, <2>1, <3>1, <3>2
  <2>3. CASE ~(watch[w].registered /\ Touches(batch, watch[w].range))
    <3>1. watch'[w] = watch[w]
      BY <2>3 DEF Publish
    <3>2. Sound(watch[w], revision + 1, Append(log, batch), closed)
      BY <1>1, <1>3, <2>1, <2>3, PassedOver
    <3> QED
      BY <1>2, <2>1, <3>1, <3>2
  <2> QED
    BY <2>2, <2>3
<1> QED
  BY <1>4, <1>5, <1>6 DEF StreamInv

\* A step that commits or leaves the streams alone.
LEMMA StoreStreams ==
  ASSUME TypeOK, TypeOK', StreamInv, ~closed, ~closed',
         compacted' = compacted,
         (\E batch : Publish(batch)) \/ UNCHANGED <<revision, log, events, watch>>
  PROVE  StreamInv'
<1>1. CASE \E batch : Publish(batch)
  BY <1>1, PublishStreams
<1>2. CASE UNCHANGED <<revision, log, events, watch>>
  BY <1>2 DEF StreamInv, TypeOK
<1> QED
  BY <1>1, <1>2

\* A step of one watch.
LEMMA OneWatchStreams ==
  ASSUME TypeOK, StreamInv, NEW w \in Watches, NEW y, Sound(y, revision, log, closed),
         watch' = [watch EXCEPT ![w] = y],
         UNCHANGED <<revision, log, events, compacted, closed, expired>>
  PROVE  StreamInv'
BY DEF StreamInv, TypeOK

LEMMA BeginStreams ==
  ASSUME TypeOK, StreamInv, NEW w \in Watches, BeginWatch(w)
  PROVE  StreamInv'
<1> DEFINE x == watch[w]
           replay == {r \in events : r >= x.from /\ Touches(log[r], x.range)}
           open == [x EXCEPT !.phase = "open", !.registered = TRUE, !.backlog = replay]
           refused == [x EXCEPT !.phase = "refused"]
           compaction == [x EXCEPT !.phase = "compacted"]
<1>1. /\ x \in Watcher /\ x.phase = "called" /\ Sound(x, revision, log, closed)
      /\ revision \in Nat /\ compacted \in Nat /\ closed \in BOOLEAN
  BY DEF TypeOK, StreamInv, BeginWatch
<1>2. \/ watch' = [watch EXCEPT ![w] = refused]
      \/ watch' = [watch EXCEPT ![w] = compaction]
      \/ /\ ~closed /\ (compacted = 0 \/ x.from > compacted)
         /\ watch' = [watch EXCEPT ![w] = open]
  <2>1. x.from \in Nat
    BY <1>1, WatcherFields
  <2>2. CASE closed
    BY <2>2 DEF BeginWatch
  <2>3. CASE ~closed /\ compacted # 0 /\ x.from <= compacted
    BY <2>3 DEF BeginWatch
  <2>4. CASE ~closed /\ ~(compacted # 0 /\ x.from <= compacted)
    <3>1. watch' = [watch EXCEPT ![w] = open]
      BY <2>4 DEF BeginWatch
    <3> HIDE DEF x
    <3>2. compacted = 0 \/ x.from > compacted
      BY <1>1, <2>1, <2>4
    <3> QED
      BY <2>4, <3>1, <3>2
  <2> QED
    BY <2>2, <2>3, <2>4
<1>3. UNCHANGED <<revision, log, events, compacted, closed, expired>>
  BY DEF BeginWatch, leasing
<1>4. Sound(refused, revision, log, closed) /\ Sound(compaction, revision, log, closed)
  BY <1>1, Begun
<1>5. ASSUME ~closed, compacted = 0 \/ x.from > compacted
      PROVE  Sound(open, revision, log, closed)
  <2>1. x.from \in Nat
    BY <1>1, WatcherFields
  <2>2. events = (compacted + 1)..revision
    BY DEF StreamInv
  <2>3. replay = Due(x, revision, log)
    <3> HIDE DEF x
    <3> QED
      BY <1>1, <1>5, <2>1, <2>2 DEF Due
  <2> QED
    BY <1>1, <1>5, <2>3, Begun
<1> HIDE DEF x, open, refused, compaction
<1> QED
  BY <1>2, <1>3, <1>4, <1>5, OneWatchStreams

LEMMA DeliverStreams ==
  ASSUME TypeOK, StreamInv, NEW w \in Watches, Deliver(w)
  PROVE  StreamInv'
<1> DEFINE x == watch[w]
           r == Min(x.backlog)
           replayed == [x EXCEPT !.backlog = @ \ {r}, !.delivered = Append(@, r)]
           streamed == [x EXCEPT !.queue = Tail(@), !.delivered = Append(@, Head(x.queue))]
           drained == [x EXCEPT !.queue = Tail(@), !.phase = "done", !.registered = FALSE]
<1>1. /\ x \in Watcher /\ x.phase = "open" /\ Sound(x, revision, log, closed)
      /\ revision \in Nat /\ closed \in BOOLEAN
  BY DEF TypeOK, StreamInv, Deliver
<1>2. \/ x.backlog # {} /\ watch' = [watch EXCEPT ![w] = replayed]
      \/ /\ x.backlog = {} /\ x.queue # <<>>
         /\ \/ Head(x.queue) = End /\ watch' = [watch EXCEPT ![w] = drained]
            \/ Head(x.queue) # End /\ watch' = [watch EXCEPT ![w] = streamed]
  BY DEF Deliver
<1>3. UNCHANGED <<revision, log, events, compacted, closed, expired>>
  BY DEF Deliver, leasing
<1>4. x.backlog # {} => Sound(replayed, revision, log, closed)
  BY <1>1, Replayed
<1>5. x.backlog = {} /\ x.queue # <<>> =>
        IF Head(x.queue) = End THEN Sound(drained, revision, log, closed)
        ELSE Sound(streamed, revision, log, closed)
  BY <1>1, Drained, Streamed
<1> HIDE DEF x, replayed, streamed, drained
<1> QED
  BY <1>2, <1>3, <1>4, <1>5, OneWatchStreams

LEMMA CloseStreams ==
  ASSUME TypeOK, StreamInv, Close
  PROVE  StreamInv'
<1>1. /\ revision \in Nat /\ watch \in [Watches -> Watcher]
      /\ UNCHANGED <<revision, log, events, compacted>>
      /\ closed = FALSE /\ closed' = TRUE /\ expired' = {}
  BY DEF TypeOK, Close, leasing
<1>2. ASSUME NEW w \in Watches
      PROVE  Sound(watch'[w], revision, log, TRUE)
  <2>1. watch[w] \in Watcher /\ Sound(watch[w], revision, log, FALSE)
    BY <1>1 DEF StreamInv
  <2>2. watch'[w] = IF watch[w].registered
                    THEN [watch[w] EXCEPT !.queue = Append(@, End), !.registered = FALSE]
                    ELSE watch[w]
    BY DEF Close
  <2>3. /\ watch[w].registered =>
             Sound([watch[w] EXCEPT !.queue = Append(@, End), !.registered = FALSE],
                   revision, log, TRUE)
        /\ ~watch[w].registered => Sound(watch[w], revision, log, TRUE)
    BY <1>1, <2>1, ToldOfClose
  <2> QED
    BY <2>2, <2>3
<1> QED
  BY <1>1, <1>2 DEF StreamInv

LEMMA CompactStreams ==
  ASSUME TypeOK, StreamInv, NEW rev \in 1..revision, Compact(rev)
  PROVE  StreamInv'
<1>1. /\ revision \in Nat /\ compacted \in Nat /\ rev > compacted /\ rev <= revision
      /\ compacted' = rev /\ events' = {r \in events : r > rev}
      /\ UNCHANGED <<revision, log, watch, closed, expired>>
  BY DEF TypeOK, Compact, leasing
<1>2. events' = (rev + 1)..revision
  BY <1>1 DEF StreamInv
<1> QED
  BY <1>1, <1>2 DEF StreamInv

LEMMA ExpirePublishes ==
  ASSUME NEW lease, ExpireLeaseKeys(lease)
  PROVE  (\E batch : Publish(batch)) \/ UNCHANGED <<revision, log, events, watch>>
BY DEF ExpireLeaseKeys, store

LEMMA StepStreams ==
  ASSUME TypeOK, TypeOK', StreamInv, [Next]_vars
  PROVE  StreamInv'
<1>1. ASSUME NEW txn \in Txns, Transact(txn)
      PROVE  StreamInv'
  <2>1. (\E batch : Publish(batch)) \/ UNCHANGED <<revision, log, events, watch>>
    BY <1>1 DEF Transact
  <2>2. ~closed /\ ~closed' /\ compacted' = compacted
    BY <1>1 DEF Transact, Serving
  <2> QED
    BY <2>1, <2>2, StoreStreams
<1>2. ASSUME NEW lease \in DOMAIN leases, RevokeLease(lease)
      PROVE  StreamInv'
  <2>1. (\E batch : Publish(batch)) \/ UNCHANGED <<revision, log, events, watch>>
    BY <1>2, ExpirePublishes DEF RevokeLease
  <2>2. ~closed /\ ~closed' /\ compacted' = compacted
    BY <1>2 DEF RevokeLease, Serving
  <2> QED
    BY <2>1, <2>2, StoreStreams
<1>3. ASSUME ExpireNext
      PROVE  StreamInv'
  <2>1. (\E batch : Publish(batch)) \/ UNCHANGED <<revision, log, events, watch>>
    BY <1>3, ExpirePublishes DEF ExpireNext
  <2>2. ~closed /\ ~closed' /\ compacted' = compacted
    BY <1>3 DEF ExpireNext, StreamInv
  <2> QED
    BY <2>1, <2>2, StoreStreams
<1>4. ASSUME NEW rev \in 1..revision, Compact(rev)
      PROVE  StreamInv'
  BY <1>4, CompactStreams
<1>5. ASSUME \/ \E ttl \in TTLs : GrantLease(ttl)
             \/ \E lease \in DOMAIN leases : KeepAlive(lease)
             \/ \E seconds \in TimeSteps : AdvanceTime(seconds)
      PROVE  StreamInv'
  <2>1. /\ ~closed /\ ~closed' /\ compacted' = compacted
        /\ UNCHANGED <<revision, log, events, watch>>
    BY <1>5 DEF GrantLease, KeepAlive, AdvanceTime, Serving, store
  <2> QED
    BY <2>1, StoreStreams
<1>6. ASSUME NEW w \in Watches, NEW range \in WatchRanges,
             NEW from \in 1..(revision + Ahead), Watch(w, range, from)
      PROVE  StreamInv'
  <2> DEFINE y == [watch[w] EXCEPT !.phase = "called", !.range = range, !.from = from]
  <2>1. /\ watch[w] \in Watcher /\ Sound(watch[w], revision, log, closed)
        /\ revision \in Nat /\ closed \in BOOLEAN /\ watch[w].phase = "idle"
    BY <1>6 DEF TypeOK, StreamInv, Watch
  <2>2. /\ watch' = [watch EXCEPT ![w] = y]
        /\ UNCHANGED <<revision, log, events, compacted, closed, expired>>
    BY <1>6 DEF Watch, TypeOK, leasing
  <2>3. Sound(y, revision, log, closed)
    BY <2>1, Called
  <2> HIDE DEF y
  <2> QED
    BY <2>2, <2>3, OneWatchStreams
<1>7. ASSUME NEW w \in Watches, CancelWatch(w)
      PROVE  StreamInv'
  <2> DEFINE y == [watch[w] EXCEPT !.phase = "cancelled", !.registered = FALSE]
  <2>1. /\ watch[w] \in Watcher /\ Sound(watch[w], revision, log, closed)
        /\ revision \in Nat /\ closed \in BOOLEAN
    BY DEF TypeOK, StreamInv
  <2>2. /\ watch' = [watch EXCEPT ![w] = y]
        /\ UNCHANGED <<revision, log, events, compacted, closed, expired>>
    BY <1>7 DEF CancelWatch, leasing
  <2>3. Sound(y, revision, log, closed)
    BY <2>1, GivenUp
  <2> HIDE DEF y
  <2> QED
    BY <2>2, <2>3, OneWatchStreams
<1>8. ASSUME NEW w \in Watches, BeginWatch(w) \/ Deliver(w)
      PROVE  StreamInv'
  BY <1>8, BeginStreams, DeliverStreams
<1>9. ASSUME Close
      PROVE  StreamInv'
  BY <1>9, CloseStreams
<1>10. ASSUME UNCHANGED vars
       PROVE  StreamInv'
  BY <1>10 DEF StreamInv, vars, store, leasing
<1> QED
  BY <1>1, <1>2, <1>3, <1>4, <1>5, <1>6, <1>7, <1>8, <1>9, <1>10 DEF Next

LEMMA InitStreams == Init => StreamInv
<1> SUFFICES ASSUME Init
             PROVE  StreamInv
  OBVIOUS
<1>1. revision = 0 /\ compacted = 0 /\ log = <<>> /\ events = {} /\ expired = {} /\ ~closed
  BY DEF Init
<1>2. events = (compacted + 1)..revision
  BY <1>1
<1>3. ASSUME NEW w \in Watches
      PROVE  Sound(watch[w], revision, log, closed)
  <2>1. watch[w] = Idle
    BY DEF Init
  <2>2. /\ watch[w].phase = "idle" /\ ~watch[w].registered /\ watch[w].backlog = {}
        /\ watch[w].queue = <<>> /\ watch[w].delivered = <<>>
    BY <2>1 DEF Idle
  <2> DEFINE x == watch[w]
  <2> HIDE DEF x
  <2>3. Len(x.queue) = 0 /\ Len(x.delivered) = 0
    BY <2>2 DEF x
  <2>4. Batches(x) = {}
    BY <2>3 DEF Batches
  <2>5. Quiet(x) /\ Tied(x, closed) /\ Within(x, revision) /\ Ordered(x)
    BY <2>2, <2>3, <2>4 DEF Quiet, Tied, Within, Ordered, x
  <2>6. Complete(x, revision, log) /\ Starts(x, revision)
    BY <2>2, <2>3, <2>4 DEF Complete, Starts, x
  <2> QED
    BY <2>5, <2>6 DEF Sound, x
<1> QED
  BY <1>1, <1>2, <1>3 DEF StreamInv

LEMMA StreamInvariant == Spec => [](TypeOK /\ StreamInv)
<1>1. TypeOK /\ TypeOK' /\ StreamInv /\ [Next]_vars => StreamInv'
  BY StepStreams
<1> QED
  BY <1>1, InitStreams, TypeCorrect, PTL DEF Spec
-----------------------------------------------------------------------------
\* No gap between the replay and the live stream: an open watch has delivered
\* or holds every batch of its range since its start, one that ended with the
\* backend has delivered them all; whatever the transactions, those that raise
\* half way included.
THEOREM NothingMissed == Spec => []WatchComplete
<1>1. TypeOK /\ StreamInv => WatchComplete
  <2> SUFFICES ASSUME TypeOK, StreamInv, NEW w \in Watches
               PROVE  /\ watch[w].phase = "open" => Owed(w) \subseteq Seen(w) \cup Pending(w)
                      /\ watch[w].phase = "done" => Owed(w) \subseteq Seen(w)
    BY DEF WatchComplete
  <2> DEFINE x == watch[w]
  <2>1. x.queue \in Seq(Nat) /\ x.delivered \in Seq(Nat)
    BY WatcherFields DEF TypeOK
  <2>2. DOMAIN x.queue = 1..Len(x.queue) /\ DOMAIN x.delivered = 1..Len(x.delivered)
    BY <2>1
  <2>3. Owed(w) = Due(x, revision, log)
    BY DEF Owed, Due
  <2>4. \A r : Has(x, r) => r \in Seen(w)
    BY <2>2 DEF Has, Seen
  <2>5. \A r : Holding(x, r) => r \in Pending(w)
    BY <2>2 DEF Holding, Pending
  <2>6. Complete(x, revision, log)
    BY DEF StreamInv, Sound
  <2> HIDE DEF x
  <2> QED
    BY <2>3, <2>4, <2>5, <2>6 DEF Complete, x
<1> QED
  BY <1>1, StreamInvariant, PTL

\* Nothing is delivered twice or out of order.
THEOREM DeliveredInOrder == Spec => []WatchOrdered
<1>1. TypeOK /\ StreamInv => WatchOrdered
  <2> SUFFICES ASSUME TypeOK, StreamInv
               PROVE  WatchOrdered
    OBVIOUS
  <2>1. ASSUME NEW w \in Watches
        PROVE  /\ DOMAIN watch[w].queue = 1..Len(watch[w].queue)
               /\ DOMAIN watch[w].delivered = 1..Len(watch[w].delivered)
               /\ Ordered(watch[w])
    <3>1. watch[w].queue \in Seq(Nat) /\ watch[w].delivered \in Seq(Nat)
      BY WatcherFields DEF TypeOK
    <3> QED
      BY <3>1 DEF StreamInv, Sound
  <2> QED
    BY <2>1 DEF WatchOrdered, Ordered, Batches
<1> QED
  BY <1>1, StreamInvariant, PTL

\* A watch started at the next revision at the latest yields nothing older
\* than its start; of watches started further ahead this is not true.
THEOREM NothingEarly ==
  ASSUME Ahead <= 1
  PROVE  Spec => []WatchFromStart
<1>1. TypeOK /\ StreamInv => WatchFromStart
  <2> SUFFICES ASSUME TypeOK, StreamInv, NEW w \in Watches, NEW r \in Seen(w)
               PROVE  r >= watch[w].from
    BY DEF WatchFromStart
  <2>1. watch[w].delivered \in Seq(Nat)
    BY WatcherFields DEF TypeOK
  <2>2. \A i \in 1..Len(watch[w].delivered) : watch[w].delivered[i] >= watch[w].from
    BY DEF StreamInv, Sound, Starts
  <2>3. PICK i \in DOMAIN watch[w].delivered : r = watch[w].delivered[i]
    BY DEF Seen
  <2>4. i \in 1..Len(watch[w].delivered)
    BY <2>1, <2>3
  <2> QED
    BY <2>2, <2>3, <2>4
<1> QED
  BY <1>1, StreamInvariant, PTL
-----------------------------------------------------------------------------
(* The contract.                                                           *)

\* A watch was asked for as the contract has it, and what it still holds is of
\* its range.
Asked(x, told) ==
  /\ x.phase \in {"called", "open"} => x.range \in WatchRanges /\ x.from >= 1
  /\ \A r \in x.backlog : Touches(told[r], x.range)
  /\ \A j \in Batches(x) : Touches(told[x.queue[j]], x.range)

AllAsked == \A w \in Watches : Asked(watch[w], log)

\* Another revision leaves what is held of the earlier ones as it was, and what
\* is queued of it is of the range.
LEMMA AskedOn ==
  ASSUME NEW x \in Watcher, NEW rev \in Nat, NEW told \in Seq(SUBSET Event),
         NEW batch \in SUBSET Event, Len(told) = rev, Within(x, rev), Asked(x, told)
  PROVE  /\ Asked(x, Append(told, batch))
         /\ Touches(batch, x.range) =>
              Asked([x EXCEPT !.queue = Append(@, rev + 1)], Append(told, batch))
<1> DEFINE more == Append(told, batch)
           y == [x EXCEPT !.queue = Append(@, rev + 1)]
           n == Len(x.queue)
<1>1. more[rev + 1] = batch /\ \A r \in 1..rev : more[r] = told[r]
  BY AppendProperties
<1>2. Asked(x, more)
  <2> HIDE DEF more
  <2> QED
    BY <1>1 DEF Asked, Within
<1>3. /\ n \in Nat /\ Len(y.queue) = n + 1 /\ y.queue[n + 1] = rev + 1
      /\ \A j \in 1..n : y.queue[j] = x.queue[j]
      /\ y.phase = x.phase /\ y.range = x.range /\ y.from = x.from /\ y.backlog = x.backlog
  <2>1. x.queue \in Seq(Nat) /\ y.queue = Append(x.queue, rev + 1)
    BY DEF Watcher
  <2>2. /\ Len(Append(x.queue, rev + 1)) = n + 1 /\ Append(x.queue, rev + 1)[n + 1] = rev + 1
        /\ \A j \in 1..n : Append(x.queue, rev + 1)[j] = x.queue[j]
    BY <2>1, AppendProperties
  <2> QED
    BY <2>1, <2>2 DEF Watcher
<1>4. ASSUME Touches(batch, x.range)
      PROVE  Asked(y, more)
  <2>1. ASSUME NEW j \in Batches(y)
        PROVE  Touches(more[y.queue[j]], y.range)
    <3>1. j \in 1..(n + 1) /\ y.queue[j] # End
      BY <1>3 DEF Batches
    <3> HIDE DEF more, y, n
    <3>2. CASE j = n + 1
      BY <1>1, <1>3, <1>4, <3>2
    <3>3. CASE j # n + 1
      <4>1. j \in 1..n
        BY <1>3, <3>1, <3>3
      <4>2. y.queue[j] = x.queue[j]
        BY <1>3, <4>1
      <4>3. j \in Batches(x)
        BY <3>1, <4>1, <4>2 DEF Batches, n
      <4> QED
        BY <1>2, <1>3, <4>2, <4>3 DEF Asked
    <3> QED
      BY <3>2, <3>3
  <2> HIDE DEF more, y
  <2> QED
    BY <1>2, <1>3, <2>1 DEF Asked
<1> QED
  BY <1>2, <1>4

\* A step of one watch.
LEMMA OneAsked ==
  ASSUME TypeOK, AllAsked, NEW w \in Watches, NEW y, Asked(y, log),
         watch' = [watch EXCEPT ![w] = y], log' = log
  PROVE  AllAsked'
BY DEF AllAsked, TypeOK

\* A step that commits or leaves the streams alone.
LEMMA StoreAsked ==
  ASSUME TypeOK, TypeOK', StreamInv, AllAsked,
         (\E batch : Publish(batch)) \/ UNCHANGED <<revision, log, events, watch>>
  PROVE  AllAsked'
<1>1. CASE UNCHANGED <<revision, log, events, watch>>
  BY <1>1 DEF AllAsked
<1>2. CASE \E batch : Publish(batch)
  <2>1. PICK batch : Publish(batch)
    BY <1>2
  <2>2. /\ revision \in Nat /\ Len(log) = revision /\ log' = Append(log, batch)
        /\ log \in Seq(SUBSET Event) /\ log' \in Seq(SUBSET Event)
    BY <2>1 DEF TypeOK, StreamInv, Publish
  <2>3. batch \in SUBSET Event
    <3>1. Len(log') = Len(log) + 1 /\ log'[Len(log) + 1] = batch
      BY <2>2
    <3> QED
      BY <2>2, <3>1, ElementOfSeq
  <2>4. ASSUME NEW w \in Watches
        PROVE  Asked(watch'[w], log')
    <3>1. watch[w] \in Watcher /\ Within(watch[w], revision) /\ Asked(watch[w], log)
      BY DEF TypeOK, StreamInv, Sound, AllAsked
    <3>2. /\ Asked(watch[w], Append(log, batch))
          /\ Touches(batch, watch[w].range) =>
               Asked([watch[w] EXCEPT !.queue = Append(@, revision + 1)], Append(log, batch))
      BY <2>2, <2>3, <3>1, AskedOn
    <3>3. watch'[w] = IF watch[w].registered /\ Touches(batch, watch[w].range)
                      THEN [watch[w] EXCEPT !.queue = Append(@, revision + 1)]
                      ELSE watch[w]
      BY <2>1 DEF Publish
    <3> QED
      BY <2>2, <3>2, <3>3
  <2> QED
    BY <2>4 DEF AllAsked
<1> QED
  BY <1>1, <1>2

LEMMA StepAsked ==
  ASSUME TypeOK, TypeOK', StreamInv, AllAsked, [Next]_vars
  PROVE  AllAsked'
<1>1. ASSUME NEW txn \in Txns, Transact(txn)
      PROVE  AllAsked'
  <2>1. (\E batch : Publish(batch)) \/ UNCHANGED <<revision, log, events, watch>>
    BY <1>1 DEF Transact
  <2> QED
    BY <2>1, StoreAsked
<1>2. ASSUME NEW lease, RevokeLease(lease) \/ ExpireNext
      PROVE  AllAsked'
  <2>1. (\E batch : Publish(batch)) \/ UNCHANGED <<revision, log, events, watch>>
    BY <1>2, ExpirePublishes DEF RevokeLease, ExpireNext
  <2> QED
    BY <2>1, StoreAsked
<1>3. ASSUME UNCHANGED <<revision, log, watch>>
      PROVE  AllAsked'
  BY <1>3 DEF AllAsked
<1>4. ASSUME NEW w \in Watches, NEW range \in WatchRanges,
             NEW from \in 1..(revision + Ahead), Watch(w, range, from)
      PROVE  AllAsked'
  <2> DEFINE x == watch[w]
             y == [x EXCEPT !.phase = "called", !.range = range, !.from = from]
  <2>1. /\ x \in Watcher /\ watch' = [watch EXCEPT ![w] = y] /\ log' = log
        /\ x.backlog = {} /\ x.queue = <<>> /\ revision \in Nat
    BY <1>4 DEF Watch, TypeOK, StreamInv, Sound, Quiet
  <2>2. /\ y.phase = "called" /\ y.range = range /\ y.from = from
        /\ y.backlog = {} /\ y.queue = <<>>
    BY <2>1 DEF Watcher
  <2> HIDE DEF x, y
  <2>3. Asked(y, log)
    BY <1>4, <2>1, <2>2, ConstantsOK DEF Asked, Batches, ConstantsOK
  <2> QED
    BY <2>1, <2>3, OneAsked
<1>5. ASSUME NEW w \in Watches, BeginWatch(w)
      PROVE  AllAsked'
  <2> DEFINE x == watch[w]
             ended(phase) == [x EXCEPT !.phase = phase]
             open == [x EXCEPT !.phase = "open", !.registered = TRUE,
                               !.backlog = {r \in events : /\ r >= x.from
                                                           /\ Touches(log[r], x.range)}]
  <2>1. /\ \/ watch' = [watch EXCEPT ![w] = ended("refused")]
           \/ watch' = [watch EXCEPT ![w] = ended("compacted")]
           \/ watch' = [watch EXCEPT ![w] = open]
        /\ log' = log
    BY <1>5 DEF BeginWatch
  <2>2. x \in Watcher /\ x.phase = "called" /\ Asked(x, log)
    BY <1>5 DEF BeginWatch, TypeOK, AllAsked
  <2>3. Asked(ended("refused"), log) /\ Asked(ended("compacted"), log)
    BY <2>2 DEF Asked, Batches, Watcher
  <2>4. Asked(open, log)
    BY <2>2 DEF Asked, Batches, Watcher
  <2> HIDE DEF ended, open
  <2> QED
    BY <2>1, <2>3, <2>4, OneAsked
<1>6. ASSUME NEW w \in Watches, Deliver(w)
      PROVE  AllAsked'
  <2> DEFINE x == watch[w]
             replayed == [x EXCEPT !.backlog = @ \ {Min(x.backlog)},
                                   !.delivered = Append(@, Min(x.backlog))]
             streamed == [x EXCEPT !.queue = Tail(@), !.delivered = Append(@, Head(x.queue))]
             drained == [x EXCEPT !.queue = Tail(@), !.phase = "done", !.registered = FALSE]
  <2>1. /\ \/ watch' = [watch EXCEPT ![w] = replayed]
           \/ x.queue # <<>> /\ watch' = [watch EXCEPT ![w] = streamed]
           \/ x.queue # <<>> /\ watch' = [watch EXCEPT ![w] = drained]
        /\ log' = log
    BY <1>6 DEF Deliver
  <2>2. x \in Watcher /\ x.phase = "open" /\ Asked(x, log)
    BY <1>6 DEF Deliver, TypeOK, AllAsked
  <2>3. Asked(replayed, log)
    BY <2>2 DEF Asked, Batches, Watcher
  <2>4. ASSUME x.queue # <<>>, NEW y \in {streamed, drained}
        PROVE  Asked(y, log)
    <3>1. /\ y.phase \in {"open", "done"} /\ y.range = x.range /\ y.from = x.from
          /\ y.backlog = x.backlog /\ y.queue = Tail(x.queue)
      BY <2>2 DEF Watcher
    <3>2. /\ Len(y.queue) = Len(x.queue) - 1 /\ Len(x.queue) \in Nat
          /\ \A j \in 1..(Len(x.queue) - 1) : y.queue[j] = x.queue[j + 1]
      BY <2>2, <2>4, <3>1, TailQueue, WatcherFields
    <3> HIDE DEF x, streamed, drained
    <3>3. \A j \in Batches(y) : j + 1 \in Batches(x) /\ y.queue[j] = x.queue[j + 1]
      BY <3>2 DEF Batches
    <3> QED
      BY <2>2, <3>1, <3>3 DEF Asked
  <2> HIDE DEF x, replayed, streamed, drained
  <2> QED
    BY <2>1, <2>3, <2>4, OneAsked DEF x
<1>7. ASSUME NEW w \in Watches, CancelWatch(w)
      PROVE  AllAsked'
  <2> DEFINE x == watch[w]
             y == [x EXCEPT !.phase = "cancelled", !.registered = FALSE]
  <2>1. /\ watch' = [watch EXCEPT ![w] = y] /\ log' = log
        /\ x \in Watcher /\ Asked(x, log)
    BY <1>7 DEF CancelWatch, TypeOK, AllAsked
  <2>2. Asked(y, log)
    BY <2>1 DEF Asked, Batches, Watcher
  <2> HIDE DEF x, y
  <2> QED
    BY <2>1, <2>2, OneAsked
<1>8. ASSUME Close
      PROVE  AllAsked'
  <2>1. ASSUME NEW w \in Watches, watch[w].registered
        PROVE  Asked([watch[w] EXCEPT !.queue = Append(@, End), !.registered = FALSE], log)
    <3> DEFINE x == watch[w]
               y == [x EXCEPT !.queue = Append(@, End), !.registered = FALSE]
               n == Len(x.queue)
    <3>1. x \in Watcher /\ Asked(x, log)
      BY DEF TypeOK, AllAsked
    <3>2. /\ y.phase = x.phase /\ y.range = x.range /\ y.from = x.from
          /\ y.backlog = x.backlog /\ y.queue = Append(x.queue, End)
      BY <3>1 DEF Watcher
    <3>3. /\ n \in Nat /\ Len(y.queue) = n + 1 /\ y.queue[n + 1] = End
          /\ \A j \in 1..n : y.queue[j] = x.queue[j]
      <4>1. x.queue \in Seq(Nat) /\ End \in Nat
        BY <3>1 DEF Watcher, End
      <4> QED
        BY <3>2, <4>1, AppendProperties
    <3> HIDE DEF x, y
    <3>4. \A j \in Batches(y) : j \in Batches(x) /\ y.queue[j] = x.queue[j]
      BY <3>3 DEF Batches
    <3>5. Asked(y, log)
      BY <3>1, <3>2, <3>4 DEF Asked
    <3> QED
      BY <3>5 DEF x, y
  <2> QED
    BY <1>8, <2>1 DEF Close, AllAsked
<1> QED
  BY <1>1, <1>2, <1>3, <1>4, <1>5, <1>6, <1>7, <1>8
  DEF Next, Compact, GrantLease, KeepAlive, AdvanceTime, vars, store

LEMMA SameWatching ==
  ASSUME \A w \in Watches :
           /\ watch'[w].phase = watch[w].phase /\ watch'[w].range = watch[w].range
           /\ watch'[w].from = watch[w].from /\ watch'[w].delivered = watch[w].delivered
  PROVE  watching' = watching
BY DEF watching

LEMMA SameView ==
  ASSUME \A k \in Keys : Current(k)' = Current(k)
  PROVE  view' = view
BY DEF view

\* A revision that changes the keys of W is one the contract allows.
LEMMA CommitKept ==
  ASSUME LeaseInv, ~closed, closed' = closed, NEW W \in SUBSET Keys, W # {},
         NEW v \in [W -> Version], Commits(W, v),
         \A k \in W : v[k].value \in StoredValues \cup {None},
         NEW batch, Publish(batch)
  PROVE  Contract!Next
<1> DEFINE told == {[key |-> k, value |-> v[k].value] : k \in W}
<1>1. told \in Contract!Batches
  <2>1. \A k \in W : /\ [key |-> k, value |-> v[k].value] \in told
                    /\ [key |-> k, value |-> v[k].value]
                         \in [key : Keys, value : StoredValues \cup {None}]
    OBVIOUS
  <2>2. \A e, f \in told : e.key = f.key => e = f
    OBVIOUS
  <2>3. told \subseteq [key : Keys, value : StoredValues \cup {None}]
    BY <2>1
  <2> HIDE DEF told
  <2>4. told # {}
    BY <2>1
  <2> QED
    BY <2>2, <2>3, <2>4 DEF Contract!Batches, Contract!None, None
<1>2. view' = [k \in Keys |-> IF \E e \in told : e.key = k
                              THEN (CHOOSE e \in told : e.key = k).value
                              ELSE view[k]]
  <2>1. \A k \in Keys : Current(k)' = IF k \in W THEN Shown(v[k]) ELSE Current(k)
    BY GrowCurrent DEF LeaseInv, Commits
  <2>2. ASSUME NEW k \in W
        PROVE  /\ \E e \in told : e.key = k
               /\ (CHOOSE e \in told : e.key = k).value = v[k].value
    <3>1. [key |-> k, value |-> v[k].value] \in told
      OBVIOUS
    <3>2. \A e \in told : e.key = k => e = [key |-> k, value |-> v[k].value]
      OBVIOUS
    <3> HIDE DEF told
    <3> QED
      BY <3>1, <3>2
  <2>3. \A k \in Keys : k \notin W => ~\E e \in told : e.key = k
    OBVIOUS
  <2>4. \A k \in W : Shown(v[k]).value = v[k].value
    BY DEF Shown, Absent
  <2>5. view' = [k \in Keys |-> Current(k)'.value]
    BY DEF view
  <2>6. ASSUME NEW k \in Keys
        PROVE  Current(k)'.value = IF \E e \in told : e.key = k
                                   THEN (CHOOSE e \in told : e.key = k).value
                                   ELSE view[k]
    <3> HIDE DEF told
    <3>1. CASE k \in W
      BY <2>1, <2>2, <2>4, <3>1
    <3>2. CASE k \notin W
      BY <2>1, <2>3, <3>2 DEF view
    <3> QED
      BY <3>1, <3>2
  <2> HIDE DEF told
  <2> QED
    BY <2>5, <2>6
<1>3. watching' = watching
  <2>1. ASSUME NEW w \in Watches
        PROVE  /\ watch'[w].phase = watch[w].phase /\ watch'[w].range = watch[w].range
               /\ watch'[w].from = watch[w].from /\ watch'[w].delivered = watch[w].delivered
    <3>1. watch[w] \in Watcher
      BY DEF LeaseInv, TypeOK
    <3>2. \/ watch'[w] = watch[w]
          \/ watch'[w] = [watch[w] EXCEPT !.queue = Append(@, revision + 1)]
      BY DEF Publish
    <3> QED
      BY <3>1, <3>2 DEF Watcher
  <2> QED
    BY <2>1, SameWatching
<1>4. log' = Append(log, told) /\ compacted' = compacted
  BY DEF Commits
<1> HIDE DEF told
<1>5. Contract!Commit(told)
  BY <1>2, <1>3, <1>4 DEF Contract!Commit
<1> QED
  BY <1>1, <1>5 DEF Contract!Next

\* The versions a transaction writes hold what its puts hold, or nothing.
LEMMA TransactStores ==
  ASSUME ReadsFirst, LeaseInv, NEW txn \in Txns, Transact(txn),
         NEW W \in SUBSET Keys, NEW v \in [W -> Version], Commits(W, v)
  PROVE  W # {} /\ \A k \in W : v[k].value \in StoredValues \cup {None}
<1> DEFINE ops == Branch(txn)
           run == {ops[i] : i \in Executed(ops)}
           written == {k \in Keys : \E op \in run : Writes(op, k)}
           chosen(k) == CHOOSE op \in run : Writes(op, k)
           version == [k \in written |-> WrittenVersion(chosen(k), k, revision + 1)]
<1>1. /\ history' = [k \in Keys |-> IF k \in written THEN Append(history[k], version[k])
                                    ELSE history[k]]
      /\ written # {}
  BY DEF Transact
<1>2. ASSUME NEW k \in written
      PROVE  version[k].value \in StoredValues \cup {None}
  <2>1. PICK i \in Executed(ops) : chosen(k) = ops[i] /\ Writes(ops[i], k)
    <3>1. chosen(k) \in run /\ Writes(chosen(k), k)
      OBVIOUS
    <3> QED
      BY <3>1
  <2>2. i \in DOMAIN ops /\ ops \in {txn.success, txn.failure}
    BY DEF Executed, Branch
  <2>3. version[k] = WrittenVersion(ops[i], k, revision + 1)
    BY <2>1
  <2> HIDE DEF ops, run, written, chosen, version
  <2>4. ops[i].kind = "put" => ops[i].value \in StoredValues
    BY <2>2 DEF StoredValues
  <2> QED
    BY <2>3, <2>4 DEF WrittenVersion, PutVersion, Tombstone
<1>3. history' = [k \in Keys |-> IF k \in W THEN Append(history[k], v[k]) ELSE history[k]]
  BY DEF Commits, Grows
<1>4. written \subseteq Keys
  OBVIOUS
<1> HIDE DEF ops, run, written, chosen, version
<1>5. ASSUME NEW k \in Keys, NEW new
      PROVE  /\ Append(history[k], new) # history[k]
             /\ Append(history[k], new)[Len(history[k]) + 1] = new
  <2>1. history[k] \in Seq(Version)
    BY DEF LeaseInv, TypeOK
  <2>2. history[k] \in Seq(Version \cup {new}) /\ Len(history[k]) \in Nat
    BY <2>1
  <2>3. /\ Len(Append(history[k], new)) = Len(history[k]) + 1
        /\ Append(history[k], new)[Len(history[k]) + 1] = new
    BY <2>2, AppendProperties
  <2> QED
    BY <2>2, <2>3
<1>6. \A k \in Keys : /\ k \in W <=> k \in written
                      /\ k \in W => v[k] = version[k]
  BY <1>1, <1>3, <1>5
<1> QED
  BY <1>1, <1>2, <1>4, <1>6

\* The lease's keys go in one revision, or there are none.
LEMMA ExpireKept ==
  ASSUME LeaseInv, ~closed, closed' = closed, compacted' = compacted,
         NEW lease \in Nat, ExpireLeaseKeys(lease)
  PROVE  [Contract!Next]_(Contract!vars)
<1> DEFINE held == {k \in Keys : Live(k) /\ Current(k).lease = lease}
<1>1. CASE held = {}
  <2>1. UNCHANGED <<history, revision, log, watch>>
    BY <1>1 DEF ExpireLeaseKeys, store
  <2>2. view' = view /\ watching' = watching
    BY <2>1 DEF view, watching, Current, KeyValueAt
  <2> QED
    BY <2>1, <2>2 DEF Contract!vars
<1>2. CASE held # {}
  <2>1. PICK batch : Publish(batch)
    BY <1>2 DEF ExpireLeaseKeys
  <2>2. revision' = revision + 1 /\ revision \in Nat
    BY <2>1 DEF Publish, LeaseInv, TypeOK
  <2>3. PICK v \in [held -> Version] :
               Commits(held, v) /\ \A k \in held : Shown(v[k]) = Absent
    BY <1>2, ExpireCommits
  <2> HIDE DEF held
  <2>4. \A k \in held : v[k].value = None
    BY <2>3 DEF Shown, Absent
  <2>5. held \in SUBSET Keys
    BY DEF held
  <2> QED
    BY <1>2, <2>1, <2>3, <2>4, <2>5, CommitKept
<1> QED
  BY <1>1, <1>2

LEMMA CompactKept ==
  ASSUME LeaseInv, StreamInv, NEW rev \in 1..revision, Compact(rev)
  PROVE  Contract!Next
<1>1. /\ ~closed /\ closed' = closed /\ compacted < rev /\ compacted' = rev
      /\ UNCHANGED <<revision, log, watch>>
  BY DEF Compact, Serving, LeaseInv, TypeOK
<1>2. \A k \in Keys : Current(k)' = Current(k)
  BY CompactReads
<1>3. view' = view /\ watching' = watching
  BY <1>1, <1>2, SameView DEF watching
<1>4. rev \in DOMAIN log
  BY DEF StreamInv, LeaseInv, TypeOK
<1>5. Contract!Compact(rev)
  BY <1>1, <1>3 DEF Contract!Compact
<1> QED
  BY <1>4, <1>5 DEF Contract!Next

\* What a watch comes to look like to the contract, when one of them moves.
Look(x) ==
  IF x.phase = "open"
  THEN [phase |-> "on", range |-> x.range, from |-> x.from, seen |-> x.delivered]
  ELSE [phase |-> IF x.phase = "done" THEN "ended" ELSE "off",
        range |-> [start |-> 0, end |-> None], from |-> 0, seen |-> <<>>]

LEMMA OneLooks ==
  ASSUME TypeOK, NEW w \in Watches, NEW y, watch' = [watch EXCEPT ![w] = y]
  PROVE  /\ watching[w] = Look(watch[w])
         /\ watching' = [watching EXCEPT ![w] = Look(y)]
<1>1. watching = [u \in Watches |-> Look(watch[u])]
  BY DEF watching, Look
<1>2. watching' = [u \in Watches |-> Look(watch'[u])]
  BY DEF watching, Look
<1>3. \A u \in Watches : watch'[u] = IF u = w THEN y ELSE watch[u]
  BY DEF TypeOK
<1> HIDE DEF watching, Look
<1> QED
  BY <1>1, <1>2, <1>3

LEMMA BeginKept ==
  ASSUME Ahead <= 1, LeaseInv, StreamInv, AllAsked, NEW w \in Watches, BeginWatch(w)
  PROVE  [Contract!Next]_(Contract!vars)
<1> DEFINE x == watch[w]
           ended(phase) == [x EXCEPT !.phase = phase]
           replay == {r \in events : r >= x.from /\ Touches(log[r], x.range)}
           open == [x EXCEPT !.phase = "open", !.registered = TRUE, !.backlog = replay]
<1>1. /\ x \in Watcher /\ x.phase = "called" /\ Sound(x, revision, log, closed)
      /\ Asked(x, log) /\ TypeOK /\ revision \in Nat /\ compacted \in Nat
      /\ Len(log) = revision
  BY DEF LeaseInv, TypeOK, StreamInv, AllAsked, BeginWatch
<1>2. view' = view /\ UNCHANGED <<log, compacted, closed>>
  BY DEF BeginWatch, view, Current, KeyValueAt
<1>3. \/ watch' = [watch EXCEPT ![w] = ended("refused")]
      \/ watch' = [watch EXCEPT ![w] = ended("compacted")]
      \/ /\ ~closed /\ ~(compacted # 0 /\ x.from <= compacted)
         /\ watch' = [watch EXCEPT ![w] = open]
  BY DEF BeginWatch
<1>4. ASSUME NEW phase \in {"refused", "compacted"}, watch' = [watch EXCEPT ![w] = ended(phase)]
      PROVE  UNCHANGED Contract!vars
  <2>1. Look(ended(phase)) = Look(x)
    BY <1>1, <1>4 DEF Look, Watcher
  <2> HIDE DEF ended
  <2>2. watching' = [watching EXCEPT ![w] = watching[w]]
    BY <1>1, <1>4, <2>1, OneLooks
  <2>3. watching' = watching
    BY <2>2 DEF watching
  <2> QED
    BY <1>2, <2>3 DEF Contract!vars
<1>5. ASSUME ~closed, ~(compacted # 0 /\ x.from <= compacted),
             watch' = [watch EXCEPT ![w] = open]
      PROVE  Contract!Next
  <2>1. /\ Look(x).phase = "off"
        /\ Look(open) = [phase |-> "on", range |-> x.range, from |-> x.from, seen |-> <<>>]
    BY <1>1 DEF Look, Watcher, Sound, Quiet
  <2>2. /\ x.range \in WatchRanges /\ x.from \in 1..(Len(log) + 1)
        /\ compacted = 0 \/ x.from > compacted
    <3>1. x.from \in Nat
      BY <1>1 DEF Watcher
    <3> HIDE DEF x
    <3> QED
      BY <1>1, <1>5, <3>1 DEF Asked, Sound, Starts
  <2> HIDE DEF x, open
  <2>3. watching[w].phase = "off" /\ watching' = [watching EXCEPT ![w] = Look(open)]
    BY <1>1, <1>5, <2>1, OneLooks DEF x
  <2>4. Contract!Start(w, x.range, x.from)
    BY <1>2, <1>5, <2>1, <2>2, <2>3 DEF Contract!Start
  <2> QED
    BY <2>2, <2>4 DEF Contract!Next
<1> HIDE DEF ended, open
<1> QED
  BY <1>3, <1>4, <1>5

\* What a watch hands over is the first of what it owes: of its range, from its
\* start on, not yet seen, with nothing older to come.
LEMMA FirstDue ==
  ASSUME Ahead <= 1, LeaseInv, StreamInv, AllAsked, NEW w \in Watches,
         watch[w].phase = "open", NEW r \in Nat, Holding(watch[w], r), r # End,
         Touches(log[r], watch[w].range),
         \A i \in 1..Len(watch[w].delivered) : watch[w].delivered[i] < r,
         r \in 1..revision, r >= watch[w].from,
         \A s \in Nat : Holding(watch[w], s) /\ s # End => r <= s
  PROVE  r \in Contract!Due(w) /\ \A s \in Contract!Due(w) : r <= s
<1> DEFINE x == watch[w]
<1>1. /\ x \in Watcher /\ Sound(x, revision, log, closed)
      /\ revision \in Nat /\ Len(log) = revision /\ log \in Seq(SUBSET Event)
  BY DEF LeaseInv, TypeOK, StreamInv
<1>2. watching[w].from = x.from /\ watching[w].range = x.range /\ watching[w].seen = x.delivered
  BY DEF watching
<1>3. \A batch : Contract!Names(batch, x.range) <=> Touches(batch, x.range)
  BY DEF Contract!Names, Touches, Contract!InRange, Contract!KeyInRange, KeyInRange,
         Contract!None, None, Contract!Unbounded, Unbounded
<1>4. /\ DOMAIN log = 1..revision /\ DOMAIN x.delivered = 1..Len(x.delivered)
      /\ \A i \in 1..Len(x.delivered) : x.delivered[i] \in Nat
  BY <1>1, WatcherFields
<1>5. Contract!Due(w) = {s \in 1..revision : /\ s >= x.from /\ Touches(log[s], x.range)
                                             /\ ~Has(x, s)}
  BY <1>2, <1>3, <1>4 DEF Contract!Due, Has
<1>6. ~Has(x, r)
  BY <1>4 DEF Has
<1>7. ASSUME NEW s \in 1..revision, s >= x.from, Touches(log[s], x.range), ~Has(x, s)
      PROVE  r <= s
  <2>1. s \in Due(x, revision, log)
    BY <1>7 DEF Due
  <2>2. Holding(x, s)
    BY <1>1, <1>7, <2>1 DEF Sound, Complete
  <2> QED
    BY <1>1, <2>2 DEF End
<1> HIDE DEF x
<1> QED
  BY <1>5, <1>6, <1>7 DEF x

LEMMA DeliverKept ==
  ASSUME Ahead <= 1, LeaseInv, StreamInv, AllAsked, NEW w \in Watches, Deliver(w)
  PROVE  Contract!Next
<1> DEFINE x == watch[w]
           least == Min(x.backlog)
           first == Head(x.queue)
           replayed == [x EXCEPT !.backlog = @ \ {least}, !.delivered = Append(@, least)]
           streamed == [x EXCEPT !.queue = Tail(@), !.delivered = Append(@, first)]
           drained == [x EXCEPT !.queue = Tail(@), !.phase = "done", !.registered = FALSE]
<1>1. /\ x \in Watcher /\ x.phase = "open" /\ Sound(x, revision, log, closed)
      /\ Asked(x, log) /\ TypeOK /\ revision \in Nat /\ Len(log) = revision
      /\ log \in Seq(SUBSET Event)
  BY DEF LeaseInv, TypeOK, StreamInv, AllAsked, Deliver
<1>2. view' = view /\ UNCHANGED <<log, compacted, closed>>
  BY DEF Deliver, view, Current, KeyValueAt
<1>3. \/ x.backlog # {} /\ watch' = [watch EXCEPT ![w] = replayed]
      \/ /\ x.backlog = {} /\ x.queue # <<>>
         /\ \/ first = End /\ watch' = [watch EXCEPT ![w] = drained]
            \/ first # End /\ watch' = [watch EXCEPT ![w] = streamed]
  BY DEF Deliver
<1>4. /\ Look(x) = [phase |-> "on", range |-> x.range, from |-> x.from, seen |-> x.delivered]
      /\ watching[w] = Look(x)
  BY <1>1 DEF watching, Look
<1>5. ASSUME NEW r \in Contract!Due(w), \A s \in Contract!Due(w) : r <= s,
             NEW y, watch' = [watch EXCEPT ![w] = y],
             Look(y) = [phase |-> "on", range |-> x.range, from |-> x.from,
                        seen |-> Append(x.delivered, r)]
      PROVE  Contract!Next
  <2>1. watching' = [watching EXCEPT ![w] = Look(y)]
    BY <1>1, <1>5, OneLooks
  <2> HIDE DEF x
  <2>2. /\ watching[w].phase = "on"
        /\ watching' = [watching EXCEPT ![w].seen = Append(@, r)]
    <3> DEFINE now == [phase |-> "on", range |-> x.range, from |-> x.from, seen |-> x.delivered]
               longer == Append(x.delivered, r)
    <3>1. /\ now.phase = "on" /\ now.seen = x.delivered /\ watching[w] = now
      BY <1>4
    <3>2. [now EXCEPT !.seen = longer] = Look(y)
      <4>1. Look(y) = [phase |-> "on", range |-> x.range, from |-> x.from, seen |-> longer]
        BY <1>5
      <4> HIDE DEF longer
      <4> QED
        BY <4>1
    <3> HIDE DEF now
    <3> QED
      BY <2>1, <3>1, <3>2
  <2>3. Contract!HandOver(w)
    BY <1>2, <1>5, <2>2 DEF Contract!HandOver
  <2> QED
    BY <2>3 DEF Contract!Next
<1>6. CASE x.backlog # {}
  <2>1. least \in x.backlog /\ least \in Nat /\ \A s \in x.backlog : least <= s
    BY <1>1, <1>6, MinProperties DEF Watcher
  <2> HIDE DEF x, least
  <2>2. /\ Holding(x, least) /\ least \in 1..revision /\ least # End
        /\ Touches(log[least], x.range)
        /\ \A i \in 1..Len(x.delivered) : x.delivered[i] < least
        /\ least >= x.from
    <3>1. Within(x, revision) /\ Ordered(x) /\ Starts(x, revision) /\ Asked(x, log)
      BY <1>1 DEF Sound
    <3>2. least \in 1..revision /\ Touches(log[least], x.range) /\ least >= x.from
      BY <2>1, <3>1 DEF Within, Starts, Asked
    <3>3. \A i \in 1..Len(x.delivered) : x.delivered[i] < least
      BY <2>1, <3>1 DEF Ordered
    <3> QED
      BY <1>1, <2>1, <3>2, <3>3 DEF Holding, End
  <2>3. ASSUME NEW s \in Nat, Holding(x, s), s # End
        PROVE  least <= s
    <3>1. CASE s \in x.backlog
      BY <2>1, <3>1
    <3>2. CASE s \notin x.backlog
      <4>1. PICK j \in 1..Len(x.queue) : x.queue[j] = s
        BY <2>3, <3>2 DEF Holding
      <4>2. j \in Batches(x)
        BY <2>3, <4>1 DEF Batches
      <4> QED
        BY <1>1, <2>1, <4>1, <4>2 DEF Sound, Ordered
    <3> QED
      BY <3>1, <3>2
  <2>4. least \in Contract!Due(w) /\ \A s \in Contract!Due(w) : least <= s
    BY <1>1, <2>1, <2>2, <2>3, FirstDue DEF x
  <2>5. watch' = [watch EXCEPT ![w] = replayed]
    BY <1>3, <1>6
  <2>6. Look(replayed) = [phase |-> "on", range |-> x.range, from |-> x.from,
                          seen |-> Append(x.delivered, least)]
    <3>1. /\ replayed.phase = "open" /\ replayed.range = x.range /\ replayed.from = x.from
          /\ replayed.delivered = Append(x.delivered, least)
      BY <1>1 DEF Watcher
    <3> HIDE DEF replayed
    <3> QED
      BY <3>1 DEF Look
  <2> HIDE DEF replayed
  <2> QED
    BY <1>5, <2>4, <2>5, <2>6
<1>7. CASE x.backlog = {} /\ x.queue # <<>> /\ first # End
  <2>1. /\ first = x.queue[1] /\ Len(x.queue) \in Nat /\ Len(x.queue) >= 1
        /\ \A j \in 1..Len(x.queue) : x.queue[j] \in Nat
    BY <1>1, <1>7, TailQueue, WatcherFields
  <2>2. watch' = [watch EXCEPT ![w] = streamed]
    BY <1>3, <1>7
  <2>3. Look(streamed) = [phase |-> "on", range |-> x.range, from |-> x.from,
                          seen |-> Append(x.delivered, first)]
    <3>1. /\ streamed.phase = "open" /\ streamed.range = x.range /\ streamed.from = x.from
          /\ streamed.delivered = Append(x.delivered, first)
      BY <1>1 DEF Watcher
    <3> HIDE DEF streamed, first
    <3> QED
      BY <3>1 DEF Look
  <2> HIDE DEF x, first, streamed
  <2>4. 1 \in Batches(x)
    BY <1>7, <2>1 DEF Batches
  <2>5. /\ first \in Nat /\ Holding(x, first) /\ first \in 1..revision
        /\ Touches(log[first], x.range)
        /\ \A i \in 1..Len(x.delivered) : x.delivered[i] < first
        /\ first >= x.from
    BY <1>1, <2>1, <2>4 DEF Holding, Sound, Within, Ordered, Starts, Asked
  <2>6. ASSUME NEW s \in Nat, Holding(x, s), s # End
        PROVE  first <= s
    <3>1. PICK j \in 1..Len(x.queue) : x.queue[j] = s
      BY <1>7, <2>6 DEF Holding
    <3>2. j \in Batches(x)
      BY <2>6, <3>1 DEF Batches
    <3>3. j # 1 => x.queue[1] < x.queue[j]
      BY <1>1, <2>1, <2>4, <3>2 DEF Sound, Ordered
    <3> QED
      BY <2>1, <3>1, <3>3
  <2>7. first \in Contract!Due(w) /\ \A s \in Contract!Due(w) : first <= s
    BY <1>1, <1>7, <2>5, <2>6, FirstDue DEF x
  <2> QED
    BY <1>5, <2>2, <2>3, <2>7
<1>8. CASE x.backlog = {} /\ x.queue # <<>> /\ first = End
  <2>1. /\ first = x.queue[1] /\ Len(x.queue) \in Nat /\ Len(x.queue) >= 1
    BY <1>1, <1>8, TailQueue, WatcherFields
  <2>2. Len(x.queue) = 1 /\ closed
    <3>1. Tied(x, closed) /\ 1 \in 1..Len(x.queue) /\ x.queue[1] = End
      BY <1>1, <1>8, <2>1 DEF Sound
    <3> HIDE DEF x
    <3> QED
      BY <3>1 DEF Tied
  <2>3. ASSUME NEW s \in 1..revision
        PROVE  ~Holding(x, s)
    BY <1>8, <2>1, <2>2 DEF Holding, End
  <2>4. \A batch : Contract!Names(batch, x.range) <=> Touches(batch, x.range)
    BY DEF Contract!Names, Touches, Contract!InRange, Contract!KeyInRange, KeyInRange,
           Contract!None, None, Contract!Unbounded, Unbounded
  <2>5. /\ DOMAIN log = 1..revision /\ DOMAIN x.delivered = 1..Len(x.delivered)
        /\ watching[w] = Look(x)
    BY <1>1, <1>4, WatcherFields
  <2>6. watch' = [watch EXCEPT ![w] = drained]
    BY <1>3, <1>8
  <2>7. Look(drained) = [Contract!NotWatching EXCEPT !.phase = "ended"]
    BY <1>1 DEF Look, Watcher, Contract!NotWatching, Contract!None, None
  <2> HIDE DEF x, drained
  <2>8. Contract!Due(w) = {}
    <3>1. \A s \in Due(x, revision, log) : Has(x, s)
      BY <1>1, <2>3 DEF Sound, Complete, Due
    <3> QED
      BY <1>4, <2>4, <2>5, <3>1 DEF Contract!Due, Due, Has
  <2>9. watching' = [watching EXCEPT ![w] = Look(drained)] /\ watching[w].phase = "on"
    <3>1. watching[w].phase = "on"
      BY <1>4
    <3> QED
      BY <1>1, <2>6, <3>1, OneLooks
  <2>10. Contract!Finish(w)
    BY <1>2, <2>2, <2>7, <2>8, <2>9 DEF Contract!Finish
  <2> QED
    BY <2>10 DEF Contract!Next
<1> QED
  BY <1>3, <1>6, <1>7, <1>8

\* Every step of the backend is one the contract allows, or none it sees.
LEMMA StepKept ==
  ASSUME ReadsFirst, Ahead <= 1, LeaseInv, StreamInv, AllAsked, [Next]_vars
  PROVE  [Contract!Next]_(Contract!vars)
<1>1. ASSUME NEW txn \in Txns, Transact(txn)
      PROVE  Contract!Next
  <2>1. ~closed /\ closed' = closed
    BY <1>1 DEF Transact, Serving
  <2>2. PICK batch : Publish(batch)
    BY <1>1, WholeBranchRuns DEF Transact
  <2>3. PICK W \in SUBSET Keys : \E v \in [W -> Version] : Commits(W, v)
    BY <1>1, TransactCommits
  <2>4. PICK v \in [W -> Version] : Commits(W, v)
    BY <2>3
  <2>5. W # {} /\ \A k \in W : v[k].value \in StoredValues \cup {None}
    BY <1>1, <2>4, TransactStores
  <2> QED
    BY <2>1, <2>2, <2>4, <2>5, CommitKept
<1>2. ASSUME NEW lease \in DOMAIN leases, RevokeLease(lease)
      PROVE  [Contract!Next]_(Contract!vars)
  <2>1. /\ ~closed /\ closed' = closed /\ compacted' = compacted
        /\ lease \in Nat /\ ExpireLeaseKeys(lease)
    BY <1>2 DEF RevokeLease, Serving, LeaseInv, TypeOK
  <2> QED
    BY <2>1, ExpireKept
<1>3. ASSUME ExpireNext
      PROVE  [Contract!Next]_(Contract!vars)
  <2> DEFINE lease == Min(expired)
  <2>1. /\ expired # {} /\ expired \subseteq DOMAIN leases /\ DOMAIN leases \in SUBSET Nat
        /\ ExpireLeaseKeys(lease) /\ closed' = closed /\ compacted' = compacted
    BY <1>3 DEF ExpireNext, LeaseInv, TypeOK
  <2>2. lease \in Nat /\ ~closed
    BY <2>1, MinProperties DEF StreamInv
  <2> HIDE DEF lease
  <2> QED
    BY <2>1, <2>2, ExpireKept
<1>4. ASSUME NEW rev \in 1..revision, Compact(rev)
      PROVE  Contract!Next
  BY <1>4, CompactKept
<1>5. ASSUME UNCHANGED <<store, compacted, closed>>
      PROVE  UNCHANGED Contract!vars
  <2>1. view' = view /\ watching' = watching
    BY <1>5 DEF view, watching, Current, KeyValueAt, store
  <2> QED
    BY <1>5, <2>1 DEF Contract!vars, store
<1>6. ASSUME NEW w \in Watches, NEW range, NEW from, Watch(w, range, from)
      PROVE  UNCHANGED Contract!vars
  <2> DEFINE y == [watch[w] EXCEPT !.phase = "called", !.range = range, !.from = from]
  <2>1. /\ view' = view /\ UNCHANGED <<log, compacted, closed>> /\ TypeOK
        /\ watch' = [watch EXCEPT ![w] = y] /\ watch[w] \in Watcher /\ watch[w].phase = "idle"
    BY <1>6 DEF Watch, view, Current, KeyValueAt, LeaseInv, TypeOK
  <2>2. y.phase = "called"
    BY <2>1 DEF Watcher
  <2> HIDE DEF y
  <2>3. Look(y) = Look(watch[w])
    BY <2>1, <2>2 DEF Look
  <2>4. watching' = [watching EXCEPT ![w] = watching[w]]
    BY <2>1, <2>3, OneLooks
  <2>5. watching' = watching
    BY <2>4 DEF watching
  <2> QED
    BY <2>1, <2>5 DEF Contract!vars
<1>7. ASSUME NEW w \in Watches, CancelWatch(w)
      PROVE  [Contract!Next]_(Contract!vars)
  <2> DEFINE y == [watch[w] EXCEPT !.phase = "cancelled", !.registered = FALSE]
  <2>1. /\ view' = view /\ UNCHANGED <<log, compacted, closed>> /\ TypeOK
        /\ watch' = [watch EXCEPT ![w] = y] /\ watch[w] \in Watcher
        /\ watch[w].phase \in {"called", "open"}
    BY <1>7 DEF CancelWatch, view, Current, KeyValueAt, LeaseInv, TypeOK
  <2>2. y.phase = "cancelled"
    BY <2>1 DEF Watcher
  <2> HIDE DEF y
  <2>3. Look(y) = Contract!NotWatching
    BY <2>2 DEF Look, Contract!NotWatching, Contract!None, None
  <2>4. watching' = [watching EXCEPT ![w] = Look(y)] /\ watching[w] = Look(watch[w])
    BY <2>1, OneLooks
  <2>5. CASE watch[w].phase = "open"
    <3>1. watching[w].phase = "on"
      BY <2>4, <2>5 DEF Look
    <3>2. Contract!Stop(w)
      BY <2>1, <2>3, <2>4, <3>1 DEF Contract!Stop
    <3> QED
      BY <3>2 DEF Contract!Next
  <2>6. CASE watch[w].phase = "called"
    <3>1. Look(watch[w]) = Look(y)
      BY <2>2, <2>6 DEF Look
    <3>2. watching' = watching
      BY <2>4, <3>1 DEF watching
    <3> QED
      BY <2>1, <3>2 DEF Contract!vars
  <2> QED
    BY <2>1, <2>5, <2>6
<1>8. ASSUME Close
      PROVE  Contract!Next
  <2>1. /\ view' = view /\ UNCHANGED <<log, compacted>> /\ ~closed /\ closed' = TRUE
    BY <1>8 DEF Close, view, Current, KeyValueAt
  <2>2. ASSUME NEW w \in Watches
        PROVE  /\ watch'[w].phase = watch[w].phase /\ watch'[w].range = watch[w].range
               /\ watch'[w].from = watch[w].from /\ watch'[w].delivered = watch[w].delivered
    <3>1. watch[w] \in Watcher
      BY DEF LeaseInv, TypeOK
    <3>2. \/ watch'[w] = watch[w]
          \/ watch'[w] = [watch[w] EXCEPT !.queue = Append(@, End), !.registered = FALSE]
      BY <1>8 DEF Close
    <3> QED
      BY <3>1, <3>2 DEF Watcher
  <2>3. watching' = watching
    BY <2>2, SameWatching
  <2>4. Contract!Close
    BY <2>1, <2>3 DEF Contract!Close
  <2> QED
    BY <2>4 DEF Contract!Next
<1> QED
  BY <1>1, <1>2, <1>3, <1>4, <1>5, <1>6, <1>7, <1>8, BeginKept, DeliverKept
  DEF Next, GrantLease, KeepAlive, AdvanceTime, vars

LEMMA InitKept == Init => Contract!Init
<1> SUFFICES ASSUME Init
             PROVE  Contract!Init
  OBVIOUS
<1>1. /\ history = [k \in Keys |-> <<>>] /\ log = <<>> /\ compacted = 0 /\ closed = FALSE
      /\ watch = [w \in Watches |-> Idle]
  BY DEF Init
<1>2. \A k \in Keys : Current(k).value = None
  <2>1. \A rev : Newest(<<>>, rev) = 0
    BY DEF Newest
  <2> QED
    BY <1>1, <2>1 DEF Current, KeyValueAt, Absent
<1>3. view = [k \in Keys |-> Contract!None]
  BY <1>2 DEF view, Contract!None, None
<1>4. watching = [w \in Watches |-> Contract!NotWatching]
  BY <1>1 DEF watching, Idle, Contract!NotWatching, Contract!None, None
<1> QED
  BY <1>1, <1>3, <1>4 DEF Contract!Init

LEMMA InitAsked == Init => AllAsked
<1> SUFFICES ASSUME Init, NEW w \in Watches
             PROVE  Asked(watch[w], log)
  BY DEF AllAsked
<1>1. /\ watch[w].phase = "idle" /\ watch[w].backlog = {} /\ watch[w].queue = <<>>
  BY DEF Init, Idle
<1>2. Batches(watch[w]) = {}
  BY <1>1 DEF Batches
<1> QED
  BY <1>1, <1>2 DEF Asked

\* The in-memory backend implements the contract of EtcdBackend, for any keys,
\* watches and bounds: where branches read before they write and no watch is
\* asked for beyond the next revision, each commit, revocation and expiry is
\* one batch that accounts for the whole change of the store, and each
\* generator hands over exactly what it owes, in order, until the backend
\* closes.
THEOREM KeepsContract ==
  ASSUME ReadsFirst, Ahead <= 1
  PROVE  Spec => Implements
<1>1. AllAsked /\ TypeOK /\ TypeOK' /\ StreamInv /\ [Next]_vars => AllAsked'
  BY StepAsked
<1>2. LeaseInv /\ StreamInv /\ AllAsked /\ [Next]_vars => [Contract!Next]_(Contract!vars)
  BY StepKept
<1>3. TypeOK /\ AllCommitted /\ LeaseIntegrity <=> LeaseInv
  BY DEF LeaseInv
<1>4. Spec => [](AllCommitted /\ LeaseIntegrity)
  BY StoreInvariant
<1>5. Init => AllAsked /\ Contract!Init
  BY InitAsked, InitKept
<1> QED
  BY <1>1, <1>2, <1>3, <1>4, <1>5, StreamInvariant, TypeCorrect, PTL
  DEF Spec, Implements, Contract!Spec
=============================================================================
