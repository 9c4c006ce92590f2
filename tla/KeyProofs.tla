----------------------------- MODULE KeyProofs -----------------------------
(***************************************************************************)
(* What the overlap test of write ranges decides, for every pair of ranges *)
(* over all keys; that the range of a prefix holds the keys that start     *)
(* with it and no other, for all prefixes and keys over all alphabets; and *)
(* that objects of a schema own disjoint subtrees, for keys and namespaces *)
(* of any number of segments.                                              *)
(***************************************************************************)
EXTENDS MCKeys, WellFoundedInduction, SequenceTheorems, TLAPS

LEMMA RangeTypes ==
  ASSUME NEW l \in KeyRanges
  PROVE  /\ l.start \in Nat /\ l.end \in Nat \cup {None}
         /\ EffectiveEnd(l) \in Nat
BY DEF KeyRanges, EffectiveEnd

\* A key in a range lies between its start and its effective end.
LEMMA InRangeBetween ==
  ASSUME NEW l \in KeyRanges, NEW k \in Nat, InRange(k, l)
  PROVE  l.start <= k /\ (EffectiveEnd(l) = Unbounded \/ k < EffectiveEnd(l))
BY RangeTypes DEF InRange, KeyInRange, EffectiveEnd, None

\* The overlap test is sound: two writes it lets through share no key, so
\* each key gets at most one version per transaction (_ranges_overlap).
THEOREM OverlapIsSound ==
  ASSUME NEW l \in KeyRanges, NEW r \in KeyRanges
  PROVE  OverlapSound(l, r, Nat)
<1>1. SUFFICES ASSUME NEW k \in Nat, InRange(k, l), InRange(k, r)
               PROVE  RangesOverlap(l, r)
  BY DEF OverlapSound
<1> QED
  BY <1>1, RangeTypes, InRangeBetween DEF RangesOverlap

\* Of two proper ranges that overlap, the later start is in both.
LEMMA LaterStartShared ==
  ASSUME NEW l \in KeyRanges, NEW r \in KeyRanges,
         Proper(l), Proper(r), RangesOverlap(l, r)
  PROVE  \E k \in {l.start, r.start} : InRange(k, l) /\ InRange(k, r)
<1>1. /\ l.start \in Nat /\ l.end \in Nat \cup {None}
      /\ r.start \in Nat /\ r.end \in Nat \cup {None}
  BY RangeTypes
<1>2. CASE l.start <= r.start
  <2>1. InRange(r.start, l) /\ InRange(r.start, r)
    BY <1>1, <1>2 DEF Proper, RangesOverlap, InRange, KeyInRange, EffectiveEnd, None, Unbounded
  <2> QED
    BY <2>1
<1>3. CASE r.start < l.start
  <2>1. InRange(l.start, l) /\ InRange(l.start, r)
    BY <1>1, <1>3 DEF Proper, RangesOverlap, InRange, KeyInRange, EffectiveEnd, None, Unbounded
  <2> QED
    BY <2>1
<1> QED
  BY <1>1, <1>2, <1>3

\* The overlap test is exact on the ranges of real keys: no transaction is
\* refused without a key that it would have written twice.
THEOREM OverlapIsExact ==
  ASSUME NEW l \in KeyRanges, NEW r \in KeyRanges
  PROVE  OverlapExact(l, r, Nat)
BY LaterStartShared, RangeTypes DEF OverlapExact
-----------------------------------------------------------------------------
LEMMA RangesSmall ==
  Spec => [](left \in SmallRanges /\ right \in SmallRanges)
<1>1. NoRange \in SmallRanges
  BY MaxKeyOK DEF NoRange, SmallRanges
<1>2. Init => left \in SmallRanges /\ right \in SmallRanges
  BY <1>1 DEF Init, Blank, RangesBlank
<1>3. left \in SmallRanges /\ right \in SmallRanges /\ [Next]_<<ranges, prefixes, paths>>
        => (left \in SmallRanges /\ right \in SmallRanges)'
  BY <1>1 DEF Next, AskOverlap, AskPrefix, AskObject, AskObjects, AskAgain, ranges
<1> QED
  BY <1>2, <1>3, PTL DEF Spec

LEMMA SmallRangesAreRanges == SmallRanges \subseteq KeyRanges
BY MaxKeyOK DEF SmallRanges, KeyRanges

\* Two writes that pass the test together share no key, however large the
\* keys of the run are.
THEOREM AcceptedAlwaysDisjoint == Spec => []AcceptedWritesDisjoint
<1>1. SharedKeys \subseteq Nat
  BY MaxKeyOK DEF SharedKeys
<1>2. left \in SmallRanges /\ right \in SmallRanges => AcceptedWritesDisjoint
  BY <1>1, SmallRangesAreRanges, OverlapIsSound DEF AcceptedWritesDisjoint, OverlapSound
<1> QED
  BY <1>2, RangesSmall, PTL

\* A pair of writes over real keys is refused only for a key in both.
THEOREM RefusedAlwaysMeet == Spec => []RefusedWritesMeet
<1>1. left \in SmallRanges /\ right \in SmallRanges
        => left.start \in SharedKeys /\ right.start \in SharedKeys
  BY MaxKeyOK DEF SmallRanges, SharedKeys
<1>2. left \in SmallRanges /\ right \in SmallRanges => RefusedWritesMeet
  BY <1>1, SmallRangesAreRanges, LaterStartShared DEF RefusedWritesMeet, OverlapExact
<1> QED
  BY <1>2, RangesSmall, PTL
-----------------------------------------------------------------------------
(* Prefixes.                                                               *)

Room(p) == {i \in 1..Len(p) : p[i] < MaxByte}

\* Every non-empty set of positions has a least element, and a bounded one a
\* greatest: the one at the least distance from the bound.
LEMMA LeastPosition ==
  ASSUME NEW S \in SUBSET Nat, S # {}
  PROVE  \E m \in S : \A x \in S : m <= x
<1> DEFINE below == OpToRel(<, Nat)
<1>1. \A x, y \in Nat : x < y => <<x, y>> \in below
  BY SMT DEF OpToRel
<1>2. IsWellFoundedOn(below, Nat)
  BY NatLessThanWellFounded, Zenon
<1> HIDE DEF below
<1>3. PICK m \in S : \A x \in S : <<x, m>> \notin below
  BY <1>2, WFMin, Zenon
<1>4. \A x \in S : x \in Nat /\ m \in Nat /\ ~(x < m)
  BY <1>1, <1>3
<1> QED
  BY <1>4

LEMMA GreatestPosition ==
  ASSUME NEW n \in Nat, NEW S \in SUBSET (0..n), S # {}
  PROVE  Max(S) \in S /\ \A x \in S : x <= Max(S)
<1> DEFINE distances == {d \in Nat : \E x \in S : d = n - x}
<1>1. \A x \in S : n - x \in distances
  OBVIOUS
<1>2. PICK d \in distances : \A e \in distances : d <= e
  BY <1>1, LeastPosition
<1>3. PICK m \in S : d = n - m
  BY <1>2
<1>4. \A x \in S : x <= m
  BY <1>1, <1>2, <1>3
<1> QED
  BY <1>4 DEF Max

LEMMA StringBytes ==
  ASSUME NEW s \in Strings
  PROVE  /\ Len(s) \in Nat
         /\ \A i \in 1..Len(s) : s[i] \in Bytes
BY DEF Strings

LEMMA BytesAreNatural == Bytes \subseteq Nat
BY MaxByteOK DEF Bytes

\* A prefix without room for an increment has only bytes that are greatest.
LEMMA EndWithoutRoom ==
  ASSUME NEW p \in Strings, Room(p) = {}
  PROVE  PrefixRangeEnd(p) = Zero
BY DEF PrefixRangeEnd, Room

\* Otherwise the end agrees with the prefix up to the last byte with room,
\* ends there and is one greater there.
LEMMA EndWithRoom ==
  ASSUME NEW p \in Strings, Room(p) # {}
  PROVE  \E m \in 1..Len(p) :
           /\ m \in Room(p) /\ \A i \in Room(p) : i <= m
           /\ Len(PrefixRangeEnd(p)) = m
           /\ \A i \in 1..(m - 1) : PrefixRangeEnd(p)[i] = p[i]
           /\ PrefixRangeEnd(p)[m] = p[m] + 1
           /\ PrefixRangeEnd(p) # Zero
<1> DEFINE m == Max(Room(p))
           end == PrefixRangeEnd(p)
<1>1. Len(p) \in Nat /\ Room(p) \in SUBSET (0..Len(p))
  BY StringBytes DEF Room
<1>2. m \in Room(p) /\ \A i \in Room(p) : i <= m
  BY <1>1, GreatestPosition
<1> HIDE DEF m
<1>3. m \in 1..Len(p) /\ p[m] \in Nat
  BY <1>2, StringBytes, BytesAreNatural DEF Room
<1>4. end = Carried(p, m)
  BY <1>2 DEF PrefixRangeEnd, Room, m
<1>5. /\ SubSeq(p, 1, m) \in Seq(Bytes)
      /\ Len(SubSeq(p, 1, m)) = m
      /\ \A i \in 1..m : SubSeq(p, 1, m)[i] = p[i]
  BY <1>3 DEF Strings
<1>6. /\ Len(end) = m
      /\ \A i \in 1..(m - 1) : end[i] = p[i]
      /\ end[m] = p[m] + 1
  <2> DEFINE cut == SubSeq(p, 1, m)
  <2>1. DOMAIN cut = 1..m /\ cut = [i \in 1..m |-> cut[i]]
    BY <1>3, <1>5
  <2>2. end = [i \in 1..m |-> IF i = m THEN cut[m] + 1 ELSE cut[i]]
    BY <2>1, <1>4 DEF Carried
  <2> QED
    BY <2>2, <1>3, <1>5
<1>7. end # Zero
  <2>1. CASE m = 1
    BY <2>1, <1>3, <1>6, MaxByteOK DEF Zero
  <2>2. CASE m # 1
    BY <2>2, <1>3, <1>6 DEF Zero
  <2> QED
    BY <2>1, <2>2
<1> QED
  BY <1>2, <1>3, <1>6, <1>7

\* A key that starts with the prefix is not below it, and below its end.
LEMMA PrefixedInRange ==
  ASSUME NEW p \in Strings, NEW k \in Strings, StartsWith(k, p)
  PROVE  InByteRange(k, p, PrefixRangeEnd(p))
<1> DEFINE end == PrefixRangeEnd(p)
<1>1. /\ Len(p) \in Nat /\ Len(k) \in Nat /\ Len(p) <= Len(k)
      /\ \A i \in 1..Len(p) : k[i] = p[i] /\ p[i] \in Nat
  BY StringBytes, BytesAreNatural DEF StartsWith
<1>2. ~Less(k, p)
  BY <1>1, MaxByteOK DEF Less
<1>3. CASE Room(p) = {}
  BY <1>2, <1>3, EndWithoutRoom DEF InByteRange
<1>4. CASE Room(p) # {}
  <2>1. PICK m \in 1..Len(p) : /\ Len(end) = m
                               /\ \A i \in 1..(m - 1) : end[i] = p[i]
                               /\ end[m] = p[m] + 1
    BY <1>4, EndWithRoom
  <2>2. /\ \A j \in 1..(m - 1) : j <= Len(k) /\ k[j] = end[j]
        /\ m <= Len(k) /\ k[m] < end[m]
    BY <1>1, <2>1, MaxByteOK
  <2>3. Less(k, end)
    BY <2>1, <2>2 DEF Less
  <2> QED
    BY <1>2, <2>3 DEF InByteRange
<1> QED
  BY <1>3, <1>4

\* A key in the range starts with the prefix: where it first departs from it,
\* it would be below the prefix or not below the end.
LEMMA InRangePrefixed ==
  ASSUME NEW p \in Strings, NEW k \in Strings, InByteRange(k, p, PrefixRangeEnd(p))
  PROVE  StartsWith(k, p)
<1> DEFINE end == PrefixRangeEnd(p)
           Departs == {i \in 1..Len(p) : i > Len(k) \/ k[i] # p[i]}
<1>1. /\ Len(p) \in Nat /\ Len(k) \in Nat
      /\ \A i \in 1..Len(p) : p[i] \in 0..MaxByte
      /\ \A i \in 1..Len(k) : k[i] \in 0..MaxByte
  BY StringBytes DEF Bytes
<1>2. ~Less(k, p) /\ (end = Zero \/ Less(k, end))
  BY DEF InByteRange
<1>3. SUFFICES ASSUME Departs # {}
               PROVE  FALSE
  BY <1>1 DEF StartsWith
<1>4. PICK d \in Departs : \A i \in Departs : d <= i
  <2>1. Departs \in SUBSET Nat
    BY <1>1
  <2> QED
    BY <1>3, <2>1, LeastPosition
<1>5. /\ d \in 1..Len(p)
      /\ \A j \in 1..(d - 1) : j <= Len(k) /\ k[j] = p[j]
  <2>1. ASSUME NEW j \in 1..(d - 1)
        PROVE  j <= Len(k) /\ k[j] = p[j]
    <3>1. j \notin Departs /\ j \in 1..Len(p)
      BY <1>1, <1>4
    <3> QED
      BY <1>1, <3>1
  <2> QED
    BY <1>4, <2>1
<1>6. d <= Len(k) /\ k[d] > p[d]
  <2>1. d > Len(k) => d = Len(k) + 1
    <3>1. ASSUME d > Len(k) + 1
          PROVE  FALSE
      BY <3>1, <1>1, <1>5
    <3> QED
      BY <3>1, <1>1, <1>5
  <2>2. ~(d = Len(k) + 1 \/ (d <= Len(k) /\ k[d] < p[d]))
    BY <1>2, <1>5 DEF Less
  <2>3. d > Len(k) \/ k[d] # p[d]
    BY <1>4
  <2>4. d <= Len(k)
    BY <2>1, <2>2, <1>1, <1>5
  <2>5. k[d] \in 0..MaxByte /\ p[d] \in 0..MaxByte
    BY <2>4, <1>1, <1>5
  <2> QED
    BY <2>2, <2>3, <2>4, <2>5, MaxByteOK, <1>1, <1>5
<1>7. d \in Room(p)
  BY <1>1, <1>5, <1>6, MaxByteOK DEF Room
<1>8. PICK m \in 1..Len(p) : /\ m \in Room(p) /\ \A i \in Room(p) : i <= m
                             /\ Len(end) = m
                             /\ \A i \in 1..(m - 1) : end[i] = p[i]
                             /\ end[m] = p[m] + 1
                             /\ end # Zero
  BY <1>7, EndWithRoom
<1> HIDE DEF end, Departs
<1>9. PICK i \in 1..m : /\ \A j \in 1..(i - 1) : j <= Len(k) /\ k[j] = end[j]
                        /\ i = Len(k) + 1 \/ (i <= Len(k) /\ k[i] < end[i])
  BY <1>2, <1>8 DEF Less
<1>10. d <= m
  BY <1>7, <1>8
<1>11. i <= d
  <2>1. ASSUME i > d
        PROVE  FALSE
    <3>1. k[d] = end[d] /\ d < m
      BY <2>1, <1>5, <1>8, <1>9
    <3>2. end[d] = p[d]
      BY <3>1, <1>5, <1>8
    <3> QED
      BY <3>1, <3>2, <1>1, <1>5, <1>6, MaxByteOK
  <2> QED
    BY <2>1, <1>5, <1>8, <1>9
<1>12. CASE i = d
  <2>1. k[d] < end[d]
    BY <1>12, <1>6, <1>9, <1>1, <1>5
  <2>2. end[d] <= p[d] + 1
    BY <1>1, <1>5, <1>8, <1>10, MaxByteOK
  <2>3. CASE d < m
    BY <2>1, <2>3, <1>1, <1>5, <1>6, <1>8, MaxByteOK
  <2>4. CASE d = m
    BY <2>1, <2>4, <1>1, <1>5, <1>6, <1>8, MaxByteOK
  <2> QED
    BY <2>3, <2>4, <1>10, <1>5, <1>8
<1>13. CASE i < d
  <2>1. i <= Len(k) /\ k[i] = p[i] /\ end[i] = p[i] /\ p[i] \in 0..MaxByte
    BY <1>13, <1>1, <1>5, <1>8, <1>9, <1>10
  <2> QED
    BY <2>1, <1>9, <1>1, <1>5, MaxByteOK
<1> QED
  BY <1>11, <1>12, <1>13, <1>5, <1>9

\* The range of a prefix is exact, for every prefix and every key: whatever
\* bytes it ends with, a scan of it returns the keys that start with it.
THEOREM PrefixRangeExact ==
  ASSUME NEW p \in Strings, NEW k \in Strings
  PROVE  SelectsPrefix(p, k)
BY PrefixedInRange, InRangePrefixed DEF SelectsPrefix, PrefixRangeOf

\* So are the ranges of all prefixes and keys a run asks about, over every
\* alphabet of bytes.
THEOREM PrefixAlwaysExact == Spec => []PrefixExact
<1>1. \A n \in Nat : Short(n) \subseteq Strings
  <2>1. ASSUME NEW n \in Nat, NEW m \in 0..n, NEW s \in [1..m -> Bytes]
        PROVE  s \in Seq(Bytes)
    BY <2>1
  <2> QED
    BY <2>1 DEF Short, Strings
<1>2. <<>> \in Strings
  BY DEF Strings
<1>3. Init => prefix \in Strings /\ probe \in Strings
  BY <1>2 DEF Init, Blank, PrefixesBlank
<1>4. prefix \in Strings /\ probe \in Strings /\ [Next]_<<ranges, prefixes, paths>>
        => (prefix \in Strings /\ probe \in Strings)'
  BY <1>1, <1>2 DEF Next, AskOverlap, AskPrefix, AskObject, AskObjects, AskAgain, prefixes
<1>5. prefix \in Strings /\ probe \in Strings => PrefixExact
  BY PrefixRangeExact DEF PrefixExact
<1> QED
  BY <1>3, <1>4, <1>5, PTL DEF Spec
-----------------------------------------------------------------------------
(* Paths of objects.                                                       *)

\* A sequence with one more element.
LEMMA OneMore ==
  ASSUME NEW S, NEW s \in Seq(S), NEW x \in S
  PROVE  /\ s \o <<x>> \in Seq(S) /\ Len(s \o <<x>>) = Len(s) + 1
         /\ \A i \in 1..Len(s) : (s \o <<x>>)[i] = s[i]
         /\ (s \o <<x>>)[Len(s) + 1] = x
<1>1. <<x>> \in Seq(S) /\ Len(<<x>>) = 1 /\ <<x>>[1] = x
  OBVIOUS
<1> QED
  BY <1>1

\* A path that an object owns spells its key after the namespace, then ends
\* or goes on with "rpc".
LEMMA OwnedPathSpellsKey ==
  ASSUME NEW S, Rpc \in S, NEW n \in Seq(S), NEW k \in Seq(S), NEW p \in Seq(S),
         Owned(p, n, k)
  PROVE  /\ Len(p) >= Len(n) + Len(k)
         /\ \A i \in 1..Len(k) : p[Len(n) + i] = k[i]
         /\ Len(p) = Len(n) + Len(k) \/ p[Len(n) + Len(k) + 1] = Rpc
<1>1. /\ n \o k \in Seq(S) /\ Len(n \o k) = Len(n) + Len(k)
      /\ \A i \in 1..Len(k) : (n \o k)[Len(n) + i] = k[i]
  BY ConcatProperties, LenProperties
<1>2. /\ n \o k \o <<Rpc>> \in Seq(S)
      /\ Len(n \o k \o <<Rpc>>) = Len(n) + Len(k) + 1
      /\ \A i \in 1..(Len(n) + Len(k)) : (n \o k \o <<Rpc>>)[i] = (n \o k)[i]
      /\ (n \o k \o <<Rpc>>)[Len(n) + Len(k) + 1] = Rpc
  BY <1>1, OneMore
<1>3. Len(n) \in Nat /\ Len(k) \in Nat /\ Len(p) \in Nat
  OBVIOUS
<1>4. CASE p = n \o k
  BY <1>1, <1>4
<1>5. CASE Under(p, n \o k \o <<Rpc>>)
  <2>1. /\ Len(n) + Len(k) + 1 <= Len(p)
        /\ \A i \in 1..(Len(n) + Len(k) + 1) : p[i] = (n \o k \o <<Rpc>>)[i]
    BY <1>2, <1>5 DEF Under
  <2>2. p[Len(n) + Len(k) + 1] = Rpc
    BY <1>2, <1>3, <2>1
  <2>3. ASSUME NEW i \in 1..Len(k)
        PROVE  p[Len(n) + i] = k[i]
    <3>1. Len(n) + i \in 1..(Len(n) + Len(k))
      BY <1>3
    <3> QED
      BY <3>1, <1>1, <1>2, <1>3, <2>1
  <2> QED
    BY <1>3, <2>1, <2>2, <2>3
<1> QED
  BY <1>4, <1>5 DEF Owned

\* A key is not as long as the path of an object with a longer one: the "rpc"
\* that follows it would be a segment of the longer key.
LEMMA NoLongerKey ==
  ASSUME NEW S, Rpc \in S, NEW n \in Seq(S), NEW k \in Seq(S), NEW o \in Seq(S),
         NEW p \in Seq(S), Owned(p, n, k), Owned(p, n, o), ValidKey(o)
  PROVE  Len(o) <= Len(k)
<1>1. SUFFICES ASSUME Len(k) < Len(o)
               PROVE  In(Rpc, o)
  BY DEF ValidKey, Reserved
<1>2. Len(n) \in Nat /\ Len(k) \in Nat /\ Len(o) \in Nat /\ Len(p) \in Nat
  OBVIOUS
<1>3. /\ Len(p) >= Len(n) + Len(o)
      /\ \A i \in 1..Len(o) : p[Len(n) + i] = o[i]
  BY OwnedPathSpellsKey
<1>4. Len(p) = Len(n) + Len(k) \/ p[Len(n) + Len(k) + 1] = Rpc
  BY OwnedPathSpellsKey
<1>5. Len(k) + 1 \in 1..Len(o) /\ Len(n) + (Len(k) + 1) = Len(n) + Len(k) + 1
  BY <1>1, <1>2
<1>6. p[Len(n) + Len(k) + 1] = Rpc
  BY <1>1, <1>2, <1>3, <1>4
<1>7. o[Len(k) + 1] = Rpc
  BY <1>3, <1>5, <1>6
<1> QED
  BY <1>5, <1>7 DEF In

\* Deleting an object with all it owns takes nothing of another object, of
\* whatever keys and namespaces validate_fsm_key lets through.
THEOREM ObjectsOwnApart ==
  ASSUME NEW S, Rpc \in S, NEW n \in Seq(S), NEW k \in Seq(S), NEW o \in Seq(S),
         NEW p \in Seq(S)
  PROVE  ObjectsApart(n, k, o, p)
<1>1. SUFFICES ASSUME ValidKey(k), ValidKey(o), Owned(p, n, k), Owned(p, n, o)
               PROVE  k = o
  BY DEF ObjectsApart
<1>2. Len(k) <= Len(o) /\ Len(o) <= Len(k)
  BY <1>1, NoLongerKey
<1>3. Len(k) = Len(o)
  BY <1>2
<1>4. ASSUME NEW i \in 1..Len(k)
      PROVE  k[i] = o[i]
  BY <1>1, <1>3, OwnedPathSpellsKey
<1> QED
  BY <1>3, <1>4, SeqEqual
-----------------------------------------------------------------------------
Strung == MCSegments \cup {Rpc}

LEMMA UptoAreSequences ==
  ASSUME NEW m \in Nat, NEW S \in SUBSET Strung
  PROVE  Upto(m, S) \subseteq Seq(Strung)
<1>1. ASSUME NEW l \in 1..m, NEW s \in [1..l -> S]
      PROVE  s \in Seq(Strung)
  OBVIOUS
<1> QED
  BY <1>1 DEF Upto

InputsOK == /\ namespace \in Seq(Strung) /\ path \in Seq(Strung)
            /\ key \in Seq(Strung) /\ other \in Seq(Strung)

LEMMA InputsAlwaysOK == Spec => []InputsOK
<1>1. /\ <<>> \in Seq(Strung) /\ NoKey \in Seq(Strung) /\ NoRoot \in Seq(Strung)
      /\ {"", "a", "rpc"} \in SUBSET Strung /\ {"", "a", "rpc", "."} \in SUBSET Strung
      /\ {"a", "rpc"} \in SUBSET Strung /\ MCSegments \in SUBSET Strung
  BY DEF Strung, MCSegments, NoKey, NoRoot
<1>2. /\ Upto(2, MCSegments) \subseteq Seq(Strung) /\ Plain \subseteq Seq(Strung)
      /\ Upto(2, {"", "a", "rpc", "."}) \subseteq Seq(Strung)
      /\ Upto(2, {"a", "rpc"}) \subseteq Seq(Strung)
  BY <1>1, UptoAreSequences DEF Plain
<1>3. ASSUME NEW s \in Seq(Strung), NEW t \in Seq(Strung)
      PROVE  s \o t \in Seq(Strung)
  OBVIOUS
<1>4. Roots \subseteq Seq(Strung)
  <2>1. <<"">> \in Seq(Strung)
    BY DEF Strung, MCSegments
  <2> QED
    BY <2>1, <1>2, <1>3 DEF Roots
<1>5. Init => InputsOK
  BY <1>1 DEF Init, Blank, PathsBlank, InputsOK
<1>6. InputsOK /\ [Next]_<<ranges, prefixes, paths>> => InputsOK'
  <2>1. SUFFICES ASSUME InputsOK, [Next]_<<ranges, prefixes, paths>>
                 PROVE  InputsOK'
    OBVIOUS
  <2>2. CASE AskObject
    <3>1. namespace' \in Seq(Strung) /\ key' \in Seq(Strung)
      BY <2>2, <1>2, <1>4 DEF AskObject
    <3>2. namespace' \o key' \in Seq(Strung)
      BY <3>1, <1>3
    <3> QED
      BY <2>1, <2>2, <3>1, <3>2 DEF AskObject, InputsOK
  <2>3. CASE AskObjects
    <3>1. other' \in Seq(Strung) /\ namespace' \in Seq(Strung) /\ key' \in Seq(Strung)
      BY <2>1, <2>3, <1>2 DEF AskObjects, InputsOK
    <3>2. PICK rest \in Seq(Strung) :
            path' \in {namespace \o key \o rest, namespace \o other' \o rest}
      BY <2>3, <1>1, <1>2 DEF AskObjects
    <3>3. /\ namespace \o key \o rest \in Seq(Strung)
          /\ namespace \o other' \o rest \in Seq(Strung)
      BY <2>1, <3>1, <1>3 DEF InputsOK
    <3> QED
      BY <3>1, <3>2, <3>3 DEF InputsOK
  <2>4. CASE AskAgain
    BY <2>4, <1>1 DEF AskAgain, InputsOK
  <2>5. CASE UNCHANGED paths
    BY <2>1, <2>5 DEF paths, InputsOK
  <2>6. CASE AskOverlap \/ AskPrefix
    BY <2>5, <2>6 DEF AskOverlap, AskPrefix
  <2> QED
    BY <2>1, <2>2, <2>3, <2>4, <2>5, <2>6 DEF Next
<1> QED
  BY <1>5, <1>6, PTL DEF Spec

\* So do the objects of every state of the run.
THEOREM SubtreesAlwaysApart == Spec => []SubtreesApart
<1>1. InputsOK => SubtreesApart
  <2>1. Rpc \in Strung
    BY DEF Strung
  <2> QED
    BY <2>1, ObjectsOwnApart DEF InputsOK, SubtreesApart
<1> QED
  BY <1>1, InputsAlwaysOK, PTL
=============================================================================
