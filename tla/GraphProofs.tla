---------------------------- MODULE GraphProofs ----------------------------
(***************************************************************************)
(* What the graph command finds and draws, for any objects, collections of *)
(* any shape and any number of references.                                 *)
(***************************************************************************)
EXTENDS Graph, FiniteSetTheorems, SequenceTheorems, TLAPS

\* What is left to the active collect calls.
Left(fs) == {o \in Objects : \E i \in 1..Len(fs) : \E j \in 1..Len(fs[i]) : fs[i][j] = o}
Waiting == Left(frames)

\* What was found, and with that what is still to be.
Walked == {c \in Collections : at[c] \in seenCollections}
Known == ToSet(schemas) \cup ToSet(processors) \cup Walked
Covered == Known \cup Waiting

Over == phase \in {"collected", "refused", "drawn"}

Phases == {"collecting", "raised", "collected", "refused", "drawn"}

Typed ==
  /\ schemaOf \in [Processors -> Schemas] /\ members \in [Collections -> Seq(Objects)]
  /\ references \in Seq(References) /\ asked \in 0..Len(references)
  /\ frames \in Seq(Seq(Objects)) /\ at \in [Collections -> Addresses \cup {None}]
  /\ schemas \in Seq(Schemas) /\ processors \in Seq(Processors)
  /\ seenCollections \subseteq Addresses
  /\ phase \in Phases

\* Collections that are imported have addresses of their own, and so do those
\* they lead to and those that wait.
Apart ==
  /\ \A c, d \in Imported : at[c] = at[d] => c = d
  /\ \A c \in Imported : ToSet(members[c]) \cap Collections \subseteq Imported
  /\ Waiting \cap Collections \subseteq Imported

\* Nothing is found twice, nor that the command was not pointed at.
Sound ==
  /\ IsInjective(schemas) /\ IsInjective(processors)
  /\ ToSet(schemas) \cup ToSet(processors) \cup Waiting \subseteq Reachable

\* What an object found leads to was found or waits for its turn, and so does
\* what was asked for; of what collections hold this is so as long as none was
\* placed where one had been seen.
Pursued ==
  /\ \A p \in ToSet(processors) : schemaOf[p] \in Covered
  /\ ~reused => \A c \in Walked : ToSet(members[c]) \subseteq Covered
Followed ==
  ~reused /\ phase # "raised" =>
    \A i \in 1..asked : ToSet(references[i].holds) \subseteq Covered

\* A call for each collection seen, the command's own, and one of a processor
\* for its schema, which calls no other.
Nested ==
  LET deep == Cardinality(Walked)
  IN \/ Len(frames) <= deep + 1
     \/ /\ Len(frames) = deep + 2
        /\ ToSet(Head(frames)) \subseteq Schemas

Settled ==
  /\ phase # "collecting" => frames = <<>>
  /\ Over =>
       /\ asked = Len(references)
       /\ phase = "refused" <=> schemas = <<>> /\ processors = <<>>

Drawn ==
  phase = "drawn" =>
    graphs = [i \in DOMAIN schemas |->
                [schema |-> schemas[i],
                 drawn |-> {j \in DOMAIN processors : schemaOf[processors[j]] = schemas[i]}]]

GraphInv ==
  /\ Typed /\ Apart /\ Sound /\ Pursued /\ Followed /\ Nested /\ Settled /\ Drawn
-----------------------------------------------------------------------------
(* Frames.                                                                 *)

LEMMA HeadAndTail ==
  ASSUME NEW S, NEW s \in Seq(S), s # <<>>
  PROVE  /\ Head(s) \in S /\ Tail(s) \in Seq(S) /\ Len(s) \in Nat
         /\ Len(Tail(s)) = Len(s) - 1 /\ Len(s) >= 1
         /\ Head(s) = s[1] /\ \A i \in 1..Len(Tail(s)) : Tail(s)[i] = s[i + 1]
BY HeadTailProperties

\* A new active call.
LEMMA Pushed ==
  ASSUME NEW fs \in Seq(Seq(Objects)), NEW f \in Seq(Objects)
  PROVE  /\ <<f>> \o fs \in Seq(Seq(Objects))
         /\ Len(<<f>> \o fs) = Len(fs) + 1
         /\ Head(<<f>> \o fs) = f
         /\ Left(<<f>> \o fs) = ToSet(f) \cup Left(fs)
<1> DEFINE more == <<f>> \o fs
           n == Len(fs)
<1>1. n \in Nat /\ more \in Seq(Seq(Objects)) /\ Len(more) = n + 1
  OBVIOUS
<1>2. more[1] = f /\ \A i \in 1..n : more[i + 1] = fs[i]
  OBVIOUS
<1>3. Head(more) = f
  BY <1>1, <1>2
<1> HIDE DEF more, n
<1>4. ToSet(f) = {o \in Objects : \E j \in 1..Len(f) : f[j] = o}
  BY DEF ToSet
<1>5. \A i \in 1..(n + 1) : i = 1 \/ \E k \in 1..n : i = k + 1
  BY <1>1
<1>6. \A k \in 1..n : k + 1 \in 1..(n + 1)
  BY <1>1
<1>7. ASSUME NEW o \in Objects
      PROVE  o \in Left(more) <=> o \in ToSet(f) \/ o \in Left(fs)
  <2>1. ASSUME o \in Left(more)
        PROVE  o \in ToSet(f) \/ o \in Left(fs)
    <3>1. PICK i \in 1..(n + 1) : \E j \in 1..Len(more[i]) : more[i][j] = o
      BY <1>1, <2>1 DEF Left
    <3>2. CASE i = 1
      BY <1>2, <1>4, <3>1, <3>2
    <3>3. CASE i # 1
      <4>1. PICK k \in 1..n : more[i] = fs[k]
        BY <1>2, <1>5, <3>3
      <4> QED
        BY <3>1, <4>1 DEF Left, n
    <3> QED
      BY <3>2, <3>3
  <2>2. ASSUME o \in ToSet(f)
        PROVE  o \in Left(more)
    <3>1. 1 \in 1..(n + 1)
      BY <1>1
    <3> QED
      BY <1>1, <1>2, <1>4, <2>2, <3>1 DEF Left
  <2>3. ASSUME o \in Left(fs)
        PROVE  o \in Left(more)
    <3>1. PICK k \in 1..n : \E j \in 1..Len(fs[k]) : fs[k][j] = o
      BY <2>3 DEF Left, n
    <3> QED
      BY <1>1, <1>2, <1>6, <3>1 DEF Left
  <2> QED
    BY <2>1, <2>2, <2>3
<1>8. Left(more) = ToSet(f) \cup Left(fs)
  BY <1>4, <1>7 DEF Left
<1> QED
  BY <1>1, <1>3, <1>8 DEF more, n

\* The innermost call and the others.
LEMMA Innermost ==
  ASSUME NEW fs \in Seq(Seq(Objects)), fs # <<>>
  PROVE  /\ Head(fs) \in Seq(Objects) /\ Tail(fs) \in Seq(Seq(Objects))
         /\ Len(Tail(fs)) = Len(fs) - 1 /\ Len(fs) \in Nat \ {0}
         /\ Left(fs) = ToSet(Head(fs)) \cup Left(Tail(fs))
<1>1. /\ Head(fs) \in Seq(Objects) /\ Tail(fs) \in Seq(Seq(Objects))
      /\ Len(Tail(fs)) = Len(fs) - 1 /\ Len(fs) \in Nat \ {0}
  BY HeadTailProperties
<1>2. fs = <<Head(fs)>> \o Tail(fs)
  OBVIOUS
<1>3. Left(<<Head(fs)>> \o Tail(fs)) = ToSet(Head(fs)) \cup Left(Tail(fs))
  BY <1>1, Pushed
<1> QED
  BY <1>1, <1>2, <1>3

LEMMA Elements ==
  ASSUME NEW S, NEW s \in Seq(S)
  PROVE  /\ ToSet(s) \subseteq S
         /\ \A x : x \in ToSet(s) <=> \E i \in 1..Len(s) : s[i] = x
<1>1. DOMAIN s = 1..Len(s) /\ \A i \in 1..Len(s) : s[i] \in S
  OBVIOUS
<1> QED
  BY <1>1 DEF ToSet

LEMMA FirstAndRest ==
  ASSUME NEW S, NEW s \in Seq(S), s # <<>>
  PROVE  ToSet(s) = {Head(s)} \cup ToSet(Tail(s))
<1> DEFINE n == Len(s)
           rest == Tail(s)
<1>1. /\ n \in Nat \ {0} /\ Len(rest) = n - 1 /\ Head(s) = s[1]
      /\ \A i \in 1..Len(rest) : rest[i] = s[i + 1]
      /\ rest \in Seq(S)
  BY HeadTailProperties
<1>2. \A x : x \in ToSet(s) <=> \E i \in 1..n : s[i] = x
  BY Elements
<1> HIDE DEF n, rest
<1>7. \A x : x \in ToSet(rest) <=> \E i \in 1..Len(rest) : rest[i] = x
  BY <1>1, Elements
<1>3. \A i \in 1..n : i = 1 \/ \E k \in 1..Len(rest) : i = k + 1
  <2>1. \A i \in 1..n : i # 1 => i - 1 \in 1..Len(rest) /\ i = (i - 1) + 1
    BY <1>1
  <2> QED
    BY <2>1
<1>4. 1 \in 1..n /\ \A k \in 1..Len(rest) : k + 1 \in 1..n
  BY <1>1
<1>5. ASSUME NEW x, x \in ToSet(s)
      PROVE  x = Head(s) \/ x \in ToSet(rest)
  <2>1. PICK i \in 1..n : s[i] = x
    BY <1>2, <1>5
  <2>2. CASE i = 1
    BY <1>1, <2>1, <2>2
  <2>3. ASSUME NEW k \in 1..Len(rest), i = k + 1
        PROVE  x \in ToSet(rest)
    <3>1. rest[k] = x
      BY <1>1, <2>1, <2>3
    <3> QED
      BY <1>7, <3>1
  <2> QED
    BY <1>3, <2>2, <2>3
<1>6. ASSUME NEW x, x = Head(s) \/ x \in ToSet(rest)
      PROVE  x \in ToSet(s)
  BY <1>1, <1>2, <1>4, <1>6, <1>7
<1> QED
  BY <1>5, <1>6 DEF rest

\* What is found is put last unless it was found before.
With(s, x) == IF Contains(s, x) THEN s ELSE Append(s, x)

LEMMA Taken ==
  ASSUME NEW S, NEW s \in Seq(S), NEW x \in S
  PROVE  /\ With(s, x) \in Seq(S) /\ ToSet(With(s, x)) = ToSet(s) \cup {x}
         /\ IsInjective(s) => IsInjective(With(s, x))
<1> DEFINE t == With(s, x)
<1>1. \A y : y \in ToSet(s) <=> \E i \in 1..Len(s) : s[i] = y
  BY Elements
<1>2. CASE Contains(s, x)
  BY <1>1, <1>2 DEF Contains, With
<1>3. CASE ~Contains(s, x)
  <2> DEFINE n == Len(s)
  <2>1. /\ t \in Seq(S) /\ Len(t) = n + 1 /\ n \in Nat
        /\ \A i \in 1..n : t[i] = s[i]
        /\ t[n + 1] = x
    BY <1>3, AppendProperties DEF With
  <2> HIDE DEF t
  <2>2. \A y : y \in ToSet(t) <=> \E i \in 1..Len(t) : t[i] = y
    BY <2>1, Elements
  <2>3. \A i \in 1..n : s[i] # x
    BY <1>3 DEF Contains
  <2>4. DOMAIN s = 1..n /\ DOMAIN t = 1..(n + 1)
    BY <2>1
  <2> HIDE DEF n
  <2>5. \A i \in 1..(n + 1) : i = n + 1 \/ i \in 1..n
    BY <2>1
  <2>6. n + 1 \in 1..(n + 1) /\ \A i \in 1..n : i \in 1..(n + 1)
    BY <2>1
  <2>7. \A y : y \in ToSet(t) <=> y \in ToSet(s) \/ y = x
    BY <1>1, <2>1, <2>2, <2>5, <2>6 DEF n
  <2>8. IsInjective(s) => IsInjective(t)
    BY <2>1, <2>3, <2>4, <2>5 DEF IsInjective
  <2> QED
    BY <2>1, <2>7, <2>8 DEF t
<1> QED
  BY <1>2, <1>3
-----------------------------------------------------------------------------
(* What the command was pointed at.                                        *)

LEMMA AskedFor ==
  ASSUME Typed
  PROVE  /\ Asked \subseteq Objects
         /\ \A i \in 1..Len(references) :
              /\ references[i].holds \in Seq(Objects)
              /\ references[i].kind \in {"object", "module", "computed", "broken"}
              /\ ToSet(references[i].holds) \subseteq Asked
<1>1. DOMAIN references = 1..Len(references) /\ \A i \in 1..Len(references) : references[i] \in References
  BY DEF Typed
<1>2. \A i \in 1..Len(references) :
        /\ references[i].holds \in Seq(Objects)
        /\ references[i].kind \in {"object", "module", "computed", "broken"}
  BY <1>1, GraphConstantsOK
<1>3. \A i \in 1..Len(references) : ToSet(references[i].holds) \subseteq Objects
  BY <1>2, Elements
<1> QED
  BY <1>1, <1>2, <1>3 DEF Asked

\* It is closed, holds what was asked for, and is within every such set.
LEMMA ReachableLeast ==
  ASSUME Typed
  PROVE  /\ Asked \subseteq Reachable /\ Reachable \subseteq Objects /\ Closed(Reachable)
         /\ \A S \in SUBSET Objects : Asked \subseteq S /\ Closed(S) => Reachable \subseteq S
<1> DEFINE closed == {known \in {Asked \cup more : more \in SUBSET (Objects \ Asked)} : Closed(known)}
<1>1. Asked \subseteq Objects
  BY AskedFor
<1>2. \A o : o \in Reachable <=> o \in Objects /\ \A known \in closed : o \in known
  BY DEF Reachable
<1>3. \A known \in closed : Asked \subseteq known /\ Closed(known)
  OBVIOUS
<1>4. ASSUME NEW S \in SUBSET Objects, Asked \subseteq S, Closed(S)
      PROVE  S \in closed
  <2>1. S = Asked \cup (S \ Asked) /\ S \ Asked \in SUBSET (Objects \ Asked)
    BY <1>4
  <2> QED
    BY <1>4, <2>1
<1> HIDE DEF closed
<1>5. Asked \subseteq Reachable /\ Reachable \subseteq Objects
  BY <1>1, <1>2, <1>3
<1>6. ASSUME NEW c \in Reachable \cap Collections
      PROVE  ToSet(members[c]) \subseteq Reachable
  <2>1. ToSet(members[c]) \subseteq Objects
    BY Elements DEF Typed
  <2>2. \A known \in closed : ToSet(members[c]) \subseteq known
    BY <1>2, <1>3 DEF Closed
  <2> QED
    BY <1>2, <2>1, <2>2
<1>7. ASSUME NEW p \in Reachable \cap Processors
      PROVE  schemaOf[p] \in Reachable
  <2>1. schemaOf[p] \in Objects
    BY DEF Typed, Objects
  <2>2. \A known \in closed : schemaOf[p] \in known
    BY <1>2, <1>3 DEF Closed
  <2> QED
    BY <1>2, <2>1, <2>2
<1>8. Closed(Reachable)
  BY <1>6, <1>7 DEF Closed
<1> QED
  BY <1>2, <1>4, <1>5, <1>8

LEMMA ReachableFixed ==
  ASSUME UNCHANGED objects
  PROVE  Reachable' = Reachable
<1>1. schemaOf' = schemaOf /\ members' = members /\ references' = references
  BY DEF objects
<1>2. Asked' = Asked
  BY <1>1 DEF Asked
<1>3. \A known : Closed(known)' <=> Closed(known)
  BY <1>1 DEF Closed
<1> QED
  BY <1>2, <1>3 DEF Reachable

LEMMA CoveredObjects ==
  ASSUME Typed
  PROVE  Known \subseteq Objects /\ Covered \subseteq Objects
<1>1. ToSet(schemas) \subseteq Schemas /\ ToSet(processors) \subseteq Processors
  BY Elements DEF Typed
<1> QED
  BY <1>1 DEF Known, Walked, Covered, Waiting, Left, Objects
-----------------------------------------------------------------------------
(* Collecting.                                                             *)

LEMMA MetNext ==
  ASSUME Typed, frames # <<>>, Head(frames) # <<>>
  PROVE  /\ Met \in Objects /\ Rest \in Seq(Seq(Objects)) /\ Rest # <<>>
         /\ Len(Rest) = Len(frames) /\ Len(frames) \in Nat \ {0}
         /\ Waiting = {Met} \cup Left(Rest)
         /\ ToSet(Head(frames)) = {Met} \cup ToSet(Head(Rest))
<1> DEFINE first == Head(frames)
           outer == Tail(frames)
<1>1. frames \in Seq(Seq(Objects))
  BY DEF Typed
<1>2. /\ first \in Seq(Objects) /\ outer \in Seq(Seq(Objects))
      /\ Len(outer) = Len(frames) - 1 /\ Len(frames) \in Nat \ {0}
      /\ Left(frames) = ToSet(first) \cup Left(outer)
  BY <1>1, Innermost
<1> HIDE DEF first, outer
<1>3. first # <<>>
  BY DEF first
<1>4. Head(first) \in Objects /\ Tail(first) \in Seq(Objects)
  BY <1>2, <1>3, HeadAndTail
<1>5. ToSet(first) = {Head(first)} \cup ToSet(Tail(first))
  BY <1>2, <1>3, FirstAndRest
<1>6. /\ <<Tail(first)>> \o outer \in Seq(Seq(Objects))
      /\ Len(<<Tail(first)>> \o outer) = Len(outer) + 1
      /\ Head(<<Tail(first)>> \o outer) = Tail(first)
      /\ Left(<<Tail(first)>> \o outer) = ToSet(Tail(first)) \cup Left(outer)
  BY <1>2, <1>4, Pushed
<1>7. Met = Head(first) /\ Rest = <<Tail(first)>> \o outer
  BY DEF Met, Rest, first, outer
<1>8. Len(Rest) = Len(frames)
  BY <1>2, <1>6, <1>7
<1>9. Rest # <<>>
  BY <1>2, <1>6, <1>7
<1> QED
  BY <1>2, <1>4, <1>5, <1>6, <1>7, <1>8, <1>9 DEF Waiting, first

\* What every step of collecting has to keep; the rest does not change.
LEMMA CollectingKeeps ==
  ASSUME GraphInv, Collecting, Typed',
         IsInjective(schemas)', IsInjective(processors)',
         ToSet(schemas)' \cup ToSet(processors)' \cup Waiting' \subseteq Reachable,
         Waiting' \cap Collections \subseteq Imported,
         Covered \subseteq Covered', Pursued', Nested'
  PROVE  GraphInv'
<1>1. phase = "collecting" /\ phase' = "collecting"
  BY DEF GraphInv, Settled, Collecting
<1>2. Reachable' = Reachable
  BY ReachableFixed DEF Collecting
<1>3. Sound'
  BY <1>2 DEF Sound
<1>4. /\ references' = references /\ asked' = asked /\ members' = members
      /\ at' = at /\ reused' = reused
  BY DEF Collecting, objects, places
<1>5. Followed'
  BY <1>1, <1>4 DEF GraphInv, Followed
<1>6. Apart'
  BY <1>4 DEF GraphInv, Apart, Imported
<1>7. Settled' /\ Drawn'
  BY <1>1 DEF Settled, Over, Drawn
<1> QED
  BY <1>3, <1>5, <1>6, <1>7 DEF GraphInv

LEMMA DepthNumber ==
  ASSUME Typed
  PROVE  /\ IsFiniteSet(Walked) /\ Cardinality(Walked) \in Nat
         /\ Cardinality(Walked) <= Cardinality(Collections)
         /\ Cardinality(Collections) \in Nat
<1>1. IsFiniteSet(Collections) /\ Walked \subseteq Collections
  BY GraphConstantsOK DEF Walked
<1>2. IsFiniteSet(Walked) /\ Cardinality(Walked) <= Cardinality(Collections)
  BY <1>1, FS_Subset
<1> QED
  BY <1>1, <1>2, FS_CardinalityType

LEMMA CollectProcessorKeeps ==
  ASSUME GraphInv, CollectProcessor
  PROVE  GraphInv'
<1> DEFINE its == <<schemaOf[Met]>>
<1> USE DEF GraphInv
<1>1. /\ Collecting /\ frames # <<>> /\ Head(frames) # <<>> /\ Met \in Processors
      /\ frames' = <<its>> \o Rest /\ schemas' = schemas /\ seenCollections' = seenCollections
      /\ processors' = With(processors, Met)
      /\ schemaOf' = schemaOf /\ members' = members /\ references' = references
      /\ asked' = asked /\ phase' = phase /\ at' = at /\ reused' = reused
  BY DEF CollectProcessor, Collecting, objects, places, With
<1>2. /\ Met \in Objects /\ Rest \in Seq(Seq(Objects)) /\ Rest # <<>>
      /\ Len(Rest) = Len(frames) /\ Len(frames) \in Nat \ {0}
      /\ Waiting = {Met} \cup Left(Rest)
      /\ ToSet(Head(frames)) = {Met} \cup ToSet(Head(Rest))
  BY <1>1, MetNext
<1>3. schemaOf[Met] \in Schemas
  BY <1>1 DEF Typed
<1>4. its \in Seq(Objects) /\ ToSet(its) = {schemaOf[Met]}
  <2>1. Len(its) = 1 /\ its[1] = schemaOf[Met] /\ DOMAIN its = 1..1
    OBVIOUS
  <2>2. its \in Seq(Objects)
    BY <1>3 DEF Objects
  <2> QED
    BY <2>1, <2>2 DEF ToSet
<1> HIDE DEF its
<1>5. /\ frames' \in Seq(Seq(Objects)) /\ Len(frames') = Len(frames) + 1
      /\ Head(frames') = its
      /\ Waiting' = {schemaOf[Met]} \cup Left(Rest)
  <2>1. Waiting' = Left(frames')
    BY DEF Waiting, Left
  <2> QED
    BY <1>1, <1>2, <1>4, <2>1, Pushed
<1>6. /\ processors' \in Seq(Processors) /\ ToSet(processors') = ToSet(processors) \cup {Met}
      /\ IsInjective(processors) => IsInjective(processors')
  <2>1. processors \in Seq(Processors)
    BY DEF Typed
  <2> QED
    BY <1>1, <2>1, Taken
<1>7. Covered' = Covered \cup {schemaOf[Met]}
  <2>1. Known' = Known \cup {Met}
    BY <1>1, <1>6 DEF Known, Walked
  <2>2. Covered' = Known' \cup Waiting'
    BY DEF Covered
  <2> QED
    BY <1>2, <1>5, <2>1, <2>2 DEF Covered
<1>8. Typed'
  BY <1>1, <1>5, <1>6 DEF Typed
<1>9. schemaOf[Met] \in Reachable
  <2>1. Met \in Reachable
    BY <1>2 DEF Sound
  <2> QED
    BY <1>1, <2>1, ReachableLeast DEF Closed
<1>10. ToSet(schemas)' \cup ToSet(processors)' \cup Waiting' \subseteq Reachable
  BY <1>1, <1>2, <1>5, <1>6, <1>9 DEF Sound
<1>13. Covered \subseteq Covered' /\ Waiting' \cap Collections \subseteq Imported
  BY <1>2, <1>3, <1>5, <1>7, GraphConstantsOK DEF Apart
<1>11. Pursued'
  BY <1>1, <1>6, <1>7 DEF Pursued, Walked
<1>12. Nested'
  <2> DEFINE deep == Cardinality(Walked)
  <2>1. deep \in Nat
    BY DepthNumber
  <2>2. Met \notin Schemas
    BY <1>1, GraphConstantsOK
  <2>3. Len(frames) <= deep + 1
    BY <1>2, <2>2 DEF Nested, Walked
  <2>4. ToSet(Head(frames')) \subseteq Schemas
    BY <1>3, <1>4, <1>5
  <2> HIDE DEF deep
  <2>5. Len(frames') <= deep + 1 \/ Len(frames') = deep + 2
    BY <1>2, <1>5, <2>1, <2>3
  <2> QED
    BY <1>1, <2>4, <2>5 DEF Nested, Walked, deep
<1> QED
  BY <1>1, <1>6, <1>8, <1>10, <1>11, <1>12, <1>13, CollectingKeeps DEF Sound, IsInjective

LEMMA CollectSchemaKeeps ==
  ASSUME GraphInv, CollectSchema
  PROVE  GraphInv'
<1> USE DEF GraphInv
<1>1. /\ Collecting /\ frames # <<>> /\ Head(frames) # <<>> /\ Met \in Schemas
      /\ frames' = Rest /\ processors' = processors /\ seenCollections' = seenCollections
      /\ schemas' = With(schemas, Met)
      /\ schemaOf' = schemaOf /\ members' = members /\ references' = references
      /\ asked' = asked /\ phase' = phase /\ at' = at /\ reused' = reused
  BY DEF CollectSchema, Collecting, objects, places, With
<1>2. /\ Met \in Objects /\ Rest \in Seq(Seq(Objects)) /\ Rest # <<>>
      /\ Len(Rest) = Len(frames) /\ Len(frames) \in Nat \ {0}
      /\ Waiting = {Met} \cup Left(Rest)
      /\ ToSet(Head(frames)) = {Met} \cup ToSet(Head(Rest))
  BY <1>1, MetNext
<1>3. /\ schemas' \in Seq(Schemas) /\ ToSet(schemas') = ToSet(schemas) \cup {Met}
      /\ IsInjective(schemas) => IsInjective(schemas')
  <2>1. schemas \in Seq(Schemas)
    BY DEF Typed
  <2> QED
    BY <1>1, <2>1, Taken
<1>4. Covered' = Covered
  <2>1. Known' = Known \cup {Met}
    BY <1>1, <1>3 DEF Known, Walked
  <2>2. Covered' = Known' \cup Waiting' /\ Waiting' = Left(frames')
    BY DEF Covered, Waiting, Left
  <2> QED
    BY <1>1, <1>2, <2>1, <2>2 DEF Covered
<1>8. /\ ToSet(schemas)' \cup ToSet(processors)' \cup Waiting' \subseteq Reachable
      /\ Waiting' \cap Collections \subseteq Imported
  <2>1. Waiting' = Left(Rest)
    BY <1>1 DEF Waiting, Left
  <2> QED
    BY <1>1, <1>2, <1>3, <2>1 DEF Sound, Apart
<1>5. Typed'
  BY <1>1, <1>2, <1>3 DEF Typed
<1>6. Pursued'
  BY <1>1, <1>4 DEF Pursued, Walked
<1>7. Nested'
  BY <1>1, <1>2 DEF Nested, Walked
<1> QED
  BY <1>1, <1>3, <1>4, <1>5, <1>6, <1>7, <1>8, CollectingKeeps DEF Sound, IsInjective

LEMMA CollectMembersKeeps ==
  ASSUME GraphInv, CollectMembers
  PROVE  GraphInv'
<1> USE DEF GraphInv
<1>1. /\ Collecting /\ frames # <<>> /\ Head(frames) # <<>> /\ Met \in Collections
      /\ frames' = IF at[Met] \in seenCollections THEN Rest ELSE <<members[Met]>> \o Rest
      /\ schemas' = schemas /\ processors' = processors
      /\ seenCollections' = seenCollections \cup {at[Met]}
      /\ schemaOf' = schemaOf /\ members' = members /\ references' = references
      /\ asked' = asked /\ phase' = phase /\ at' = at /\ reused' = reused
  BY DEF CollectMembers, Collecting, objects, places
<1>2. /\ Met \in Objects /\ Rest \in Seq(Seq(Objects)) /\ Rest # <<>>
      /\ Len(Rest) = Len(frames) /\ Len(frames) \in Nat \ {0}
      /\ Waiting = {Met} \cup Left(Rest)
      /\ ToSet(Head(frames)) = {Met} \cup ToSet(Head(Rest))
  BY <1>1, MetNext
<1>3. Met \in Imported /\ at[Met] \in Addresses
  BY <1>1, <1>2 DEF Apart, Imported, Typed
<1>4. Walked' = Walked \cup {Met}
  <2>1. \A c \in Collections : at[c] = at[Met] => c = Met
    BY <1>3, GraphConstantsOK DEF Apart, Imported
  <2> QED
    BY <1>1, <2>1 DEF Walked
<1>5. /\ Covered' = Known' \cup Waiting' /\ Waiting' = Left(frames')
      /\ Known' = Known \cup {Met}
  BY <1>1, <1>4 DEF Covered, Known, Waiting, Left
<1>6. Met \notin Schemas
  BY <1>1, GraphConstantsOK
<1> DEFINE deep == Cardinality(Walked)
<1>7. deep \in Nat /\ IsFiniteSet(Walked)
  BY DepthNumber
<1>8. Len(frames) <= deep + 1
  BY <1>2, <1>6 DEF Nested
<1>9. CASE at[Met] \in seenCollections
  <2>1. seenCollections' = seenCollections /\ Walked' = Walked
    BY <1>1, <1>4, <1>9 DEF Walked
  <2>2. frames' = Rest
    BY <1>1, <1>9
  <2>3. Covered' = Covered
    BY <1>2, <1>5, <2>2 DEF Covered
  <2>4. Typed'
    BY <1>1, <1>2, <2>1, <2>2 DEF Typed
  <2>5. Pursued'
    BY <1>1, <2>1, <2>3 DEF Pursued
  <2>6. Nested'
    BY <1>2, <1>8, <2>1, <2>2 DEF Nested
  <2>7. /\ ToSet(schemas)' \cup ToSet(processors)' \cup Waiting' \subseteq Reachable
        /\ Waiting' \cap Collections \subseteq Imported
    BY <1>1, <1>2, <1>5, <2>2 DEF Sound, Apart
  <2> QED
    BY <1>1, <2>3, <2>4, <2>5, <2>6, <2>7, CollectingKeeps DEF Sound, IsInjective
<1>10. CASE at[Met] \notin seenCollections
  <2>1. frames' = <<members[Met]>> \o Rest
    BY <1>1, <1>10
  <2>2. members[Met] \in Seq(Objects)
    BY <1>1 DEF Typed
  <2>3. /\ frames' \in Seq(Seq(Objects)) /\ Len(frames') = Len(frames) + 1
        /\ Waiting' = ToSet(members[Met]) \cup Left(Rest)
    BY <1>2, <1>5, <2>1, <2>2, Pushed
  <2>4. Covered' = Covered \cup ToSet(members[Met])
    BY <1>2, <1>5, <2>3 DEF Covered
  <2>5. ToSet(members[Met]) \subseteq Reachable
    <3>1. Met \in Reachable
      BY <1>2 DEF Sound
    <3> QED
      BY <1>1, <3>1, ReachableLeast DEF Closed
  <2>6. /\ ToSet(schemas)' \cup ToSet(processors)' \cup Waiting' \subseteq Reachable
        /\ Waiting' \cap Collections \subseteq Imported
    BY <1>1, <1>2, <1>3, <2>3, <2>5 DEF Sound, Apart
  <2>7. Typed'
    BY <1>1, <1>3, <2>3 DEF Typed
  <2>8. Pursued'
    BY <1>1, <1>4, <2>4 DEF Pursued
  <2>9. Nested'
    <3>1. Met \notin Walked
      BY <1>10 DEF Walked
    <3>2. Cardinality(Walked') = deep + 1
      BY <1>4, <1>7, <3>1, FS_AddElement
    <3> HIDE DEF deep
    <3>3. Len(frames') <= (deep + 1) + 1
      BY <1>2, <1>7, <1>8, <2>3
    <3> QED
      BY <3>2, <3>3 DEF Nested
  <2>10. Covered \subseteq Covered'
    BY <2>4
  <2> QED
    BY <1>1, <2>6, <2>7, <2>8, <2>9, <2>10, CollectingKeeps DEF Sound, IsInjective
<1> QED
  BY <1>9, <1>10

LEMMA ReturnKeeps ==
  ASSUME GraphInv, Return
  PROVE  GraphInv'
<1> USE DEF GraphInv
<1>1. /\ Collecting /\ frames # <<>> /\ Head(frames) = <<>> /\ frames' = Tail(frames)
      /\ schemas' = schemas /\ processors' = processors /\ seenCollections' = seenCollections
      /\ schemaOf' = schemaOf /\ members' = members /\ references' = references
      /\ asked' = asked /\ phase' = phase /\ at' = at /\ reused' = reused
  BY DEF Return, Collecting, objects, places, found
<1>2. /\ Tail(frames) \in Seq(Seq(Objects))
      /\ Len(Tail(frames)) = Len(frames) - 1 /\ Len(frames) \in Nat \ {0}
      /\ Left(frames) = ToSet(Head(frames)) \cup Left(Tail(frames))
  BY <1>1, Innermost DEF Typed
<1>3. ToSet(<<>>) = {}
  BY DEF ToSet
<1>4. Covered' = Covered
  <2>1. Known' = Known
    BY <1>1 DEF Known, Walked
  <2>2. Covered' = Known' \cup Waiting' /\ Waiting' = Left(frames')
    BY DEF Covered, Waiting, Left
  <2> QED
    BY <1>1, <1>2, <1>3, <2>1, <2>2 DEF Covered, Waiting
<1>8. /\ ToSet(schemas)' \cup ToSet(processors)' \cup Waiting' \subseteq Reachable
      /\ Waiting' \cap Collections \subseteq Imported
  <2>1. Waiting' = Left(Tail(frames))
    BY <1>1 DEF Waiting, Left
  <2> QED
    BY <1>1, <1>2, <2>1 DEF Sound, Apart, Waiting
<1>5. Typed'
  BY <1>1, <1>2 DEF Typed
<1>6. Pursued'
  BY <1>1, <1>4 DEF Pursued, Walked
<1>7. Nested'
  <2> DEFINE deep == Cardinality(Walked)
  <2>1. deep \in Nat
    BY DepthNumber
  <2>2. Len(frames) <= deep + 2
    <3>1. Len(frames) <= deep + 1 \/ Len(frames) = deep + 2
      BY DEF Nested, Walked
    <3> QED
      BY <1>2, <2>1, <3>1
  <2> HIDE DEF deep
  <2>3. Len(frames') <= deep + 1
    BY <1>1, <1>2, <2>1, <2>2
  <2> QED
    BY <1>1, <2>3 DEF Nested, Walked, deep
<1> QED
  BY <1>1, <1>4, <1>5, <1>6, <1>7, <1>8, CollectingKeeps DEF Sound, IsInjective
-----------------------------------------------------------------------------
(* Resolving, and the other steps.                                         *)

LEMMA ResolvingNext ==
  ASSUME Typed, Resolving
  PROVE  /\ asked \in Nat /\ asked' = asked + 1 /\ asked' \in 1..Len(references)
         /\ 1..asked' = (1..asked) \cup {asked'}
         /\ references' = references
<1>1. asked \in Nat /\ asked' = asked + 1 /\ asked' \in 1..Len(references) /\ references' = references
  BY DEF Typed, Resolving, objects
<1> QED
  BY <1>1

\* What an import leaves: nothing moves, and nothing is placed where another
\* collection is.
LEMMA ImportNext ==
  ASSUME Typed, Apart, Import
  PROVE  /\ at' \in [Collections -> Addresses \cup {None}]
         /\ Imported \subseteq Imported' /\ \A c \in Imported : at'[c] = at[c]
         /\ \A c, d \in Imported' : at'[c] = at'[d] => c = d
         /\ \A c \in Imported' : ToSet(members[c]) \cap Collections \subseteq Imported'
         /\ ToSet(references[asked'].holds) \cap Collections \subseteq Imported'
<1>1. PICK new \in SUBSET (Collections \ Imported) :
        \E place \in Injection(new, Addresses \ (Range(at) \cup {value})) :
          /\ ToSet(references[asked'].holds) \cap Collections \subseteq Imported \cup new
          /\ \A c \in new : ToSet(members[c]) \cap Collections \subseteq Imported \cup new
          /\ at' = [c \in Collections |-> IF c \in new THEN place[c] ELSE at[c]]
  BY DEF Import
<1>2. PICK place \in Injection(new, Addresses \ (Range(at) \cup {value})) :
        /\ ToSet(references[asked'].holds) \cap Collections \subseteq Imported \cup new
        /\ \A c \in new : ToSet(members[c]) \cap Collections \subseteq Imported \cup new
        /\ at' = [c \in Collections |-> IF c \in new THEN place[c] ELSE at[c]]
  BY <1>1
<1>3. \A c \in new : /\ place[c] \in Addresses /\ place[c] # None
                     /\ place[c] \notin Range(at)
                     /\ \A d \in new : place[c] = place[d] => c = d
  BY GraphConstantsOK DEF Injection, IsInjective
<1>4. \A c \in Collections : at[c] \in Addresses \cup {None} /\ at[c] \in Range(at)
  BY DEF Typed, Range
<1>5. \A c \in Collections : at'[c] = IF c \in new THEN place[c] ELSE at[c]
  BY <1>2
<1>6. at' \in [Collections -> Addresses \cup {None}]
  BY <1>2, <1>3, <1>4
<1>7. Imported' = Imported \cup new /\ new \cap Imported = {} /\ new \subseteq Collections
  BY <1>3, <1>5 DEF Imported
<1>8. \A c, d \in Imported' : at'[c] = at'[d] => c = d
  BY <1>3, <1>4, <1>5, <1>7 DEF Apart, Imported
<1>9. \A c \in Imported : at'[c] = at[c]
  BY <1>5, <1>7 DEF Imported
<1>10. \A c \in Imported' : ToSet(members[c]) \cap Collections \subseteq Imported'
  BY <1>2, <1>7 DEF Apart
<1> QED
  BY <1>2, <1>6, <1>7, <1>8, <1>9, <1>10

\* A command's own call.
LEMMA FirstCall ==
  ASSUME NEW f \in Seq(Objects)
  PROVE  <<f>> \in Seq(Seq(Objects)) /\ Len(<<f>>) = 1 /\ Left(<<f>>) = ToSet(f)
<1>1. <<f>> \in Seq(Seq(Objects)) /\ Len(<<f>>) = 1 /\ <<f>>[1] = f
  OBVIOUS
<1>2. \A o : o \in ToSet(f) <=> o \in Objects /\ \E j \in 1..Len(f) : f[j] = o
  BY Elements
<1> QED
  BY <1>1, <1>2 DEF Left

LEMMA NothingLeft == Left(<<>>) = {} /\ Len(<<>>) = 0 /\ <<>> \in Seq(Seq(Objects))
BY DEF Left

\* What every resolution has to do: its call is entered, unless one was placed
\* where one had been seen, and then it may be passed over.
LEMMA ResolvingKeeps ==
  ASSUME GraphInv, Resolving, Import, phase' = "collecting",
         frames' \in {<<>>, <<references[asked'].holds>>},
         seenCollections \subseteq seenCollections', seenCollections' \subseteq Addresses,
         ~reused' => /\ ~reused /\ Walked' = Walked
                     /\ frames' = <<references[asked'].holds>>
  PROVE  GraphInv'
<1> DEFINE its == references[asked'].holds
<1> USE DEF GraphInv
<1>1. /\ schemaOf' = schemaOf /\ members' = members /\ references' = references
      /\ schemas' = schemas /\ processors' = processors /\ phase = "collecting" /\ frames = <<>>
  BY DEF Resolving, objects
<1>2. /\ asked \in Nat /\ asked' = asked + 1 /\ asked' \in 1..Len(references)
      /\ 1..asked' = (1..asked) \cup {asked'}
  BY ResolvingNext
<1>3. /\ at' \in [Collections -> Addresses \cup {None}]
      /\ Imported \subseteq Imported' /\ \A c \in Imported : at'[c] = at[c]
      /\ \A c, d \in Imported' : at'[c] = at'[d] => c = d
      /\ \A c \in Imported' : ToSet(members[c]) \cap Collections \subseteq Imported'
      /\ ToSet(its) \cap Collections \subseteq Imported'
  BY ImportNext
<1>4. its \in Seq(Objects) /\ ToSet(its) \subseteq Reachable
  BY <1>2, AskedFor, ReachableLeast
<1> HIDE DEF its
<1>5. frames' = <<>> \/ frames' = <<its>>
  BY DEF its
<1>6. /\ frames' \in Seq(Seq(Objects)) /\ Len(frames') \in Nat /\ Len(frames') <= 1
      /\ Left(frames') \subseteq ToSet(its)
      /\ frames' = <<its>> => Left(frames') = ToSet(its)
  <2>1. /\ <<its>> \in Seq(Seq(Objects)) /\ Len(<<its>>) = 1
        /\ Left(<<its>>) = ToSet(its)
    BY <1>4, FirstCall
  <2>2. CASE frames' = <<its>>
    BY <2>1, <2>2
  <2>3. CASE frames' # <<its>>
    <3>1. frames' = <<>>
      BY <1>5, <2>3
    <3>2. frames' \in Seq(Seq(Objects)) /\ Len(frames') = 0 /\ Left(frames') = {}
      BY <3>1, NothingLeft
    <3> QED
      BY <2>3, <3>2
  <2> QED
    BY <2>2, <2>3
<1>7. Waiting' = Left(frames') /\ Waiting = {}
  BY <1>1, NothingLeft DEF Waiting, Left
<1>8. Typed'
  BY <1>1, <1>2, <1>3, <1>6 DEF Typed, Phases
<1>9. Walked \subseteq Walked'
  <2>1. Walked \subseteq Imported
    BY GraphConstantsOK DEF Walked, Imported, Typed
  <2> QED
    BY <1>3, <2>1 DEF Walked
<1>10. Covered \subseteq Covered'
  BY <1>1, <1>7, <1>9 DEF Covered, Known
<1>11. ~reused' => Covered' = Covered \cup ToSet(its)
  BY <1>1, <1>6, <1>7 DEF Covered, Known, its
<1>12. Apart'
  BY <1>1, <1>3, <1>6, <1>7 DEF Apart
<1>13. Sound'
  <2>1. Reachable' = Reachable
    BY ReachableFixed DEF Resolving
  <2> QED
    BY <1>1, <1>4, <1>6, <1>7, <2>1 DEF Sound, IsInjective
<1>14. Pursued'
  BY <1>1, <1>10 DEF Pursued
<1>15. Followed'
  <2> SUFFICES ASSUME ~reused', NEW i \in 1..asked'
               PROVE  ToSet(references[i].holds) \subseteq Covered'
    BY <1>1 DEF Followed
  <2>1. CASE i = asked'
    BY <1>11, <2>1 DEF its
  <2>2. CASE i \in 1..asked
    BY <1>1, <1>10, <2>2 DEF Followed
  <2> QED
    BY <1>2, <2>1, <2>2
<1>16. Nested'
  <2> DEFINE deep == Cardinality(Walked')
  <2>1. deep \in Nat
    <3>1. IsFiniteSet(Collections) /\ Walked' \subseteq Collections
      BY GraphConstantsOK DEF Walked
    <3> QED
      BY <3>1, FS_Subset, FS_CardinalityType
  <2> HIDE DEF deep
  <2>2. Len(frames') <= deep + 1
    BY <1>6, <2>1
  <2> QED
    BY <2>2 DEF Nested, deep
<1>17. Settled' /\ Drawn'
  BY <1>1 DEF Settled, Over, Drawn
<1> QED
  BY <1>8, <1>12, <1>13, <1>14, <1>15, <1>16, <1>17

LEMMA ResolveHeldKeeps ==
  ASSUME GraphInv, ResolveHeld
  PROVE  GraphInv'
<1>1. /\ Resolving /\ Import /\ phase' = "collecting"
      /\ frames' = <<references[asked'].holds>> /\ seenCollections' = seenCollections
      /\ reused' = (reused \/ PlacedWhereSeen)
  BY DEF ResolveHeld, Resolving
<1>2. Typed /\ Apart
  BY DEF GraphInv
<1>3. ~reused' => ~reused /\ Walked' = Walked
  <2>1. \A c \in Imported : at'[c] = at[c]
    BY <1>1, <1>2, ImportNext
  <2>2. \A c \in Collections \ Imported : at[c] \notin seenCollections
    BY <1>2, GraphConstantsOK DEF Imported, Typed
  <2> QED
    BY <1>1, <2>1, <2>2 DEF Walked, PlacedWhereSeen, Imported
<1>4. seenCollections \subseteq Addresses
  BY <1>2 DEF Typed
<1> QED
  BY <1>1, <1>3, <1>4, ResolvingKeeps

LEMMA ResolveComputedKeeps ==
  ASSUME GraphInv, ResolveComputed
  PROVE  GraphInv'
<1>1. PICK address \in Addresses \ (Range(at') \cup {value}) :
        /\ frames' = IF address \in seenCollections THEN <<>> ELSE <<references[asked'].holds>>
        /\ seenCollections' = seenCollections \cup {address}
        /\ reused' = (reused \/ PlacedWhereSeen \/ address \in seenCollections)
  BY DEF ResolveComputed
<1>2. Resolving /\ Import /\ phase' = "collecting"
  BY DEF ResolveComputed, Resolving
<1>3. Typed /\ Apart
  BY DEF GraphInv
<1>4. /\ at' \in [Collections -> Addresses \cup {None}]
      /\ \A c \in Imported : at'[c] = at[c]
  BY <1>2, <1>3, ImportNext
<1>5. ~reused' => /\ ~reused /\ Walked' = Walked
                  /\ frames' = <<references[asked'].holds>>
  <2>1. \A c \in Collections \ Imported : at[c] \notin seenCollections
    BY <1>3, GraphConstantsOK DEF Imported, Typed
  <2>2. \A c \in Collections : at'[c] # address
    BY <1>4 DEF Range
  <2> QED
    BY <1>1, <1>4, <2>1, <2>2 DEF Walked, PlacedWhereSeen, Imported
<1>6. seenCollections \subseteq seenCollections' /\ seenCollections' \subseteq Addresses
  BY <1>1, <1>3 DEF Typed
<1>7. frames' \in {<<>>, <<references[asked'].holds>>}
  BY <1>1
<1> QED
  BY <1>2, <1>5, <1>6, <1>7, ResolvingKeeps

LEMMA ResolveBrokenKeeps ==
  ASSUME GraphInv, ResolveBroken
  PROVE  GraphInv'
<1> USE DEF GraphInv
<1>1. /\ Resolving /\ references[asked'].kind = "broken"
      /\ frames = <<>> /\ frames' = frames /\ phase' = "raised"
      /\ seenCollections' = seenCollections /\ schemas' = schemas /\ processors' = processors
      /\ schemaOf' = schemaOf /\ members' = members /\ at' = at /\ reused' = reused
  BY DEF ResolveBroken, Resolving, objects, places
<1>2. /\ asked \in Nat /\ asked' = asked + 1 /\ asked' \in 1..Len(references)
      /\ references' = references
  BY <1>1, ResolvingNext
<1>3. Covered' = Covered /\ Walked' = Walked /\ Waiting' = Waiting /\ Imported' = Imported
  BY <1>1 DEF Covered, Known, Walked, Waiting, Left, Imported
<1>4. Typed'
  BY <1>1, <1>2 DEF Typed, Phases
<1>5. Sound'
  <2>1. Reachable' = Reachable
    BY <1>1, ReachableFixed DEF Resolving
  <2> QED
    BY <1>1, <1>3, <2>1 DEF Sound, IsInjective
<1>6. Apart' /\ Pursued' /\ Followed' /\ Nested'
  BY <1>1, <1>2, <1>3 DEF Apart, Pursued, Followed, Nested
<1>7. Settled' /\ Drawn'
  BY <1>1 DEF Settled, Over, Drawn
<1> QED
  BY <1>4, <1>5, <1>6, <1>7

\* The steps that end the command change nothing that was found.
LEMMA EndingKeeps ==
  ASSUME GraphInv, UNCHANGED <<objects, asked, places, frames, found>>,
         phase = "collecting" \/ Over, Over', Settled', Drawn'
  PROVE  GraphInv'
<1> USE DEF GraphInv
<1>1. /\ frames' = frames /\ asked' = asked /\ seenCollections' = seenCollections
      /\ schemas' = schemas /\ processors' = processors
      /\ schemaOf' = schemaOf /\ members' = members /\ references' = references
      /\ at' = at /\ reused' = reused
  BY DEF objects, found, places
<1>2. Covered' = Covered /\ Walked' = Walked /\ Waiting' = Waiting /\ Imported' = Imported
  BY <1>1 DEF Covered, Known, Walked, Waiting, Left, Imported
<1>3. Typed'
  BY <1>1 DEF Typed, Phases, Over
<1>4. Sound'
  <2>1. Reachable' = Reachable
    BY ReachableFixed
  <2> QED
    BY <1>1, <1>2, <2>1 DEF Sound, IsInjective
<1>5. Apart' /\ Pursued' /\ Nested'
  BY <1>1, <1>2 DEF Apart, Pursued, Nested
<1>6. Followed'
  <2>1. phase # "raised"
    BY DEF Over
  <2> QED
    BY <1>1, <1>2, <2>1 DEF Followed
<1> QED
  BY <1>3, <1>4, <1>5, <1>6

LEMMA FinishKeeps ==
  ASSUME GraphInv, Finish
  PROVE  GraphInv'
<1>1. /\ phase = "collecting" /\ frames = <<>> /\ asked = Len(references)
      /\ phase' = IF schemas = <<>> /\ processors = <<>> THEN "refused" ELSE "collected"
      /\ UNCHANGED <<objects, asked, places, frames, found>>
  BY DEF Finish
<1>2. Over' /\ Settled' /\ Drawn'
  BY <1>1 DEF Over, Settled, Drawn, objects, found
<1> QED
  BY <1>1, <1>2, EndingKeeps

LEMMA ComposeKeeps ==
  ASSUME GraphInv, Compose
  PROVE  GraphInv'
<1>1. /\ phase = "collected" /\ phase' = "drawn"
      /\ UNCHANGED <<objects, asked, places, frames, found>>
      /\ schemas' = schemas /\ processors' = processors /\ schemaOf' = schemaOf
  BY DEF Compose, objects, found
<1>2. Drawn'
  BY <1>1 DEF Compose, Drawn
<1>3. Over /\ Over' /\ Settled'
  BY <1>1 DEF GraphInv, Over, Settled, objects, found
<1> QED
  BY <1>1, <1>2, <1>3, EndingKeeps

LEMMA GraphInitially ==
  ASSUME Init
  PROVE  GraphInv
<1>1. ASSUME NEW S, NEW n
      PROVE  BoundedSeq(S, n) \subseteq Seq(S)
  <2>1. \A m \in 0..n : m \in Nat /\ [1..m -> S] \subseteq Seq(S)
    OBVIOUS
  <2> QED
    BY <2>1 DEF BoundedSeq, SeqOf
<1>2. /\ asked = 0 /\ frames = <<>> /\ schemas = <<>> /\ processors = <<>>
      /\ seenCollections = {} /\ phase = "collecting" /\ at = [c \in Collections |-> None]
  BY DEF Init
<1>3. members \in [Collections -> Seq(Objects)] /\ references \in Seq(References)
  BY <1>1 DEF Init
<1>4. Typed
  <2>1. <<>> \in Seq(Schemas) /\ <<>> \in Seq(Processors) /\ <<>> \in Seq(Seq(Objects))
    OBVIOUS
  <2>2. 0 \in 0..Len(references)
    BY <1>3
  <2> QED
    BY <1>2, <1>3, <2>1, <2>2 DEF Init, Typed, Phases
<1>5. ToSet(<<>>) = {}
  BY DEF ToSet
<1>6. Covered = {}
  BY <1>2, <1>5, NothingLeft DEF Covered, Known, Walked, Waiting
<1>7. IsInjective(<<>>)
  BY DEF IsInjective
<1>8. Walked = {} /\ Imported = {}
  BY <1>2 DEF Walked, Imported
<1>9. Cardinality({}) = 0
  BY FS_EmptySet
<1>10. Apart
  BY <1>6, <1>8 DEF Apart, Covered
<1>11. Sound /\ Pursued
  BY <1>2, <1>5, <1>6, <1>7, <1>8 DEF Sound, Pursued, Covered
<1>12. Followed
  BY <1>2 DEF Followed
<1>13. Nested
  BY <1>2, <1>8, <1>9, NothingLeft DEF Nested
<1>14. Settled /\ Drawn
  BY <1>2 DEF Settled, Over, Drawn
<1> QED
  BY <1>4, <1>10, <1>11, <1>12, <1>13, <1>14 DEF GraphInv

LEMMA UnchangedKeeps ==
  ASSUME GraphInv, UNCHANGED vars
  PROVE  GraphInv'
<1> USE DEF GraphInv
<1>1. /\ frames' = frames /\ asked' = asked /\ seenCollections' = seenCollections
      /\ schemas' = schemas /\ processors' = processors /\ phase' = phase /\ graphs' = graphs
      /\ schemaOf' = schemaOf /\ members' = members /\ references' = references
      /\ at' = at /\ reused' = reused
  BY DEF vars, objects, found, places
<1>2. Typed' /\ Settled' /\ Drawn'
  BY <1>1 DEF Typed, Settled, Over, Drawn
<1>3. Covered' = Covered /\ Walked' = Walked /\ Waiting' = Waiting /\ Imported' = Imported
  BY <1>1 DEF Covered, Known, Walked, Waiting, Left, Imported
<1>6. Apart' /\ Pursued' /\ Nested'
  BY <1>1, <1>3 DEF Apart, Pursued, Nested
<1>4. Sound'
  <2>1. Reachable' = Reachable
    BY <1>1, ReachableFixed DEF objects
  <2> QED
    BY <1>1, <1>3, <2>1 DEF Sound, IsInjective
<1>5. Followed'
  BY <1>1, <1>3 DEF Followed
<1> QED
  BY <1>2, <1>4, <1>5, <1>6

\* GraphInv is inductive.
THEOREM GraphKept == Spec => []GraphInv
<1>1. Init => GraphInv
  BY GraphInitially
<1>2. GraphInv /\ [Next]_vars => GraphInv'
  <2> SUFFICES ASSUME GraphInv, [Next]_vars
               PROVE  GraphInv'
    OBVIOUS
  <2>1. CASE ResolveHeld \/ ResolveComputed \/ ResolveBroken
    BY <2>1, ResolveHeldKeeps, ResolveComputedKeeps, ResolveBrokenKeeps
  <2>2. CASE CollectProcessor \/ CollectSchema \/ CollectMembers \/ Return
    BY <2>2, CollectProcessorKeeps, CollectSchemaKeeps, CollectMembersKeeps, ReturnKeeps
  <2>3. CASE Finish \/ Compose
    BY <2>3, FinishKeeps, ComposeKeeps
  <2>4. CASE UNCHANGED vars
    BY <2>4, UnchangedKeeps
  <2> QED
    BY <2>1, <2>2, <2>3, <2>4 DEF Next
<1> QED
  BY <1>1, <1>2, PTL DEF Spec
-----------------------------------------------------------------------------
(* What a finished command found and draws.                                *)

\* Of what was asked for and all that it leads to, each schema and processor is
\* found, once, and nothing else is, whatever shape the collections have and
\* however often a reference leads to the same object; the command refuses only
\* when there is none.  The one exception is a collection that was placed, when
\* it was imported or computed, where a computed one had been that was seen and
\* is gone (collect, import_definitions).
THEOREM FindsEveryObject == Spec => []FoundExactly
<1>1. ASSUME GraphInv PROVE FoundExactly
  <2> USE <1>1 DEF GraphInv
  <2> SUFFICES ASSUME Over PROVE
        /\ IsInjective(schemas) /\ IsInjective(processors)
        /\ ToSet(schemas) \subseteq Reachable /\ ToSet(processors) \subseteq Reachable
        /\ ~reused =>
             /\ Reachable \cap Schemas \subseteq ToSet(schemas)
             /\ Reachable \cap Processors \subseteq ToSet(processors)
             /\ phase = "refused" <=> Reachable \cap (Schemas \cup Processors) = {}
    BY DEF FoundExactly, Over
  <2>1. /\ frames = <<>> /\ asked = Len(references)
        /\ phase = "refused" <=> schemas = <<>> /\ processors = <<>>
        /\ phase # "raised"
    BY DEF Settled, Over
  <2>2. Covered = Known
    BY <2>1, NothingLeft DEF Covered, Waiting
  <2>3. /\ IsInjective(schemas) /\ IsInjective(processors)
        /\ ToSet(schemas) \subseteq Reachable /\ ToSet(processors) \subseteq Reachable
    BY DEF Sound
  <2>4. /\ schemas \in Seq(Schemas) /\ processors \in Seq(Processors)
        /\ ToSet(schemas) \subseteq Schemas /\ ToSet(processors) \subseteq Processors
    BY Elements DEF Typed
  <2>5. /\ Known \cap Schemas = ToSet(schemas) /\ Known \cap Processors = ToSet(processors)
        /\ Known \cap Collections = Walked
    BY <2>4, GraphConstantsOK DEF Known, Walked
  <2>6. ASSUME ~reused PROVE Reachable \subseteq Known
    <3>1. Asked \subseteq Known
      <4>1. \A i \in 1..Len(references) : ToSet(references[i].holds) \subseteq Known
        BY <2>1, <2>2, <2>6 DEF Followed
      <4>2. DOMAIN references = 1..Len(references)
        BY DEF Typed
      <4> QED
        BY <4>1, <4>2 DEF Asked
    <3>2. Closed(Known)
      BY <2>2, <2>5, <2>6 DEF Closed, Pursued
    <3>3. Known \in SUBSET Objects
      BY CoveredObjects
    <3> QED
      BY <3>1, <3>2, <3>3, ReachableLeast
  <2>7. (schemas = <<>> <=> ToSet(schemas) = {}) /\ (processors = <<>> <=> ToSet(processors) = {})
    <3>1. ASSUME NEW S, NEW s \in Seq(S) PROVE s = <<>> <=> ToSet(s) = {}
      <4>1. s = <<>> => ToSet(s) = {}
        BY DEF ToSet
      <4>2. s # <<>> => ToSet(s) # {}
        BY FirstAndRest
      <4> QED
        BY <4>1, <4>2
    <3> QED
      BY <2>4, <3>1
  <2>8. ASSUME ~reused
        PROVE  /\ Reachable \cap Schemas = ToSet(schemas)
               /\ Reachable \cap Processors = ToSet(processors)
    BY <2>3, <2>4, <2>5, <2>6, <2>8
  <2>9. ASSUME ~reused
        PROVE  phase = "refused" <=> Reachable \cap (Schemas \cup Processors) = {}
    BY <2>1, <2>7, <2>8, <2>9
  <2> QED
    BY <2>3, <2>8, <2>9
<1> QED
  BY <1>1, GraphKept, PTL

\* Each processor found has one place among those found, and one graph draws
\* it: that of its own schema, which is always found with it, even when nothing
\* but the processor leads to it (collect, _compose_graphs).
THEOREM EachProcessorDrawn == Spec => []DrawnOnce
<1>1. ASSUME GraphInv PROVE DrawnOnce
  <2> USE <1>1 DEF GraphInv
  <2> SUFFICES ASSUME phase = "drawn", NEW p \in ToSet(processors)
               PROVE  \E i \in DOMAIN graphs, j \in DOMAIN processors :
                        /\ {place \in (DOMAIN graphs) \X (DOMAIN processors) :
                               place[2] \in graphs[place[1]].drawn /\ processors[place[2]] = p}
                             = {<<i, j>>}
                        /\ graphs[i].schema = schemaOf[p]
    BY DEF DrawnOnce
  <2>1. /\ DOMAIN graphs = DOMAIN schemas
        /\ \A i \in DOMAIN schemas :
             /\ graphs[i].schema = schemas[i]
             /\ graphs[i].drawn = {j \in DOMAIN processors : schemaOf[processors[j]] = schemas[i]}
    BY DEF Drawn
  <2>2. Covered = Known
    BY NothingLeft DEF Covered, Waiting, Settled
  <2>3. p \in Processors /\ schemaOf[p] \in Schemas
    BY Elements DEF Typed
  <2>4. schemaOf[p] \in ToSet(schemas)
    <3>1. schemaOf[p] \in Known
      BY <2>2 DEF Pursued
    <3>2. ToSet(processors) \subseteq Processors
      BY Elements DEF Typed
    <3> QED
      BY <2>3, <3>1, <3>2, GraphConstantsOK DEF Known, Walked
  <2>5. PICK i \in DOMAIN schemas : schemas[i] = schemaOf[p]
    BY <2>4 DEF ToSet
  <2>6. PICK j \in DOMAIN processors : processors[j] = p
    BY DEF ToSet
  <2>7. \A i2 \in DOMAIN schemas, j2 \in DOMAIN processors :
          j2 \in graphs[i2].drawn /\ processors[j2] = p <=> i2 = i /\ j2 = j
    BY <2>1, <2>5, <2>6 DEF Sound, IsInjective
  <2>8. {place \in (DOMAIN graphs) \X (DOMAIN processors) :
           place[2] \in graphs[place[1]].drawn /\ processors[place[2]] = p} = {<<i, j>>}
    BY <2>1, <2>5, <2>6, <2>7
  <2> QED
    BY <2>1, <2>5, <2>6, <2>8
<1> QED
  BY <1>1, GraphKept, PTL

\* A collection is entered once, so the calls of collect nest no deeper than
\* the collections there are, then a processor and its schema, even when a
\* collection holds itself (seen_collections).
THEOREM NeverNestsDeeper == Spec => []NestingBounded
<1>1. ASSUME GraphInv PROVE NestingBounded
  <2> DEFINE deep == Cardinality(Walked)
  <2>1. Typed /\ Nested
    BY <1>1 DEF GraphInv
  <2>2. deep \in Nat /\ deep <= Cardinality(Collections) /\ Cardinality(Collections) \in Nat
    BY <2>1, DepthNumber
  <2>3. Len(frames) <= deep + 1 \/ Len(frames) = deep + 2
    BY <2>1 DEF Nested
  <2>4. Len(frames) \in Nat
    BY <2>1 DEF Typed
  <2> HIDE DEF deep
  <2> QED
    BY <2>2, <2>3, <2>4 DEF NestingBounded
<1> QED
  BY <1>1, GraphKept, PTL
=============================================================================
