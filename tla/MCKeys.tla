------------------------------- MODULE MCKeys -------------------------------
(***************************************************************************)
(* The computations on keys against their reference definitions: overlap   *)
(* of write ranges, ranges of prefixes, and paths of objects.  Each state  *)
(* has the input of one of them; the inputs of the others are blank.       *)
(***************************************************************************)
EXTENDS KeyRange, PrefixRange, KeyPath

CONSTANT MaxKey        \* bound: range ends and starts are at most MaxKey

ASSUME MaxKeyOK == MaxKey \in Nat

VARIABLES
  left, right,                    \* the write already accepted, the candidate
  prefix, probe,                  \* a prefix, and a key in its range or not
  namespace, key, other, path     \* two objects of a schema, and a path

ranges == <<left, right>>
prefixes == <<prefix, probe>>
paths == <<namespace, key, other, path>>

SmallRanges == [start : 0..MaxKey, end : (0..MaxKey) \cup {None}]
\* A shared key of two unbounded ranges may lie at the largest start.
SharedKeys == 0..(MaxKey + 1)
NoRange == [start |-> 0, end |-> None]

\* Strings over bytes of which one is the least, one the greatest and one
\* neither.
Short(n) == UNION {[1..m -> Bytes] : m \in 0..n}

Upto(n, segments) == UNION {[1..m -> segments] : m \in 1..n}
MCSegments == {"", "a", "rpc", ".", "..", "nul"}
MCDots == {".", ".."}
MCWithNul == {"nul"}
\* Longer ones of the segments that can pass.
Plain == Upto(3, {"", "a", "rpc"})
Roots == {<<"">> \o p : p \in Upto(2, {"", "a", "rpc", "."})}
NoRoot == <<"", "a">>
NoKey == <<"a">>

RangesBlank == left = NoRange /\ right = NoRange
PrefixesBlank == prefix = <<>> /\ probe = <<>>
PathsBlank == namespace = NoRoot /\ key = NoKey /\ other = NoKey /\ path = <<>>

Blank == RangesBlank /\ PrefixesBlank /\ PathsBlank

Init == Blank

AskOverlap ==
  /\ Blank
  /\ left' \in SmallRanges /\ right' \in SmallRanges
  /\ UNCHANGED <<prefixes, paths>>

AskPrefix ==
  /\ Blank
  /\ prefix' \in Short(3) /\ probe' \in Short(4)
  /\ UNCHANGED <<ranges, paths>>

\* One object, then a second one and a path that extends the one or the other.
AskObject ==
  /\ Blank
  /\ namespace' \in Roots /\ key' \in Upto(2, MCSegments)
  /\ path' = namespace' \o key'
  /\ UNCHANGED <<ranges, prefixes, other>>

AskObjects ==
  /\ path = namespace \o key
  /\ other' \in Plain
  /\ \E rest \in Upto(2, {"a", "rpc"}) \cup {<<>>} :
       path' \in {namespace \o key \o rest, namespace \o other' \o rest}
  /\ UNCHANGED <<ranges, prefixes, namespace, key>>

AskAgain ==
  /\ ~Blank
  /\ left' = NoRange /\ right' = NoRange
  /\ prefix' = <<>> /\ probe' = <<>>
  /\ namespace' = NoRoot /\ key' = NoKey /\ other' = NoKey /\ path' = <<>>

Next == AskOverlap \/ AskPrefix \/ AskObject \/ AskObjects \/ AskAgain

Spec == Init /\ [][Next]_<<ranges, prefixes, paths>>
-----------------------------------------------------------------------------
\* Accepted writes of one transaction never touch the same key
\* (_ranges_overlap, as _validate_transaction_unlocked uses it).
AcceptedWritesDisjoint == OverlapSound(left, right, SharedKeys)

\* A transaction over real keys is refused only for a key written twice.
RefusedWritesMeet == OverlapExact(left, right, SharedKeys)

\* The range of a prefix holds exactly the keys that start with it
\* (prefix_range_end).
PrefixExact == SelectsPrefix(prefix, probe)

\* Two objects of a schema own no path in common (validate_fsm_key).
SubtreesApart == ObjectsApart(namespace, key, other, path)
=============================================================================
