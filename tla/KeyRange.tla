------------------------------ MODULE KeyRange ------------------------------
(***************************************************************************)
(* Half-open key ranges of the etcd backend contract.  A key is a byte     *)
(* string; only its lexicographic order matters, so a key is a natural     *)
(* number.  Appending a zero byte to a key gives the very next byte        *)
(* string, hence key + b"\0" is k + 1; the empty string is 0 and b"\0",    *)
(* the end that stands for "no upper bound", is 1.  Real keys are above 1. *)
(***************************************************************************)
EXTENDS Integers

None == -1              \* Python's None, where a natural number may also stand
Unbounded == 1          \* b"\0" used as a range end

\* The keys a request (start, end) addresses: one key when end is None.
KeyInRange(key, start, end) ==
  IF end = None THEN key = start
  ELSE /\ start <= key
       /\ end = Unbounded \/ key < end

EffectiveEnd(range) == IF range.end = None THEN range.start + 1 ELSE range.end

\* Mutant: b"\0" taken for an ordinary end.
RangesOverlapBounded(left, right) ==
  right.start < EffectiveEnd(left) /\ left.start < EffectiveEnd(right)

\* Mutant: ranges that only touch are taken to collide.
RangesOverlapTouching(left, right) ==
  LET leftEnd == EffectiveEnd(left)
      rightEnd == EffectiveEnd(right)
  IN /\ leftEnd = Unbounded \/ right.start <= leftEnd
     /\ rightEnd = Unbounded \/ left.start <= rightEnd

\* Whether two write ranges of one transaction collide.
RangesOverlap(left, right) ==
  LET leftEnd == EffectiveEnd(left)
      rightEnd == EffectiveEnd(right)
  IN /\ leftEnd = Unbounded \/ right.start < leftEnd
     /\ rightEnd = Unbounded \/ left.start < rightEnd

KeyRanges == [start : Nat, end : Nat \cup {None}]

InRange(key, range) == KeyInRange(key, range.start, range.end)

\* A range that names at least one key, and no key below the first real one.
Proper(range) ==
  /\ range.start > Unbounded
  /\ EffectiveEnd(range) = Unbounded \/ range.start < EffectiveEnd(range)
-----------------------------------------------------------------------------
(* What _validate_transaction_unlocked relies on.                          *)

\* Writes the check lets through never meet: no key is in both ranges, even
\* for ranges that are empty, reversed or start at the empty key.
OverlapSound(left, right, keys) ==
  ~RangesOverlap(left, right) => ~\E key \in keys : InRange(key, left) /\ InRange(key, right)

\* No pair of ranges over real keys is refused without a key they share.
OverlapExact(left, right, keys) ==
  Proper(left) /\ Proper(right) /\ RangesOverlap(left, right)
    => \E key \in keys : InRange(key, left) /\ InRange(key, right)
=============================================================================
