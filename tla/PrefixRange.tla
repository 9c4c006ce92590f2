---------------------------- MODULE PrefixRange ----------------------------
(***************************************************************************)
(* The range of all keys with a given prefix, on byte strings.  Strings    *)
(* are compared as bytes are, position by position; KeyRange, which needs  *)
(* only the order of keys, has them as numbers.                            *)
(***************************************************************************)
EXTENDS Integers, Sequences, FiniteSetsExt

CONSTANT MaxByte      \* 0xFF

ASSUME MaxByteOK == MaxByte \in Nat \ {0}

Bytes == 0..MaxByte
Strings == Seq(Bytes)

\* The end that stands for "no upper bound", b"\0".
Zero == <<0>>

\* a < b: they agree up to a position where a ends or has the lesser byte.
Less(a, b) ==
  \E i \in 1..Len(b) :
    /\ \A j \in 1..(i - 1) : j <= Len(a) /\ a[j] = b[j]
    /\ i = Len(a) + 1 \/ (i <= Len(a) /\ a[i] < b[i])

StartsWith(key, prefix) ==
  Len(prefix) <= Len(key) /\ \A i \in 1..Len(prefix) : key[i] = prefix[i]

\* The keys a request addresses, when it has an end.
InByteRange(key, start, end) == ~Less(key, start) /\ (end = Zero \/ Less(key, end))

\* Mutant: the bytes after the one incremented are kept.
CarriedMutant(prefix, i) == [prefix EXCEPT ![i] = @ + 1]

\* The prefix up to a byte that can be incremented, incremented.
Carried(prefix, i) == [SubSeq(prefix, 1, i) EXCEPT ![i] = @ + 1]

\* The last such byte counts; a prefix without one, the empty prefix
\* included, has no upper bound.
PrefixRangeEnd(prefix) ==
  LET room == {i \in 1..Len(prefix) : prefix[i] < MaxByte}
  IN IF room = {} THEN Zero ELSE Carried(prefix, Max(room))

\* The range request of a prefix.
PrefixRangeOf(prefix) == [start |-> prefix, end |-> PrefixRangeEnd(prefix)]
-----------------------------------------------------------------------------
\* A prefix range selects the keys that start with the prefix and no other,
\* trailing 0xFF bytes, the empty prefix and keys equal to it included
\* (prefix_range_end): a scan or a watch of a namespace misses none of its
\* keys and sees none of its neighbours'.
SelectsPrefix(prefix, key) ==
  LET range == PrefixRangeOf(prefix)
  IN InByteRange(key, range.start, range.end) <=> StartsWith(key, prefix)
=============================================================================
