------------------------------ MODULE KeyPath ------------------------------
(***************************************************************************)
(* The paths under which objects are stored: the namespace of a schema     *)
(* followed by the State Key of the object, each a string cut at its       *)
(* slashes into segments.                                                  *)
(***************************************************************************)
EXTENDS Integers, Sequences

CONSTANTS
  Segments,     \* the segments that paths are made of
  Empty,        \* the segment between two slashes
  Dots,         \* the segments "." and ".."
  Rpc,          \* the segment "rpc"
  WithNul       \* the segments with a NUL character in them

ASSUME SegmentsOK ==
  /\ Empty \in Segments /\ Rpc \in Segments
  /\ Dots \subseteq Segments /\ WithNul \subseteq Segments
  /\ Empty # Rpc /\ Empty \notin Dots \cup WithNul

In(segment, path) == \E i \in 1..Len(path) : path[i] = segment

\* Mutant: only the last segment is looked at.
ReservedMutant(key) == key[Len(key)] \in Dots \cup {Rpc}

\* A segment with a meaning of its own occurs in the key.
Reserved(key) == \E segment \in Dots \cup {Rpc} : In(segment, key)

\* Cut at its slashes the empty key is a single empty segment, and a slash
\* at either end leaves an empty one there.
ValidKey(key) ==
  /\ \A segment \in WithNul : ~In(segment, key)
  /\ ~In(Empty, key)
  /\ ~Reserved(key)

\* An absolute path has an empty segment before its first slash, the root
\* another one after it.
ValidNamespace(path) ==
  /\ Len(path) > 1 /\ path[1] = Empty
  /\ path # <<Empty, Empty>> /\ path[Len(path)] # Empty
  /\ \A segment \in WithNul : ~In(segment, path)
  /\ \A segment \in {Empty} \cup Dots : ~In(segment, Tail(path))

Paths == Seq(Segments) \ {<<>>}
-----------------------------------------------------------------------------
(* What the runtime design stores for an object: its state, and below the  *)
(* segment "rpc" its commands and claims.                                  *)

Under(path, root) ==
  Len(root) <= Len(path) /\ \A i \in 1..Len(root) : path[i] = root[i]

Owned(path, namespace, key) ==
  \/ path = namespace \o key
  \/ Under(path, namespace \o key \o <<Rpc>>)

\* Two objects of a schema own no path in common, whatever their keys, one
\* of them a path below the other included: deleting an object's subtree
\* takes nothing of another's (validate_fsm_key reserves "rpc").
ObjectsApart(namespace, key, other, path) ==
  /\ ValidNamespace(namespace) /\ ValidKey(key) /\ ValidKey(other)
  /\ Owned(path, namespace, key) /\ Owned(path, namespace, other)
  => key = other
=============================================================================
