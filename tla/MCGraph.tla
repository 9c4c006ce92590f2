------------------------------ MODULE MCGraph ------------------------------
(***************************************************************************)
(* Two schemas, two processors and two collections, arranged in every way  *)
(* within a total size.                                                    *)
(***************************************************************************)
EXTENDS Graph, TLC

CONSTANTS s1, s2, p1, p2, c1, c2

Reference(kind, holds) == [kind |-> kind, holds |-> holds]

MCReferences ==
  {Reference("object", <<object>>) : object \in Objects}
    \cup {Reference("module", <<c, p>>) : c \in Collections, p \in Processors}
    \cup {Reference("computed", <<object>>) : object \in Processors \cup Collections}
    \cup {Reference("broken", <<>>)}

\* The more references, the smaller the collections; three references suffice for
\* an address to be used again, and lead to collections and processors then.  The
\* first processor's schema is any: the other choice is this one with the
\* schemas renamed.
Small(wanted) ==
  /\ Len(wanted) \in 1..(4 - Len(members[c1]) - Len(members[c2]))
  /\ Len(wanted) = MaxReferences =>
       \A i \in DOMAIN wanted : ToSet(wanted[i].holds) \ Schemas # {}

SmallInit ==
  /\ schemaOf \in {schema \in [Processors -> Schemas] : schema[p1] = s1}
  /\ members \in [Collections -> BoundedSeq(Objects, MaxMembers)]
  /\ references \in {wanted \in BoundedSeq(References, MaxReferences) : Small(wanted)}
  /\ Init

SmallSpec == SmallInit /\ [][Next]_vars

Symmetry ==
  Permutations(Schemas) \cup Permutations(Processors) \cup Permutations(Collections)
    \cup Permutations(Addresses)
=============================================================================
