------------------------------ MODULE MCSchema ------------------------------
(***************************************************************************)
(* Two enums with equal values, and an empty one; good classes for each    *)
(* member and classes with one defect each.  Beside them, generic classes  *)
(* in three generations below the target: two of up to two parameters and  *)
(* a last one without, which is what a model of a schema is.               *)
(***************************************************************************)
EXTENDS Schema, Generic

Member(of, v) == [enum |-> of, value |-> v]
MCMembers == [of \in {"own", "twin", "empty"} |->
                IF of = "empty" THEN {} ELSE {Member(of, "a"), Member(of, "b")}]

Good(name, for, member) ==
  [name |-> name, kind |-> for, keepsContract |-> TRUE, local |-> TRUE,
   literal |-> <<member>>, default |-> member, hasResult |-> TRUE]

A == Member("own", "a")
B == Member("own", "b")

MCCandidates ==
  {Good("plain", for, member) : for \in {"state", "command"}, member \in {A, B, Member("twin", "b")}}
    \cup {Good("second", "state", B), Good("plain", "other", B)}
    \cup {[Good("no contract", "state", B) EXCEPT !.keepsContract = FALSE],
          [Good("inherited", "state", B) EXCEPT !.local = FALSE],
          [Good("two members", "command", B) EXCEPT !.literal = <<A, B>>],
          [Good("no literal", "state", B) EXCEPT !.literal = <<>>],
          [Good("no default", "command", B) EXCEPT !.default = None],
          [Good("other default", "state", B) EXCEPT !.default = A],
          [Good("equal default", "state", B) EXCEPT !.default = Member("twin", "b")],
          [Good("no result", "command", B) EXCEPT !.hasResult = FALSE]}
-----------------------------------------------------------------------------
\* Classes are searched where no schema is compiled.
Idle == kind = "command" /\ enum = None /\ ~aliased /\ models = <<>> /\ outcome = "compiling"

MCParameters == <<1, 2, 2, 0>>
MCBases == <<0, 2, 2, 2>>

MCInit == Init /\ SearchInit

MCNext ==
  \/ Len(classes) = 1 /\ searched = 0 /\ Next /\ UNCHANGED searchVars
  \/ Idle /\ SearchNext /\ UNCHANGED vars

MCSpec == MCInit /\ [][MCNext]_<<vars, searchVars>>
=============================================================================
