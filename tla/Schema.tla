------------------------------- MODULE Schema -------------------------------
(***************************************************************************)
(* A schema compiles its models into a registry from discriminators to     *)
(* models, of states or of commands, then validates values against it.     *)
(* Members of string enums are equal to members of other enums that have   *)
(* the same value, so equality of discriminators is not identity.          *)
(***************************************************************************)
EXTENDS Integers, SequencesExt

CONSTANTS
  Values,        \* values of enum members
  Members,       \* the set of members of each enum, by enum
  Candidates,    \* classes that may be passed as models
  MaxModels,     \* bound: models passed to one schema
  None           \* no enum, no member

Enums == DOMAIN Members
AllMembers == UNION {Members[of] : of \in Enums}

\* What compiling looks at in a class: its kind, whether it keeps the contract
\* of models (concrete, frozen, a synchronous fsm_key(self) -> str), and the
\* field of its discriminator, declared by itself or inherited, with the
\* members of its Literal annotation and its default; for a command, whether
\* it has a result type.
Classes ==
  [name : STRING, kind : {"state", "command", "other"}, keepsContract : BOOLEAN,
   local : BOOLEAN, literal : Seq(AllMembers), default : AllMembers \cup {None},
   hasResult : BOOLEAN]

ASSUME SchemaConstantsOK ==
  /\ \A of \in Enums : /\ Members[of] \subseteq [enum : {of}, value : Values]
                       /\ IsFiniteSet(Members[of])
  /\ None \notin Enums /\ None \notin AllMembers
  /\ Candidates \subseteq Classes

VARIABLES
  kind, enum, aliased,   \* the registry asked for, and the enum given for it
  models, compiled,      \* all models passed, and how many are compiled
  registry,              \* discriminator -> model
  outcome,               \* "compiling", "raised" or "built"
  value, verdict         \* the value last validated, and what came of it

input == <<kind, enum, aliased, models>>
vars == <<input, compiled, registry, outcome, value, verdict>>

\* A value of a model: its discriminator may be any member if it was built
\* without validation; its other fields and its key may be invalid as well.
NoValue == [model |-> None, discriminator |-> None, fields |-> TRUE, key |-> TRUE]

Init ==
  /\ kind \in {"state", "command"} /\ enum \in Enums \cup {None}
  /\ aliased \in BOOLEAN
  /\ kind = "state" => enum # None
  /\ models \in BoundedSeq(Candidates, MaxModels)
  /\ compiled = 0 /\ registry = <<>> /\ outcome = "compiling"
  /\ value = NoValue /\ verdict = "none"
-----------------------------------------------------------------------------
(* Compiling.                                                              *)

\* Dictionaries find a key by its value.
Registered(discriminator) ==
  {d \in DOMAIN registry : d.value = discriminator.value}

\* Mutant: the enum of the Literal is not compared.
DeclaresMember(model) ==
  /\ model.local /\ Len(model.literal) = 1
  /\ model.default = model.literal[1]

\* The discriminator of a model: one member of the schema's enum, declared by
\* the model itself, which is also the default.
Declares(model) ==
  /\ model.local /\ Len(model.literal) = 1
  /\ model.literal[1].enum = enum
  /\ model.default = model.literal[1]

Admitted(model) ==
  /\ ~\E i \in 1..compiled : models[i] = model
  /\ model.kind = kind /\ model.keepsContract
  /\ Declares(model)
  /\ kind = "command" => model.hasResult
  /\ Registered(model.literal[1]) = {}

Compiling == outcome = "compiling" /\ UNCHANGED <<input, value, verdict>>

\* An enum with aliases is refused, models without an enum as well.
EnumRefused == IF enum = None THEN models # <<>> ELSE aliased

Refuse ==
  /\ Compiling
  /\ EnumRefused
  /\ outcome' = "raised" /\ UNCHANGED <<compiled, registry>>

Compile ==
  /\ Compiling /\ ~EnumRefused /\ compiled < Len(models)
  /\ LET model == models[compiled + 1]
     IN IF Admitted(model)
        THEN /\ registry' = [d \in DOMAIN registry \cup {model.literal[1]} |->
                               IF d = model.literal[1] THEN model ELSE registry[d]]
             /\ compiled' = compiled + 1 /\ UNCHANGED outcome
        ELSE outcome' = "raised" /\ UNCHANGED <<compiled, registry>>

\* Every member has a model, and there is at least one state.
Complete ==
  /\ Compiling /\ ~EnumRefused /\ compiled = Len(models)
  /\ LET expected == IF enum = None THEN {} ELSE Members[enum]
         missing == {member \in expected : Registered(member) = {}}
     IN outcome' = IF missing # {} \/ (kind = "state" /\ registry = <<>>)
                   THEN "raised" ELSE "built"
  /\ UNCHANGED <<compiled, registry>>
-----------------------------------------------------------------------------
(* Validating.                                                             *)

\* Mutant: the enum of the discriminator is not compared.
BelongsByValue(v) ==
  \E d \in Registered(v.discriminator) : v.model = registry[d]

\* The discriminator is of the schema's enum and leads to the value's own
\* class.
Belongs(v) ==
  /\ v.discriminator.enum = enum
  /\ \E d \in Registered(v.discriminator) : v.model = registry[d]

\* A value that belongs is validated again by its model, from its fields,
\* then by the key it has now.
Validate ==
  /\ outcome = "built"
  /\ \E model \in {m \in Candidates : m.kind = kind}, discriminator \in AllMembers,
        fields \in BOOLEAN, key \in BOOLEAN :
       value' = [model |-> model, discriminator |-> discriminator,
                 fields |-> fields, key |-> key]
  /\ verdict' = CASE ~Belongs(value') -> "SchemaDefinitionError"
                  [] Belongs(value') /\ ~value'.fields -> "ValidationError"
                  [] Belongs(value') /\ value'.fields /\ ~value'.key -> "InvalidFSMKey"
                  [] OTHER -> "valid"
  /\ UNCHANGED <<input, compiled, registry, outcome>>

Next == Refuse \/ Compile \/ Complete \/ Validate

Spec == Init /\ [][Next]_vars
-----------------------------------------------------------------------------
\* A class that may stand for a member of the enum.
Models(member) ==
  {model \in Candidates :
     /\ model.kind = kind /\ model.keepsContract
     /\ model.local /\ model.literal = <<member>> /\ model.default = member
     /\ kind = "command" => model.hasResult}

\* The models given name every member of the enum once, in any order.
ModelsComplete ==
  IF enum = None THEN models = <<>>
  ELSE /\ ~aliased /\ IsInjective(models)
       /\ Len(models) = Cardinality(Members[enum])
       /\ \A member \in Members[enum] : \E model \in ToSet(models) : model \in Models(member)
       /\ kind = "state" => models # <<>>

\* Exactly the complete sequences of models make a schema (API.md:359: every
\* member "должен быть представлен ровно одной моделью"); members of another
\* enum do not stand in for members with the same value (_compile_states,
\* _compile_commands).
BuiltExactly ==
  /\ outcome = "built" => ModelsComplete
  /\ outcome = "raised" => ~ModelsComplete

\* A value is valid only as an object of a registered class with the very
\* discriminator of that class: neither another member of the enum nor an
\* equal member of another enum passes (validate_state_value,
\* validate_command_value).
ValidOwn ==
  verdict = "valid" <=>
    /\ value # NoValue
    /\ value.model \in ToSet(models) /\ value.model.literal = <<value.discriminator>>
    /\ value.fields /\ value.key
=============================================================================
