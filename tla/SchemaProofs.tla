---------------------------- MODULE SchemaProofs ----------------------------
(***************************************************************************)
(* What a schema is built from and accepts as a value, for any enums,      *)
(* classes and numbers of models; and what the search for generic          *)
(* arguments finds, for any classes.                                       *)
(***************************************************************************)
EXTENDS Schema, Generic, FiniteSetTheorems, WellFoundedInduction, TLAPS

\* Each compiled model is registered under its own discriminator, and nothing
\* else is registered.
RegistryInv ==
  /\ compiled \in 0..Len(models) /\ models \in Seq(Candidates)
  /\ outcome = "built" => compiled = Len(models)
  /\ \A i \in 1..compiled :
       /\ models[i].literal[1] \in DOMAIN registry
       /\ registry[models[i].literal[1]] = models[i]
  /\ \A d \in DOMAIN registry :
       /\ d \in AllMembers /\ d.enum = enum /\ registry[d].literal = <<d>>
       /\ \E i \in 1..compiled : registry[d] = models[i]

LEMMA BoundedSequences ==
  ASSUME NEW S, NEW n, NEW s \in BoundedSeq(S, n)
  PROVE  s \in Seq(S)
BY DEF BoundedSeq, SeqOf

\* A member is known by its enum and its value.
LEMMA MembersIdentified ==
  /\ \A member \in AllMembers : member.enum \in Enums /\ member \in Members[member.enum]
  /\ \A one, other \in AllMembers :
       one.enum = other.enum /\ one.value = other.value => one = other
<1>1. \A of \in Enums : \A member \in Members[of] : member \in [enum : {of}, value : Values]
  BY SchemaConstantsOK
<1>2. ASSUME NEW member \in AllMembers
      PROVE  /\ member.enum \in Enums /\ member \in Members[member.enum]
             /\ member = [enum |-> member.enum, value |-> member.value]
  BY <1>1 DEF AllMembers
<1> QED
  BY <1>2

\* The literal of a class that declares a member is that member alone.
LEMMA LiteralOfDeclared ==
  ASSUME NEW model \in Candidates, Declares(model)
  PROVE  /\ model.literal[1] \in AllMembers /\ model.literal[1].enum = enum
         /\ model.literal = <<model.literal[1]>>
<1>1. model.literal \in Seq(AllMembers)
  BY SchemaConstantsOK DEF Classes
<1>2. Len(model.literal) = 1 /\ model.literal[1].enum = enum
  BY DEF Declares
<1> QED
  BY <1>1, <1>2

LEMMA RegistryInitially == Init => RegistryInv
<1>1. SUFFICES ASSUME Init
               PROVE  RegistryInv
  OBVIOUS
<1>2. models \in Seq(Candidates) /\ Len(models) \in Nat
  BY <1>1, BoundedSequences DEF Init
<1>3. compiled = 0 /\ registry = <<>> /\ outcome = "compiling"
  BY <1>1 DEF Init
<1> QED
  BY <1>2, <1>3 DEF RegistryInv

LEMMA RegistryCompiled == RegistryInv /\ Compile => RegistryInv'
<1> DEFINE model == models[compiled + 1]
           own == model.literal[1]
<1>1. SUFFICES ASSUME RegistryInv, Compile
               PROVE  RegistryInv'
  OBVIOUS
<1>2. /\ compiled \in Nat /\ Len(models) \in Nat /\ compiled < Len(models)
      /\ models \in Seq(Candidates) /\ outcome = "compiling"
      /\ UNCHANGED <<models, enum>>
  BY <1>1 DEF RegistryInv, Compile, Compiling, input
<1>3. CASE ~Admitted(model)
  <2>1. UNCHANGED <<models, enum, compiled, registry>> /\ outcome' = "raised"
    BY <1>1, <1>2, <1>3 DEF Compile
  <2> QED
    BY <1>1, <2>1 DEF RegistryInv
<1>4. CASE Admitted(model)
  <2>1. /\ compiled' = compiled + 1 /\ outcome' = "compiling"
        /\ registry' = [d \in DOMAIN registry \cup {own} |->
                          IF d = own THEN model ELSE registry[d]]
    BY <1>1, <1>2, <1>4 DEF Compile
  <2>2. model \in Candidates
    BY <1>2
  <2>3. Declares(model) /\ Registered(own) = {}
    BY <1>4 DEF Admitted
  <2>4. own \in AllMembers /\ own.enum = enum /\ model.literal = <<own>>
    BY <2>2, <2>3, LiteralOfDeclared
  <2>5. own \notin DOMAIN registry
    BY <2>3 DEF Registered
  <2>6. ASSUME NEW i \in 1..(compiled + 1)
        PROVE  /\ models[i].literal[1] \in DOMAIN registry'
               /\ registry'[models[i].literal[1]] = models[i]
    <3>1. CASE i = compiled + 1
      BY <2>1, <3>1
    <3>2. CASE i \in 1..compiled
      BY <1>1, <2>1, <2>5, <3>2 DEF RegistryInv
    <3> QED
      BY <1>2, <3>1, <3>2
  <2>7. ASSUME NEW d \in DOMAIN registry'
        PROVE  /\ d \in AllMembers /\ d.enum = enum /\ registry'[d].literal = <<d>>
               /\ \E i \in 1..(compiled + 1) : registry'[d] = models[i]
    <3>1. CASE d = own
      <4>1. registry'[d] = model /\ compiled + 1 \in 1..(compiled + 1)
        BY <1>2, <2>1, <3>1
      <4> QED
        BY <2>4, <3>1, <4>1
    <3>2. CASE d # own
      <4>1. d \in DOMAIN registry /\ registry'[d] = registry[d]
        BY <2>1, <3>2
      <4>2. /\ d \in AllMembers /\ d.enum = enum /\ registry[d].literal = <<d>>
            /\ \E i \in 1..compiled : registry[d] = models[i]
        BY <1>1, <4>1 DEF RegistryInv
      <4> QED
        BY <1>2, <4>1, <4>2
    <3> QED
      BY <3>1, <3>2
  <2>8. compiled' \in 0..Len(models') /\ models' \in Seq(Candidates)
    BY <1>2, <2>1
  <2>9. \A i \in 1..compiled' :
          /\ models'[i].literal[1] \in DOMAIN registry'
          /\ registry'[models'[i].literal[1]] = models'[i]
    BY <1>2, <2>1, <2>6
  <2>10. \A d \in DOMAIN registry' :
           /\ d \in AllMembers /\ d.enum = enum' /\ registry'[d].literal = <<d>>
           /\ \E i \in 1..compiled' : registry'[d] = models'[i]
    <3>1. compiled' = compiled + 1 /\ enum' = enum /\ models' = models
      BY <1>2, <2>1
    <3> HIDE DEF own, model
    <3> QED
      BY <2>7, <3>1
  <2> QED
    BY <2>1, <2>8, <2>9, <2>10 DEF RegistryInv
<1> QED
  BY <1>3, <1>4

LEMMA RegistryKept == RegistryInv /\ [Next]_vars => RegistryInv'
<1>1. SUFFICES ASSUME RegistryInv, [Next]_vars
               PROVE  RegistryInv'
  OBVIOUS
<1>2. CASE Refuse
  BY <1>1, <1>2 DEF Refuse, Compiling, input, RegistryInv
<1>3. CASE Compile
  BY <1>1, <1>3, RegistryCompiled
<1>4. CASE Complete
  <2>1. compiled = Len(models) /\ UNCHANGED <<models, enum, compiled, registry>>
    BY <1>4 DEF Complete, Compiling, input
  <2> QED
    BY <1>1, <2>1 DEF RegistryInv
<1>5. CASE Validate
  BY <1>1, <1>5 DEF Validate, input, RegistryInv
<1>6. CASE UNCHANGED vars
  BY <1>1, <1>6 DEF vars, input, RegistryInv
<1> QED
  BY <1>1, <1>2, <1>3, <1>4, <1>5, <1>6 DEF Next

\* Once built, a registry lets exactly the values through that carry the
\* discriminator of their own registered class.
LEMMA BelongsExactly ==
  ASSUME RegistryInv, outcome = "built",
         NEW v, v.discriminator \in AllMembers
  PROVE  Belongs(v) <=> v.model \in ToSet(models) /\ v.model.literal = <<v.discriminator>>
<1> DEFINE own == v.discriminator
<1>1. /\ compiled = Len(models) /\ Len(models) \in Nat /\ models \in Seq(Candidates)
      /\ ToSet(models) = {models[i] : i \in 1..compiled}
  BY DEF RegistryInv, ToSet
<1>2. ASSUME Belongs(v)
      PROVE  v.model \in ToSet(models) /\ v.model.literal = <<own>>
  <2>1. PICK d \in DOMAIN registry : d.value = own.value /\ v.model = registry[d]
    BY <1>2 DEF Belongs, Registered
  <2>2. /\ d \in AllMembers /\ d.enum = enum /\ registry[d].literal = <<d>>
        /\ \E i \in 1..compiled : registry[d] = models[i]
    BY <2>1 DEF RegistryInv
  <2>3. d = own
    <3>1. own.enum = enum /\ own.value = d.value /\ d.enum = enum
      BY <1>2, <2>1, <2>2 DEF Belongs
    <3> HIDE DEF own
    <3>2. own \in AllMembers
      BY DEF own
    <3> QED
      BY <2>2, <3>1, <3>2, MembersIdentified
  <2> QED
    BY <1>1, <2>1, <2>2, <2>3
<1>3. ASSUME v.model \in ToSet(models), v.model.literal = <<own>>
      PROVE  Belongs(v)
  <2>1. PICK i \in 1..compiled : v.model = models[i]
    BY <1>1, <1>3
  <2>2. own \in DOMAIN registry /\ registry[own] = v.model
    <3>1. own = models[i].literal[1]
      BY <1>3, <2>1
    <3>2. /\ models[i].literal[1] \in DOMAIN registry
          /\ registry[models[i].literal[1]] = models[i]
      BY <2>1 DEF RegistryInv
    <3> HIDE DEF own
    <3> QED
      BY <2>1, <3>1, <3>2
  <2>3. own.enum = enum
    BY <2>2 DEF RegistryInv
  <2> QED
    BY <2>2, <2>3 DEF Belongs, Registered
<1> QED
  BY <1>2, <1>3

LEMMA ValidatedOwn == RegistryInv /\ Validate => ValidOwn'
<1>1. SUFFICES ASSUME RegistryInv, Validate
               PROVE  ValidOwn'
  OBVIOUS
<1>2. PICK model \in {m \in Candidates : m.kind = kind}, discriminator \in AllMembers,
           fields \in BOOLEAN, key \in BOOLEAN :
        value' = [model |-> model, discriminator |-> discriminator,
                  fields |-> fields, key |-> key]
  BY <1>1 DEF Validate
<1>3. value' # NoValue
  BY <1>2, SchemaConstantsOK DEF NoValue
<1>4. Belongs(value') <=> /\ value'.model \in ToSet(models)
                          /\ value'.model.literal = <<value'.discriminator>>
  BY <1>1, <1>2, BelongsExactly DEF Validate
<1>5. verdict' = "valid" <=> Belongs(value') /\ value'.fields /\ value'.key
  BY <1>1, <1>2 DEF Validate
<1>6. UNCHANGED models
  BY <1>1 DEF Validate, input
<1> QED
  BY <1>3, <1>4, <1>5, <1>6 DEF ValidOwn

\* No value of another class, of another member or of an equal member of
\* another enum is ever valid, and every value of a registered class with its
\* own discriminator, valid fields and a valid key is.
THEOREM ValuesAlwaysOwn == Spec => []ValidOwn
<1>1. Init => ValidOwn
  BY DEF Init, ValidOwn
<1>2. ValidOwn /\ RegistryInv /\ [Next]_vars => ValidOwn'
  <2>1. SUFFICES ASSUME ValidOwn, RegistryInv, [Next]_vars
                 PROVE  ValidOwn'
    OBVIOUS
  <2>2. CASE Validate
    BY <2>1, <2>2, ValidatedOwn
  <2>3. CASE UNCHANGED <<models, value, verdict>>
    BY <2>1, <2>3 DEF ValidOwn
  <2> QED
    BY <2>1, <2>2, <2>3 DEF Next, Refuse, Compile, Complete, Compiling, vars, input
<1>3. Spec => []RegistryInv
  BY RegistryInitially, RegistryKept, PTL DEF Spec
<1> QED
  BY <1>1, <1>2, <1>3, PTL DEF Spec
-----------------------------------------------------------------------------
(* Which models make a schema.                                             *)

\* What is registered has passed all checks, each model under another member.
AdmittedInv ==
  /\ kind = "state" => enum # None
  /\ \A i \in 1..compiled :
       /\ models[i] \in Models(models[i].literal[1])
       /\ models[i].literal[1] \in Members[enum]
  /\ \A i, j \in 1..compiled : models[i].literal[1] = models[j].literal[1] => i = j

\* An admitted class may stand for the member it declares.
LEMMA AdmittedStands ==
  ASSUME NEW model \in Candidates, Admitted(model)
  PROVE  /\ model \in Models(model.literal[1])
         /\ model.literal[1] \in Members[enum]
<1>1. Declares(model)
  BY DEF Admitted
<1>2. /\ model.literal[1] \in AllMembers /\ model.literal[1].enum = enum
      /\ model.literal = <<model.literal[1]>>
  BY <1>1, LiteralOfDeclared
<1>3. model.literal[1] \in Members[enum]
  BY <1>2, MembersIdentified
<1>4. /\ model.kind = kind /\ model.keepsContract /\ model.local
      /\ model.default = model.literal[1]
      /\ kind = "command" => model.hasResult
  BY DEF Admitted, Declares
<1> QED
  BY <1>2, <1>3, <1>4 DEF Models

LEMMA AdmittedCompiled == RegistryInv /\ AdmittedInv /\ Compile => AdmittedInv'
<1> DEFINE model == models[compiled + 1]
           own == model.literal[1]
<1>1. SUFFICES ASSUME RegistryInv, AdmittedInv, Compile
               PROVE  AdmittedInv'
  OBVIOUS
<1>2. /\ compiled \in Nat /\ compiled < Len(models) /\ Len(models) \in Nat
      /\ models \in Seq(Candidates)
      /\ kind' = kind /\ enum' = enum /\ models' = models
  BY <1>1 DEF RegistryInv, Compile, Compiling, input
<1>3. \A member : Models(member)' = Models(member)
  BY <1>2 DEF Models
<1>4. CASE ~Admitted(model)
  <2>1. compiled' = compiled
    BY <1>1, <1>4 DEF Compile
  <2> QED
    BY <1>1, <1>2, <1>3, <2>1 DEF AdmittedInv
<1>5. CASE Admitted(model)
  <2>1. compiled' = compiled + 1
    BY <1>1, <1>5 DEF Compile
  <2>2. model \in Models(own) /\ own \in Members[enum]
    BY <1>2, <1>5, AdmittedStands
  <2>3. \A i \in 1..compiled : models[i].literal[1] # own
    <3>1. Registered(own) = {}
      BY <1>5 DEF Admitted
    <3>2. own \notin DOMAIN registry
      BY <3>1 DEF Registered
    <3> HIDE DEF own
    <3> QED
      BY <1>1, <3>2 DEF RegistryInv
  <2>4. ASSUME NEW i \in 1..(compiled + 1)
        PROVE  models[i] \in Models(models[i].literal[1]) /\ models[i].literal[1] \in Members[enum]
    <3>1. CASE i = compiled + 1
      BY <2>2, <3>1
    <3>2. CASE i # compiled + 1
      <4>1. i \in 1..compiled
        BY <1>2, <3>2
      <4> QED
        BY <1>1, <4>1 DEF AdmittedInv
    <3> QED
      BY <3>1, <3>2
  <2>5. ASSUME NEW i \in 1..(compiled + 1), NEW j \in 1..(compiled + 1),
               models[i].literal[1] = models[j].literal[1]
        PROVE  i = j
    <3>1. (i \in 1..compiled \/ i = compiled + 1) /\ (j \in 1..compiled \/ j = compiled + 1)
      BY <1>2
    <3>2. CASE i \in 1..compiled /\ j \in 1..compiled
      BY <1>1, <2>5, <3>2 DEF AdmittedInv
    <3>3. CASE i = compiled + 1 \/ j = compiled + 1
      BY <2>3, <2>5, <3>1, <3>3
    <3> QED
      BY <3>1, <3>2, <3>3
  <2>6. kind' = "state" => enum' # None
    BY <1>1, <1>2 DEF AdmittedInv
  <2> HIDE DEF own, model
  <2> QED
    BY <1>2, <1>3, <2>1, <2>4, <2>5, <2>6 DEF AdmittedInv
<1> QED
  BY <1>4, <1>5

LEMMA AdmittedKept == RegistryInv /\ AdmittedInv /\ [Next]_vars => AdmittedInv'
<1>1. SUFFICES ASSUME RegistryInv, AdmittedInv, [Next]_vars
               PROVE  AdmittedInv'
  OBVIOUS
<1>2. CASE Compile
  BY <1>1, <1>2, AdmittedCompiled
<1>3. CASE UNCHANGED <<input, compiled>>
  <2>1. \A member : Models(member)' = Models(member)
    BY <1>3 DEF Models, input
  <2> QED
    BY <1>1, <1>3, <2>1 DEF AdmittedInv, input
<1> QED
  BY <1>1, <1>2, <1>3 DEF Next, Refuse, Complete, Validate, Compiling, vars

\* In a complete sequence every model stands for a member, no two for the same.
LEMMA CompleteNames ==
  ASSUME ModelsComplete, enum \in Enums, models \in Seq(Candidates)
  PROVE  /\ \A i \in 1..Len(models) : \E member \in Members[enum] : models[i] \in Models(member)
         /\ \A i, j \in 1..Len(models) : models[i].literal = models[j].literal => i = j
         /\ \A member \in Members[enum] :
              \E i \in 1..Len(models) : models[i] \in Models(member)
<1> DEFINE own == Members[enum]
           places == 1..Len(models)
           place == [member \in own |-> CHOOSE i \in places : models[i] \in Models(member)]
<1>1. /\ Len(models) \in Nat /\ Len(models) = Cardinality(own)
      /\ \A member \in own : \E model \in ToSet(models) : model \in Models(member)
  BY SchemaConstantsOK DEF ModelsComplete
<1>2. \A member \in own : \E i \in places : models[i] \in Models(member)
  BY <1>1 DEF ToSet
<1>3. \A member \in own : place[member] \in places /\ models[place[member]] \in Models(member)
  BY <1>2
<1>4. \A member \in own : models[place[member]].literal = <<member>>
  BY <1>3 DEF Models
<1>5. place \in Injection(own, places)
  <2>1. place \in [own -> places]
    BY <1>3
  <2>2. ASSUME NEW one \in own, NEW other \in own, place[one] = place[other]
        PROVE  one = other
    <3>1. <<one>> = <<other>>
      BY <1>4, <2>2
    <3> QED
      BY <3>1
  <2> HIDE DEF place
  <2> QED
    BY <2>1, <2>2 DEF Injection, IsInjective
<1>6. IsFiniteSet(places) /\ Cardinality(places) = Cardinality(own)
  BY <1>1, FS_Interval
<1>7. place \in Surjection(own, places)
  <2> HIDE DEF place, own, places
  <2> QED
    BY <1>5, <1>6, FS_Injection
<1>8. \A i \in places : \E member \in own : place[member] = i
  <2> HIDE DEF place
  <2> QED
    BY <1>7 DEF Surjection
<1> HIDE DEF place
<1>9. ASSUME NEW i \in places, NEW j \in places, models[i].literal = models[j].literal
      PROVE  i = j
  <2>1. PICK one \in own, other \in own : place[one] = i /\ place[other] = j
    BY <1>8
  <2>2. <<one>> = <<other>>
    BY <1>4, <1>9, <2>1
  <2> QED
    BY <2>1, <2>2
<1> QED
  BY <1>2, <1>3, <1>8, <1>9

\* A refused enum has no complete models.
LEMMA RefusedIncomplete ==
  ASSUME EnumRefused
  PROVE  ~ModelsComplete
BY DEF EnumRefused, ModelsComplete

\* The model at which compiling stops cannot be part of complete models.
LEMMA RaisedIncomplete ==
  ASSUME RegistryInv, AdmittedInv, Compile, ~Admitted(models[compiled + 1]),
         enum \in Enums \cup {None}
  PROVE  ~ModelsComplete
<1> DEFINE i == compiled + 1
           model == models[i]
<1>1. /\ compiled \in Nat /\ Len(models) \in Nat /\ compiled < Len(models)
      /\ models \in Seq(Candidates) /\ ~EnumRefused
  BY DEF RegistryInv, Compile
<1>2. enum \in Enums
  BY <1>1 DEF EnumRefused
<1>3. SUFFICES ASSUME ModelsComplete
               PROVE  FALSE
  OBVIOUS
<1>4. i \in 1..Len(models)
  BY <1>1
<1>5. PICK member \in Members[enum] : model \in Models(member)
  BY <1>1, <1>2, <1>3, <1>4, CompleteNames
<1>6. /\ model.kind = kind /\ model.keepsContract /\ model.local
      /\ model.literal = <<member>> /\ model.default = member
      /\ kind = "command" => model.hasResult
  BY <1>5 DEF Models
<1>7. member.enum = enum /\ member \in AllMembers
  BY <1>2, SchemaConstantsOK DEF AllMembers
<1>8. Declares(model)
  BY <1>6, <1>7 DEF Declares
<1>9. \A j \in 1..compiled : models[j].literal # model.literal
  <2>1. \A j \in 1..compiled : j \in 1..Len(models) /\ j # i
    BY <1>1
  <2>2. \A j \in 1..Len(models) : models[j].literal = models[i].literal => j = i
    BY <1>1, <1>2, <1>3, <1>4, CompleteNames
  <2> QED
    BY <2>1, <2>2
<1>10. PICK d \in DOMAIN registry : d.value = member.value
  BY <1>6, <1>8, <1>9 DEF Admitted, Registered
<1>11. /\ d \in AllMembers /\ d.enum = enum /\ registry[d].literal = <<d>>
       /\ \E j \in 1..compiled : registry[d] = models[j]
  BY <1>10 DEF RegistryInv
<1>12. d = member
  BY <1>7, <1>10, <1>11, MembersIdentified
<1> QED
  BY <1>6, <1>9, <1>11, <1>12

\* When every model is compiled, they are complete or a member is missing.
LEMMA CompletedRight ==
  ASSUME RegistryInv, AdmittedInv, Complete, enum \in Enums \cup {None}
  PROVE  outcome' = "built" <=> ModelsComplete
<1> DEFINE expected == IF enum = None THEN {} ELSE Members[enum]
           missing == {member \in expected : Registered(member) = {}}
<1>1. /\ compiled = Len(models) /\ Len(models) \in Nat /\ models \in Seq(Candidates)
      /\ ~EnumRefused
      /\ ToSet(models) = {models[i] : i \in 1..compiled}
  <2>1. compiled = Len(models) /\ models \in Seq(Candidates) /\ ~EnumRefused
    BY DEF RegistryInv, Complete
  <2> QED
    BY <2>1 DEF ToSet
<1>2. outcome' = "built" <=> missing = {} /\ ~(kind = "state" /\ registry = <<>>)
  BY DEF Complete
<1>3. CASE enum = None
  <2>1. models = <<>> /\ missing = {} /\ kind # "state"
    BY <1>1, <1>3 DEF EnumRefused, AdmittedInv
  <2> QED
    BY <1>2, <1>3, <2>1 DEF ModelsComplete
<1>4. CASE enum # None
  <2>1. enum \in Enums /\ ~aliased
    BY <1>1, <1>4 DEF EnumRefused
  <2>2. \A member \in Members[enum] : member \in AllMembers /\ member.enum = enum
    BY <2>1, SchemaConstantsOK DEF AllMembers
  <2>3. ASSUME NEW member \in Members[enum]
        PROVE  Registered(member) # {} <=> \E i \in 1..compiled : models[i] \in Models(member)
    <3>1. ASSUME Registered(member) # {}
          PROVE  \E i \in 1..compiled : models[i] \in Models(member)
      <4>1. PICK d \in DOMAIN registry : d.value = member.value
        BY <3>1 DEF Registered
      <4>2. /\ d \in AllMembers /\ d.enum = enum /\ registry[d].literal = <<d>>
            /\ \E i \in 1..compiled : registry[d] = models[i]
        BY <4>1 DEF RegistryInv
      <4>3. d = member
        BY <2>2, <4>1, <4>2, MembersIdentified
      <4>4. PICK i \in 1..compiled : models[i].literal = <<member>>
        BY <4>2, <4>3
      <4> QED
        BY <4>4 DEF AdmittedInv
    <3>2. ASSUME NEW i \in 1..compiled, models[i] \in Models(member)
          PROVE  Registered(member) # {}
      <4>1. models[i].literal[1] = member
        BY <3>2 DEF Models
      <4> QED
        BY <4>1 DEF RegistryInv, Registered
    <3> QED
      BY <3>1, <3>2
  <2>4. ASSUME missing = {}, ~(kind = "state" /\ registry = <<>>)
        PROVE  ModelsComplete
    <3>1. \A member \in Members[enum] : \E i \in 1..compiled : models[i] \in Models(member)
      BY <1>4, <2>3, <2>4
    <3>2. IsInjective(models)
      BY <1>1 DEF IsInjective, AdmittedInv
    <3>3. Len(models) = Cardinality(Members[enum])
      <4> DEFINE names == [i \in 1..compiled |-> models[i].literal[1]]
      <4>1. names \in Injection(1..compiled, Members[enum])
        <5>1. names \in [1..compiled -> Members[enum]]
          BY DEF AdmittedInv
        <5>2. \A i, j \in 1..compiled : names[i] = names[j] => i = j
          BY DEF AdmittedInv
        <5> HIDE DEF names
        <5> QED
          BY <5>1, <5>2 DEF Injection, IsInjective
      <4>2. names \in Surjection(1..compiled, Members[enum])
        <5>1. \A member \in Members[enum] : \E i \in 1..compiled : names[i] = member
          BY <3>1 DEF Models
        <5> HIDE DEF names
        <5> QED
          BY <4>1, <5>1 DEF Injection, Surjection
      <4>3. IsFiniteSet(Members[enum])
        BY <2>1, SchemaConstantsOK
      <4>4. Cardinality(1..compiled) = compiled
        <5>1. compiled \in Nat
          BY <1>1
        <5> HIDE DEF names
        <5> QED
          BY <5>1, FS_Interval
      <4>5. Cardinality(1..compiled) = Cardinality(Members[enum])
        <5> HIDE DEF names
        <5> QED
          BY <4>1, <4>2, <4>3, FS_Injection
      <4> QED
        BY <1>1, <4>4, <4>5
    <3>4. \A member \in Members[enum] : \E model \in ToSet(models) : model \in Models(member)
      BY <1>1, <3>1
    <3>5. kind = "state" => models # <<>>
      <4>1. ASSUME kind = "state", models = <<>>
            PROVE  FALSE
        <5>1. DOMAIN registry = {}
          BY <1>1, <4>1 DEF RegistryInv
        <5> QED
          BY <2>4, <4>1, <5>1
      <4> QED
        BY <4>1
    <3> QED
      BY <1>4, <2>1, <3>2, <3>3, <3>4, <3>5 DEF ModelsComplete
  <2>5. ASSUME ModelsComplete
        PROVE  missing = {} /\ ~(kind = "state" /\ registry = <<>>)
    <3>1. missing = {}
      BY <1>1, <1>4, <2>1, <2>3, <2>5, CompleteNames
    <3>2. ASSUME kind = "state"
          PROVE  registry # <<>>
      <4>1. 1 \in 1..compiled
        BY <1>1, <1>4, <2>5, <3>2 DEF ModelsComplete
      <4>2. DOMAIN registry # {}
        BY <4>1 DEF RegistryInv
      <4> QED
        BY <4>2
    <3> QED
      BY <3>1, <3>2
  <2> QED
    BY <1>2, <2>4, <2>5
<1> QED
  BY <1>3, <1>4

\* What is complete is a matter of the input alone.
LEMMA SameComplete ==
  ASSUME UNCHANGED input
  PROVE  ModelsComplete' = ModelsComplete
<1>1. \A member : Models(member)' = Models(member)
  BY DEF Models, input
<1> QED
  BY <1>1 DEF ModelsComplete, input

\* A schema is built from complete models and from no others, whatever the
\* enums: no member goes without a model, none has two, and an equal member of
\* another enum stands in for none.
THEOREM CompleteAlwaysBuilt == Spec => []BuiltExactly
<1> DEFINE IInv == /\ RegistryInv /\ AdmittedInv /\ BuiltExactly
                   /\ enum \in Enums \cup {None}
                   /\ outcome \in {"compiling", "raised", "built"}
<1>1. Init => IInv
  <2>1. SUFFICES ASSUME Init
                 PROVE  IInv
    OBVIOUS
  <2>2. AdmittedInv /\ BuiltExactly
    BY <2>1 DEF Init, AdmittedInv, BuiltExactly
  <2> QED
    BY <2>1, <2>2, RegistryInitially DEF Init
<1>2. IInv /\ [Next]_vars => IInv'
  <2>1. SUFFICES ASSUME IInv, [Next]_vars
                 PROVE  IInv'
    OBVIOUS
  <2>2. UNCHANGED input
    BY <2>1 DEF Next, Refuse, Compile, Complete, Validate, Compiling, vars
  <2>3. ModelsComplete' = ModelsComplete
    BY <2>2, SameComplete
  <2>4. RegistryInv' /\ AdmittedInv' /\ enum' \in Enums \cup {None}
    BY <2>1, <2>2, RegistryKept, AdmittedKept DEF input
  <2>5. BuiltExactly'
    <3>1. CASE Refuse
      BY <2>3, <3>1, RefusedIncomplete DEF Refuse, BuiltExactly
    <3>2. CASE Compile /\ Admitted(models[compiled + 1])
      BY <2>1, <2>3, <3>2 DEF Compile, BuiltExactly
    <3>3. CASE Compile /\ ~Admitted(models[compiled + 1])
      <4>1. ~ModelsComplete /\ outcome' = "raised"
        BY <2>1, <3>3, RaisedIncomplete DEF Compile
      <4> QED
        BY <2>3, <4>1 DEF BuiltExactly
    <3>4. CASE Complete
      <4>1. outcome' = "built" <=> ModelsComplete
        BY <2>1, <3>4, CompletedRight
      <4>2. outcome' \in {"raised", "built"}
        BY <3>4 DEF Complete
      <4> QED
        BY <2>3, <4>1, <4>2 DEF BuiltExactly
    <3>5. CASE UNCHANGED outcome
      BY <2>1, <2>3, <3>5 DEF BuiltExactly
    <3> QED
      BY <2>1, <3>1, <3>2, <3>3, <3>4, <3>5 DEF Next, Validate, vars
  <2>6. outcome' \in {"compiling", "raised", "built"}
    BY <2>1 DEF Next, Refuse, Compile, Complete, Validate, vars
  <2> QED
    BY <2>4, <2>5, <2>6
<1> QED
  BY <1>1, <1>2, PTL DEF Spec
-----------------------------------------------------------------------------
(* The search for generic arguments.  Under the bindings of a call nothing *)
(* is left to follow, and they bind variables of the classes from the      *)
(* target's side up to the class of the call only, so what a class says,   *)
(* resolved there, is what the class searched says.                        *)

\* What substitution of variables leaves as it is.
Opaque == Annotations \ Variables

\* A class refers to classes defined before it, in its own variables.
OwnVariables(class) == {v \in Variables : v.root[1] = class}

ProperBases(class) == [class : 1..(class - 1), args : Seq(Opaque \cup OwnVariables(class))]
BaseRecords == [class : Nat, args : Seq(Opaque \cup Variables)]
ClassRecords == [parameters : Nat, bases : Seq(BaseRecords), above : SUBSET Nat]

Hierarchy ==
  /\ classes \in Seq(ClassRecords)
  /\ Len(classes) >= 1 /\ classes[Target].bases = <<>>
  /\ \A c \in DOMAIN classes : classes[c].bases \in Seq(ProperBases(c))

\* A class says what the first of its bases says that says anything.
SaysNothing(base) == written[base.class] = Missing

FirstCounts(c) ==
  LET bases == classes[c].bases
  IN \/ written[c] = Missing /\ \A i \in DOMAIN bases : SaysNothing(bases[i])
     \/ \E i \in DOMAIN bases :
          /\ ~SaysNothing(bases[i])
          /\ \A j \in 1..(i - 1) : SaysNothing(bases[j])
          /\ written[c] = Said(written[bases[i].class], bases[i])

Meanings ==
  /\ written \in Seq({Missing} \cup Opaque \cup Variables) /\ Len(written) = Len(classes)
  /\ written[Target] = TargetVar
  /\ \A c \in DOMAIN classes : written[c] \in Variables => written[c].root[1] <= c
  /\ \A c \in DOMAIN classes \ {Target} : FirstCounts(c)

\* What a class says is written, unless what is written contains a variable.
Agree(c) ==
  /\ means[c] = Missing <=> written[c] = Missing
  /\ written[c] # Missing =>
       means[c] \in Annotations /\ (means[c] # written[c] => Nests(written[c]))

Agreement == means \in Seq({Missing} \cup Annotations) /\ Len(means) = Len(classes)
             /\ \A c \in DOMAIN classes : Agree(c)

AsWritten == searched # 0 /\ calls = <<>> => result = written[searched]

\* Bindings in a class bind its variables and those of classes defined later,
\* to types and to such variables as are free.
UpFrom(class) == {v \in Variables : v.root[1] >= class}

AnyBindings == UNION {[D -> Opaque \cup Variables] : D \in SUBSET Variables}

Bindings(class) ==
  {b \in AnyBindings :
     /\ DOMAIN b \subseteq UpFrom(class)
     /\ \A v \in DOMAIN b : b[v] \in (Opaque \cup UpFrom(class)) \ DOMAIN b}

Resolve(annotation, bindings) ==
  IF annotation \in DOMAIN bindings THEN bindings[annotation] ELSE annotation

\* A call is for the base its caller has come to; the bases before say nothing.
CallProper(k) ==
  LET call == calls[k]
      bases == classes[call.class].bases
  IN /\ call.class \in DOMAIN classes /\ call.bindings \in Bindings(call.class)
     /\ \A i \in DOMAIN bases : i < call.next => SaysNothing(bases[i])
     /\ written[call.class] # Missing => written[searched] = Resolve(written[call.class], call.bindings)
     /\ k = 1 => call.class = searched
     /\ k > 1 => LET caller == calls[k - 1]
                 IN /\ caller.next \in DOMAIN classes[caller.class].bases
                    /\ call.class = classes[caller.class].bases[caller.next].class

CallRecords == [class : Nat, next : Nat \ {0}, bindings : AnyBindings]

SearchInv ==
  /\ Hierarchy /\ Meanings /\ Agreement
  /\ calls \in Seq(CallRecords) /\ \A k \in DOMAIN calls : CallProper(k)
  /\ calls # <<>> => result = Missing /\ searched \in DOMAIN classes
  /\ searched \in 0..Len(classes) /\ AsWritten

LEMMA VariableFacts ==
  /\ \A v \in Variables : /\ v.around = 0 /\ v.root \in Names
                          /\ v.root[1] \in Nat /\ v.root[2] \in Nat \ {0}
  /\ \A c, count \in Nat : \A v \in ParametersOf(c, count) :
       v \in Variables /\ v.root[1] = c /\ v.root[2] \in 1..count
  /\ Opaque \cap Variables = {} /\ Opaque \cup Variables = Annotations
  /\ {Missing, Diverges} \cap (Opaque \cup Variables) = {}
  /\ TargetVar \in Variables /\ TargetVar.root[1] = Target
<1>1. \A v \in Variables : /\ v.around = 0 /\ v.root \in Names
                           /\ v.root[1] \in Nat /\ v.root[2] \in Nat \ {0}
  BY DEF Variables, Names
<1>2. ASSUME NEW c \in Nat, NEW i \in Nat \ {0}
      PROVE  /\ Plain(<<c, i>>) \in Variables
             /\ Plain(<<c, i>>).root[1] = c /\ Plain(<<c, i>>).root[2] = i
  BY DEF Plain, Variables, Names
<1>3. ASSUME NEW c \in Nat, NEW count \in Nat, NEW v \in ParametersOf(c, count)
      PROVE  v \in Variables /\ v.root[1] = c /\ v.root[2] \in 1..count
  <2>1. PICK i \in 1..count : v = Plain(<<c, i>>)
    BY DEF ParametersOf
  <2> QED
    BY <1>2, <2>1
<1>4. Variables \subseteq Annotations
  BY DEF Variables, Annotations
<1>5. Opaque \cap Variables = {} /\ Opaque \cup Variables = Annotations
  BY <1>4 DEF Opaque
<1>6. TargetVar \in Variables /\ TargetVar.root[1] = Target
  BY <1>2 DEF TargetVar, Target
<1> QED
  BY <1>1, <1>3, <1>5, <1>6, GenericConstantsOK

LEMMA ProperBase ==
  ASSUME NEW c \in Nat, NEW base \in ProperBases(c)
  PROVE  /\ base.class \in 1..(c - 1) /\ base.args \in Seq(Opaque \cup OwnVariables(c))
         /\ base \in BaseRecords
<1>1. /\ base.class \in 1..(c - 1) /\ base.args \in Seq(Opaque \cup OwnVariables(c))
      /\ base = [class |-> base.class, args |-> base.args]
  BY DEF ProperBases
<1>2. base.args \in Seq(Opaque \cup Variables)
  BY <1>1 DEF OwnVariables
<1>3. base.class \in Nat
  BY <1>1
<1> QED
  BY <1>1, <1>2, <1>3 DEF BaseRecords

\* Where no value is itself bound, one step of substitution is all there is.
LEMMA Substitutes ==
  ASSUME NEW annotation, NEW bindings,
         \A v \in DOMAIN bindings : bindings[v] \notin DOMAIN bindings
  PROVE  SubstituteTypeVars(annotation, bindings) = Resolve(annotation, bindings)
<1> DEFINE all == {annotation} \cup Range(bindings)
           end == Resolve(annotation, bindings)
           passed == {annotation, end}
           ends == {a \in Chain(annotation, bindings) : a \in DOMAIN bindings => bindings[a] = a}
<1>1. passed \in SUBSET all /\ annotation \in passed /\ Closed(passed, bindings)
  BY DEF Closed, Range, Resolve
<1>2. Chain(annotation, bindings) \subseteq passed
  BY <1>1 DEF Chain
<1>3. end \in Chain(annotation, bindings)
  <2>1. end \in all
    BY <1>1
  <2>2. ASSUME NEW some \in SUBSET all, annotation \in some, Closed(some, bindings)
        PROVE  end \in some
    BY <2>2 DEF Closed, Resolve
  <2> QED
    BY <2>1, <2>2 DEF Chain
<1>4. end \notin DOMAIN bindings /\ (annotation # end => annotation \in DOMAIN bindings)
  BY DEF Resolve
<1>5. annotation \in DOMAIN bindings => bindings[annotation] = end
  BY DEF Resolve
<1>6. ends = {end}
  BY <1>2, <1>3, <1>4, <1>5
<1> QED
  BY <1>6 DEF SubstituteTypeVars

\* Inside a base the bindings are of the same kind, resolving always returns,
\* and what the base says is resolved as what its class was given for it.
LEMMA InnerResolves ==
  ASSUME NEW c \in Nat, NEW bindings \in Bindings(c),
         NEW base \in ProperBases(c),
         NEW mean \in Opaque \cup Variables,
         mean \in Variables => mean.root[1] <= base.class
  PROVE  /\ Inner(base, bindings) \in Bindings(base.class)
         /\ Diverges \notin Range(Inner(base, bindings))
         /\ Resolve(Said(mean, base), bindings) = Resolve(mean, Inner(base, bindings))
<1> DEFINE b == base.class
           args == base.args
           own == ParametersOf(b, Len(args))
           inner == Inner(base, bindings)
<1>1. /\ DOMAIN bindings \subseteq UpFrom(c)
      /\ \A v \in DOMAIN bindings : bindings[v] \in (Opaque \cup UpFrom(c)) \ DOMAIN bindings
  BY DEF Bindings
<1>2. /\ b \in Nat \ {0} /\ b < c /\ UpFrom(c) \subseteq UpFrom(b)
      /\ args \in Seq(Opaque \cup OwnVariables(c))
  <2>1. b \in 1..(c - 1) /\ args \in Seq(Opaque \cup OwnVariables(c))
    BY ProperBase
  <2> QED
    BY <2>1, VariableFacts DEF UpFrom
<1>3. /\ own \subseteq UpFrom(b)
      /\ \A v \in own : v.root[1] = b /\ v.root[2] \in DOMAIN args
  BY <1>2, VariableFacts DEF UpFrom
<1>4. \A i \in DOMAIN args :
        /\ args[i] \in Opaque \cup OwnVariables(c)
        /\ SubstituteTypeVars(args[i], bindings) = Resolve(args[i], bindings)
  BY <1>1, <1>2, Substitutes
<1>5. OwnVariables(c) \subseteq UpFrom(c)
  BY DEF OwnVariables, UpFrom, Variables
<1>6. \A v \in UpFrom(c) : v \notin own /\ v.root[1] >= c
  BY <1>2, <1>3, VariableFacts DEF UpFrom
<1>7. \A type \in Opaque : type \notin own /\ type \notin DOMAIN bindings
  BY <1>1, <1>3, VariableFacts DEF UpFrom
<1>8. \A i \in DOMAIN args :
        Resolve(args[i], bindings) \in (Opaque \cup UpFrom(c)) \ DOMAIN bindings
  BY <1>1, <1>4, <1>5, <1>7 DEF Resolve
<1>9. inner = [v \in DOMAIN bindings \cup own |->
                 IF v \in own THEN Resolve(args[v.root[2]], bindings) ELSE bindings[v]]
  <2>1. \A v \in own : SubstituteTypeVars(args[v.root[2]], bindings) = Resolve(args[v.root[2]], bindings)
    BY <1>3, <1>4
  <2> QED
    BY <2>1 DEF Inner, Bound
<1> HIDE DEF own, inner, b, args
<1>10. /\ DOMAIN inner = DOMAIN bindings \cup own
       /\ \A v \in DOMAIN inner : inner[v] \in (Opaque \cup UpFrom(c)) \ DOMAIN inner
  BY <1>1, <1>3, <1>6, <1>7, <1>8, <1>9
<1>11. inner \in Bindings(b)
  <2>1. inner \in [DOMAIN inner -> Opaque \cup Variables]
    BY <1>9, <1>10 DEF UpFrom
  <2>2. DOMAIN inner \subseteq UpFrom(b)
    BY <1>1, <1>2, <1>3, <1>10
  <2>3. \A v \in DOMAIN inner : inner[v] \in (Opaque \cup UpFrom(b)) \ DOMAIN inner
    BY <1>2, <1>10
  <2>4. DOMAIN inner \in SUBSET Variables
    BY <2>2 DEF UpFrom
  <2> QED
    BY <2>1, <2>2, <2>3, <2>4 DEF Bindings, AnyBindings
<1>12. Diverges \notin Range(inner)
  BY <1>10, VariableFacts DEF Range, UpFrom
<1>13. Resolve(Said(mean, base), bindings) = Resolve(mean, inner)
  <2>1. CASE mean \in own
    <3>1. Said(mean, base) = args[mean.root[2]]
      BY <2>1 DEF Said, own, b, args
    <3> QED
      BY <2>1, <3>1, <1>9 DEF Resolve
  <2>2. CASE mean \notin own
    <3>1. Said(mean, base) = mean
      BY <2>2 DEF Said, own, b, args
    <3>2. mean \notin DOMAIN bindings
      <4>1. mean \in Variables => mean.root[1] \in Nat /\ mean.root[1] < c
        BY <1>2, VariableFacts DEF b
      <4> QED
        BY <1>1, <1>2, <4>1, VariableFacts DEF UpFrom
    <3> QED
      BY <2>2, <3>1, <3>2, <1>10 DEF Resolve
  <2> QED
    BY <2>1, <2>2
<1> QED
  BY <1>11, <1>12, <1>13 DEF inner, b

LEMMA SearchInitially == SearchInit => SearchInv
<1> SUFFICES ASSUME SearchInit
             PROVE  SearchInv
  OBVIOUS
<1>1. TargetVar \in Variables /\ TargetVar.root[1] = Target /\ TargetVar \in Annotations
      /\ TargetVar # Missing
  BY VariableFacts
<1>2. Hierarchy
  <2>1. \A S : <<>> \in Seq(S)
    OBVIOUS
  <2>2. [parameters |-> 1, bases |-> <<>>, above |-> {}] \in ClassRecords
    BY <2>1 DEF ClassRecords
  <2>3. DOMAIN classes = {Target} /\ classes[Target].bases = <<>> /\ Len(classes) = 1
    BY DEF SearchInit, Target
  <2>4. classes \in Seq(ClassRecords)
    BY <2>2 DEF SearchInit
  <2>5. \A c \in DOMAIN classes : classes[c].bases \in Seq(ProperBases(c))
    BY <2>1, <2>3
  <2> QED
    BY <2>3, <2>4, <2>5 DEF Hierarchy
<1>3. Meanings
  BY <1>1 DEF SearchInit, Meanings, Target
<1>5. Agreement
  BY <1>1 DEF SearchInit, Agreement, Agree
<1>4. calls \in Seq(CallRecords) /\ DOMAIN calls = {} /\ Len(classes) = 1
  BY DEF SearchInit
<1> QED
  BY <1>2, <1>3, <1>5, <1>4 DEF SearchInv, SearchInit, AsWritten

\* While no class is defined, the hierarchy and what it says stand.
LEMMA HierarchyStands ==
  ASSUME Hierarchy, Meanings, Agreement, UNCHANGED <<classes, means, written>>
  PROVE  Hierarchy' /\ Meanings' /\ Agreement'
<1>1. classes' = classes /\ written' = written /\ means' = means
  OBVIOUS
<1>2. Hierarchy'
  BY <1>1 DEF Hierarchy
<1>3. \A base : SaysNothing(base)' <=> SaysNothing(base)
  BY <1>1 DEF SaysNothing
<1>4. Meanings'
  BY <1>1, <1>3 DEF Meanings, FirstCounts
<1>5. Agreement'
  BY <1>1 DEF Agreement, Agree
<1> QED
  BY <1>2, <1>4, <1>5

\* Numbers of classes and of bases are natural.
LEMMA Numbers ==
  ASSUME Hierarchy
  PROVE  /\ DOMAIN classes = 1..Len(classes) /\ Len(classes) \in Nat
         /\ \A c \in DOMAIN classes :
              /\ classes[c] \in ClassRecords /\ Len(classes[c].bases) \in Nat
              /\ DOMAIN classes[c].bases = 1..Len(classes[c].bases)
<1>1. classes \in Seq(ClassRecords)
  BY DEF Hierarchy
<1>2. \A c \in DOMAIN classes :
        classes[c] \in ClassRecords /\ classes[c].bases \in Seq(ProperBases(c))
  BY <1>1 DEF Hierarchy
<1> QED
  BY <1>1, <1>2

\* The innermost call.
LEMMA InnermostProper ==
  ASSUME SearchInv, calls # <<>>
  PROVE  /\ Len(calls) \in DOMAIN calls /\ Last(calls) = calls[Len(calls)]
         /\ Last(calls) \in CallRecords /\ CallProper(Len(calls))
<1>1. Len(calls) \in DOMAIN calls
  BY DEF SearchInv
<1> QED
  BY <1>1 DEF SearchInv, Last

LEMMA SearchKept ==
  ASSUME SearchInv, Search
  PROVE  SearchInv'
<1>1. Hierarchy' /\ Meanings' /\ Agreement'
  BY HierarchyStands DEF SearchInv, Search
<1>2. <<>> \in AnyBindings /\ DOMAIN <<>> = {}
  <2>1. <<>> \in [{} -> Opaque \cup Variables]
    OBVIOUS
  <2> QED
    BY <2>1 DEF AnyBindings
<1>3. searched' \in DOMAIN classes /\ searched' \in 1..Len(classes) /\ Len(classes) \in Nat
  BY Numbers DEF SearchInv, Search
<1>4. Call(searched', <<>>) \in CallRecords
  BY <1>2, <1>3 DEF Call, CallRecords
<1>5. calls' \in Seq(CallRecords) /\ calls' = <<Call(searched', <<>>)>> /\ DOMAIN calls' = {1}
  BY <1>4 DEF Search
<1>6. CallProper(1)'
  <2>1. calls'[1] = [class |-> searched', bindings |-> <<>>, next |-> 1]
    BY <1>5 DEF Call
  <2>2. <<>> \in Bindings(searched')
    BY <1>2 DEF Bindings
  <2>3. \A mean : Resolve(mean, <<>>) = mean
    BY <1>2 DEF Resolve
  <2>4. \A i \in DOMAIN classes'[searched'].bases : ~(i < 1)
    BY <1>3, Numbers DEF Search, SearchInv
  <2> QED
    BY <1>3, <2>1, <2>2, <2>3, <2>4 DEF CallProper, Search
<1>7. searched' \in 0..Len(classes') /\ result' = Missing /\ calls' # <<>>
  BY <1>3, <1>5 DEF Search
<1>8. searched' \in DOMAIN classes'
  BY <1>3 DEF Search
<1> QED
  BY <1>1, <1>5, <1>6, <1>7, <1>8 DEF SearchInv, AsWritten

\* The target's parameter is resolved where the target is reached.
LEMMA FoundKept ==
  ASSUME SearchInv, Found
  PROVE  SearchInv'
<1>1. Hierarchy' /\ Meanings' /\ Agreement'
  BY HierarchyStands DEF SearchInv, Found
<1>2. calls' = <<>> /\ calls' \in Seq(CallRecords) /\ DOMAIN calls' = {}
  BY DEF Found
<1>3. searched \in DOMAIN classes /\ searched' = searched /\ classes' = classes /\ written' = written
  BY DEF SearchInv, Found
<1>4. result' = written[searched]
  <2> DEFINE call == Last(calls)
  <2>1. /\ call.class = Target /\ call.bindings \in Bindings(Target)
        /\ written[Target] # Missing => written[searched] = Resolve(written[Target], call.bindings)
    BY InnermostProper DEF CallProper, Found
  <2>2. written[Target] = TargetVar /\ TargetVar # Missing
    BY VariableFacts DEF SearchInv, Meanings
  <2>3. SubstituteTypeVars(TargetVar, call.bindings) = Resolve(TargetVar, call.bindings)
    <3>1. \A v \in DOMAIN call.bindings : call.bindings[v] \notin DOMAIN call.bindings
      BY <2>1 DEF Bindings
    <3> QED
      BY <3>1, Substitutes
  <2> QED
    BY <2>1, <2>2, <2>3 DEF Found
<1> QED
  BY <1>1, <1>2, <1>3, <1>4 DEF SearchInv, AsWritten

\* A call does not change with the calls made after it.
LEMMA CallStands ==
  ASSUME NEW k \in DOMAIN calls, CallProper(k), UNCHANGED <<classes, means, written, searched>>,
         k \in DOMAIN calls', calls'[k] = calls[k], k > 1 => calls'[k - 1] = calls[k - 1]
  PROVE  CallProper(k)'
<1>1. \A base : SaysNothing(base)' <=> SaysNothing(base)
  BY DEF SaysNothing
<1> QED
  BY <1>1 DEF CallProper

\* A call and the base it has come to.
LEMMA NextBase ==
  ASSUME SearchInv, calls # <<>>,
         Last(calls).next \in DOMAIN classes[Last(calls).class].bases
  PROVE  LET c == Last(calls).class
             base == classes[c].bases[Last(calls).next]
         IN /\ c \in Nat /\ c # Target /\ base.class \in DOMAIN classes
            /\ base \in ProperBases(c)
<1> DEFINE c == Last(calls).class
           i == Last(calls).next
           base == classes[c].bases[i]
<1>1. c \in DOMAIN classes /\ i \in DOMAIN classes[c].bases
  BY InnermostProper DEF CallProper
<1>2. c \in Nat /\ c \in 1..Len(classes)
  BY <1>1, Numbers DEF SearchInv
<1>3. base \in ProperBases(c)
  BY <1>1 DEF SearchInv, Hierarchy
<1>4. base.class \in 1..(c - 1)
  BY <1>2, <1>3, ProperBase
<1>5. DOMAIN classes = 1..Len(classes) /\ Len(classes) \in Nat
  BY Numbers DEF SearchInv
<1> HIDE DEF base
<1>6. c \in Nat /\ c # Target /\ base.class \in DOMAIN classes
  BY <1>2, <1>4, <1>5 DEF Target
<1> QED
  BY <1>3, <1>6 DEF base

\* The bases before the first that says something do not count.
LEMMA FirstSays ==
  ASSUME Hierarchy, Meanings, NEW c \in DOMAIN classes \ {Target},
         NEW i \in DOMAIN classes[c].bases, ~SaysNothing(classes[c].bases[i]),
         \A j \in DOMAIN classes[c].bases : j < i => SaysNothing(classes[c].bases[j])
  PROVE  written[c] = Said(written[classes[c].bases[i].class], classes[c].bases[i])
<1> DEFINE bases == classes[c].bases
<1>1. PICK first \in DOMAIN bases :
        /\ ~SaysNothing(bases[first])
        /\ \A j \in 1..(first - 1) : SaysNothing(bases[j])
        /\ written[c] = Said(written[bases[first].class], bases[first])
  BY DEF Meanings, FirstCounts
<1>2. DOMAIN bases = 1..Len(bases) /\ Len(bases) \in Nat
  BY Numbers
<1>3. ~(first < i)
  BY <1>1
<1>4. ~(i < first)
  BY <1>1, <1>2
<1>5. first = i
  BY <1>2, <1>3, <1>4
<1> QED
  BY <1>1, <1>5

\* What is said is a type or a variable.
LEMMA SaidIsSaid ==
  ASSUME NEW c \in Nat, NEW base \in ProperBases(c),
         NEW mean \in Opaque \cup Variables
  PROVE  /\ Said(mean, base) \in Opaque \cup Variables
         /\ (mean \in Variables => mean.root[1] <= base.class) /\ Said(mean, base) \in Variables
              => Said(mean, base).root[1] <= c
<1>1. base.class \in 1..(c - 1) /\ base.args \in Seq(Opaque \cup OwnVariables(c))
  BY ProperBase
<1>2. \A i \in DOMAIN base.args : base.args[i] \in Opaque \cup OwnVariables(c)
  BY <1>1
<1>3. CASE mean \in ParametersOf(base.class, Len(base.args))
  <2>1. mean.root[2] \in DOMAIN base.args
    <3>1. base.class \in Nat /\ Len(base.args) \in Nat /\ DOMAIN base.args = 1..Len(base.args)
      BY <1>1
    <3> QED
      BY <1>3, <3>1, VariableFacts
  <2>2. Said(mean, base) \in Opaque \cup OwnVariables(c)
    BY <1>2, <1>3, <2>1 DEF Said
  <2> QED
    BY <2>2, VariableFacts DEF OwnVariables
<1>4. CASE mean \notin ParametersOf(base.class, Len(base.args))
  <2>1. Said(mean, base) = mean /\ base.class <= c /\ base.class \in Nat
    BY <1>1, <1>4 DEF Said
  <2> QED
    BY <2>1, VariableFacts
<1> QED
  BY <1>3, <1>4

\* What the call's class says is what the base it descends to says.
LEMMA DescendKept ==
  ASSUME SearchInv, Descend
  PROVE  SearchInv'
<1> DEFINE n == Len(calls)
           call == Last(calls)
           c == call.class
           base == classes[c].bases[call.next]
           inner == Inner(base, call.bindings)
<1>1. Hierarchy' /\ Meanings' /\ Agreement'
  BY HierarchyStands DEF SearchInv, Descend
<1>2. /\ n \in DOMAIN calls /\ call = calls[n] /\ call \in CallRecords /\ CallProper(n)
      /\ n \in Nat \ {0} /\ DOMAIN calls = 1..n
  BY InnermostProper DEF Descend, SearchInv
<1>3. /\ c \in Nat /\ c # Target /\ base.class \in DOMAIN classes
      /\ base \in ProperBases(c)
      /\ call.next \in DOMAIN classes[c].bases
  BY NextBase DEF Descend
<1>4. call.bindings \in Bindings(c)
  BY <1>2 DEF CallProper
<1>5. TargetVar \in Opaque \cup Variables /\ (TargetVar \in Variables => TargetVar.root[1] <= base.class)
  <2>1. base.class \in 1..(c - 1)
    BY <1>3, ProperBase
  <2> QED
    BY <1>3, <2>1, VariableFacts DEF Target
<1> HIDE DEF base, inner, n, c
<1>6. inner \in Bindings(base.class) /\ Diverges \notin Range(inner)
  BY <1>3, <1>4, <1>5, InnerResolves DEF inner
<1>7. calls' = Append(calls, Call(base.class, inner)) /\ result' = result
  BY <1>6 DEF Descend, inner, base, c
<1>8. Call(base.class, inner) \in CallRecords
  <2>1. base.class \in Nat /\ inner \in AnyBindings
    BY <1>3, <1>6, Numbers DEF Bindings, SearchInv
  <2> QED
    BY <2>1 DEF Call, CallRecords
<1>9. /\ calls' \in Seq(CallRecords) /\ Len(calls') = n + 1 /\ DOMAIN calls' = 1..(n + 1)
      /\ calls'[n + 1] = Call(base.class, inner)
      /\ \A k \in 1..n : calls'[k] = calls[k]
  BY <1>2, <1>7, <1>8 DEF SearchInv, n
<1>10. UNCHANGED <<classes, means, written, searched>>
  BY DEF Descend
<1>11. ASSUME NEW k \in DOMAIN calls'
       PROVE  CallProper(k)'
  <2>1. CASE k \in 1..n
    BY <1>2, <1>9, <1>10, <2>1, CallStands DEF SearchInv
  <2>2. CASE k = n + 1
    <3>1. /\ calls'[k].class = base.class /\ calls'[k].bindings = inner /\ calls'[k].next = 1
          /\ calls'[k - 1] = call /\ k # 1
      BY <1>2, <1>9, <2>2 DEF Call
    <3>2. written[base.class] # Missing => written[searched] = Resolve(written[base.class], inner)
      <4> SUFFICES ASSUME written[base.class] # Missing
                   PROVE  written[searched] = Resolve(written[base.class], inner)
        OBVIOUS
      <4>1. /\ written[base.class] \in Opaque \cup Variables
            /\ written[base.class] \in Variables => written[base.class].root[1] <= base.class
        BY <1>3 DEF SearchInv, Meanings
      <4>2. Resolve(Said(written[base.class], base), call.bindings) = Resolve(written[base.class], inner)
        BY <1>3, <1>4, <4>1, InnerResolves DEF inner
      <4>3. written[c] = Said(written[base.class], base)
        <5>1. c \in DOMAIN classes \ {Target} /\ call.next \in DOMAIN classes[c].bases
          BY <1>2, <1>3 DEF CallProper, c
        <5>2. \A j \in DOMAIN classes[c].bases :
                j < call.next => SaysNothing(classes[c].bases[j])
          BY <1>2 DEF CallProper, c
        <5>3. ~SaysNothing(classes[c].bases[call.next])
          BY DEF SaysNothing, base
        <5> HIDE DEF call
        <5> QED
          BY <5>1, <5>2, <5>3, FirstSays DEF SearchInv, base
      <4>4. written[c] # Missing
        BY <4>1, <4>3, <1>3, SaidIsSaid, VariableFacts
      <4> QED
        BY <1>2, <4>2, <4>3, <4>4 DEF CallProper, c
    <3>3. \A i \in DOMAIN classes[base.class].bases : ~(i < 1)
      BY <1>3, Numbers DEF SearchInv
    <3> QED
      BY <1>3, <1>6, <1>10, <3>1, <3>2, <3>3 DEF CallProper, base, c
  <2> QED
    BY <1>2, <1>9, <2>1, <2>2
<1>12. result' = Missing /\ searched' \in DOMAIN classes' /\ searched' \in 0..Len(classes') /\ calls' # <<>>
  BY <1>7, <1>9, <1>2, <1>10 DEF SearchInv, Descend
<1> QED
  BY <1>1, <1>9, <1>11, <1>12 DEF SearchInv, AsWritten

\* A class whose bases all say nothing says nothing itself.
LEMMA BacktrackKept ==
  ASSUME SearchInv, Backtrack
  PROVE  SearchInv'
<1> DEFINE n == Len(calls)
           call == Last(calls)
           bases == classes[call.class].bases
<1>1. Hierarchy' /\ Meanings' /\ Agreement'
  BY HierarchyStands DEF SearchInv, Backtrack
<1>2. /\ n \in DOMAIN calls /\ call = calls[n] /\ call \in CallRecords /\ CallProper(n)
      /\ n \in Nat \ {0} /\ DOMAIN calls = 1..n
  BY InnermostProper DEF Backtrack, SearchInv
<1>3. UNCHANGED <<classes, means, written, searched, result>>
  BY DEF Backtrack
<1> HIDE DEF n, call
<1>4. call.class \in DOMAIN classes \ {Target} /\ call.next \notin DOMAIN bases
  BY <1>2 DEF CallProper, Backtrack, call
<1>5. written[call.class] = Missing
  <2>1. \A i \in DOMAIN bases : i < call.next
    BY <1>2, <1>4, Numbers DEF CallRecords, SearchInv
  <2>2. \A i \in DOMAIN bases : SaysNothing(bases[i])
    BY <1>2, <2>1 DEF CallProper
  <2> QED
    BY <1>4, <2>2 DEF SearchInv, Meanings, FirstCounts
<1>6. calls' = [i \in 1..(n - 1) |->
                  IF i = n - 1 THEN [calls[i] EXCEPT !.next = @ + 1] ELSE calls[i]]
  BY DEF Backtrack, n
<1>7. \A i \in 1..n : calls[i] \in CallRecords
  BY <1>2 DEF SearchInv
<1>8. ASSUME NEW k \in 1..(n - 1)
      PROVE  /\ calls'[k] \in CallRecords
             /\ calls'[k].class = calls[k].class /\ calls'[k].bindings = calls[k].bindings
             /\ calls'[k].next = IF k = n - 1 THEN calls[k].next + 1 ELSE calls[k].next
             /\ k # n - 1 => calls'[k] = calls[k]
  <2>1. calls[k] \in CallRecords
    BY <1>2, <1>7
  <2> QED
    BY <1>6, <2>1 DEF CallRecords
<1>9. calls' \in Seq(CallRecords) /\ DOMAIN calls' = 1..(n - 1)
  <2>1. n - 1 \in Nat /\ calls' \in [1..(n - 1) -> CallRecords]
    BY <1>2, <1>6, <1>8
  <2> QED
    BY <2>1
<1>10. ASSUME NEW k \in DOMAIN calls'
       PROVE  CallProper(k)'
  <2>1. CallProper(k) /\ k \in 1..(n - 1)
    BY <1>2, <1>9 DEF SearchInv
  <2>2. CASE k # n - 1
    BY <1>2, <1>3, <1>8, <1>9, <2>1, <2>2, CallStands
  <2>3. CASE k = n - 1
    <3> DEFINE theirs == classes[calls[k].class].bases
    <3>1. n > 1 /\ n - 1 = k /\ calls[k].next \in DOMAIN theirs
          /\ call.class = theirs[calls[k].next].class
      BY <1>2, <2>1, <2>3 DEF CallProper
    <3>2. \A i \in DOMAIN theirs : i < calls[k].next + 1 => SaysNothing(theirs[i])
      <4>1. \A i \in DOMAIN theirs : i < calls[k].next => SaysNothing(theirs[i])
        BY <2>1 DEF CallProper
      <4>2. SaysNothing(theirs[calls[k].next])
        BY <1>5, <3>1 DEF SaysNothing
      <4>3. calls[k].class \in DOMAIN classes /\ calls[k].next \in Nat
        BY <1>2, <1>7, <2>1 DEF CallProper, CallRecords
      <4>4. \A i \in DOMAIN theirs : i \in Nat
        <5>1. Hierarchy
          BY DEF SearchInv
        <5>2. DOMAIN theirs = 1..Len(theirs) /\ Len(theirs) \in Nat
          BY <4>3, <5>1, Numbers
        <5> QED
          BY <5>2
      <4>5. \A i \in DOMAIN theirs :
              i < calls[k].next + 1 => i < calls[k].next \/ i = calls[k].next
        BY <4>3, <4>4
      <4> QED
        BY <4>1, <4>2, <4>5
    <3>3. \A base : SaysNothing(base)' <=> SaysNothing(base)
      BY <1>3 DEF SaysNothing
    <3>4. k > 1 => calls'[k - 1] = calls[k - 1]
      BY <1>8, <2>1, <2>3
    <3> QED
      BY <1>3, <1>8, <2>1, <2>3, <3>2, <3>3, <3>4 DEF CallProper
  <2> QED
    BY <2>2, <2>3
<1>11. calls' = <<>> => result' = written'[searched']
  BY <1>2, <1>3, <1>5, <1>9 DEF CallProper, SearchInv, call
<1> QED
  BY <1>1, <1>2, <1>3, <1>9, <1>10, <1>11 DEF SearchInv, AsWritten, Backtrack

LEMMA LeastNumber ==
  ASSUME NEW S \in SUBSET Nat, S # {}
  PROVE  \E m \in S : \A x \in S : m <= x
<1> DEFINE below == OpToRel(<, Nat)
<1>1. \A x, y \in Nat : x < y => <<x, y>> \in below
  BY SMT DEF OpToRel
<1>2. IsWellFoundedOn(below, Nat)
  BY NatLessThanWellFounded, Zenon
<1> HIDE DEF below
<1>3. PICK m \in S : \A x \in S : <<x, m>> \notin below
  BY <1>2, WFMin, Zenon
<1>4. \A x \in S : x \in Nat /\ m \in Nat /\ ~(x < m)
  BY <1>1, <1>3
<1> QED
  BY <1>4

\* A class defined says what the first of its bases that says something says.
LEMMA DeclaredByFirst ==
  ASSUME NEW bases, NEW n \in Nat, DOMAIN bases = 1..n,
         \A i \in DOMAIN bases : Agree(bases[i].class)
  PROVE  \/ /\ Written(bases) = Missing /\ Declared(bases) = Missing
            /\ \A i \in DOMAIN bases : SaysNothing(bases[i])
         \/ \E i \in DOMAIN bases :
              /\ ~SaysNothing(bases[i]) /\ \A j \in 1..(i - 1) : SaysNothing(bases[j])
              /\ Written(bases) = Said(written[bases[i].class], bases[i])
              /\ Declared(bases) = SaidWithin(means[bases[i].class], bases[i])
<1> DEFINE leads == Leading(bases)
           first == First(bases)
<1>1. leads = {i \in DOMAIN bases : ~SaysNothing(bases[i])}
  BY DEF Leading, SaysNothing, Agree
<1>2. CASE leads = {}
  BY <1>1, <1>2 DEF Declared, Written
<1>3. CASE leads # {}
  <2>1. \E i \in leads : \A j \in leads : i <= j
    <3>1. leads \in SUBSET Nat
      BY <1>1
    <3> HIDE DEF leads
    <3> QED
      BY <1>3, <3>1, LeastNumber
  <2>2. first \in leads /\ \A j \in leads : first <= j
    BY <2>1 DEF First
  <2>3. /\ Written(bases) = Said(written[bases[first].class], bases[first])
        /\ Declared(bases) = SaidWithin(means[bases[first].class], bases[first])
    BY <1>3 DEF Declared, Written
  <2> HIDE DEF first, leads
  <2>4. \A j \in 1..(first - 1) : j \in DOMAIN bases /\ j \notin leads
    BY <1>1, <2>2
  <2>5. ~SaysNothing(bases[first]) /\ \A j \in 1..(first - 1) : SaysNothing(bases[j])
    BY <1>1, <2>2, <2>4
  <2> QED
    BY <1>1, <2>2, <2>3, <2>5
<1> QED
  BY <1>2, <1>3

\* Only an argument that contains a variable is not resolved.
LEMMA SaidAgrees ==
  ASSUME NEW c \in Nat, NEW base \in ProperBases(c),
         NEW text \in Annotations, NEW mean \in Annotations, mean # text => Nests(text)
  PROVE  LET said == Said(text, base)
             meant == SaidWithin(mean, base)
         IN meant \in Annotations /\ (meant # said => Nests(said))
<1> DEFINE own == ParametersOf(base.class, Len(base.args))
<1>1. /\ base.class \in Nat /\ base.args \in Seq(Annotations)
      /\ \A i \in DOMAIN base.args : base.args[i] \in Annotations
  <2>1. base.class \in 1..(c - 1) /\ base.args \in Seq(Opaque \cup OwnVariables(c))
    BY ProperBase
  <2>2. Opaque \cup OwnVariables(c) \subseteq Annotations
    BY VariableFacts DEF OwnVariables
  <2> QED
    BY <2>1, <2>2
<1>2. \A a \in own : a \in Variables /\ a.around = 0 /\ a.root \in Names /\ a.root[2] \in DOMAIN base.args
  BY <1>1, VariableFacts
<1>3. ASSUME NEW a \in Annotations
      PROVE  /\ a.around \in Nat /\ a.root \in Types \cup Names
             /\ a = [around |-> a.around, root |-> a.root]
             /\ Plain(a.root) = [around |-> 0, root |-> a.root] /\ Plain(a.root) \in Annotations
  BY DEF Annotations, Plain
<1>4. ASSUME NEW a \in Annotations
      PROVE  Said(a, base) \in Annotations
  BY <1>1, <1>2 DEF Said
<1> HIDE DEF own
<1>5. ASSUME NEW a \in Annotations
      PROVE  /\ SaidWithin(a, base) = [around |-> Said(Plain(a.root), base).around + a.around,
                                       root |-> Said(Plain(a.root), base).root]
             /\ SaidWithin(a, base) \in Annotations
  <2> DEFINE given == Said(Plain(a.root), base)
  <2>1. given \in Annotations /\ given = [around |-> given.around, root |-> given.root]
        /\ given.around \in Nat /\ given.root \in Types \cup Names /\ a.around \in Nat
    BY <1>3, <1>4
  <2>2. SaidWithin(a, base) = [given EXCEPT !.around = @ + a.around]
    BY DEF SaidWithin
  <2> HIDE DEF given
  <2>3. SaidWithin(a, base) = [around |-> given.around + a.around, root |-> given.root]
    BY <2>1, <2>2
  <2>4. given.around + a.around \in Nat
    BY <2>1
  <2>5. SaidWithin(a, base) \in Annotations
    BY <2>1, <2>3, <2>4 DEF Annotations
  <2> QED
    BY <2>3, <2>5 DEF given
<1>6. CASE Nests(text)
  <2>1. text \notin own
    BY <1>2, <1>6 DEF Nests
  <2>2. Said(text, base) = text
    BY <2>1 DEF Said, own
  <2> QED
    BY <1>5, <1>6, <2>2
<1>7. CASE ~Nests(text) /\ text.around = 0
  <2>1. Plain(text.root) = text /\ mean = text
    BY <1>3, <1>7
  <2>2. Said(text, base) \in Annotations
    BY <1>4
  <2>3. SaidWithin(text, base) = Said(text, base)
    <3> DEFINE given == Said(text, base)
    <3>1. /\ SaidWithin(text, base) = [around |-> given.around + text.around, root |-> given.root]
          /\ given.around \in Nat /\ given = [around |-> given.around, root |-> given.root]
      BY <1>3, <1>5, <2>1, <2>2
    <3> HIDE DEF given
    <3>2. given.around + text.around = given.around
      BY <1>7, <3>1
    <3> QED
      BY <3>1, <3>2 DEF given
  <2> QED
    BY <2>1, <2>2, <2>3
<1>8. CASE ~Nests(text) /\ text.around # 0
  <2>1. mean = text /\ text.root \notin Names
    <3>1. text.around \in Nat
      BY <1>3
    <3>2. text.around > 0
      BY <1>8, <3>1
    <3> QED
      BY <1>8, <3>2 DEF Nests
  <2>2. text \notin own /\ Plain(text.root) \notin own
    BY <1>2, <1>3, <1>8, <2>1
  <2>3. Said(text, base) = text /\ Said(Plain(text.root), base) = Plain(text.root)
    BY <2>2 DEF Said, own
  <2>4. SaidWithin(text, base) = text
    <3>1. /\ text.around \in Nat /\ text = [around |-> text.around, root |-> text.root]
      BY <1>3
    <3>4. Plain(text.root).around = 0 /\ Plain(text.root).root = text.root
      BY DEF Plain
    <3>2. SaidWithin(text, base) = [around |-> 0 + text.around, root |-> text.root]
      BY <1>5, <2>3, <3>4
    <3>3. 0 + text.around = text.around
      BY <3>1
    <3> QED
      BY <3>1, <3>2, <3>3
  <2> QED
    BY <2>1, <2>3, <2>4
<1> QED
  BY <1>6, <1>7, <1>8

\* A class defined refers to classes that stand, in its own variables.
LEMMA DefineKept ==
  ASSUME SearchInv, Define
  PROVE  SearchInv'
<1> DEFINE n == Len(classes)
<1>1. PICK count \in 0..MaxParameters[n + 1], number \in 0..MaxBases[n + 1] :
        \E bases \in [1..number -> BasesFor(ParametersOf(n + 1, count))] :
          /\ classes' = Append(classes,
               [parameters |-> count, bases |-> bases,
                above |-> UNION {{base.class} \cup classes[base.class].above : base \in ToSet(bases)}])
          /\ means' = Append(means, Declared(bases))
          /\ written' = Append(written, Written(bases))
  BY Zenon DEF Define
<1> DEFINE parameters == ParametersOf(n + 1, count)
           class(bases) == [parameters |-> count, bases |-> bases,
             above |-> UNION {{base.class} \cup classes[base.class].above : base \in ToSet(bases)}]
<1>2. PICK bases \in [1..number -> BasesFor(parameters)] :
        /\ classes' = Append(classes, class(bases))
        /\ means' = Append(means, Declared(bases)) /\ written' = Append(written, Written(bases))
  BY <1>1
<1>a. count \in Nat /\ number \in Nat
  <2>1. n + 1 \in 1..MaxClasses
    BY Numbers, GenericConstantsOK DEF Define, SearchInv
  <2>2. MaxParameters[n + 1] \in Nat /\ MaxBases[n + 1] \in Nat
    BY <2>1, GenericConstantsOK
  <2> QED
    BY <2>2
<1>3. n \in Nat /\ n >= 1 /\ DOMAIN classes = 1..n /\ classes \in Seq(ClassRecords)
  BY Numbers DEF SearchInv, Hierarchy
<1>4. parameters \subseteq OwnVariables(n + 1)
  BY <1>3, <1>a, VariableFacts DEF OwnVariables
<1>5. ASSUME NEW base \in BasesFor(parameters)
      PROVE  base \in ProperBases(n + 1)
  <2> DEFINE arguments == {Plain(type) : type \in Types} \cup parameters \cup {Applied(v) : v \in parameters}
  <2>1. PICK of \in DOMAIN classes :
          base \in [class : {of}, args : {<<>>} \cup [1..classes[of].parameters -> arguments]]
    BY DEF BasesFor
  <2>2. classes[of].parameters \in Nat /\ of \in 1..n
    BY <1>3, Numbers DEF ClassRecords, SearchInv
  <2>a. arguments \subseteq Opaque \cup OwnVariables(n + 1)
    <3>1. \A type \in Types : Plain(type) \in Opaque
      BY GenericConstantsOK DEF Plain, Opaque, Annotations, Variables
    <3>2. ASSUME NEW v \in parameters
          PROVE  Applied(v) \in Opaque
      <4>1. v \in Variables /\ v = [around |-> 0, root |-> v.root] /\ v.root \in Names
        BY <1>4 DEF OwnVariables, Variables
      <4>2. Applied(v) = [around |-> 1, root |-> v.root]
        BY <4>1 DEF Applied
      <4> QED
        BY <4>1, <4>2 DEF Opaque, Annotations, Variables
    <3> QED
      BY <1>4, <3>1, <3>2
  <2> HIDE DEF arguments
  <2>3. ASSUME NEW args \in {<<>>} \cup [1..classes[of].parameters -> arguments]
        PROVE  args \in Seq(Opaque \cup OwnVariables(n + 1))
    <3>1. CASE args = <<>>
      BY <3>1
    <3>2. CASE args \in [1..classes[of].parameters -> arguments]
      BY <2>2, <2>a, <3>2
    <3> QED
      BY <3>1, <3>2
  <2>4. base = [class |-> of, args |-> base.args] /\ base.args \in Seq(Opaque \cup OwnVariables(n + 1))
    BY <2>1, <2>3
  <2>5. of \in 1..((n + 1) - 1)
    BY <1>3, <2>2
  <2> QED
    BY <2>4, <2>5 DEF ProperBases
<1>6. bases \in Seq(ProperBases(n + 1))
  <2> HIDE DEF parameters
  <2> QED
    BY <1>2, <1>a, <1>5
<1>7. Len(bases) \in Nat /\ DOMAIN bases = 1..Len(bases)
  BY <1>6
<1> HIDE DEF n, parameters
<1>8. /\ Len(classes') = n + 1 /\ DOMAIN classes' = 1..(n + 1) /\ classes'[n + 1] = class(bases)
      /\ \A c \in 1..n : classes'[c] = classes[c]
  <2> HIDE DEF class
  <2> QED
    BY <1>2, <1>3 DEF n
<1>9. Len(written) = n /\ written \in Seq({Missing} \cup Opaque \cup Variables)
  BY DEF SearchInv, Meanings, n
<1>10. /\ Len(written') = n + 1 /\ written'[n + 1] = Written(bases)
       /\ \A c \in 1..n : written'[c] = written[c] /\ written[c] \in {Missing} \cup Opaque \cup Variables
  <2>1. \A c \in 1..n : written[c] \in {Missing} \cup Opaque \cup Variables
    BY <1>9
  <2>2. Len(written') = n + 1 /\ written'[n + 1] = Written(bases)
    BY <1>2, <1>9
  <2>3. \A c \in 1..n : written'[c] = written[c]
    BY <1>2, <1>3, <1>9
  <2> QED
    BY <2>1, <2>2, <2>3
<1>11. /\ bases \in Seq(BaseRecords)
       /\ \A i \in DOMAIN bases : bases[i] \in ProperBases(n + 1) /\ bases[i].class \in 1..n
  <2>1. \A i \in DOMAIN bases : bases[i] \in ProperBases(n + 1)
    BY <1>6
  <2>2. ASSUME NEW i \in DOMAIN bases
        PROVE  bases[i] \in BaseRecords /\ bases[i].class \in 1..n
    <3>1. n + 1 \in Nat /\ bases[i] \in ProperBases(n + 1)
      BY <1>3, <2>1
    <3>2. bases[i] \in BaseRecords /\ bases[i].class \in 1..((n + 1) - 1)
      BY <3>1, ProperBase
    <3> QED
      BY <1>3, <3>2
  <2>3. bases \in Seq(BaseRecords)
    BY <1>6, <1>7, <2>2
  <2> QED
    BY <2>1, <2>2, <2>3
<1>12. class(bases) \in ClassRecords /\ class(bases).bases = bases
  <2>1. UNION {{base.class} \cup classes[base.class].above : base \in ToSet(bases)} \in SUBSET Nat
    <3>1. \A c \in 1..n : classes[c].above \in SUBSET Nat
      BY <1>3, Numbers DEF ClassRecords, SearchInv
    <3> QED
      BY <1>3, <1>11, <3>1 DEF ToSet
  <2> QED
    BY <1>a, <1>11, <2>1 DEF ClassRecords
<1> HIDE DEF class
<1>13. Hierarchy'
  <2>1. classes' \in Seq(ClassRecords) /\ Len(classes') >= 1
    BY <1>2, <1>3, <1>8, <1>12
  <2>2. Target \in 1..n /\ classes[Target].bases = <<>>
    BY <1>3 DEF SearchInv, Hierarchy, Target
  <2>3. ASSUME NEW c \in DOMAIN classes'
        PROVE  classes'[c].bases \in Seq(ProperBases(c))
    <3>1. CASE c \in 1..n
      BY <1>3, <1>8, <3>1 DEF SearchInv, Hierarchy
    <3>2. CASE c = n + 1
      BY <1>6, <1>8, <1>12, <3>2
    <3> QED
      BY <1>3, <1>8, <3>1, <3>2
  <2> QED
    BY <1>8, <2>1, <2>2, <2>3 DEF Hierarchy
<1>14. ASSUME NEW c \in 1..n, NEW i \in DOMAIN classes[c].bases
       PROVE  classes[c].bases[i].class \in 1..n
  <2>1. classes[c].bases[i] \in ProperBases(c) /\ c \in Nat
    BY <1>3 DEF SearchInv, Hierarchy
  <2>2. classes[c].bases[i].class \in 1..(c - 1)
    BY <2>1, ProperBase
  <2> QED
    BY <1>3, <2>2
<1>b. \A i \in DOMAIN bases : Agree(bases[i].class)
  BY <1>3, <1>11 DEF SearchInv, Agreement
<1>15. \/ /\ Written(bases) = Missing /\ Declared(bases) = Missing
          /\ \A i \in DOMAIN bases : SaysNothing(bases[i])
       \/ \E i \in DOMAIN bases :
            /\ ~SaysNothing(bases[i]) /\ \A j \in 1..(i - 1) : SaysNothing(bases[j])
            /\ Written(bases) = Said(written[bases[i].class], bases[i])
            /\ Declared(bases) = SaidWithin(means[bases[i].class], bases[i])
  BY <1>7, <1>b, DeclaredByFirst
<1>16. /\ Written(bases) \in {Missing} \cup Opaque \cup Variables
       /\ Written(bases) \in Variables => Written(bases).root[1] <= n + 1
  <2>1. CASE Written(bases) = Missing
    BY <2>1, VariableFacts
  <2>2. ASSUME NEW i \in DOMAIN bases, ~SaysNothing(bases[i]),
               Written(bases) = Said(written[bases[i].class], bases[i])
        PROVE  <1>16!:
    <3> DEFINE mean == written[bases[i].class]
    <3>1. bases[i] \in ProperBases(n + 1) /\ bases[i].class \in 1..n
      BY <1>11
    <3>2. mean \in Opaque \cup Variables /\ (mean \in Variables => mean.root[1] <= bases[i].class)
      BY <1>3, <1>10, <2>2, <3>1 DEF SaysNothing, SearchInv, Meanings
    <3>3. n + 1 \in Nat
      BY <1>3
    <3> QED
      BY <2>2, <3>1, <3>2, <3>3, SaidIsSaid
  <2> QED
    BY <1>15, <2>1, <2>2
<1>17. Meanings'
  <2>1. written' \in Seq({Missing} \cup Opaque \cup Variables) /\ Len(written') = Len(classes')
    BY <1>2, <1>8, <1>9, <1>10, <1>16
  <2>2. written'[Target] = TargetVar
    BY <1>3, <1>10 DEF SearchInv, Meanings, Target
  <2>3. ASSUME NEW c \in DOMAIN classes', written'[c] \in Variables
        PROVE  written'[c].root[1] <= c
    <3>1. CASE c \in 1..n
      BY <1>3, <1>10, <2>3, <3>1 DEF SearchInv, Meanings
    <3>2. CASE c = n + 1
      BY <1>10, <1>16, <2>3, <3>2
    <3> QED
      BY <1>3, <1>8, <3>1, <3>2
  <2>4. ASSUME NEW c \in DOMAIN classes' \ {Target}
        PROVE  FirstCounts(c)'
    <3>1. CASE c \in 1..n
      <4>1. FirstCounts(c)
        BY <1>3, <3>1 DEF SearchInv, Meanings
      <4>2. classes'[c] = classes[c] /\ written'[c] = written[c]
        BY <1>8, <1>10, <3>1
      <4>3. \A i \in DOMAIN classes[c].bases :
              written'[classes[c].bases[i].class] = written[classes[c].bases[i].class]
        BY <1>10, <1>14, <3>1
      <4>4. \A i \in DOMAIN classes[c].bases : \A j \in 1..(i - 1) : j \in DOMAIN classes[c].bases
        <5>1. /\ DOMAIN classes[c].bases = 1..Len(classes[c].bases)
              /\ Len(classes[c].bases) \in Nat
          BY <1>3, <3>1, Numbers DEF SearchInv
        <5> QED
          BY <5>1
      <4> QED
        BY <4>1, <4>2, <4>3, <4>4 DEF FirstCounts, SaysNothing
    <3>2. CASE c = n + 1
      <4>1. classes'[c].bases = bases /\ written'[c] = Written(bases)
        BY <1>8, <1>10, <1>12, <3>2
      <4>2. \A i \in DOMAIN bases : written'[bases[i].class] = written[bases[i].class]
        BY <1>10, <1>11
      <4>3. \A i \in DOMAIN bases : \A j \in 1..(i - 1) : j \in DOMAIN bases
        BY <1>7
      <4>4. CASE /\ Written(bases) = Missing /\ Declared(bases) = Missing
                 /\ \A i \in DOMAIN bases : SaysNothing(bases[i])
        <5>1. written'[c] = Missing /\ \A i \in DOMAIN bases : written'[bases[i].class] = Missing
          BY <4>1, <4>2, <4>4 DEF SaysNothing
        <5> QED
          BY <4>1, <5>1 DEF FirstCounts, SaysNothing
      <4>5. ASSUME NEW i \in DOMAIN bases, ~SaysNothing(bases[i]),
                   \A j \in 1..(i - 1) : SaysNothing(bases[j]),
                   Written(bases) = Said(written[bases[i].class], bases[i])
            PROVE  FirstCounts(c)'
        <5>1. /\ written'[bases[i].class] # Missing
              /\ \A j \in 1..(i - 1) : written'[bases[j].class] = Missing
          BY <4>2, <4>3, <4>5 DEF SaysNothing
        <5>2. written'[c] = Said(written'[bases[i].class], bases[i])
          BY <4>1, <4>2, <4>5
        <5> QED
          BY <4>1, <5>1, <5>2 DEF FirstCounts, SaysNothing
      <4> QED
        BY <1>15, <4>4, <4>5
    <3> QED
      BY <1>3, <1>8, <3>1, <3>2
  <2> QED
    BY <2>1, <2>2, <2>3, <2>4 DEF Meanings
<1>c. /\ Declared(bases) = Missing <=> Written(bases) = Missing
      /\ Declared(bases) \in {Missing} \cup Annotations
      /\ Written(bases) # Missing => (Declared(bases) # Written(bases) => Nests(Written(bases)))
  <2>1. CASE Written(bases) = Missing /\ Declared(bases) = Missing
    BY <2>1
  <2>2. ASSUME NEW i \in DOMAIN bases, ~SaysNothing(bases[i]),
               Written(bases) = Said(written[bases[i].class], bases[i]),
               Declared(bases) = SaidWithin(means[bases[i].class], bases[i])
        PROVE  <1>c!:
    <3> DEFINE text == written[bases[i].class]
               mean == means[bases[i].class]
    <3>1. bases[i] \in ProperBases(n + 1) /\ bases[i].class \in 1..n /\ n + 1 \in Nat
      BY <1>3, <1>11
    <3>2. text \in Annotations /\ text \in Opaque \cup Variables
      BY <1>10, <2>2, <3>1, VariableFacts DEF SaysNothing
    <3>3. mean \in Annotations /\ (mean # text => Nests(text))
      BY <1>b, <2>2 DEF Agree, SaysNothing
    <3>4. /\ Declared(bases) \in Annotations
          /\ Declared(bases) # Written(bases) => Nests(Written(bases))
      BY <2>2, <3>1, <3>2, <3>3, SaidAgrees
    <3>5. Written(bases) \in Opaque \cup Variables
      BY <2>2, <3>1, <3>2, SaidIsSaid
    <3> QED
      BY <3>4, <3>5, VariableFacts
  <2> QED
    BY <1>15, <2>1, <2>2
<1>d. Agreement'
  <2>1. /\ Len(means) = n /\ means \in Seq({Missing} \cup Annotations)
        /\ Len(means') = n + 1 /\ means'[n + 1] = Declared(bases)
        /\ \A c \in 1..n : means'[c] = means[c]
        /\ means' \in Seq({Missing} \cup Annotations)
    <3>1. means \in Seq({Missing} \cup Annotations) /\ Len(means) = n
      BY <1>3 DEF SearchInv, Agreement
    <3>2. means' = Append(means, Declared(bases)) /\ Declared(bases) \in {Missing} \cup Annotations
      BY <1>2, <1>c
    <3> QED
      BY <3>1, <3>2
  <2>2. ASSUME NEW c \in DOMAIN classes'
        PROVE  Agree(c)'
    <3>1. CASE c \in 1..n
      BY <1>3, <1>10, <2>1, <3>1 DEF SearchInv, Agreement, Agree
    <3>2. CASE c = n + 1
      BY <1>10, <1>c, <2>1, <3>2, VariableFacts, GenericConstantsOK DEF Agree
    <3> QED
      BY <1>3, <1>8, <3>1, <3>2
  <2> QED
    BY <1>8, <2>1, <2>2 DEF Agreement
<1>18. calls' = <<>> /\ calls' \in Seq(CallRecords) /\ DOMAIN calls' = {} /\ searched' = 0
  BY DEF Define
<1> QED
  BY <1>13, <1>17, <1>d, <1>18, <1>8, <1>3 DEF SearchInv, AsWritten

\* The search returns what the class searched declares, and an argument that
\* only contains a variable as it is written (SearchExact), for any classes,
\* parameters and bases.
THEOREM SearchFindsDeclared == SearchSpec => []SearchExact
<1>1. SearchInit => SearchInv
  BY SearchInitially
<1>2. SearchInv /\ [SearchNext]_searchVars => SearchInv'
  <2> SUFFICES ASSUME SearchInv, [SearchNext]_searchVars
               PROVE  SearchInv'
    OBVIOUS
  <2>1. CASE Search
    BY <2>1, SearchKept
  <2>2. CASE Found
    BY <2>2, FoundKept
  <2>3. CASE Descend
    BY <2>3, DescendKept
  <2>4. CASE Backtrack
    BY <2>4, BacktrackKept
  <2>5. CASE Define
    BY <2>5, DefineKept
  <2>6. CASE UNCHANGED searchVars
    <3>1. Hierarchy' /\ Meanings' /\ Agreement'
      BY <2>6, HierarchyStands DEF SearchInv, searchVars
    <3>2. \A k \in DOMAIN calls : CallProper(k)'
      BY <2>6, CallStands DEF SearchInv, searchVars
    <3> QED
      BY <2>6, <3>1, <3>2 DEF SearchInv, searchVars, AsWritten
  <2> QED
    BY <2>1, <2>2, <2>3, <2>4, <2>5, <2>6 DEF SearchNext
<1>3. SearchInv => SearchExact
  <2> SUFFICES ASSUME SearchInv, searched # 0, calls = <<>>
               PROVE  IF written[searched] # Missing /\ Nests(written[searched])
                      THEN result = written[searched] ELSE result = means[searched]
    BY DEF SearchExact
  <2>1. searched \in DOMAIN classes /\ result = written[searched]
    BY Numbers DEF SearchInv, AsWritten
  <2>2. Agree(searched)
    BY <2>1 DEF SearchInv, Agreement
  <2> QED
    BY <2>1, <2>2 DEF Agree
<1> QED
  BY <1>1, <1>2, <1>3, PTL DEF SearchSpec
=============================================================================
