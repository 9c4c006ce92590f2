------------------------------ MODULE Generic ------------------------------
(***************************************************************************)
(* What a model class specializes a generic parent with, the result type   *)
(* of a command or the state enum of a state: _typing.py searches the      *)
(* bases of the class, depth first, under bindings of type variables.      *)
(* Classes are numbered in the order they are defined; a variable belongs  *)
(* to the class that introduces it (class Model[T]).                       *)
(***************************************************************************)
EXTENDS Integers, SequencesExt

CONSTANTS
  Types,      \* what contains no type variable
  Missing,    \* no specialization on this path
  Diverges,   \* the search does not return
  MaxClasses,                \* bounds: the classes,
  MaxBases, MaxParameters    \* and the bases and parameters of each

Names == Nat \X (Nat \ {0})

\* A type or a type variable with so many generic classes applied around it:
\* Applied[S] is one around the variable S.
Annotations == [around : Nat, root : Types \cup Names]
Variables == [around : {0}, root : Names]
Plain(root) == [around |-> 0, root |-> root]
Applied(annotation) == [annotation EXCEPT !.around = @ + 1]

\* An annotation that contains a variable without being one.
Nests(annotation) == annotation.around > 0 /\ annotation.root \in Names

ASSUME GenericConstantsOK ==
  /\ \A type \in Types : type \notin Names
  /\ Missing \notin Annotations /\ Diverges \notin Annotations /\ Missing # Diverges
  /\ MaxClasses \in Nat
  /\ MaxBases \in [1..MaxClasses -> Nat] /\ MaxParameters \in [1..MaxClasses -> Nat]

VARIABLES
  classes,    \* how many parameters, the bases, and the classes inherited from
  means,      \* what each class says of the target's parameter
  written,    \* the same, with nested variables left as they are written
  searched,   \* the class searched, 0 before
  calls,      \* activations of _find_pydantic_generic_argument, innermost last
  result

searchVars == <<classes, means, written, searched, calls, result>>

\* The class searched for is Command or BaseState, with its one parameter.
Target == 1
TargetVar == Plain(<<Target, 1>>)

ParametersOf(class, count) == {Plain(<<class, i>>) : i \in 1..count}

SearchInit ==
  /\ classes = <<[parameters |-> 1, bases |-> <<>>, above |-> {}]>>
  /\ means = <<TargetVar>> /\ written = means
  /\ searched = 0 /\ calls = <<>> /\ result = Missing
-----------------------------------------------------------------------------
(* Substituting.                                                           *)

Closed(annotations, bindings) ==
  \A v \in annotations \cap DOMAIN bindings : bindings[v] \in annotations

\* The annotations that a chain of bindings leads to.
Chain(annotation, bindings) ==
  LET all == {annotation} \cup Range(bindings)
  IN {a \in all : \A some \in SUBSET all :
                    annotation \in some /\ Closed(some, bindings) => a \in some}

\* The chain is followed until a variable is unbound or bound to itself.
SubstituteTypeVars(annotation, bindings) ==
  LET ends == {a \in Chain(annotation, bindings) : a \in DOMAIN bindings => bindings[a] = a}
  IN IF ends = {} THEN Diverges ELSE CHOOSE a \in ends : TRUE

\* The parameters of a class bound to the arguments it is given, which are
\* resolved under the bindings there are.
Bound(base, bindings, scope) ==
  LET own == ParametersOf(base.class, Len(base.args))
  IN [v \in DOMAIN bindings \cup own |->
        IF v \in own THEN SubstituteTypeVars(base.args[v.root[2]], scope) ELSE bindings[v]]

\* Mutant: the arguments are bound without the bindings around them.
InnerAlone(base, bindings) == Bound(base, <<>>, <<>>)

\* The bindings inside a base; without arguments it binds nothing.
Inner(base, bindings) == Bound(base, bindings, bindings)
-----------------------------------------------------------------------------
(* Searching.                                                              *)

Call(class, bindings) == [class |-> class, bindings |-> bindings, next |-> 1]

Search ==
  /\ calls = <<>>
  /\ searched' \in DOMAIN classes
  /\ calls' = <<Call(searched', <<>>)>> /\ result' = Missing
  /\ UNCHANGED <<classes, means, written>>

\* The target is reached: its argument is returned through all calls.
Found ==
  /\ calls # <<>> /\ Last(calls).class = Target
  /\ calls' = <<>> /\ result' = SubstituteTypeVars(TargetVar, Last(calls).bindings)
  /\ UNCHANGED <<classes, means, written, searched>>

\* The next base is searched, if its arguments can be resolved.
Descend ==
  /\ calls # <<>>
  /\ LET call == Last(calls)
     IN /\ call.class # Target /\ call.next \in DOMAIN classes[call.class].bases
        /\ LET base == classes[call.class].bases[call.next]
               inner == Inner(base, call.bindings)
           IN IF Diverges \in Range(inner)
              THEN calls' = <<>> /\ result' = Diverges
              ELSE calls' = Append(calls, Call(base.class, inner)) /\ UNCHANGED result
  /\ UNCHANGED <<classes, means, written, searched>>

\* No base leads to the target: the caller goes on with its next one.
Backtrack ==
  /\ calls # <<>>
  /\ LET call == Last(calls) caller == Len(calls) - 1
     IN /\ call.class # Target /\ call.next \notin DOMAIN classes[call.class].bases
        /\ calls' = [i \in 1..caller |->
                       IF i = caller THEN [calls[i] EXCEPT !.next = @ + 1] ELSE calls[i]]
  /\ UNCHANGED <<classes, means, written, searched, result>>
-----------------------------------------------------------------------------
(* Defining classes.  What a class says is known from its bases alone: a   *)
(* variable of a base means what the base is given for it, and itself when *)
(* the base is given nothing.                                              *)

Said(annotation, base) ==
  IF annotation \in ParametersOf(base.class, Len(base.args))
  THEN base.args[annotation.root[2]] ELSE annotation

\* The same with the variables in annotations replaced too.
SaidWithin(annotation, base) ==
  LET given == Said(Plain(annotation.root), base)
  IN [given EXCEPT !.around = @ + annotation.around]

\* The first base that leads to the target counts.
Leading(bases) == {i \in DOMAIN bases : means[bases[i].class] # Missing}
First(bases) == CHOOSE i \in Leading(bases) : \A j \in Leading(bases) : i <= j

Declared(bases) ==
  IF Leading(bases) = {} THEN Missing
  ELSE SaidWithin(means[bases[First(bases)].class], bases[First(bases)])

Written(bases) ==
  IF Leading(bases) = {} THEN Missing
  ELSE Said(written[bases[First(bases)].class], bases[First(bases)])

\* A base is given all its arguments or none: types, variables of the class
\* being defined, and generic classes applied to these variables.
BasesFor(parameters) ==
  LET arguments == {Plain(type) : type \in Types} \cup parameters \cup {Applied(v) : v \in parameters}
  IN UNION {[class : {class}, args : {<<>>} \cup [1..classes[class].parameters -> arguments]] :
              class \in DOMAIN classes}

\* A base does not come before a class that inherits from it (C3).
Linear(bases) ==
  \A i, j \in DOMAIN bases :
    i < j => bases[i].class \notin {bases[j].class} \cup classes[bases[j].class].above

Define ==
  LET class == Len(classes) + 1
  IN /\ calls = <<>> /\ class <= MaxClasses
     /\ \E count \in 0..MaxParameters[class], number \in 0..MaxBases[class] :
        \E bases \in [1..number -> BasesFor(ParametersOf(class, count))] :
          /\ Linear(bases)
          /\ classes' = Append(classes,
               [parameters |-> count, bases |-> bases,
                above |-> UNION {{base.class} \cup classes[base.class].above : base \in ToSet(bases)}])
          /\ means' = Append(means, Declared(bases))
          /\ written' = Append(written, Written(bases))
     /\ searched' = 0 /\ result' = Missing /\ UNCHANGED calls

SearchNext == Search \/ Found \/ Descend \/ Backtrack \/ Define

SearchSpec == SearchInit /\ [][SearchNext]_searchVars
-----------------------------------------------------------------------------
\* The search returns what the classes declare, through renamed, dropped,
\* swapped and repeated parameters, parents without arguments and mixins
\* (_find_pydantic_generic_argument).  Where a class declares it by an argument
\* that only contains a variable, this argument is returned as it is written
\* and not resolved (_substitute_typevars does not look into it).
SearchExact ==
  searched # 0 /\ calls = <<>> =>
    IF written[searched] # Missing /\ Nests(written[searched])
    THEN result = written[searched] ELSE result = means[searched]
=============================================================================
