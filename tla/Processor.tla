----------------------------- MODULE Processor -----------------------------
(***************************************************************************)
(* FSM Processors: functions are registered by decorators, compiled and     *)
(* checked when a processor is finalized, and the fragments of several      *)
(* processors are checked against one another when they are composed.       *)
(* Registration and composition happen while modules are imported, in any   *)
(* order; a call that raises leaves behind what it did before raising.      *)
(***************************************************************************)
EXTENDS Naturals, Sequences, FiniteSets, Functions

CONSTANTS
  Processors,    \* the FSMProcessor objects
  NameOf,        \* their names, not necessarily distinct
  SchemaOf,      \* the schema each is created with
  States,        \* the concrete State Models registered in each schema
  Results,       \* per schema, the result type of each registered command
  Subclasses,    \* the concrete states under each State Model
  Bound,         \* per schema, the State Models specialised for its enum
  Library,       \* the functions modules may register
  Readings,      \* what each annotation may come to say
  Initially,     \* and what it says at first
  Compositions,  \* the argument lists compose_processors is called with
  Room           \* bound on the functions registered with each processor

None == "None"
Kinds == {"reaction", "command", "initializer"}
Models == DOMAIN Subclasses
Schemas == DOMAIN States

\* One member of a return annotation; target is set for a state and Applied.
Outcome == [kind : {"none", "retry", "delete", "state", "applied", "rejected", "ignored"},
            target : Models \cup {None}]

\* A registered function: its decorator's arguments and its annotations, which
\* may name what is not defined yet.  It is wellFormed when it is a coroutine
\* function with an annotation wherever there has to be one and a name without "/".
Registered == [kind : Kinds, name : STRING, match : {"exact", "subclasses"},
               wellFormed : BOOLEAN, annotations : DOMAIN Readings]

\* What annotations say when they are evaluated, if all of it is defined and
\* nothing is Any; state holds the members of the State parameter's union.
Meaning == [resolves : BOOLEAN, state : SUBSET Models, command : STRING,
            returns : SUBSET Outcome]

\* A function as it is compiled, wellFormed if its annotations resolve as well.
Function == [kind : Kinds, name : STRING, match : {"exact", "subclasses"},
             wellFormed : BOOLEAN, state : SUBSET Models, command : STRING, returns : SUBSET Outcome]

ASSUME ConstantsOK ==
  /\ NameOf \in [Processors -> STRING]
  /\ SchemaOf \in [Processors -> Schemas]
  /\ DOMAIN Bound = Schemas /\ DOMAIN Results = Schemas
  /\ \A s \in Schemas : /\ States[s] \subseteq Models /\ Bound[s] \subseteq Models
                        /\ \A c \in DOMAIN Results[s] : Results[s][c] \subseteq Outcome
  /\ Library \subseteq Registered
  /\ \A a \in DOMAIN Readings : Readings[a] \subseteq Meaning /\ Initially[a] \in Readings[a]
  /\ DOMAIN Initially = DOMAIN Readings
  /\ Compositions \subseteq Seq(Processors) \ {<<>>}
  /\ Room \in [Processors -> Nat]

VARIABLES
  factories,     \* the processors a decorator was asked of but not yet applied
  means,         \* what annotations say now, where they are evaluated
  pending,       \* self._pending of each processor
  compiled,      \* the definitions of each finalized processor
  graph          \* the graph compose_processors returned last

vars == <<factories, means, pending, compiled, graph>>

Definition == [kind : Kinds, name : STRING, sources : SUBSET Models,
               targets : SUBSET Models, deletes : BOOLEAN, command : STRING]
Unfinalized == [definitions |-> {}, final |-> FALSE]
NoGraph == [processors |-> {}, edges |-> {}]
Edge == [kind : Kinds, processor : STRING, function : STRING,
         source : Models \cup {None}, target : Models \cup {None}]

TypeOK ==
  /\ factories \subseteq Processors
  /\ \A a \in DOMAIN Readings : means[a] \in Readings[a]
  /\ pending \in [Processors -> Seq(Library)]
  /\ \A p \in Processors : /\ compiled[p].final \in BOOLEAN
                           /\ compiled[p].definitions \subseteq Definition
  /\ graph.processors \subseteq Processors /\ graph.edges \subseteq Edge

Init ==
  /\ factories = {}
  /\ means = Initially
  /\ pending = [p \in Processors |-> <<>>]
  /\ compiled = [p \in Processors |-> Unfinalized]
  /\ graph = NoGraph
-----------------------------------------------------------------------------
(* Compiling one function against a schema.                                *)

\* The annotations are evaluated at each attempt to compile the function.
Resolved(f) ==
  LET meaning == means[f.annotations]
  IN [kind |-> f.kind, name |-> f.name, match |-> f.match,
      wellFormed |-> f.wellFormed /\ meaning.resolves,
      state |-> meaning.state, command |-> meaning.command, returns |-> meaning.returns]

Functions(p) == [i \in DOMAIN pending[p] |-> Resolved(pending[p][i])]

\* The concrete states a State parameter stands for.
Sources(schema, f) ==
  IF f.match = "exact" THEN f.state
  ELSE UNION {Subclasses[m] \cap States[schema] : m \in f.state}

ExpandsState(schema, f) ==
  /\ f.state # {}
  /\ IF f.match = "exact" THEN f.state \subseteq States[schema]
     ELSE \A m \in f.state : m \in Bound[schema] /\ Subclasses[m] \cap States[schema] # {}

Targets(f) == {o.target : o \in {o \in f.returns : o.kind \in {"state", "applied"}}}
Deletes(f) == \E o \in f.returns : o.kind = "delete"

ReactionCompiles(schema, f) ==
  /\ ExpandsState(schema, f)
  /\ f.returns # {}
  /\ \A o \in f.returns : o.kind \in {"none", "retry", "delete", "state"}
  /\ Targets(f) \subseteq States[schema]

\* A command function returns its command's result type, Retry added or not.
CommandReturn(schema, f) ==
  LET expected == Results[schema][f.command]
  IN /\ {o \in f.returns : o.kind # "retry"} = expected
     /\ \A o \in expected : o.kind \in {"applied", "rejected", "ignored", "delete"}
     /\ Targets(f) \subseteq States[schema]

CommandCompiles(schema, f) ==
  /\ f.command \in DOMAIN Results[schema]
  /\ ExpandsState(schema, f)
  /\ CommandReturn(schema, f)

InitializerCompiles(schema, f) ==
  /\ f.command \in DOMAIN Results[schema]
  /\ CommandReturn(schema, f)
  /\ Targets(f) # {}
  /\ ~Deletes(f)

Compiles(schema, f) ==
  /\ f.wellFormed
  /\ f.kind = "reaction" => ReactionCompiles(schema, f)
  /\ f.kind = "command" => CommandCompiles(schema, f)
  /\ f.kind = "initializer" => InitializerCompiles(schema, f)

\* Mutant: every outcome is taken for a State Value.
CompiledMutant(schema, f) ==
  [kind |-> f.kind, name |-> f.name,
   sources |-> IF f.kind = "initializer" THEN {} ELSE Sources(schema, f),
   targets |-> {o.target : o \in f.returns}, deletes |-> Deletes(f), command |-> f.command]

Compiled(schema, f) ==
  [kind |-> f.kind, name |-> f.name,
   sources |-> IF f.kind = "initializer" THEN {} ELSE Sources(schema, f),
   targets |-> Targets(f), deletes |-> Deletes(f), command |-> f.command]
-----------------------------------------------------------------------------
(* Checking a processor, and several together.                             *)

\* Mutant: a reaction that deletes is taken for an observer.
TransitioningMutant(d) == d.kind = "reaction" /\ d.targets # {}

Transitioning(d) == d.kind = "reaction" /\ (d.targets # {} \/ d.deletes)

\* No state has two transitioning reactions among the definitions.
TransitionsExclusive(definitions) ==
  \A d, e \in {d \in definitions : Transitioning(d)} : d # e => d.sources \cap e.sources = {}

\* Mutant: commands are compared with commands, initializers with none.
FinalizableMutant(p) ==
  LET fs == Functions(p)
  IN /\ \A f \in Range(fs) : Compiles(SchemaOf[p], f)
     /\ \A i, j \in DOMAIN fs : i # j => fs[i].name # fs[j].name
     /\ \A i, j \in DOMAIN fs :
          i # j /\ fs[i].kind = "command" /\ fs[j].kind = "command"
            => fs[i].command # fs[j].command
     /\ TransitionsExclusive({Compiled(SchemaOf[p], f) : f \in Range(fs)})

\* finalize gets through: the pending functions compile and do not collide.
Finalizable(p) ==
  LET fs == Functions(p)
      ds == {Compiled(SchemaOf[p], f) : f \in Range(fs)}
  IN /\ \A f \in Range(fs) : Compiles(SchemaOf[p], f)
     /\ \A i, j \in DOMAIN fs : i # j => fs[i].name # fs[j].name
     /\ \A i, j \in DOMAIN fs :
          i # j /\ fs[i].kind # "reaction" /\ fs[j].kind # "reaction"
            => fs[i].command # fs[j].command
     /\ TransitionsExclusive(ds)

\* Mutant: a processor compiles its functions anew at each finalize.
FinalizedAnew(p) ==
  [definitions |-> {Compiled(SchemaOf[p], f) : f \in Range(Functions(p))}, final |-> TRUE]

\* What the processor holds after a successful finalize.
Finalized(p) ==
  IF compiled[p].final THEN compiled[p]
  ELSE [definitions |-> {Compiled(SchemaOf[p], f) : f \in Range(Functions(p))}, final |-> TRUE]

Finalizes(p) == compiled[p].final \/ Finalizable(p)

Commands(p) == {d.command : d \in {d \in Finalized(p).definitions : d.kind # "reaction"}}

\* Mutant: names are compared within a processor only.
ComposableUnnamed(ps) ==
  /\ \A i \in DOMAIN ps : SchemaOf[ps[i]] = SchemaOf[ps[1]]
  /\ \A i, j \in DOMAIN ps : i # j =>
       /\ Commands(ps[i]) \cap Commands(ps[j]) = {}
       /\ \A d \in Finalized(ps[i]).definitions, e \in Finalized(ps[j]).definitions :
            Transitioning(d) /\ Transitioning(e) => d.sources \cap e.sources = {}

\* The checks across processors, each of which has been finalized.
Composable(ps) ==
  /\ \A i \in DOMAIN ps : SchemaOf[ps[i]] = SchemaOf[ps[1]]
  /\ \A i, j \in DOMAIN ps : i # j =>
       /\ NameOf[ps[i]] # NameOf[ps[j]]
       /\ Commands(ps[i]) \cap Commands(ps[j]) = {}
       /\ \A d \in Finalized(ps[i]).definitions, e \in Finalized(ps[j]).definitions :
            Transitioning(d) /\ Transitioning(e) => d.sources \cap e.sources = {}

Edges(p) ==
  LET from(d) == IF d.kind = "initializer" THEN {None} ELSE d.sources
      to(d) == d.targets \cup (IF d.deletes THEN {None} ELSE {})
      edges(d) == {[kind |-> d.kind, processor |-> NameOf[p], function |-> d.name,
                    source |-> s, target |-> t] : s \in from(d), t \in to(d)}
  IN UNION {edges(d) : d \in Finalized(p).definitions}
-----------------------------------------------------------------------------
\* A decorator applied at once, or asked for now and applied later: only the
\* asking looks at whether the processor is finalized.
Enqueue(p, f) == pending' = [pending EXCEPT ![p] = Append(@, f)]

Register(p, f) ==
  /\ ~compiled[p].final
  /\ Len(pending[p]) < Room[p]
  /\ Enqueue(p, f)
  /\ UNCHANGED <<factories, means, compiled, graph>>

Decorator(p) ==
  /\ ~compiled[p].final
  /\ factories' = factories \cup {p}
  /\ UNCHANGED <<means, pending, compiled, graph>>

Apply(p, f) ==
  /\ p \in factories
  /\ Len(pending[p]) < Room[p]
  /\ Enqueue(p, f)
  /\ UNCHANGED <<factories, means, compiled, graph>>

\* Modules go on being imported: a name in the annotations is defined, or stands
\* for something else from now on.
Rebind(a) ==
  /\ \E meaning \in Readings[a] \ {means[a]} : means' = [means EXCEPT ![a] = meaning]
  /\ UNCHANGED <<factories, pending, compiled, graph>>

\* Mutant: a failing finalize discards the functions it could not compile.
FinalizeForgetful(p) ==
  /\ compiled' = [compiled EXCEPT ![p] = IF Finalizes(p) THEN Finalized(p) ELSE @]
  /\ pending' = [pending EXCEPT ![p] = IF Finalizes(p) THEN @ ELSE <<>>]
  /\ UNCHANGED <<factories, means, graph>>

Finalize(p) ==
  /\ Finalizes(p)
  /\ compiled' = [compiled EXCEPT ![p] = Finalized(p)]
  /\ UNCHANGED <<factories, means, pending, graph>>

\* Finalize each processor in turn, up to the first that raises; with all of
\* them final, check them together and return their graph.
Compose(ps) ==
  LET reached == {i \in DOMAIN ps : \A j \in 1..i : Finalizes(ps[j])}
  IN /\ compiled' = [p \in Processors |-> IF \E i \in reached : ps[i] = p THEN Finalized(p)
                                          ELSE compiled[p]]
     /\ graph' = IF reached = DOMAIN ps /\ Composable(ps)
                 THEN [processors |-> Range(ps),
                       edges |-> UNION {Edges(p) : p \in Range(ps)}]
                 ELSE graph
     /\ UNCHANGED <<factories, means, pending>>

Next ==
  \/ \E p \in Processors, f \in Library : Register(p, f)
  \/ \E p \in Processors : Decorator(p)
  \/ \E p \in Processors, f \in Library : Apply(p, f)
  \/ \E a \in DOMAIN Readings : Rebind(a)
  \/ \E p \in Processors : Finalize(p)
  \/ \E ps \in Compositions : Compose(ps)

Spec == Init /\ [][Next]_vars
-----------------------------------------------------------------------------
(* Properties.                                                             *)

\* A concrete state has at most one function able to move it on by itself:
\* over all the processors of a graph, however their parameters match
\* (_validate_transitioning_reactions; docs/adr/0006).
SingleTransition ==
  LET reactions == {e \in graph.edges : e.kind = "reaction"}
  IN \A e, f \in reactions :
       e.source = f.source => e.processor = f.processor /\ e.function = f.function

\* A command has one function, command or initializer, in the whole graph
\* (finalize; compose_processors).
SingleOwner ==
  LET owned(p) == {d \in compiled[p].definitions : d.kind # "reaction"}
  IN \A p, q \in graph.processors : \A d \in owned(p), e \in owned(q) :
       d.command = e.command => p = q /\ d = e

\* The processor and function an edge names identify one registered function:
\* the uniqueness of names is checked in two places, per processor and per
\* graph, and claims are keyed by both.
Provenance ==
  \A p, q \in graph.processors :
    \A d \in compiled[p].definitions, e \in compiled[q].definitions :
      NameOf[p] = NameOf[q] /\ d.name = e.name => p = q /\ d = e

\* A graph stays true of its processors: no later registration, finalize or
\* composition changes what they compiled to.
GraphCurrent == graph.edges = UNION {Edges(p) : p \in graph.processors}

\* A fault that no definition of a name mends.
Hopeless(p) ==
  LET fs == pending[p]
  IN /\ ~compiled[p].final
     /\ \/ \E f \in Range(fs) : ~f.wellFormed
        \/ \E i, j \in DOMAIN fs : i # j /\ fs[i].name = fs[j].name

\* Nothing is ever taken back from the functions of a processor that finalize
\* has refused.  So it is refused again, and with it every composition, unless
\* the annotations of its functions have come to say something else; and for
\* good if the fault is not in the annotations.
BrokenStaysBroken ==
  [][\A p \in Processors :
       /\ /\ ~Finalizes(p)
          /\ \A f \in Range(pending[p]) : means'[f.annotations] = means[f.annotations]
          => ~Finalizes(p)'
       /\ Hopeless(p) => Hopeless(p)' /\ ~Finalizes(p)']_vars

\* Every function registered with a finalized processor has been compiled
\* (docs/API.md:586 says no function can be registered from then on).
NoneRegisteredLate ==
  \A p \in Processors : compiled[p].final =>
    \A f \in Range(pending[p]) : \E d \in compiled[p].definitions : d.name = f.name
=============================================================================
