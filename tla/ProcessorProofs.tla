-------------------------- MODULE ProcessorProofs --------------------------
(***************************************************************************)
(* What finalizing and composing processors guarantees, for any processors, *)
(* schemas, functions and compositions, in whatever order they are asked   *)
(* for: at most one function moves a state on, one owns a command, a name  *)
(* identifies a function, and a graph stays true of its processors.        *)
(***************************************************************************)
EXTENDS Processor, TLAPS

(* One processor.                                                          *)

\* What finalize has checked of the definitions a processor keeps.
Checked(definitions) ==
  /\ \A d, e \in definitions : d.name = e.name => d = e
  /\ \A d, e \in definitions :
       d.kind # "reaction" /\ e.kind # "reaction" /\ d.command = e.command => d = e
  /\ TransitionsExclusive(definitions)

CompiledOf(p) == {Compiled(SchemaOf[p], f) : f \in Range(Functions(p))}

LEMMA CompiledFields ==
  ASSUME NEW schema, NEW f
  PROVE  /\ Compiled(schema, f).name = f.name /\ Compiled(schema, f).kind = f.kind
         /\ Compiled(schema, f).command = f.command
BY DEF Compiled

LEMMA FinalizableIsChecked ==
  ASSUME NEW p \in Processors, Finalizable(p)
  PROVE  Checked(CompiledOf(p))
<1> DEFINE fs == Functions(p)
<1>1. TransitionsExclusive(CompiledOf(p))
  BY DEF Finalizable, CompiledOf
<1>2. \A i, j \in DOMAIN fs : i # j => fs[i].name # fs[j].name
  BY DEF Finalizable
<1>3. \A i, j \in DOMAIN fs : i # j /\ fs[i].kind # "reaction" /\ fs[j].kind # "reaction"
                                => fs[i].command # fs[j].command
  BY DEF Finalizable
<1>4. ASSUME NEW d \in CompiledOf(p), NEW e \in CompiledOf(p),
             \/ d.name = e.name
             \/ d.kind # "reaction" /\ e.kind # "reaction" /\ d.command = e.command
      PROVE  d = e
  <2>1. PICK i \in DOMAIN fs : d = Compiled(SchemaOf[p], fs[i])
    BY DEF CompiledOf, Range
  <2>2. PICK j \in DOMAIN fs : e = Compiled(SchemaOf[p], fs[j])
    BY DEF CompiledOf, Range
  <2>3. i = j
    BY <1>2, <1>3, <1>4, <2>1, <2>2, CompiledFields
  <2> QED
    BY <2>1, <2>2, <2>3
<1> QED
  BY <1>1, <1>4 DEF Checked

\* What a processor has once finalize has let it through.
LEMMA FinalizedIsChecked ==
  ASSUME NEW p \in Processors, Finalizes(p),
         compiled[p].final => Checked(compiled[p].definitions)
  PROVE  Finalized(p).final /\ Checked(Finalized(p).definitions)
<1>1. CASE compiled[p].final
  BY <1>1 DEF Finalized
<1>2. CASE ~compiled[p].final
  <2>1. Finalizable(p) /\ Finalized(p).definitions = CompiledOf(p) /\ Finalized(p).final
    BY <1>2 DEF Finalizes, Finalized, CompiledOf
  <2> QED
    BY <2>1, FinalizableIsChecked
<1> QED
  BY <1>1, <1>2

(* Registration only adds, and a finalized processor is left as it is.     *)

\* What a step does to one processor: it stays as it is but for the functions
\* added at its end, or it is finalized.
Onward(p) ==
  /\ \/ pending'[p] = pending[p]
     \/ \E f \in Library : pending'[p] = Append(pending[p], f)
  /\ \/ compiled'[p] = compiled[p]
     \/ Finalizes(p) /\ compiled'[p] = Finalized(p) /\ pending'[p] = pending[p]

Shape ==
  /\ pending \in [Processors -> Seq(Library)]
  /\ DOMAIN means = DOMAIN Readings
  /\ \A a \in DOMAIN Readings : means[a] \in Readings[a]
  /\ DOMAIN compiled = Processors

LEMMA StepOnward ==
  ASSUME Shape, [Next]_vars
  PROVE  Shape' /\ \A p \in Processors : Onward(p)
<1>1. ASSUME NEW p \in Processors, NEW f \in Library, Enqueue(p, f), UNCHANGED <<means, compiled>>
      PROVE  Shape' /\ \A q \in Processors : Onward(q)
  <2>1. pending' = [pending EXCEPT ![p] = Append(pending[p], f)]
    BY <1>1 DEF Enqueue
  <2>2. Append(pending[p], f) \in Seq(Library)
    BY DEF Shape
  <2>3. Shape'
    BY <1>1, <2>1, <2>2 DEF Shape
  <2>4. \A q \in Processors : pending'[q] = IF q = p THEN Append(pending[q], f) ELSE pending[q]
    BY <2>1 DEF Shape
  <2> QED
    BY <1>1, <2>3, <2>4 DEF Onward
<1>2. ASSUME NEW p \in Processors, NEW f \in Library, Register(p, f) \/ Apply(p, f)
      PROVE  Shape' /\ \A q \in Processors : Onward(q)
  BY <1>1, <1>2 DEF Register, Apply
<1>3. ASSUME NEW p \in Processors, Decorator(p) \/ UNCHANGED vars
      PROVE  Shape' /\ \A q \in Processors : Onward(q)
  BY <1>3 DEF Decorator, vars, Shape, Onward
<1>4. ASSUME NEW p \in Processors, Finalize(p)
      PROVE  Shape' /\ \A q \in Processors : Onward(q)
  <2>1. \A q \in Processors : compiled'[q] = IF q = p THEN Finalized(p) ELSE compiled[q]
    BY <1>4 DEF Finalize, Shape
  <2> QED
    BY <1>4, <2>1 DEF Finalize, Shape, Onward
<1>5. ASSUME NEW ps \in Compositions, Compose(ps)
      PROVE  Shape' /\ \A q \in Processors : Onward(q)
  <2> DEFINE reached == {i \in DOMAIN ps : \A j \in 1..i : Finalizes(ps[j])}
  <2>1. ps \in Seq(Processors)
    BY ConstantsOK DEF ConstantsOK
  <2>2. \A i \in reached : Finalizes(ps[i])
    BY <2>1
  <2>3. ASSUME NEW q \in Processors
        PROVE  compiled'[q] = IF \E i \in reached : ps[i] = q THEN Finalized(q) ELSE compiled[q]
    BY <1>5 DEF Compose
  <2>4. \A q \in Processors : Onward(q)
    <3> HIDE DEF reached
    <3> QED
      BY <1>5, <2>2, <2>3 DEF Compose, Onward
  <2> QED
    BY <1>5, <2>4 DEF Compose, Shape
<1>6. ASSUME NEW a \in DOMAIN Readings, Rebind(a)
      PROVE  Shape' /\ \A q \in Processors : Onward(q)
  BY <1>6 DEF Rebind, Shape, Onward
<1>7. CASE UNCHANGED vars
  BY <1>7 DEF vars, Shape, Onward
<1> QED
  BY <1>2, <1>3, <1>4, <1>5, <1>6, <1>7 DEF Next

\* A finalized processor never changes again.
LEMMA FinalStays ==
  ASSUME NEW p \in Processors, Onward(p), compiled[p].final
  PROVE  compiled'[p] = compiled[p] /\ Finalized(p)' = Finalized(p)
BY DEF Onward, Finalized
-----------------------------------------------------------------------------
(* Several processors and their graph.                                     *)

\* The graph comes from a composition that was checked, of processors that
\* have not changed since.
Composed ==
  \/ graph = NoGraph
  \/ \E ps \in Compositions :
       /\ graph.processors = Range(ps)
       /\ graph.edges = UNION {Edges(p) : p \in Range(ps)}
       /\ \A p \in Range(ps) : compiled[p].final
       /\ Composable(ps)

Sound ==
  /\ Shape
  /\ \A p \in Processors : compiled[p].final => Checked(compiled[p].definitions)
  /\ Composed

LEMMA CompositionOfProcessors ==
  ASSUME NEW ps \in Compositions
  PROVE  /\ ps \in Seq(Processors) /\ Range(ps) \subseteq Processors
         /\ \A i \in DOMAIN ps : ps[i] \in Range(ps)
         /\ 1 \in DOMAIN ps
BY ConstantsOK DEF ConstantsOK, Range

\* What compose_processors checks and draws depends on the definitions alone.
LEMMA SameDefinitions ==
  ASSUME NEW ps \in Compositions, \A p \in Range(ps) : Finalized(p)' = Finalized(p)
  PROVE  /\ Composable(ps) => Composable(ps)'
         /\ \A p \in Range(ps) : Edges(p)' = Edges(p)
<1>1. \A p \in Range(ps) : Commands(p)' = Commands(p)
  BY DEF Commands
<1>2. \A i \in DOMAIN ps : ps[i] \in Range(ps)
  BY DEF Range
<1>3. Composable(ps) => Composable(ps)'
  BY <1>1, <1>2 DEF Composable
<1>4. \A p \in Range(ps) : Edges(p)' = Edges(p)
  BY DEF Edges
<1> QED
  BY <1>3, <1>4

LEMMA ComposedStays ==
  ASSUME Sound, \A p \in Processors : Onward(p), graph' = graph
  PROVE  Composed'
<1>1. CASE graph = NoGraph
  BY <1>1 DEF Composed
<1>2. ASSUME NEW ps \in Compositions, graph.processors = Range(ps),
             graph.edges = UNION {Edges(p) : p \in Range(ps)},
             \A p \in Range(ps) : compiled[p].final, Composable(ps)
      PROVE  Composed'
  <2>1. \A p \in Range(ps) : compiled'[p].final /\ Finalized(p)' = Finalized(p)
    BY <1>2, CompositionOfProcessors, FinalStays
  <2>2. Composable(ps)' /\ \A p \in Range(ps) : Edges(p)' = Edges(p)
    BY <1>2, <2>1, SameDefinitions
  <2> QED
    BY <1>2, <2>1, <2>2 DEF Composed
<1> QED
  BY <1>1, <1>2 DEF Sound, Composed

LEMMA StepSound ==
  ASSUME Sound, [Next]_vars
  PROVE  Sound'
<1>1. Shape' /\ \A p \in Processors : Onward(p)
  BY StepOnward DEF Sound
<1>2. ASSUME NEW p \in Processors, compiled'[p].final
      PROVE  Checked(compiled'[p].definitions)
  <2>1. CASE compiled'[p] = compiled[p]
    BY <1>2, <2>1 DEF Sound
  <2>2. CASE Finalizes(p) /\ compiled'[p] = Finalized(p)
    BY <2>2, FinalizedIsChecked DEF Sound
  <2> QED
    BY <1>1, <2>1, <2>2 DEF Onward
<1>3. Composed'
  <2>1. CASE graph' = graph
    BY <1>1, <2>1, ComposedStays
  <2>2. ASSUME NEW ps \in Compositions, Compose(ps), graph' # graph
        PROVE  Composed'
    <3> DEFINE reached == {i \in DOMAIN ps : \A j \in 1..i : Finalizes(ps[j])}
    <3>1. /\ reached = DOMAIN ps /\ Composable(ps)
          /\ graph' = [processors |-> Range(ps), edges |-> UNION {Edges(p) : p \in Range(ps)}]
      BY <2>2 DEF Compose
    <3>2. ASSUME NEW p \in Range(ps)
          PROVE  /\ p \in Processors /\ Finalizes(p)
                 /\ compiled'[p] = Finalized(p)
      <4>1. PICK i \in DOMAIN ps : p = ps[i]
        BY DEF Range
      <4>2. p \in Processors /\ i \in reached /\ i \in 1..i
        BY <3>1, <4>1, CompositionOfProcessors
      <4>3. compiled'[p] = IF \E n \in reached : ps[n] = p THEN Finalized(p) ELSE compiled[p]
        BY <2>2, <4>2 DEF Compose
      <4> QED
        BY <4>1, <4>2, <4>3
    <3>3. ASSUME NEW p \in Range(ps)
          PROVE  compiled'[p].final /\ Finalized(p)' = Finalized(p)
      <4>1. Finalized(p).final
        BY <3>2, FinalizedIsChecked DEF Sound
      <4>2. compiled'[p].final
        BY <3>2, <4>1
      <4>3. Finalized(p)' = compiled'[p]
        BY <4>2 DEF Finalized
      <4> QED
        BY <3>2, <4>2, <4>3
    <3>4. Composable(ps)' /\ \A p \in Range(ps) : Edges(p)' = Edges(p)
      BY <3>1, <3>3, SameDefinitions
    <3> HIDE DEF reached
    <3>5. /\ graph'.processors = Range(ps)
          /\ graph'.edges = UNION {Edges(p)' : p \in Range(ps)}
      BY <3>1, <3>4
    <3> QED
      BY <3>3, <3>4, <3>5 DEF Composed
  <2>3. graph' = graph \/ \E ps \in Compositions : Compose(ps)
    BY DEF Next, Register, Decorator, Apply, Rebind, Finalize, vars
  <2> QED
    BY <2>1, <2>2, <2>3
<1> QED
  BY <1>1, <1>2, <1>3 DEF Sound

LEMMA AlwaysSound == Spec => []Sound
<1>1. Init => Sound
  BY ConstantsOK DEF ConstantsOK, Init, Sound, Shape, Composed, Unfinalized
<1>2. Sound /\ [Next]_vars => Sound'
  BY StepSound
<1> QED
  BY <1>1, <1>2, PTL DEF Spec
-----------------------------------------------------------------------------
(* What a graph guarantees.                                                *)

\* In a composition that was checked, what the checks compare is compared for
\* any two definitions, of one processor or of two.
LEMMA ComposedDefinitions ==
  ASSUME Sound, NEW p \in graph.processors, NEW q \in graph.processors,
         NEW d \in compiled[p].definitions, NEW e \in compiled[q].definitions
  PROVE  /\ Finalized(p) = compiled[p] /\ Finalized(q) = compiled[q]
         /\ NameOf[p] = NameOf[q] /\ d.name = e.name => p = q /\ d = e
         /\ d.kind # "reaction" /\ e.kind # "reaction" /\ d.command = e.command
              => p = q /\ d = e
         /\ Transitioning(d) /\ Transitioning(e) /\ d.sources \cap e.sources # {}
              => p = q /\ d = e
<1>1. graph # NoGraph
  BY DEF NoGraph
<1>2. PICK ps \in Compositions :
        /\ graph.processors = Range(ps)
        /\ \A r \in Range(ps) : compiled[r].final
        /\ Composable(ps)
  BY <1>1 DEF Sound, Composed
<1>3. PICK i \in DOMAIN ps, j \in DOMAIN ps : p = ps[i] /\ q = ps[j]
  BY <1>2 DEF Range
<1>4. p \in Processors /\ q \in Processors
  BY <1>2, CompositionOfProcessors
<1>5. /\ Finalized(p) = compiled[p] /\ Finalized(q) = compiled[q]
      /\ Checked(compiled[p].definitions)
  BY <1>2, <1>4 DEF Finalized, Sound
<1>6. CASE p = q
  BY <1>5, <1>6 DEF Checked, TransitionsExclusive
<1>7. CASE p # q
  <2>1. i # j
    BY <1>3, <1>7
  <2>2. /\ NameOf[p] # NameOf[q]
        /\ Commands(p) \cap Commands(q) = {}
        /\ Transitioning(d) /\ Transitioning(e) => d.sources \cap e.sources = {}
    BY <1>2, <1>3, <1>5, <2>1 DEF Composable
  <2>3. d.kind # "reaction" => d.command \in Commands(p)
    BY <1>5 DEF Commands
  <2>4. e.kind # "reaction" => e.command \in Commands(q)
    BY <1>5 DEF Commands
  <2> QED
    BY <1>5, <2>2, <2>3, <2>4
<1> QED
  BY <1>6, <1>7

LEMMA GraphDrawn ==
  ASSUME Sound
  PROVE  GraphCurrent
<1>1. CASE graph = NoGraph
  BY <1>1 DEF GraphCurrent, NoGraph
<1>2. CASE graph # NoGraph
  BY <1>2 DEF Sound, Composed, GraphCurrent
<1> QED
  BY <1>1, <1>2

\* An edge of a reaction comes from a reaction that moves its source on.
LEMMA ReactionEdge ==
  ASSUME Sound, NEW edge \in graph.edges, edge.kind = "reaction"
  PROVE  \E p \in graph.processors : \E d \in compiled[p].definitions :
           /\ Transitioning(d) /\ edge.source \in d.sources
           /\ edge.processor = NameOf[p] /\ edge.function = d.name
<1>1. PICK p \in graph.processors : edge \in Edges(p)
  BY GraphDrawn DEF GraphCurrent
<1>2. Finalized(p) = compiled[p]
  <2>1. graph # NoGraph
    BY DEF NoGraph
  <2>2. compiled[p].final
    BY <2>1 DEF Sound, Composed
  <2> QED
    BY <2>2 DEF Finalized
<1>3. PICK d \in compiled[p].definitions :
        \E s \in (IF d.kind = "initializer" THEN {None} ELSE d.sources) :
          \E t \in d.targets \cup (IF d.deletes THEN {None} ELSE {}) :
            edge = [kind |-> d.kind, processor |-> NameOf[p], function |-> d.name,
                    source |-> s, target |-> t]
  BY <1>1, <1>2 DEF Edges
<1>4. d.kind = "reaction" /\ edge.processor = NameOf[p] /\ edge.function = d.name
  BY <1>3
<1>5. edge.source \in d.sources /\ (d.targets # {} \/ d.deletes)
  BY <1>3, <1>4
<1> QED
  BY <1>4, <1>5 DEF Transitioning

LEMMA GraphSingle ==
  ASSUME Sound
  PROVE  SingleTransition
<1> SUFFICES ASSUME NEW e \in graph.edges, NEW f \in graph.edges,
                    e.kind = "reaction", f.kind = "reaction", e.source = f.source
             PROVE  e.processor = f.processor /\ e.function = f.function
  BY DEF SingleTransition
<1> DEFINE Draws(edge, p, d) ==
             /\ Transitioning(d) /\ edge.source \in d.sources
             /\ edge.processor = NameOf[p] /\ edge.function = d.name
<1>1. PICK p \in graph.processors : \E d \in compiled[p].definitions : Draws(e, p, d)
  BY ReactionEdge
<1>2. PICK d \in compiled[p].definitions : Draws(e, p, d)
  BY <1>1
<1>3. PICK q \in graph.processors : \E c \in compiled[q].definitions : Draws(f, q, c)
  BY ReactionEdge
<1>4. PICK c \in compiled[q].definitions : Draws(f, q, c)
  BY <1>3
<1>5. d.sources \cap c.sources # {}
  BY <1>2, <1>4
<1>6. p = q /\ d = c
  BY <1>2, <1>4, <1>5, ComposedDefinitions
<1> QED
  BY <1>2, <1>4, <1>6

LEMMA GraphOwners ==
  ASSUME Sound
  PROVE  SingleOwner /\ Provenance
<1>1. SingleOwner
  BY ComposedDefinitions DEF SingleOwner
<1>2. Provenance
  BY ComposedDefinitions DEF Provenance
<1> QED
  BY <1>1, <1>2

\* In every graph compose_processors returns, at most one function moves a
\* concrete state on by itself, whatever its parameters match.
THEOREM OneTransitionPerState == Spec => []SingleTransition
BY AlwaysSound, GraphSingle, PTL

\* In every graph a command has one function.
THEOREM OneOwnerPerCommand == Spec => []SingleOwner
BY AlwaysSound, GraphOwners, PTL

\* In every graph the names of a processor and of a function identify it.
THEOREM NamesIdentify == Spec => []Provenance
BY AlwaysSound, GraphOwners, PTL

\* A graph stays the graph of its processors, whatever is registered,
\* finalized or composed after it.
THEOREM GraphsStayTrue == Spec => []GraphCurrent
BY AlwaysSound, GraphDrawn, PTL
-----------------------------------------------------------------------------
(* What cannot be mended.                                                  *)

\* Nothing is taken back: an initial part of the functions stays as it was.
Grown(p) ==
  /\ DOMAIN pending[p] \subseteq DOMAIN pending'[p]
  /\ \A i \in DOMAIN pending[p] : pending'[p][i] = pending[p][i]

LEMMA StepGrows ==
  ASSUME Shape, NEW p \in Processors, Onward(p)
  PROVE  Grown(p)
<1>1. CASE pending'[p] = pending[p]
  BY <1>1 DEF Grown
<1>2. ASSUME NEW f \in Library, pending'[p] = Append(pending[p], f)
      PROVE  Grown(p)
  <2>1. pending[p] \in Seq(Library)
    BY DEF Shape
  <2> QED
    BY <1>2, <2>1 DEF Grown
<1> QED
  BY <1>1, <1>2 DEF Onward

\* Fewer functions collide less, if what their annotations say is the same.
LEMMA FewerFinalize ==
  ASSUME NEW p \in Processors, Finalizable(p)', Grown(p),
         \A f \in Range(pending[p]) : means'[f.annotations] = means[f.annotations]
  PROVE  Finalizable(p)
<1> DEFINE fs == Functions(p)
           ds == {Compiled(SchemaOf[p], f) : f \in Range(fs)}
           gs == Functions(p)'
           es == {Compiled(SchemaOf[p], f) : f \in Range(gs)}
<1>1. /\ \A f \in Range(gs) : Compiles(SchemaOf[p], f)
      /\ \A i, j \in DOMAIN gs : i # j => gs[i].name # gs[j].name
      /\ \A i, j \in DOMAIN gs :
           i # j /\ gs[i].kind # "reaction" /\ gs[j].kind # "reaction"
             => gs[i].command # gs[j].command
      /\ TransitionsExclusive(es)
  BY DEF Finalizable
<1>2. DOMAIN fs = DOMAIN pending[p] /\ DOMAIN gs = DOMAIN pending'[p]
  BY DEF Functions
<1>3. ASSUME NEW i \in DOMAIN fs
      PROVE  i \in DOMAIN gs /\ gs[i] = fs[i]
  <2>1. i \in DOMAIN pending[p] /\ i \in DOMAIN pending'[p] /\ pending'[p][i] = pending[p][i]
    BY <1>2, <1>3 DEF Grown
  <2>2. pending[p][i] \in Range(pending[p])
    BY <2>1 DEF Range
  <2>3. Resolved(pending[p][i]) = Resolved(pending[p][i])'
    BY <2>1, <2>2 DEF Resolved
  <2> QED
    BY <2>1, <2>3 DEF Functions
<1> HIDE DEF fs, gs
<1>4. Range(fs) \subseteq Range(gs)
  BY <1>3 DEF Range
<1>5. TransitionsExclusive(ds)
  <2>1. ds \subseteq es
    BY <1>4
  <2> HIDE DEF ds, es
  <2> QED
    BY <1>1, <2>1 DEF TransitionsExclusive
<1>6. \A f \in Range(fs) : Compiles(SchemaOf[p], f)
  BY <1>1, <1>4
<1>7. /\ \A i, j \in DOMAIN fs : i # j => fs[i].name # fs[j].name
      /\ \A i, j \in DOMAIN fs :
           i # j /\ fs[i].kind # "reaction" /\ fs[j].kind # "reaction"
             => fs[i].command # fs[j].command
  BY <1>1, <1>3
<1> QED
  BY <1>5, <1>6, <1>7 DEF Finalizable, fs

LEMMA StepBroken ==
  ASSUME Sound, [Next]_vars, NEW p \in Processors, ~Finalizes(p),
         \A f \in Range(pending[p]) : means'[f.annotations] = means[f.annotations]
  PROVE  ~Finalizes(p)'
<1>1. Onward(p) /\ Grown(p)
  BY StepOnward, StepGrows DEF Sound
<1>2. compiled'[p] = compiled[p] /\ ~compiled[p].final /\ ~Finalizable(p)
  BY <1>1 DEF Onward, Finalizes
<1> QED
  BY <1>1, <1>2, FewerFinalize DEF Finalizes

LEMMA ResolvedFields ==
  ASSUME NEW f
  PROVE  /\ Resolved(f).name = f.name
         /\ Resolved(f).wellFormed => f.wellFormed
<1> DEFINE meaning == means[f.annotations]
<1>1. Resolved(f).wellFormed = (f.wellFormed /\ meaning.resolves)
  BY Zenon DEF Resolved
<1>2. Resolved(f).name = f.name
  BY DEF Resolved
<1> QED
  BY <1>1, <1>2

\* Two functions of one name, or one that is not well formed, are refused
\* whatever annotations say.
LEMMA HopelessRefused ==
  ASSUME NEW p \in Processors, Hopeless(p)
  PROVE  ~Finalizes(p)
<1> DEFINE fs == pending[p]
           gs == Functions(p)
<1>1. /\ DOMAIN gs = DOMAIN fs
      /\ \A i \in DOMAIN fs : /\ gs[i].name = fs[i].name
                              /\ gs[i].wellFormed => fs[i].wellFormed
  BY ResolvedFields DEF Functions
<1>2. \/ \E i \in DOMAIN fs : ~fs[i].wellFormed
      \/ \E i, j \in DOMAIN fs : i # j /\ fs[i].name = fs[j].name
  BY DEF Hopeless, Range
<1>3. Finalizes(p) => /\ \A i \in DOMAIN gs : gs[i].wellFormed
                      /\ \A i, j \in DOMAIN gs : i # j => gs[i].name # gs[j].name
  BY DEF Finalizes, Finalizable, Compiles, Hopeless, Range
<1> HIDE DEF fs, gs
<1>4. CASE \E i \in DOMAIN fs : ~fs[i].wellFormed
  BY <1>1, <1>3, <1>4, Zenon
<1>5. CASE \E i, j \in DOMAIN fs : i # j /\ fs[i].name = fs[j].name
  <2>1. PICK i \in DOMAIN fs, j \in DOMAIN fs : i # j /\ fs[i].name = fs[j].name
    BY <1>5
  <2>2. i \in DOMAIN gs /\ j \in DOMAIN gs /\ gs[i].name = gs[j].name
    BY <1>1, <2>1
  <2> QED
    BY <1>3, <2>1, <2>2
<1> QED
  BY <1>2, <1>4, <1>5

LEMMA StepHopeless ==
  ASSUME Sound, [Next]_vars, NEW p \in Processors, Hopeless(p)
  PROVE  Hopeless(p)' /\ ~Finalizes(p)'
<1>1. Onward(p) /\ Grown(p) /\ ~Finalizes(p)
  BY StepOnward, StepGrows, HopelessRefused DEF Sound
<1>2. ~compiled'[p].final
  BY <1>1 DEF Onward, Hopeless
<1>3. ASSUME NEW f \in Range(pending[p])
      PROVE  f \in Range(pending'[p])
  BY <1>1 DEF Grown, Range
<1>4. ASSUME NEW i \in DOMAIN pending[p], NEW j \in DOMAIN pending[p],
             pending[p][i].name = pending[p][j].name
      PROVE  /\ i \in DOMAIN pending'[p] /\ j \in DOMAIN pending'[p]
             /\ pending'[p][i].name = pending'[p][j].name
  BY <1>1, <1>4 DEF Grown
<1>5. Hopeless(p)'
  BY <1>2, <1>3, <1>4 DEF Hopeless
<1>6. ~Finalizes(p)'
  <2> DEFINE fs == pending'[p]
             gs == Functions(p)'
  <2>1. /\ DOMAIN gs = DOMAIN fs
        /\ \A i \in DOMAIN fs : /\ gs[i].name = fs[i].name
                                /\ gs[i].wellFormed => fs[i].wellFormed
    BY DEF Functions, Resolved
  <2>2. \/ \E i \in DOMAIN fs : ~fs[i].wellFormed
        \/ \E i, j \in DOMAIN fs : i # j /\ fs[i].name = fs[j].name
    BY <1>5 DEF Hopeless, Range
  <2>3. Finalizes(p)' => /\ \A i \in DOMAIN gs : gs[i].wellFormed
                         /\ \A i, j \in DOMAIN gs : i # j => gs[i].name # gs[j].name
    BY <1>2 DEF Finalizes, Finalizable, Compiles, Range
  <2> HIDE DEF fs, gs
  <2>4. CASE \E i \in DOMAIN fs : ~fs[i].wellFormed
    BY <2>1, <2>3, <2>4, Zenon
  <2>5. CASE \E i, j \in DOMAIN fs : i # j /\ fs[i].name = fs[j].name
    <3>1. PICK i \in DOMAIN fs, j \in DOMAIN fs : i # j /\ fs[i].name = fs[j].name
      BY <2>5
    <3>2. i \in DOMAIN gs /\ j \in DOMAIN gs /\ gs[i].name = gs[j].name
      BY <2>1, <3>1
    <3> QED
      BY <2>3, <3>1, <3>2
  <2> QED
    BY <2>2, <2>4, <2>5
<1> QED
  BY <1>5, <1>6

\* Nothing withdraws a function: a processor that finalize has refused is
\* refused until the annotations of its functions say something else, and for
\* good if the fault is elsewhere.
THEOREM RefusedAgain == Spec => BrokenStaysBroken
<1> DEFINE Stays ==
      \A p \in Processors :
        /\ /\ ~Finalizes(p)
           /\ \A f \in Range(pending[p]) : means'[f.annotations] = means[f.annotations]
           => ~Finalizes(p)'
        /\ Hopeless(p) => Hopeless(p)' /\ ~Finalizes(p)'
<1>1. Sound /\ [Next]_vars => [Stays]_vars
  BY StepBroken, StepHopeless
<1> QED
  BY <1>1, AlwaysSound, PTL DEF Spec, BrokenStaysBroken
-----------------------------------------------------------------------------
(* Types.                                                                  *)

LEMMA CompiledType ==
  ASSUME NEW p \in Processors, NEW f \in Function, Compiles(SchemaOf[p], f)
  PROVE  Compiled(SchemaOf[p], f) \in Definition
<1> DEFINE schema == SchemaOf[p]
           sources == IF f.kind = "initializer" THEN {} ELSE Sources(schema, f)
<1>1. schema \in Schemas /\ States[schema] \subseteq Models
  BY ConstantsOK DEF ConstantsOK
<1>2. f.kind \in Kinds /\ f.name \in STRING /\ f.command \in STRING /\ f.state \subseteq Models
  BY DEF Function
<1>3. Targets(f) \subseteq Models
  <2>1. Targets(f) \subseteq States[schema]
    BY <1>2 DEF Compiles, ReactionCompiles, CommandCompiles, InitializerCompiles,
       CommandReturn, Kinds
  <2> QED
    BY <1>1, <2>1
<1>4. sources \subseteq Models
  <2>1. UNION {Subclasses[m] \cap States[schema] : m \in f.state} \subseteq Models
    BY <1>1
  <2> QED
    BY <1>2, <2>1 DEF Sources
<1>5. Deletes(f) \in BOOLEAN
  BY DEF Deletes
<1> HIDE DEF sources
<1>6. Compiled(schema, f) = [kind |-> f.kind, name |-> f.name, sources |-> sources,
                             targets |-> Targets(f), deletes |-> Deletes(f),
                             command |-> f.command]
  BY DEF Compiled, sources
<1> QED
  BY <1>2, <1>3, <1>4, <1>5, <1>6 DEF Definition

LEMMA FunctionsType ==
  ASSUME Shape, NEW p \in Processors
  PROVE  Range(Functions(p)) \subseteq Function
<1> SUFFICES ASSUME NEW i \in DOMAIN pending[p]
             PROVE  Resolved(pending[p][i]) \in Function
  BY DEF Functions, Range
<1> DEFINE f == pending[p][i]
           meaning == means[f.annotations]
<1>1. f \in Registered
  BY ConstantsOK DEF ConstantsOK, Shape
<1>2. f.annotations \in DOMAIN Readings /\ f.wellFormed \in BOOLEAN
  BY <1>1 DEF Registered
<1>3. meaning \in Meaning
  BY <1>2, ConstantsOK DEF ConstantsOK, Shape
<1> HIDE DEF f, meaning
<1>4. Resolved(f) = [kind |-> f.kind, name |-> f.name, match |-> f.match,
                     wellFormed |-> f.wellFormed /\ meaning.resolves, state |-> meaning.state,
                     command |-> meaning.command, returns |-> meaning.returns]
  BY DEF Resolved, meaning
<1>5. f.kind \in Kinds /\ f.name \in STRING /\ f.match \in {"exact", "subclasses"}
  BY <1>1 DEF Registered
<1>6. /\ meaning.resolves \in BOOLEAN /\ meaning.state \subseteq Models
      /\ meaning.command \in STRING /\ meaning.returns \subseteq Outcome
  BY <1>3 DEF Meaning
<1>7. (f.wellFormed /\ meaning.resolves) \in BOOLEAN
  OBVIOUS
<1> QED
  BY <1>4, <1>5, <1>6, <1>7 DEF Function, f

LEMMA FinalizedType ==
  ASSUME Shape, NEW p \in Processors, Finalizes(p), compiled[p].definitions \subseteq Definition
  PROVE  Finalized(p).definitions \subseteq Definition /\ Finalized(p).final
<1>1. CASE compiled[p].final
  BY <1>1 DEF Finalized
<1>2. CASE ~compiled[p].final
  <2>1. \A f \in Range(Functions(p)) : Compiles(SchemaOf[p], f)
    BY <1>2 DEF Finalizes, Finalizable
  <2>2. Range(Functions(p)) \subseteq Function
    BY FunctionsType
  <2>3. Finalized(p) = [definitions |-> CompiledOf(p), final |-> TRUE]
    BY <1>2 DEF Finalized, CompiledOf
  <2>4. CompiledOf(p) \subseteq Definition
    BY <2>1, <2>2, CompiledType DEF CompiledOf
  <2> QED
    BY <2>3, <2>4
<1> QED
  BY <1>1, <1>2

LEMMA EdgesType ==
  ASSUME NEW p \in Processors, Finalized(p).definitions \subseteq Definition
  PROVE  Edges(p) \subseteq Edge
<1> SUFFICES ASSUME NEW edge \in Edges(p)
             PROVE  edge \in Edge
  OBVIOUS
<1>1. PICK d \in Finalized(p).definitions :
        \E s \in (IF d.kind = "initializer" THEN {None} ELSE d.sources) :
          \E t \in d.targets \cup (IF d.deletes THEN {None} ELSE {}) :
            edge = [kind |-> d.kind, processor |-> NameOf[p], function |-> d.name,
                    source |-> s, target |-> t]
  BY DEF Edges
<1>2. d.kind \in Kinds /\ d.name \in STRING /\ d.sources \subseteq Models /\ d.targets \subseteq Models
  BY DEF Definition
<1>3. NameOf[p] \in STRING
  BY ConstantsOK DEF ConstantsOK
<1>4. PICK s \in Models \cup {None}, t \in Models \cup {None} :
        edge = [kind |-> d.kind, processor |-> NameOf[p], function |-> d.name,
                source |-> s, target |-> t]
  BY <1>1, <1>2
<1> QED
  BY <1>2, <1>3, <1>4 DEF Edge

LEMMA StepTyped ==
  ASSUME Sound, TypeOK, [Next]_vars
  PROVE  TypeOK'
<1>1. Shape' /\ Shape /\ \A p \in Processors : Onward(p)
  BY StepOnward DEF Sound
<1>2. ASSUME NEW p \in Processors
      PROVE  /\ compiled'[p].final \in BOOLEAN
             /\ compiled'[p].definitions \subseteq Definition
  <2>1. CASE compiled'[p] = compiled[p]
    BY <2>1 DEF TypeOK
  <2>2. CASE Finalizes(p) /\ compiled'[p] = Finalized(p)
    BY <1>1, <2>2, FinalizedType DEF TypeOK
  <2> QED
    BY <1>1, <2>1, <2>2 DEF Onward
<1>3. factories' \subseteq Processors
  BY DEF TypeOK, Next, Register, Decorator, Apply, Rebind, Finalize, Compose, vars
<1>4. graph'.processors \subseteq Processors /\ graph'.edges \subseteq Edge
  <2>1. CASE graph' = graph
    BY <2>1 DEF TypeOK
  <2>2. ASSUME NEW ps \in Compositions, Compose(ps), graph' # graph
        PROVE  graph'.processors \subseteq Processors /\ graph'.edges \subseteq Edge
    <3>1. /\ \A i \in DOMAIN ps : \A j \in 1..i : Finalizes(ps[j])
          /\ graph' = [processors |-> Range(ps), edges |-> UNION {Edges(p) : p \in Range(ps)}]
      BY <2>2 DEF Compose
    <3>2. Range(ps) \subseteq Processors
      BY CompositionOfProcessors
    <3>3. ASSUME NEW p \in Range(ps)
          PROVE  Edges(p) \subseteq Edge
      <4>1. PICK i \in DOMAIN ps : p = ps[i]
        BY DEF Range
      <4>2. i \in 1..i
        BY CompositionOfProcessors
      <4>3. p \in Processors /\ Finalizes(p)
        BY <3>1, <3>2, <4>1, <4>2
      <4> QED
        BY <1>1, <4>3, FinalizedType, EdgesType DEF TypeOK
    <3> QED
      BY <3>1, <3>2, <3>3
  <2>3. graph' = graph \/ \E ps \in Compositions : Compose(ps)
    BY DEF Next, Register, Decorator, Apply, Rebind, Finalize, vars
  <2> QED
    BY <2>1, <2>2, <2>3
<1> QED
  BY <1>1, <1>2, <1>3, <1>4 DEF TypeOK, Shape

\* Everything a processor compiles, and every edge of a graph, is of the types
\* of _FunctionDefinition and of the graph's edges, for any library.
THEOREM TypesHold == Spec => []TypeOK
<1>1. Init => TypeOK
  <2> SUFFICES ASSUME Init
               PROVE  TypeOK
    OBVIOUS
  <2>1. graph.processors = {} /\ graph.edges = {}
    BY DEF Init, NoGraph
  <2>2. \A p \in Processors : compiled[p].final = FALSE /\ compiled[p].definitions = {}
    BY DEF Init, Unfinalized
  <2>3. /\ factories = {} /\ pending \in [Processors -> Seq(Library)]
        /\ \A a \in DOMAIN Readings : means[a] \in Readings[a]
    BY ConstantsOK DEF ConstantsOK, Init
  <2> QED
    BY <2>1, <2>2, <2>3 DEF TypeOK
<1>2. TypeOK /\ Sound /\ [Next]_vars => TypeOK'
  BY StepTyped
<1> QED
  BY <1>1, <1>2, AlwaysSound, PTL DEF Spec
=============================================================================
