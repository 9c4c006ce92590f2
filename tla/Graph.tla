------------------------------- MODULE Graph -------------------------------
(***************************************************************************)
(* How the graph command finds schemas and processors (_graph.py): it      *)
(* resolves each reference to a module or to an object, walks collections  *)
(* depth first, and draws one graph per schema found.  The collections     *)
(* seen are remembered by address (id()), and an address is free again     *)
(* once its object is gone; modules are imported as they are referenced.   *)
(***************************************************************************)
EXTENDS Integers, SequencesExt

CONSTANTS
  Schemas, Processors, Collections,   \* objects the modules hold on to
  Addresses,        \* where a collection may be placed
  References,       \* what the command may be asked for
  MaxReferences,    \* bound: references of one command
  MaxMembers,       \* bound: members of one collection
  None

Objects == Schemas \cup Processors \cup Collections

\* A reference names an object, a module and with it all its objects, or an
\* attribute that is computed anew as a collection (a property, say) of such
\* objects; a broken one cannot be imported or resolved.
ASSUME GraphConstantsOK ==
  /\ Schemas \cap Processors = {} /\ Schemas \cap Collections = {}
  /\ Processors \cap Collections = {} /\ IsFiniteSet(Collections)
  /\ None \notin Addresses
  /\ References \subseteq [kind : {"object", "module", "computed", "broken"}, holds : Seq(Objects)]

VARIABLES
  schemaOf, members,     \* the objects, as the modules define them
  references, asked,     \* all references of the command, and those resolved
  at,                    \* the address of each collection imported so far
  value,                 \* the address of the computed value last resolved
  reused,                \* history: one was placed where one had been seen
  frames,                \* the active collect calls, what each has left
  schemas, processors,   \* what was found, in order
  seenCollections,       \* addresses
  phase, graphs

objects == <<schemaOf, members, references>>
found == <<schemas, processors, seenCollections>>
places == <<at, value, reused>>
vars == <<objects, asked, places, frames, found, phase, graphs>>

Init ==
  /\ schemaOf \in [Processors -> Schemas]
  /\ members \in [Collections -> BoundedSeq(Objects, MaxMembers)]
  /\ references \in BoundedSeq(References, MaxReferences) \ {<<>>}
  /\ at = [c \in Collections |-> None] /\ value = None /\ reused = FALSE
  /\ asked = 0 /\ frames = <<>>
  /\ schemas = <<>> /\ processors = <<>> /\ seenCollections = {}
  /\ phase = "collecting" /\ graphs = <<>>
-----------------------------------------------------------------------------
Resolving ==
  /\ phase = "collecting" /\ frames = <<>> /\ asked < Len(references)
  /\ asked' = asked + 1
  /\ UNCHANGED <<objects, schemas, processors, graphs>>

Imported == {c \in Collections : at[c] # None}

\* A reference imports its module, unless that was imported, and the modules
\* this one imports.  Their collections are placed where there is none: the
\* computed value of the reference before is still held, those before it are
\* gone.
Import ==
  \E new \in SUBSET (Collections \ Imported) :
    \E place \in Injection(new, Addresses \ (Range(at) \cup {value})) :
      /\ ToSet(references[asked'].holds) \cap Collections \subseteq Imported \cup new
      /\ \A c \in new : ToSet(members[c]) \cap Collections \subseteq Imported \cup new
      /\ at' = [c \in Collections |-> IF c \in new THEN place[c] ELSE at[c]]

PlacedWhereSeen == \E c \in Collections \ Imported : at'[c] \in seenCollections

\* An object, or the objects of a module one by one.
ResolveHeld ==
  /\ Resolving
  /\ references[asked'].kind \in {"object", "module"}
  /\ Import
  /\ frames' = <<references[asked'].holds>>
  /\ value' = None
  /\ reused' = (reused \/ PlacedWhereSeen)
  /\ UNCHANGED <<seenCollections, phase>>

\* The collection is computed while the value before it is still held.
ResolveComputed ==
  /\ Resolving
  /\ references[asked'].kind = "computed"
  /\ Import
  /\ \E address \in Addresses \ (Range(at') \cup {value}) :
       /\ value' = address
       /\ frames' = IF address \in seenCollections THEN <<>> ELSE <<references[asked'].holds>>
       /\ seenCollections' = seenCollections \cup {address}
       /\ reused' = (reused \/ PlacedWhereSeen \/ address \in seenCollections)
  /\ UNCHANGED phase

\* GraphImportError, whatever was found before.
ResolveBroken ==
  /\ Resolving
  /\ references[asked'].kind = "broken"
  /\ phase' = "raised"
  /\ UNCHANGED <<frames, places, seenCollections>>

Collecting ==
  /\ frames # <<>>
  /\ UNCHANGED <<objects, asked, places, phase, graphs>>

Met == Head(Head(frames))
Rest == <<Tail(Head(frames))>> \o Tail(frames)

\* Mutant: a processor is taken each time it is met.
CollectProcessorAgain ==
  /\ Collecting /\ Head(frames) # <<>> /\ Met \in Processors
  /\ processors' = Append(processors, Met)
  /\ frames' = <<<<schemaOf[Met]>>>> \o Rest
  /\ UNCHANGED <<schemas, seenCollections>>

CollectProcessor ==
  /\ Collecting /\ Head(frames) # <<>> /\ Met \in Processors
  /\ processors' = IF Contains(processors, Met) THEN processors ELSE Append(processors, Met)
  /\ frames' = <<<<schemaOf[Met]>>>> \o Rest
  /\ UNCHANGED <<schemas, seenCollections>>

CollectSchema ==
  /\ Collecting /\ Head(frames) # <<>> /\ Met \in Schemas
  /\ schemas' = IF Contains(schemas, Met) THEN schemas ELSE Append(schemas, Met)
  /\ frames' = Rest
  /\ UNCHANGED <<processors, seenCollections>>

\* Mutant: a collection is walked each time it is met.
CollectMembersAgain ==
  /\ Collecting /\ Head(frames) # <<>> /\ Met \in Collections
  /\ frames' = <<members[Met]>> \o Rest
  /\ seenCollections' = seenCollections \cup {at[Met]}
  /\ UNCHANGED <<schemas, processors>>

CollectMembers ==
  /\ Collecting /\ Head(frames) # <<>> /\ Met \in Collections
  /\ frames' = IF at[Met] \in seenCollections THEN Rest ELSE <<members[Met]>> \o Rest
  /\ seenCollections' = seenCollections \cup {at[Met]}
  /\ UNCHANGED <<schemas, processors>>

Return ==
  /\ Collecting /\ Head(frames) = <<>>
  /\ frames' = Tail(frames)
  /\ UNCHANGED found

Finish ==
  /\ phase = "collecting" /\ frames = <<>> /\ asked = Len(references)
  /\ phase' = IF schemas = <<>> /\ processors = <<>> THEN "refused" ELSE "collected"
  /\ UNCHANGED <<objects, asked, places, frames, found, graphs>>

\* Mutant: every graph is drawn with every processor.
ComposeAll ==
  /\ phase = "collected" /\ phase' = "drawn"
  /\ graphs' = [i \in DOMAIN schemas |-> [schema |-> schemas[i], drawn |-> DOMAIN processors]]
  /\ UNCHANGED <<objects, asked, places, frames, found>>

\* One graph per schema, of the processors that belong to that very schema, in
\* the order they were found (their positions among those found); what is
\* drawn of them is what compose_processors composes.
Compose ==
  /\ phase = "collected" /\ phase' = "drawn"
  /\ graphs' = [i \in DOMAIN schemas |->
                  [schema |-> schemas[i],
                   drawn |-> {j \in DOMAIN processors : schemaOf[processors[j]] = schemas[i]}]]
  /\ UNCHANGED <<objects, asked, places, frames, found>>

Next ==
  \/ ResolveHeld \/ ResolveComputed \/ ResolveBroken
  \/ CollectProcessor \/ CollectSchema \/ CollectMembers \/ Return
  \/ Finish \/ Compose

Spec == Init /\ [][Next]_vars
-----------------------------------------------------------------------------
\* A set that holds all its objects lead to: the members of a collection, the
\* schema of a processor.
Closed(known) ==
  /\ \A c \in known \cap Collections : ToSet(members[c]) \subseteq known
  /\ \A p \in known \cap Processors : schemaOf[p] \in known

\* What the command was asked for and all that it leads to.
Asked == UNION {ToSet(references[i].holds) : i \in DOMAIN references}
Reachable ==
  LET closed == {known \in {Asked \cup more : more \in SUBSET (Objects \ Asked)} : Closed(known)}
  IN {object \in Objects : \A known \in closed : object \in known}

\* Whatever shape the collections have, shared, nested or cyclic, the command
\* finds every schema and processor it was pointed at (API.md:699: "находит в
\* них объекты `FSMSchema` и `FSMProcessor`"), each once; it refuses only when
\* there is none (import_definitions).  But collect remembers the address of a
\* computed collection, which nothing keeps alive: a collection that is computed
\* or imported later may be placed there, and is then passed over.
FoundExactly ==
  phase \in {"collected", "refused", "drawn"} =>
    LET reachable == Reachable
    IN /\ IsInjective(schemas) /\ IsInjective(processors)
       /\ ToSet(schemas) \subseteq reachable /\ ToSet(processors) \subseteq reachable
       /\ ~reused =>
            /\ reachable \cap Schemas \subseteq ToSet(schemas)
            /\ reachable \cap Processors \subseteq ToSet(processors)
            /\ phase = "refused" <=> reachable \cap (Schemas \cup Processors) = {}

\* Each processor found is drawn once, with its own schema, even when that
\* schema was met by itself only after it, or never (_compose_graphs).
DrawnOnce ==
  phase = "drawn" =>
    \A p \in ToSet(processors) :
      \E i \in DOMAIN graphs, j \in DOMAIN processors :
        /\ {place \in (DOMAIN graphs) \X (DOMAIN processors) :
               place[2] \in graphs[place[1]].drawn /\ processors[place[2]] = p} = {<<i, j>>}
        /\ graphs[i].schema = schemaOf[p]

\* A collection that contains itself, directly or not, is not followed
\* forever: collect nests no deeper than the collections there are, then a
\* processor and its schema (seen_collections).
NestingBounded == Len(frames) <= Cardinality(Collections) + 2
=============================================================================
