# Verification of etcd-fsm

etcd-fsm lets services drive typed state machines whose states are kept in etcd.
This directory holds TLA+ modules that model its code, TLC configurations that
check them on small instances, and TLAPS proofs of what holds for every instance.
File and line references are to the repository (`src/`; the package's files are in
`src/etcd_fsm/`).

## 1. Inventory

| component | state it keeps | operations | interacts through |
|---|---|---|---|
| **Backend contract**, `_backend.py` | none: a Protocol and data classes | `connect`, `range`, `transaction`, `watch`, leases, `close`; `prefix_range_end` | implemented by the two backends, used by the Runtime that the documents describe |
| **In-memory backend**, `_fake_backend.py` | `_revision`, `_compacted_revision`, versions per key (`_history`), replayable batches (`_events`), registered watchers with a queue each, leases with deadlines, a manual clock, `_closed` | the contract, plus `advance_time`, `compact`, `lease_time_to_live` | one asyncio lock; a watch is an async generator which the consumer advances and which commits feed through a queue |
| **Network adapter**, `_aetcd_backend.py` | the `aetcd` client | the contract, each call a request to a server | messages that may be lost or late; exceptions translated to the contract's |
| **Schema compiler**, `schema.py`, `_typing.py` | state and command models by discriminator, fixed at construction | construction, lookups, `validate_state_value`, `validate_command_value` | read by processors |
| **Processors**, `processor.py`, `outcomes.py` | `_pending` functions; definitions once finalized | decorators, `finalize`, `compose_processors` | a composition finalizes its processors and compares their definitions |
| **Keys and base models**, `base.py` | none | syntax of namespaces and State Keys | used by schemas |
| **Graph discovery**, `_graph.py` | what a command has collected so far, by `id()` | resolve references, collect, compose per schema | reads modules; composes processors |
| **Rendering, CLI, errors**, `cli.py`, `errors.py`, rest of `_graph.py` | none | Mermaid and DOT text, files | reads a composed graph |
| **Runtime** | – | – | specified in `docs/`, not present as source |

What is hard here, and what makes each part correct:

* *In-memory backend.* Transactions, leases running out, compaction and generators that
  start late, are cancelled while they wait or are still draining when the backend closes
  interleave at every await. A branch is applied whole; batches explain the store; pinned
  reads repeat; a live key never outlives its lease; a compare cannot mistake a recreated
  key for the old one; a watch owes and delivers each batch of its range once, in order,
  from its start.
* *The reader of a range.* The Runtime's documents prescribe a snapshot page by page,
  then a watch from the next revision, resumed when it breaks. Every seam (page to page,
  page to watch, watch to watch) can lose or tear something.
* *Adapter.* An outcome may stay unknown; one revision arrives as several batches and
  the stream may break between them; a page must be dated with the revision it was read
  at and not with the server's; the cause of an error may be no more than its text. What
  the caller is told must be true all the same.
* *Keys.* Half-open ranges with two special ends, the carry over 0xFF bytes at the end
  of a prefix, objects stored below one another with only the reserved segment `rpc`
  between the commands of the one and the states of the other.
* *Schemas.* Members of two string enums with equal values are equal and hash alike, so
  a lookup by discriminator finds strangers; a model is accepted or refused on what its
  annotation, its default and its base classes say; generic arguments are found through
  generations of classes.
* *Processors.* Registration happens in import order, composition finalizes one argument
  after another before it checks them together and may be asked again after it failed.
  A concrete state has one transitioning reaction, a command one function, an edge
  unambiguous provenance, and nothing later makes a graph stale.
* *Graph discovery.* Collections may be nested, shared, cyclic, or computed on access;
  what was seen is remembered by an address that may be used again.

`PROJECT.json` lists the hazards at their lines, each with the properties that cover it or
the reason why none does.

## 2. Modules

```
KeyRange -- FakeEtcd -+- FakeEtcdRefinement --(INSTANCE)-- EtcdContract
   |           |      +- MCStore -- MCWatch
   |           |      +- Reconcile -- MCReconcile
   |           +- FakeEtcdProofs -- FakeEtcdWatchProofs (FakeEtcdRefinement)
   |                                   +- ReconcileProofs (Reconcile)
PrefixRange, KeyPath -- MCKeys (KeyRange) -- KeyProofs
Aetcd -- MCAetcd           Aetcd -- AetcdProofs
Processor -- MCProcessor   Processor -- ProcessorProofs
Schema, Generic -- MCSchema    Schema, Generic -- SchemaProofs
Graph -- MCGraph           Graph -- GraphProofs
```

**KeyRange** models `_key_in_range` and `_ranges_overlap`. Only the lexicographic order
of byte strings matters, so a key is a natural number: `b""` is 0, `b"\0"` is 1, and
`key + b"\0"`, the very next byte string, is `key + 1`. An instance whose keys are all even
leaves room for the end of a put's range `[k, k + 1)` below the next key; `MCReconcile` has
two keys that are neighbours.

**PrefixRange** takes strings of bytes as they are, with their order (`Less`) position by
position, and models `prefix_range_end`. The greatest byte is a parameter.

**KeyPath** models the syntax checks of namespaces and State Keys on paths cut into
segments, and says what an object stored below its key owns.

**FakeEtcd** models the in-memory backend.

| code | model |
|---|---|
| `_history` | `history`, a sequence of versions per key; a tombstone has value `None` |
| `_events` | `events`, the revisions still replayable, over `log`, the batch of every revision ever published (`log` is the record the properties speak about, only `events` is looked at by the code's steps) |
| `_watchers` and the generators | `watch[w]`: phase, range, start, registered, `backlog` still to be replayed, `queue`, and `delivered`, the batches yielded so far. `End` is the `None` that `close` queues |
| `_leases`, `_next_lease_id`, `_clock` | `leases`, `nextLease`, `clock` |
| list `expired` in `advance_time` | `expired`; non-empty means its loop is running and the lock is held |

Every coroutine takes the lock and awaits nothing inside, so each is one action with all
it calls: `Transact` includes validation, the writes, the new revision and the queueing
for every watcher. `advance_time` is the exception: `AdvanceTime` and one `ExpireNext`
per lease, as it commits one revision per lease; nothing else runs in between.
A watch is several actions, because a generator runs only when it is advanced: `Watch` (the
call, which checks nothing), `BeginWatch` (replay and registration, or the exception),
`Deliver`, `CancelWatch`. A call that raises leaves the state as it was and is no
step, except where it raises half way: `Executed` stops a branch at the first operation
that raises, and the writes before it stay, as in the code.
Values are small numbers and the empty value is 0. Versions keep all of their metadata.
The payload of events is the key and the new value. Reads change nothing; they are
operators here (`KeyValueAt`) and steps of a reader in Reconcile.

**EtcdContract** is the abstract specification: a `view` of current values, a log of
batches, a compaction floor and watches that owe batches. `Commit` says that a batch is the
whole change; `HandOver` that a watch hands over the least batch due; `Finish` that closing
ends a watch only when it owes nothing. **FakeEtcdRefinement** maps FakeEtcd
to it: `view` reads the versions, a watch is on while its generator is open.

**Reconcile** composes FakeEtcd with a reader that mirrors a range, as the documents
prescribe it for the Runtime. `ReadPage` is one `range` call (`RangeRaises`, `RangeResult`,
`NextKey` are its code), pinned to the revision of the first page; `Follow` calls `watch` for
the next revision; `Begin` and `Apply` are the reader's half of the backend's `BeginWatch`
and `Deliver`; `Break` and `Resume` lose a watch and open its successor. A read or a watch
refused because of a compaction starts a new scan. The other clients are FakeEtcd's actions.

**Aetcd** models the adapter. A unary call goes through `Call` (arguments checked, request
built), `Connect`, `Send` and then either `Return` (the answer arrives and is translated) or
`TimeOut`; a keep-alive may also end by `HangUp`, when its stream ends without an answer.
`Execute` is the server; it may run before or after the caller has given up, or
never, and a request or answer that is never acted upon is a lost one. A transaction has one
compare and two branches, each of which puts some keys, deletes some, or only reads; a branch
that changes nothing makes no revision. `Others`, `Expire`
and `Compact` are what other clients and the server's clock do. Server and client library are
external, modelled by what the adapter relies on: a log of revisions each with the keys it writes,
those of them it deletes and its author, a floor, leases. A watch is `Watch`, `ConnectWatch`, `OpenWatch`, `Yield` (one event, made
into one batch) and `Break`; a consumer follows one watch after another, resuming at the revision
of its last batch. `Close` cuts what is open; a later `Connect` opens the client again.
Messages are abstracted to that one compare and those keys, results of a transaction to the
branch that ran, the revision and what was deleted.

**Processor** models registration, `finalize` and `compose_processors`. A registered function is
a record of its decorator's arguments and the name of its annotations; what annotations say at
the moment (`means`) is the models in the State parameter, the command, the outcomes returned, or
that something in them is not defined. They are evaluated at each attempt to finalize
(`Resolved`), as `get_type_hints` is called anew, and `Rebind` lets modules define a name, or
another one, in between. What no later definition can mend, a function that is no coroutine, lacks
an annotation or has a "/" in its name, is the flag `wellFormed`. A schema is given by its concrete
states, the result types of its commands and the bases specialised for its enum. `Decorator` and
`Apply` are the two halves of `@processor.reaction(...)`: only the first looks at whether the
processor is final. `Compose` finalizes its arguments up to the first that raises and keeps
that, whether or not the checks that follow succeed.

**Schema** models the construction of a registry of states or of commands. Constructing one
is a sequence of steps, one per model passed (`Compile`), ended by `Refuse` or `Complete`.
`Validate` gives a built registry a value: of a registered class, of another one, with a
discriminator it was given without validation. A Python class is a record of what compiling
looks at. Discriminators are equal when their values are, whatever their enum
(`Registered`), as members of string enums are.

**Generic** is `_typing.py`'s search for the argument with which a class specializes a generic
ancestor. `calls` holds the activations of `_find_pydantic_generic_argument`, each with its class,
its bindings and the base its loop has come to; `Search`, `Descend`, `Backtrack` and `Found` are
the call from outside, the recursive call, the return of `_MISSING` and the return of an argument
through all callers. `SubstituteTypeVars` follows a chain of bindings as the `while` loop does, or
`Diverges`. `Define` is a class statement: classes are numbered in the order of definition, a type
variable is the pair of its class and its place, so it belongs to one class (`class Model[T]`).
An argument is a type, a variable of the class being defined, or generic classes applied to such a
variable (`Applied`). Beside the table of classes, `means` keeps what each class statement says of
the target's parameter in terms of its bases alone (`Declared`), and `written` the same with
variables inside an argument left as they are (`Written`): that is what the search has to find.

**Graph** models `_graph.py` up to the composed graphs: references are resolved in order,
`frames` are the active calls of the nested function `collect`, `seenCollections` holds
addresses. Resolving a reference imports its module and what that imports (`Import`): their
collections are placed at addresses that are free (`at`). A computed collection is a new object,
placed likewise and gone once the next reference is resolved; it holds objects of modules.
`reused` records that a collection was placed where one had been seen.
A graph is its schema and the positions, among the processors found, of those drawn in it.
What the command should find, `Reachable`, is the least set that holds what it was asked for
and all that leads to, the members of a collection and the schema of a processor; it says nothing
of an order or of calls.

The MC modules hold the constants of the instances and, where an instance is cut into parts
that do not interact (MCAetcd's calls and watches, MCProcessor's three teams), the constraint
that keeps them apart.

## 3. Runs

| run | what it shows | bounds |
|---|---|---|
| `keys` | the overlap test accepts exactly the pairs of writes without a common key; a prefix range holds exactly the keys with the prefix; objects of one schema own disjoint subtrees | all pairs of ranges over 0..5, so empty, reversed, touching, nested and unbounded ones occur; 3 byte values, prefixes to 3 and keys to 4 bytes, so carries pass over one and two greatest bytes; paths of up to 3 segments |
| `store` | seven invariants and two action properties of versions, leases, compaction and claims | 2 keys, 2 leases, clock to 3, transactions up to revision 4 and expiry beyond |
| `watch` | nothing lost, repeated, reordered or early | 2 symmetric watches, one-key and whole ranges, 2 committed revisions and one of expiry |
| `live` | batches arrive, closing ends generators, FakeEtcd implements EtcdContract | 1 watch (watches do not affect each other in either specification, and `watch` covers two), revision 3 |
| `ghost` | violation: a failed transaction leaves a write | |
| `ahead` | violation: a watch yields batches older than its start | a start up to 2 beyond the present |
| `reconcile` | the reader's mirror is never torn, lags only by what its watch still holds, and comes to hold the present again | 3 keys of which 2 neighbours lie in the range, pages of one key, revision 2 and expiry beyond, one broken watch, 6 watches so that a new scan always finds one |
| `aetcd` | what callers and consumers are told is true; calls come back | 2 calls of any of 12 requests, valid or not, with transactions that write in either branch, delete or only read, or 3 watches one after another; 2 keys, revision 3, one lease |
| `processor` | uniqueness over composed graphs, provenance, no stale graph, a refused processor is refused again until an annotation says something else | a team of three processors of a schema, two of the same name, 5 functions that collide in every way the checks are for, with 2, 1 and 1 registrations; two teams of two processors of two schemas, 2 registrations each: functions that fail in different ways, and one whose annotation is undefined at first and later names a state of one schema or the other |
| `late` | violation: a function registered with a final processor is never compiled | as `processor` |
| `schema` | a schema is built from exactly the right models and accepts exactly its own values; the generic search finds what the classes declare | up to 3 models, of two enums with equal values and an empty one; a good class per member and a class per defect; beside the target three generic classes of up to 2 bases each, two with up to 2 parameters and the last one without, and 2 types: enough for a chain of three generations, for two paths to the target, for parameters that are swapped, repeated, dropped or left unbound, and for arguments that contain one |
| `graph` | each schema and processor found once and drawn once, nesting bounded | 2 schemas, 2 processors, 2 collections; up to 3 references, references and members at most 4 together: 3 references is what it takes to place a collection where one was seen, 1 what a cycle of two takes; 3 addresses, for the collections and a computed one; schemas, processors, collections and addresses are symmetric, as nothing tells one from another |

The exact constants are in the `.cfg` files. The bounds are large enough for the cases that
matter: a key is created, claimed, detached, deleted, expired and created again with compaction
in between (this needs one key and three revisions); two leases run out in one
`advance_time`; a watch starts before, at and after a compaction, is behind by more than one
batch when the backend closes, and is cancelled in each phase; a scan loses its pinned revision
between two pages; a stream breaks between two events of one revision. The bound `MaxRevision`
is tested by transactions only, so expiry and revocation still commit beyond it.
For every property of a passing run, `PROJECT.json` names a mutant of the code that breaks it.

`CHECK_DEADLOCK FALSE` is set where the system really stops: a closed backend whose generators
have all ended (`store`, `ghost`, `watch`, `ahead`, `live`, `reconcile`), all calls returned and
all watches used (`aetcd`), a schema that was refused (`schema`), a command that has drawn or
failed (`graph`). The other runs look for deadlocks.

*Fairness.*
`live`: `ExpireNext`, as the loop in `advance_time` contains no await; `BeginWatch` and
`Deliver`, as a consumer is an `async for`, which asks for the next batch as soon
as it has handled the last, and the event loop resumes a coroutine whose queue is not empty.
Nothing is assumed of clients, and a consumer may give up at any time.
`reconcile`: the same of expiry, and that the reader goes on with each of its own steps; it is
never certain that a watch breaks, and commits, compactions and closing may or may not come.
`aetcd`: `Connect` and `Send` of each call, and `TimeOut`, of the model, which stands for the
expiry of the timeout the adapter passes to the client. Nothing is assumed of the network or
the server. A timeout is the constructor's option and `None` by default; without one `CallsReturn`
does not hold, as a lost answer is waited for forever.

*Workload.* In the passing runs no branch reads after a write (`ReadsFirst`); what happens
otherwise is `ghost`. Watches start at most one revision ahead of the present, which is what
docs/adr/0033 prescribes (read a snapshot at R, watch from R + 1); what happens otherwise is
`ahead`. So the first two disagreements of section 4 do not occur in the passing runs, and what
these show is for clients that keep to both rules.

## 4. Disagreements found

Shown by runs:

1. *A failed transaction can leave its write behind* (`ghost`, `_fake_backend.py:106-134`).
   Operations run one by one against `_history`. A `GetRange` after a `Put` raises when the
   current revision has been compacted, when it names a revision, or when its limit is not
   positive; the put is by then stored at `revision + 1` and becomes visible with the
   next commit, without an event. `_backend.py:168` promises atomic evaluation.
2. *A watch from the future is not exact* (`ahead`, `_fake_backend.py:459`). `start_revision`
   filters the replay but not the live stream. `_backend.py:178` promises an exact start.
3. *Registration after finalize* (`late`, `processor.py:302-320`). `docs/API.md:586` rules it
   out; a decorator obtained before `finalize` still registers, and its function is
   silently not part of the processor. `GraphCurrent` shows that graphs are not affected.

Observed while modelling, and part of the models, but without a run of their own:

* A read at the current revision succeeds after that revision has been compacted, while the
  same revision is refused by name (`_fake_backend.py:278`): a scan of several pages starts
  over until something is committed. `ConvergesAbove` excepts this state.
* The adapter yields one batch per event (`_aetcd_backend.py:207`), the in-memory backend one
  per revision, as `tests/test_fake_backend.py:240` expects. A consumer can rely on
  `ResumeComplete`, not on seeing a revision whole.
* A `FutureRevision` recognised by its text names 0 as the current revision
  (`_aetcd_backend.py:358`).
* A call after `close()` opens the client again (`_aetcd_backend.py:72`); the in-memory backend
  raises `BackendClosed`.
* A keep-alive whose stream ends without an answer raises `LeaseNotFound`
  (`_aetcd_backend.py:168`), which says that the lease does not exist (`_backend.py:135`), though
  it may live. `ErrorsTrue` excepts this call.
* Annotations are evaluated at each `finalize` (`processor.py:484`): a processor that failed on a
  forward reference can be finalized later. `BrokenStaysBroken` says what stays refused.
* Nested namespaces are accepted (`schema.py:331`); `SubtreesApart` holds within one schema.
* A value built without validation can fail with pydantic's `ValidationError`
  (`schema.py:95`) where docs/API.md:409 names the library's errors.
* A command model whose result type is still a type variable is accepted (`schema.py:204`),
  though docs/API.md:424 asks for a concrete one.
* `collect` remembers `id()` of collections computed on access, which nothing keeps alive
  (`_graph.py:58`). A collection computed or imported for a later reference may be placed at that
  address and is then passed over: with `m:computed`, `m:other`, `n:GROUP` this can be the list
  that `n` holds. `FoundExactly` excepts commands in which that has happened (`reused`).
* An argument that contains a type variable is returned as it is written
  (`_typing.py:80-86`): after `class D[S](Command[Applied[S]])`, the result type of
  `class X(D[Paid])` is `Applied[S]`, where docs/API.md:424 speaks of the resolved annotation.
  `SearchExact` says for which classes.
* Where classes share `TypeVar` objects, the search for generic arguments follows bindings
  as a chain and may return another argument, or not return (`_typing.py:81`). `SearchExact` is
  about classes with variables of their own, for which no chain has a second link.

## 5. Proofs

| module | theorem | property of the runs | hypotheses |
|---|---|---|---|
| FakeEtcdProofs | `TypeCorrect` | `TypeOK` | |
| | `BranchesWhole` | `AllCommitted` | `ReadsFirst` |
| | `LeasesHold` | `LeaseIntegrity` | `ReadsFirst` |
| | `LeasesEndInTime` | `NoOverdueLease` | |
| | `HistoryAscends` | `VersionsAscend` | `ReadsFirst` |
| | `PinnedReadsRepeat` | `ReadsRepeat` | `ReadsFirst` |
| | `BatchesTellTheStory` | `LogExplainsHistory` | `ReadsFirst` |
| | `WritesNeverConfused` | `WritesIdentified` | `ReadsFirst` |
| | `ClaimsKeepOwners` | `ClaimExclusive` | `ReadsFirst`, `ClaimsCompare` |
| FakeEtcdWatchProofs | `NothingMissed` | `WatchComplete` | |
| | `DeliveredInOrder` | `WatchOrdered` | |
| | `NothingEarly` | `WatchFromStart` | `Ahead <= 1` |
| | `KeepsContract` | `Implements` | `ReadsFirst`, `Ahead <= 1` |
| ReconcileProofs | `MirrorNeverTorn` | `MirrorExact` | `ReadsFirst`, `Ahead <= 1` |
| | `NothingLeftBehind` | `CaughtUp` | `ReadsFirst`, `Ahead <= 1` |
| | `ReaderIsAClient` | `ReaderSpec => Spec` | `ReadsFirst`, `Ahead <= 1` |
| KeyProofs | `OverlapIsSound`, `AcceptedAlwaysDisjoint` | `AcceptedWritesDisjoint` | |
| | `OverlapIsExact`, `RefusedAlwaysMeet` | `RefusedWritesMeet` | |
| | `PrefixRangeExact`, `PrefixAlwaysExact` | `PrefixExact` | |
| | `ObjectsOwnApart`, `SubtreesAlwaysApart` | `SubtreesApart` | |
| AetcdProofs | `EveryTransactionAccounted` | `TransactionAccounted` | |
| | `EveryPageDated` | `PagesDated` | |
| | `ErrorsAlwaysTrue` | `ErrorsTrue` | |
| | `ResumeMissesNothing` | `ResumeComplete` | |
| ProcessorProofs | `TypesHold` | `TypeOK` | |
| | `OneTransitionPerState` | `SingleTransition` | |
| | `OneOwnerPerCommand` | `SingleOwner` | |
| | `NamesIdentify` | `Provenance` | |
| | `GraphsStayTrue` | `GraphCurrent` | |
| | `RefusedAgain` | `BrokenStaysBroken` | |
| SchemaProofs | `ValuesAlwaysOwn` | `ValidOwn` | |
| | `CompleteAlwaysBuilt` | `BuiltExactly` | |
| | `SearchFindsDeclared` | `SearchExact` | |
| GraphProofs | `FindsEveryObject` | `FoundExactly` | |
| | `EachProcessorDrawn` | `DrawnOnce` | |
| | `NeverNestsDeeper` | `NestingBounded` | |

They hold for all values of the constants that satisfy the module's named assumptions
(`ConstantsOK`, `AetcdConstantsOK` and so on), which TLC evaluates in every run. `ReadsFirst` and
`Ahead <= 1` are hypotheses of theorems and not assumptions of a module; they are
necessary, as `ghost` and `ahead` show. `ClaimsCompare` is one about the clients: a key is put
under a lease only in the success branch of a compare on its absence, as docs/DESIGN-NOTES.md
has claims made. A client that puts without comparing takes a key from its owner, which is what
the backend is for; the run `store` has clients that keep to it (`StoreWorkload`).

*The store.* `LeaseIntegrity` is not inductive: it speaks of what a key reads as now, and a step
appends versions. The invariant is `TypeOK /\ AllCommitted /\ LeaseIntegrity` (`LeaseInv`).
`AllCommitted` makes the last version the current one (`ReadLast`), so appending a version of
revision R + 1 while the revision moves to R + 1 makes that version current (`ReadAppend`,
`GrowCurrent`), and dropping versions older than the newest one at the compacted revision
changes nothing (`ReadSuffix`, `CompactReads`). With that, each action that writes has one
lemma: `TransactGrows` (a put names a live lease, by `Valid`), `ExpireGrows` (every holder of
the lease gets a tombstone), `StoreUntouched` for the rest. `WholeBranchRuns` is where
`ReadsFirst` enters: a branch either raises before it writes or runs to its end.
`NoOverdueLease` needs the leases that are being expired (`Timely`).

*The history.* Under `LeaseInv` every step is one of three (`StepShape`): it commits one version
for each of a set of keys (`Commits`), compacts, or leaves the store alone. What the history
keeps is then proved per shape: ascending versions; reads at a readable revision
(`ReadBeforeAppend`, `ReadCompacted`); the correspondence of batches and reads (`Explained`); and
for identities, that the versions of a key fall into lives, each with its own creation revision
and counted from one (`EveryLife`).

*Claims.* `ClaimExclusive` is about one step: who holds a key after it and before. An expiry or
revocation leaves the key without a lease, and compaction changes no current value, so only a
transaction could take a claim over. What it puts under a lease it found absent, by
`ClaimsCompare`; that a compare of `create_revision` or `version` with 0 holds of an absent key
alone needs that both are positive in a live one (`Numbered`).

*The watches.* The invariant of one watch (`Sound`) says that it is quiet before it starts, that
registration and phase go together and an end is the last thing queued (`Tied`), that
`delivered`, `backlog` and `queue` follow one another in ascending order (`Ordered`), that
together they are what is owed (`Complete`), and that nothing is earlier than the start unless
the start lay ahead (`Starts`). It needs nothing of the history, so it holds for transactions
that raise half way as well.

*The contract.* `KeepsContract` maps each step to a step of EtcdContract or a stutter. A
transaction, expiry or revocation that commits is `Commit` (`CommitKept`): its batch is the
whole change of the view because the versions it appends become current. Compaction is
`Compact` because it changes no current value. A delivery is `HandOver` of the least batch due,
since `Ordered` and `Complete` make the head of backlog or queue the least (`FirstDue`), or
`Finish`, when the end is all there is. The step needs one more invariant, `Asked`: the start
of a watch that has not begun is at most one ahead.

*The reader.* `Tell` says what the batches up to a revision make of the range, and `Tale` that
this is what the versions say at every revision still readable (each step extends it by the
batch of one revision, by `Explained`, and leaves the rest, by `StepReads`). The invariant of
the reader (`ReaderOK`) says of a scan under way that the keys before the next page are as told
at the pinned revision and the others not yet read, afterwards that the mirror is what is told at
the last revision seen, and of its watch that it is to go on there (`Follows`). A page keeps it
because a page with something left out has a last key and leaves out nothing before it
(`PageEnds`, `PageAdds`); a batch, because no batch of the range lies between it and the last one
seen (`NextBatch`, from `Complete` and `Ordered`), so applying it is all that is to be told
(`AppliedTold`); a commit, because it changes nothing already told (`KeepsOn`). The reader's
calls are among those any client may make (`ReaderAsks`), but that a watch starts no later than
the next revision depends on `ReaderOK`, so all invariants are shown together (`Together`).

*Keys.* A key and a prefix range are compared at the first position where they depart; the byte
that is incremented is the last one with room, after which all bytes of the prefix are greatest.
Two objects of a schema could share a path only if `rpc` were a segment of the longer key,
which `ValidKey` excludes.

*The adapter.* `Accounts` relates each call to the log: nothing of it is in the log before its
request has been executed, an answer says which branch was executed and what of it is in the log,
and a call is executed at most once as its request is consumed. `Following` relates the consumer
to its stream: it has everything before its last revision, and what its stream has sent.
`RaisedTruthful` says that an error once true stays true, as floor and leases go one way only
(`Forward`); a keep-alive without an answer is told apart by its end (`wire`).

*Processors.* `Checked` is what `finalize` has checked of definitions, and holds of final
processors; `Composed` is what composition has checked across them. Both survive later steps
because a final processor changes no more (`FinalStays`), and imply the properties.
`RefusedAgain` is about one step: a function that did not compile is still among those registered
and still says what it said, two that collided still collide, and no new one takes a fault away.

*Schemas.* `RegistryInv`: each compiled model is registered under its own member of the schema's
enum, and nothing else is. For `BuiltExactly` it is joined by what compiling has found out so far
(`AdmittedInv`): each model compiled stands for a member, and the models and the members they
stand for correspond one to one. If the registry then misses no member there are as many models
as members; conversely a complete sequence of models leaves no room for one that is refused:
to choose a place for each member is an injection of a finite enum into as many places, so it
is onto, and every model stands for a member (`CompleteNames`). Finiteness of each enum is the assumption this needs.

*Graph discovery.* `GraphInv` follows the walk between two sets: what was found and what the
active calls have left (`Covered`). All of it is reachable (`Sound`), and what an object found
leads to is in it (`Pursued`), as is everything the resolved references hold (`Followed`). When
the walk is over nothing is left, so what was found is closed, and `Reachable`, the least closed
set, lies within it (`ReachableLeast`). The code knows collections by address: those walked are the
ones whose address was seen (`Walked`). Collections that are there have addresses of their own
(`Apart`, which an import keeps: `ImportNext`), so walking one adds that one; a collection placed
later adds itself only if it is placed where one had been seen, which is `reused`, and so `Pursued`
and `Followed` hold of collections until then. `Nested` counts the active calls against
the collections seen; a call for the schema of a processor is the one that no collection pays
for, and it makes no further call.

*Generic arguments.* A call binds variables of its own class and of classes defined later, to
what the search does not look into (types, and arguments that contain a variable) and to variables
of such classes that are free (`Bindings`); a base is defined before the class that names it, so
entering it binds variables that are neither bound nor a value yet, and a
chain of bindings ends after one link (`Substitutes`). Hence what a base says, as it is written,
is under the bindings inside it what the class says under those outside (`InnerResolves`). The
invariant carries this along the stack: if the class of a call says anything, what the class
searched says is that, resolved under the bindings of the call; the bases before the one the loop
has come to say nothing (`CallProper`). At the target this is `AsWritten`; when the last loop ends,
the class says nothing, as `FirstCounts` has it of classes none of whose bases says anything.
What a class says and what is written of it differ only where what is written contains a
variable (`Agreement`), which makes it the property. That
types are not type variables, nor the two outcomes that are no annotation, is the assumption.

FakeEtcdProofs begins with the properties of `Min` and `Max` on naturals, derived from the
library's well-foundedness theorem.

*Model-checked only.* Liveness, which is out of the prover's reach (`CloseEndsWatches`,
`BatchesArrive`, `ConvergesAbove`, `CallsReturn`). Every other property of the passing runs is
stated by a theorem.

## 6. Not modelled

* The Runtime: there is no source for it in this commit. Reconcile stands for the one part of
  it the documents fix in enough detail to be checked against the backend.
* Rendering to Mermaid and DOT, the command line, the exception classes: text and I/O.
* Import of modules by name (`_graph.py`): the work of Python's importer and the file system.
  Graph starts from what a reference resolves to, and knows of an import only what it places.
  Collections computed inside a computed collection are left out: `reused` would cover them too.
* The encoding of compares, operations and key values in the adapter's messages, field by field.
  It has no state; Aetcd has each branch of a transaction put and delete sets of keys, under one compare.
* `flatten_union` and the parts of an annotation: Processor starts from the set of models or
  outcomes an annotation stands for whenever it is evaluated.
* Several event loops or threads on one backend: `asyncio.Lock` does not support them.
* Float clocks: `advance_time` takes a float, the model integers; only comparisons with
  integer lease times matter.

## 7. Plan

What is left, in order of importance:

1. The Runtime, once there is source: dispatch of commands, leases of workers, retries, as
   clients of EtcdContract.
2. The evaluation of annotations (`flatten_union`, aliases) as steps like those of Generic, in
   place of the set of models an annotation stands for.
3. What the search for generic arguments returns where classes share `TypeVar` objects.
