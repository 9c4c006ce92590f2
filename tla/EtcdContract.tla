---------------------------- MODULE EtcdContract ----------------------------
(***************************************************************************)
(* What an etcd backend promises to the code above it, whatever keeps the  *)
(* data: one revision after another, each a batch that says all that has   *)
(* changed, and watches that hand over the batches of their range exactly  *)
(* once, in order, from the revision they were asked to start at.          *)
(***************************************************************************)
EXTENDS KeyRange, Sequences

CONSTANTS
  Keys,         \* the keys that may be stored
  Values,       \* the values they may hold
  Watches,      \* one identity per watch
  WatchRanges   \* the ranges they may watch

VARIABLES
  view,      \* the current value of each key, None when it has none
  log,       \* the batch of each revision, a set of [key, value] events
  floor,     \* the newest compacted revision
  watching,  \* each watch: off, on or ended; its range, start and batches seen
  closed     \* the backend has been closed

vars == <<view, log, floor, watching, closed>>

NotWatching == [phase |-> "off", range |-> [start |-> 0, end |-> None], from |-> 0, seen |-> <<>>]

Init ==
  /\ view = [k \in Keys |-> None]
  /\ log = <<>> /\ floor = 0
  /\ watching = [w \in Watches |-> NotWatching]
  /\ closed = FALSE

Names(batch, range) == \E e \in batch : InRange(e.key, range)

\* What a watch is still to hand over, of the revisions reached so far.
Due(w) ==
  {r \in DOMAIN log : /\ r >= watching[w].from
                      /\ Names(log[r], watching[w].range)
                      /\ \A i \in DOMAIN watching[w].seen : watching[w].seen[i] # r}

\* Events on one or more keys, one each.
Batches ==
  {batch \in SUBSET [key : Keys, value : Values \cup {None}] :
     batch # {} /\ \A e, f \in batch : e.key = f.key => e = f}

\* A batch says what has changed: the values it carries, and no other key.
Commit(batch) ==
  /\ ~closed
  /\ log' = Append(log, batch)
  /\ view' = [k \in Keys |-> IF \E e \in batch : e.key = k
                             THEN (CHOOSE e \in batch : e.key = k).value
                             ELSE view[k]]
  /\ UNCHANGED <<floor, watching, closed>>

Compact(rev) ==
  /\ ~closed
  /\ floor < rev
  /\ floor' = rev
  /\ UNCHANGED <<view, log, watching, closed>>

\* A watch starts above the compacted revisions, or not at all.  It is asked
\* for by the next revision at the latest.
Start(w, range, from) ==
  /\ ~closed
  /\ watching[w].phase = "off"
  /\ floor = 0 \/ from > floor
  /\ watching' = [watching EXCEPT ![w] = [phase |-> "on", range |-> range, from |-> from,
                                         seen |-> <<>>]]
  /\ UNCHANGED <<view, log, floor, closed>>

\* The next batch due, whatever has been compacted since the watch started.
HandOver(w) ==
  /\ watching[w].phase = "on"
  /\ \E r \in Due(w) :
       /\ \A s \in Due(w) : r <= s
       /\ watching' = [watching EXCEPT ![w].seen = Append(@, r)]
  /\ UNCHANGED <<view, log, floor, closed>>

\* A watch ends of itself only when the backend has closed, and only once it
\* has handed over all it owes.
Finish(w) ==
  /\ closed
  /\ watching[w].phase = "on"
  /\ Due(w) = {}
  /\ watching' = [watching EXCEPT ![w] = [NotWatching EXCEPT !.phase = "ended"]]
  /\ UNCHANGED <<view, log, floor, closed>>

\* The consumer may give a watch up at any time.
Stop(w) ==
  /\ watching[w].phase = "on"
  /\ watching' = [watching EXCEPT ![w] = NotWatching]
  /\ UNCHANGED <<view, log, floor, closed>>

Close ==
  /\ ~closed
  /\ closed' = TRUE
  /\ UNCHANGED <<view, log, floor, watching>>

Next ==
  \/ \E batch \in Batches : Commit(batch)
  \/ \E rev \in DOMAIN log : Compact(rev)
  \/ \E w \in Watches, range \in WatchRanges, from \in 1..(Len(log) + 1) :
       Start(w, range, from)
  \/ \E w \in Watches : HandOver(w) \/ Finish(w) \/ Stop(w)
  \/ Close

Spec == Init /\ [][Next]_vars
=============================================================================
