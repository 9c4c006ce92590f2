----------------------------- MODULE Reconcile -----------------------------
(***************************************************************************)
(* A reader of the in-memory backend that keeps a mirror of a range: it    *)
(* reads the range page by page, every page pinned to the revision of the  *)
(* first, watches from the revision after it, and applies the batches.     *)
(* When its watch breaks off it resumes from the last revision it has seen;*)
(* when that, or the revision its pages are pinned to, has been compacted  *)
(* away, it starts again with a new scan.                                  *)
(***************************************************************************)
EXTENDS FakeEtcd

CONSTANTS
  Followed,     \* the range the reader follows
  Limit,        \* the page size it asks for
  MaxBreaks     \* bound on the watches that break off

\* A watch may be asked for at the revision after the present one.
ASSUME ReaderConstantsOK ==
  /\ Followed \in WatchRanges /\ Ahead >= 1
  /\ Limit \in Nat \cup {None}
  /\ MaxBreaks \in Nat
  /\ Watches \subseteq Nat

VARIABLE reader

rvars == <<vars, reader>>

\* The revision to read at is gone, or not yet there.
RangeRaises(request) ==
  \/ request.limit = 0
  \/ /\ request.revision # None
     /\ \/ compacted # 0 /\ request.revision <= compacted
        \/ request.revision > revision

\* Mutant: whatever the request says, the page shows the present.
ReadRevisionMutant(request) == revision

ReadRevision(request) == IF request.revision = None THEN revision ELSE request.revision

\* Mutant: one possible key is passed over.
NextKeyMutant(page) == Max(page) + 2

\* The last key of the page followed by b"\0": the next possible key.
NextKey(page) == Max(page) + 1

\* The first keys of the range that have a value, at most limit of them.
RangeResult(request) ==
  LET at == ReadRevision(request)
      found == {k \in Keys : /\ KeyInRange(k, request.start, request.end)
                             /\ KeyValueAt(k, at).value # None}
      page == {k \in found : \/ request.limit = None
                             \/ Cardinality({j \in found : j < k}) < request.limit}
      more == page # found
  IN [values |-> [k \in page |-> KeyValueAt(k, at)], revision |-> at, more |-> more,
      next_key |-> IF more THEN NextKey(page) ELSE None]
-----------------------------------------------------------------------------
(* The reader.                                                             *)

NoValues == [k \in Keys |-> None]

\* pin: the revision of the first page; next: where the next page starts;
\* at: the last revision the reader has seen.
Fresh == [phase |-> "scan", pin |-> None, next |-> Followed.start, mirror |-> NoValues,
          at |-> 0, watch |-> None, breaks |-> 0]

Again == [Fresh EXCEPT !.breaks = reader.breaks]

\* One page: raise and start over, or add its values to the mirror.
ReadPage ==
  LET request == [start |-> reader.next, end |-> Followed.end, revision |-> reader.pin,
                  limit |-> Limit]
      result == RangeResult(request)
  IN /\ reader.phase = "scan"
     /\ expired = {}
     /\ IF closed THEN reader' = [reader EXCEPT !.phase = "over"]
        ELSE IF RangeRaises(request) THEN reader' = Again
        ELSE reader' =
               [reader EXCEPT
                  !.pin = result.revision, !.at = result.revision,
                  !.mirror = [k \in Keys |-> IF k \in DOMAIN result.values
                                             THEN result.values[k].value ELSE @[k]],
                  !.next = IF result.more THEN result.next_key ELSE @,
                  !.phase = IF result.more THEN @ ELSE "scanned"]
     /\ UNCHANGED vars

Unused == {w \in Watches : watch[w].phase = "idle"}

Follow ==
  /\ reader.phase = "scanned"
  /\ Unused # {}
  /\ Watch(Min(Unused), Followed, reader.pin + 1)
  /\ reader' = [reader EXCEPT !.phase = "follow", !.watch = Min(Unused)]

\* The watch starts, or raises: another scan after a compaction, the end
\* after a close.
Begin ==
  /\ reader.phase = "follow"
  /\ BeginWatch(reader.watch)
  /\ reader' = CASE watch'[reader.watch].phase = "compacted" -> Again
                 [] watch'[reader.watch].phase = "refused" -> [reader EXCEPT !.phase = "over"]
                 [] OTHER -> reader

\* What the events of the range in a batch make of the mirror: the values of
\* PUT events, nothing for DELETE events, the other keys as they were.
Applied(mirror, batch) ==
  [k \in Keys |->
     IF KeyInRange(k, Followed.start, Followed.end) /\ \E e \in batch : e.key = k
     THEN (CHOOSE e \in batch : e.key = k).value ELSE mirror[k]]

Apply ==
  /\ reader.phase = "follow"
  /\ Deliver(reader.watch)
  /\ reader' =
       LET seen == watch'[reader.watch].delivered
       IN IF watch'[reader.watch].phase = "done" THEN [reader EXCEPT !.phase = "over"]
          ELSE [reader EXCEPT !.mirror = Applied(@, log[seen[Len(seen)]]),
                              !.at = seen[Len(seen)]]

\* The watch is given up, as when a connection drops.
Break ==
  /\ reader.phase = "follow"
  /\ reader.breaks < MaxBreaks
  /\ CancelWatch(reader.watch)
  /\ reader' = [reader EXCEPT !.phase = "broken", !.breaks = @ + 1]

\* Resume from the last revision seen, which comes a second time.  Before
\* revision 1 there is nothing to see.
Resume ==
  /\ reader.phase = "broken"
  /\ Unused # {}
  /\ Watch(Min(Unused), Followed, IF reader.at = 0 THEN 1 ELSE reader.at)
  /\ reader' = [reader EXCEPT !.phase = "follow", !.watch = Min(Unused)]

BackendStep ==
  \/ \E txn \in Txns : Transact(txn)
  \/ \E rev \in 1..revision : Compact(rev)
  \/ \E ttl \in TTLs : GrantLease(ttl)
  \/ \E lease \in DOMAIN leases : KeepAlive(lease) \/ RevokeLease(lease)
  \/ \E seconds \in TimeSteps : AdvanceTime(seconds)
  \/ ExpireNext
  \/ Close

ReaderInit == Init /\ reader = Fresh

ReaderNext ==
  \/ BackendStep /\ UNCHANGED reader
  \/ ReadPage \/ Follow \/ Begin \/ Apply \/ Break \/ Resume

ReaderSpec == ReaderInit /\ [][ReaderNext]_rvars

\* advance_time does not yield, and the reader goes on reading; that a watch
\* breaks is never certain.
ReaderFairness ==
  /\ WF_rvars(ExpireNext /\ UNCHANGED reader)
  /\ WF_rvars(ReadPage) /\ WF_rvars(Follow) /\ WF_rvars(Begin)
  /\ WF_rvars(Apply) /\ WF_rvars(Resume)

FairReaderSpec == ReaderSpec /\ ReaderFairness
-----------------------------------------------------------------------------
(* Properties.                                                             *)

\* The store at a revision as the log tells it, compacted or not.
Told(rev) ==
  [k \in Keys |->
     LET naming == {r \in 1..rev : \E e \in log[r] : e.key = k}
     IN IF ~KeyInRange(k, Followed.start, Followed.end) \/ naming = {} THEN None
        ELSE (CHOOSE e \in log[Max(naming)] : e.key = k).value]

\* No page and no batch is torn: once the scan is over the mirror is, key for
\* key, the range as it stood at one revision, the last the reader has seen,
\* though the pages were read and the batches applied one at a time among
\* commits, expiries and compactions (_range_unlocked's pinned revision and
\* next_key; snapshot at R, watch from R + 1, resume at the last seen).
MirrorExact ==
  reader.phase \in {"scanned", "follow", "broken"} => reader.mirror = Told(reader.at)

\* No gap between scan and watch, or between one watch and the next: a reader
\* whose open watch has nothing more for it holds what a read of the store
\* would return now.
CaughtUp ==
  /\ reader.phase = "follow"
  /\ watch[reader.watch].phase = "open"
  /\ Pending(reader.watch) = {}
  => \A k \in Keys : KeyInRange(k, Followed.start, Followed.end)
                       => reader.mirror[k] = Current(k).value

InStep ==
  \A k \in Keys : KeyInRange(k, Followed.start, Followed.end)
                    => reader.mirror[k] = Current(k).value

\* Whatever the compactions that void its pages and watches and the breaks
\* that end them, the reader comes to hold the current store again and again,
\* unless the backend has been closed (docs/DESIGN-NOTES.md:470-477, pages of
\* range and resumed watches).  The current revision is not itself to be a
\* compacted one: the first page of a scan is read at it, and the second is
\* refused it.
ConvergesAbove == []<>(InStep \/ closed \/ (compacted # 0 /\ compacted = revision))
=============================================================================
