------------------------------ MODULE MCAetcd ------------------------------
(***************************************************************************)
(* A small instance of Aetcd: two calls of any kind, valid or not, or else *)
(* a consumer that follows one watch after another, among the commits,     *)
(* expiries and compactions of other clients.  Calls and watches share     *)
(* nothing but the channel and the server, so they run apart.              *)
(***************************************************************************)
EXTENDS Aetcd

CONSTANTS c1, c2

TwoCalls == {c1, c2}
ThreeWatches == 1..3
MCKeys == {1, 2}

Puts(keys) == [puts |-> keys, deletes |-> {}]
Deletes(keys) == [puts |-> {}, deletes |-> keys]
Reads == Puts({})

Txn(on, expected, success, failure, defect) ==
  [kind |-> "transaction", on |-> on, expected |-> expected, success |-> success,
   failure |-> failure, defect |-> defect]
Read(rev, defect) == [kind |-> "range", revision |-> rev, defect |-> defect]
OfLease(kind) == [kind |-> kind, lease |-> 1, defect |-> "none"]

AllRequests ==
  {Txn(1, None, Puts({1, 2}), Reads, "none"), Txn(1, 0, Puts({1}), Deletes({2}), "none"),
   Txn(2, 2, Reads, Puts({2}), "none"),
   Txn(1, None, Puts({1}), Reads, "historical"), Txn(1, None, Puts({1}), Reads, "operand"),
   Read(None, "none"), Read(2, "none"), Read(None, "limit"),
   [kind |-> "grant", defect |-> "none"], [kind |-> "grant", defect |-> "ttl"],
   OfLease("keep_alive"), OfLease("revoke")}

\* Calls are alike, so c1 is the first to be made; beside them the other clients
\* write one key at a time, where a watch also sees batches of two.
CallsOnly ==
  /\ \A w \in Watches : stream[w].phase = "idle"
  /\ call[c2].phase # "idle" => call[c1].phase # "idle"
  /\ \A r \in 2..revision : log[r].author = None => Cardinality(log[r].keys) = 1

WatchesOnly == \A c \in Calls : call[c].phase = "idle"

Apart == CallsOnly \/ WatchesOnly

ApartSpec == Init /\ [][Next /\ Apart']_vars /\ Fairness
=============================================================================
