---------------------------- MODULE MCReconcile ----------------------------
(***************************************************************************)
(* A small instance of Reconcile: three keys of which two are neighbours   *)
(* (the second is the first followed by b"\0") and one lies outside the    *)
(* range, read one at a time.                                              *)
(***************************************************************************)
EXTENDS Reconcile

PutOp(k, v, l) == [kind |-> "put", key |-> k, value |-> v, lease |-> l]
DeleteOp(s, e) == [kind |-> "delete", start |-> s, end |-> e]
Txn(s) == [compares |-> <<>>, success |-> s, failure |-> <<>>]

MCKeys == {2, 3, 5}
\* Write all keys; change one and delete the other; write outside the range.
Fill == Txn(<<PutOp(2, 1, NoLease), PutOp(3, 1, NoLease), PutOp(5, 1, NoLease)>>)
Change == Txn(<<PutOp(2, 2, NoLease), DeleteOp(3, None)>>)
Claim == Txn(<<PutOp(3, 3, 1)>>)
Outside == Txn(<<PutOp(5, 2, NoLease)>>)
MCTxns == {Fill, Change, Claim}
MCFollowed == [start |-> 2, end |-> 4]
MCWatches == 1..6
MCWatchRanges == {MCFollowed}
MCTTLs == {1}
MCTimeSteps == {1}
=============================================================================
