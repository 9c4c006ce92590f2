------------------------------ MODULE MCWatch ------------------------------
(***************************************************************************)
(* Small instances of FakeEtcd with watches: two consumers over different  *)
(* ranges, while keys are written, deleted, expired and compacted and the  *)
(* backend closes.                                                         *)
(***************************************************************************)
EXTENDS MCStore, FakeEtcdRefinement, TLC

CONSTANTS w1, w2

OneWatch == {w1}
TwoWatches == {w1, w2}
SwapWatches == Permutations(TwoWatches)

\* One key and everything.
SomeRanges == {[start |-> 2, end |-> None], [start |-> 2, end |-> Unbounded]}
Everything == {[start |-> 2, end |-> Unbounded]}

Leased == Txn(<<>>, <<PutOp(2, 1, 1)>>, <<>>)
Other == Txn(<<>>, <<PutOp(4, 1, NoLease)>>, <<>>)
WatchTxns == {Leased, Other, Clear}
LiveTxns == {Leased, Other}

OneTTL == {1}
=============================================================================
