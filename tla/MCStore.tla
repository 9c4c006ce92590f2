------------------------------ MODULE MCStore ------------------------------
(***************************************************************************)
(* Small workloads for FakeEtcd without watches: workers that claim key 2  *)
(* under a lease, a client that updates, reads and deletes key 4, and one  *)
(* that ranges over both.                                                  *)
(***************************************************************************)
EXTENDS FakeEtcd

PutOp(k, v, l) == [kind |-> "put", key |-> k, value |-> v, lease |-> l]
DeleteOp(s, e) == [kind |-> "delete", start |-> s, end |-> e]
GetOp == [kind |-> "get", revision |-> None, limit |-> None]
Cmp(k, t, o, n) ==
  [key |-> k, target |-> t, operator |-> o, operand |-> n, bytes |-> t = "value"]
Txn(c, s, f) == [compares |-> c, success |-> s, failure |-> f]

MCKeys == {2, 4}
MCLeases == 1..2

\* Claim an absent key under a lease; look at its holder otherwise.
Claim(l) == Txn(<<Cmp(2, "create_revision", "equal", 0)>>, <<PutOp(2, 1, l)>>, <<GetOp>>)
\* Take a claim back into plain, unleased state.
Settle == Txn(<<Cmp(2, "version", "greater", 0)>>, <<GetOp, PutOp(2, 2, NoLease)>>, <<>>)
\* Write both keys in one revision, unless key 4 already holds the value.
Both == Txn(<<Cmp(4, "value", "not_equal", 1)>>, <<PutOp(4, 1, NoLease)>>,
            <<PutOp(4, 2, NoLease), DeleteOp(2, None)>>)
\* Delete every key, whatever there is; the tail range is empty.
Clear == Txn(<<>>, <<DeleteOp(2, Unbounded)>>, <<>>)
StoreTxns == {Claim(l) : l \in MCLeases} \cup {Settle, Both, Clear}

\* These clients are of the kind the proofs are about.
ASSUME StoreWorkload == Txns = StoreTxns => ReadsFirst /\ ClaimsCompare

\* Work whose reads raise after a write of the same branch.
ReadBack == Txn(<<>>, <<PutOp(2, 1, NoLease), GetOp>>, <<>>)
GhostTxns == {ReadBack, Txn(<<>>, <<PutOp(4, 1, NoLease)>>, <<>>)}

NoWatches == {}
MCWatchRanges == {[start |-> 2, end |-> None]}
MCTTLs == {1, 2}
MCTimeSteps == {1}
=============================================================================
