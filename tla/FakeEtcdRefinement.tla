------------------------- MODULE FakeEtcdRefinement -------------------------
(***************************************************************************)
(* FakeEtcd keeps the contract of EtcdContract: a key's value is read from *)
(* its versions, and a watch is on while its generator is open, having     *)
(* handed over what the generator has yielded.                             *)
(***************************************************************************)
EXTENDS FakeEtcd

StoredValues == {op.value : op \in {op \in UNION {{ops[i] : i \in DOMAIN ops} :
                    ops \in UNION {{txn.success, txn.failure} : txn \in Txns}} :
                  op.kind = "put"}}

view == [k \in Keys |-> Current(k).value]
watching ==
  [w \in Watches |->
     IF watch[w].phase = "open"
     THEN [phase |-> "on", range |-> watch[w].range, from |-> watch[w].from,
           seen |-> watch[w].delivered]
     ELSE [phase |-> IF watch[w].phase = "done" THEN "ended" ELSE "off", 
           range |-> [start |-> 0, end |-> None], from |-> 0, seen |-> <<>>]]

Contract == INSTANCE EtcdContract WITH Values <- StoredValues, floor <- compacted

\* Every run of the in-memory backend is one the contract allows: each
\* transaction, revocation and expiry is one batch that accounts for the whole
\* change of the store, and each generator yields exactly what it owes, in
\* order, through compaction and close (FakeEtcdBackend implements EtcdBackend).
Implements == Contract!Spec
=============================================================================
