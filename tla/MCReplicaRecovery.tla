-------------------------- MODULE MCReplicaRecovery --------------------------
(* A small instance of ReplicaRecovery for TLC. *)
EXTENDS ReplicaRecovery

Doc(i, v, d) == [id |-> i, version |-> v, deleted |-> d, valid |-> TRUE]

\* A document that is put and erased, another that is put and replaced.
SomeMutations == <<Doc("a", 1, FALSE), Doc("b", 1, FALSE), Doc("a", 2, TRUE),
                   Doc("b", 2, FALSE)>>
SomeOperations == <<"o1", "o2", "o3", "o4">>
=============================================================================
