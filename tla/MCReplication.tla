--------------------------- MODULE MCReplication ---------------------------
(* Small instances of Replication for TLC. *)
EXTENDS Replication

Doc(i, v, d, ok) == [id |-> i, version |-> v, deleted |-> d, valid |-> ok]

\* Two versions of one document, the newer one a delete, and a document that
\* the schema rejects.
SomeDocuments == {Doc("a", 1, FALSE, TRUE), Doc("a", 2, TRUE, TRUE),
                  Doc("b", 1, FALSE, FALSE)}
=============================================================================
