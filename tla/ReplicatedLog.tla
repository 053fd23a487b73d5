--------------------------- MODULE ReplicatedLog ---------------------------
(***************************************************************************)
(* What a replication group promises, whatever the replicas do inside.     *)
(* There is one log of operations.  It only grows, and holds an operation  *)
(* at most once.  Each node has applied a prefix of it and never goes      *)
(* back.  A receipt names the position of the operation it was given for,  *)
(* which the primary has applied; a receipt for all replicas is only given *)
(* when every node has applied that position.                              *)
(***************************************************************************)
EXTENDS Integers, Sequences

CONSTANTS Nodes, Primary, Operations

VARIABLES ops, applied, granted

vars == <<ops, applied, granted>>

InLog(op) == \E i \in 1..Len(ops) : ops[i] = op

\* An operation is logged, or none.
Extend == \/ ops' = ops
          \/ \E op \in Operations : ~InLog(op) /\ ops' = Append(ops, op)

\* Any node may move forward, within the log.
Advance == /\ applied' \in [Nodes -> 0..Len(ops')]
           /\ \A n \in Nodes : applied'[n] >= applied[n]
           /\ applied'[Primary] = Len(ops')

\* A receipt [op, sequence, mode] that may be given in the new state.
Deserved(receipt) ==
  /\ receipt.sequence \in 1..Len(ops')
  /\ ops'[receipt.sequence] = receipt.op
  /\ receipt.mode = "all_replicas" =>
       \A n \in Nodes : applied'[n] >= receipt.sequence

Grant == /\ granted \subseteq granted'
         /\ \A receipt \in granted' \ granted : Deserved(receipt)

Init == /\ ops = <<>>
        /\ applied = [n \in Nodes |-> 0]
        /\ granted = {}

Next == Extend /\ Advance /\ Grant

Spec == Init /\ [][Next]_vars
=============================================================================
