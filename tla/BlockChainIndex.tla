-------------------------- MODULE BlockChainIndex --------------------------
(***************************************************************************)
(* What the indexer promises to whoever reads it: the indexed blocks form  *)
(* a stack ordered by height.  A block is only ever put on top, with an ID *)
(* that is not indexed yet, and a rollback only ever takes blocks off the  *)
(* top.  Nothing else changes the index: no write that fails, no crash and *)
(* no restart.                                                             *)
(***************************************************************************)
EXTENDS Integers

CONSTANTS Heights, Blocks

VARIABLE chain    \* the indexed blocks

Init == chain = {}

\* Put one block on top.
Extend ==
    \E b \in chain' :
        /\ b \in Blocks
        /\ \A c \in chain : c.height < b.height /\ c.id # b.id
        /\ chain' = chain \cup {b}

\* Take off every block from a height upwards.
Truncate(from) == chain' = {b \in chain : b.height < from}

Next ==
    \/ Extend
    \/ \E from \in Heights : Truncate(from)

Spec == Init /\ [][Next]_chain
=============================================================================
