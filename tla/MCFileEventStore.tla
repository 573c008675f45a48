-------------------------- MODULE MCFileEventStore --------------------------
(***************************************************************************)
(* Three heights with a fork at height 2: 1a <- 2a <- 3a and 1a <- 2b, with *)
(* 3c a child of 2b.  One event has no ID, one has neither ID nor hash, and *)
(* 3a also arrives with the fork block as its parent, as the worker sends  *)
(* it again after a reorg.                                                 *)
(***************************************************************************)
EXTENDS FileEventStore

name(h, branch) == <<h, branch>>

MCHeights   == 1 .. 3
MCNames     == {name(h, x) : h \in MCHeights, x \in {"a", "b", ""}}
MCNoName    == name(0, "")
MCBlockName == [h \in MCHeights |-> name(h, "")]

block(h, x, parent) ==
    [id |-> name(h, x), height |-> h, hash |-> name(h, x), parent |-> parent]

MCEvents ==
    {block(1, "a", MCNoName),
     block(2, "a", name(1, "a")),
     [block(2, "b", name(1, "a")) EXCEPT !.id = MCNoName],
     block(3, "a", name(2, "a")),
     block(3, "a", name(2, "b")),
     [block(3, "", MCNoName) EXCEPT !.id = MCNoName, !.hash = MCNoName]}

MCRollbackFroms == {0, 2}
=============================================================================
