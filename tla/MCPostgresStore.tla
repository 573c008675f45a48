-------------------------- MODULE MCPostgresStore --------------------------
(***************************************************************************)
(* A chain of four heights with a fork at height 2 and its child at        *)
(* height 3; one event without an ID, and one with neither ID nor hash.    *)
(***************************************************************************)
EXTENDS PostgresStore

name(h, branch) == <<h, branch>>

MCHeights   == 1 .. 4
MCNames     == {name(h, x) : h \in MCHeights, x \in {"a", "b", ""}}
MCNoName    == name(0, "")
MCBlockName == [h \in MCHeights |-> name(h, "")]

block(h, x, parent) ==
    [id |-> name(h, x), height |-> h, hash |-> name(h, x), parent |-> parent]

MCEvents ==
    {block(1, "a", MCNoName),
     block(2, "a", name(1, "a")),
     [block(2, "b", name(1, "a")) EXCEPT !.id = MCNoName],
     block(3, "a", name(2, "a")),
     block(3, "a", name(2, "b")),
     block(4, "a", name(3, "a")),
     [block(4, "", MCNoName) EXCEPT !.id = MCNoName, !.hash = MCNoName]}

MCRollbackFroms == {0, 3}
=============================================================================
