------------------------- MODULE MCIndexerPipeline -------------------------
(***************************************************************************)
(* The worker's own events over four heights, with a reorg simulated at    *)
(* height 3.                                                               *)
(***************************************************************************)
EXTENDS IndexerPipeline

name(h, branch) == <<h, branch>>

MCHeights   == 1 .. 4
MCNames     == {name(h, x) : h \in MCHeights, x \in {"a", "b"}}
MCNoName    == name(0, "")
MCMainName  == [h \in MCHeights |-> name(h, "a")]
MCForkName  == [h \in MCHeights |-> name(h, "b")]

\* The worker's events: those of a first pass and, after the reorg, of the
\* passes that follow.
MCEvents ==
    {NewBlock(MCMainName[h], h, IF h = 1 THEN MCNoName ELSE p[h - 1]) :
        h \in MCHeights, p \in {MCMainName, MCForkName}}
    \cup {NewBlock(MCForkName[h], h, IF h = 1 THEN MCNoName ELSE MCMainName[h - 1]) :
        h \in MCHeights}
=============================================================================
