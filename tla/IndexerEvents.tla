---------------------------- MODULE IndexerEvents ----------------------------
(***************************************************************************)
(* What the two event stores of the indexer have in common: events and     *)
(* blocks (soulon-backend/internal/indexer/event.go), the log of blocks    *)
(* and rollbacks that each of them keeps, and the API server's reading of  *)
(* such a log (internal/api/server.go, rebuildState).                      *)
(***************************************************************************)
EXTENDS Integers, Sequences, FiniteSets

CONSTANTS
    Heights,     \* the block heights
    Names,       \* non-empty event IDs and block hashes
    NoName,      \* the empty string
    blockName,   \* blockName[h] is the fallback ID "block-<h>"
    Events,      \* the new_block events that callers may upsert
    RollbackFroms  \* the rollbackFrom values of explicit rollback events

MaybeName == Names \cup {NoName}

Event == [id : MaybeName, height : Heights, hash : MaybeName, parent : MaybeName]

\* A block as it is stored: ID and hash are never empty.
Block == [id : Names, height : Heights, hash : Names, parent : MaybeName]

NoBlock == [id |-> NoName, height |-> 0, hash |-> NoName, parent |-> NoName]

\* A line of the log: a block (from = 0) or a rollback (block = NoBlock).
Line == [from : {0}, block : Block] \cup [from : Heights, block : {NoBlock}]

\* The only producer of events, the worker, starts at height 1.  What the store
\* and rebuildState do with a height of 0 or less is not reached.
ASSUME HeightsAssumption == Heights \subseteq Nat \ {0}
ASSUME NamesAssumption == NoName \notin Names /\ blockName \in [Heights -> Names]
ASSUME EventsAssumption == Events \subseteq Event
ASSUME RollbackFromsAssumption ==
    RollbackFroms \subseteq Int /\ \A f \in RollbackFroms : f > 0 => f \in Heights
\* Rolling back from height - 1 (or from 1) stays within the heights.
ASSUME HeightsClosed == \A h \in Heights : 1 \in Heights /\ (h > 1 => h - 1 \in Heights)

\* The defaults Upsert gives to a missing ID and a missing block hash.
Normalise(ev) ==
    LET id == IF ev.id # NoName THEN ev.id
              ELSE IF ev.hash # NoName THEN ev.hash ELSE blockName[ev.height]
    IN  [ev EXCEPT !.id = id, !.hash = IF ev.hash = NoName THEN id ELSE ev.hash]

(***************************************************************************)
(* The API's reading of the log: rebuildState keeps only hashes by height  *)
(* and counts rollbacks.                                                   *)
(***************************************************************************)
\* One turn of its loop.
RebuildStep(s, line) ==
    IF line.from > 0
    THEN [hashes |-> {p \in s.hashes : p[1] < line.from}, reorgs |-> s.reorgs + 1]
    ELSE [s EXCEPT !.hashes = {p \in @ : p[1] # line.block.height}
                                \cup {<<line.block.height, line.block.hash>>}]

\* What it has gathered after each line.
Rebuilt(lines) ==
    LET after[n \in 0 .. Len(lines)] ==
            IF n = 0 THEN [hashes |-> {}, reorgs |-> 0]
            ELSE RebuildStep(after[n - 1], lines[n])
    IN  after

RebuildState(lines) ==
    LET final == Rebuilt(lines)[Len(lines)]
        top == CHOOSE p \in final.hashes : \A q \in final.hashes : q[1] <= p[1]
    IN  [tipHeight |-> IF final.hashes = {} THEN 0 ELSE top[1],
         tipHash   |-> IF final.hashes = {} THEN NoName ELSE top[2],
         total     |-> Cardinality(final.hashes),
         reorgs    |-> final.reorgs]

\* The blocks that the first n lines leave standing, read off the log without
\* replaying it: a block stands unless a later rollback reaches its height.
LiveBlocks(lines, n) ==
    {lines[i].block : i \in
        {i \in 1 .. n : /\ lines[i].from = 0
                        /\ \A k \in i + 1 .. n :
                             lines[k].from > 0 => lines[k].from > lines[i].block.height}}
=============================================================================
