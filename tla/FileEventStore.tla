--------------------------- MODULE FileEventStore ---------------------------
(***************************************************************************)
(* The indexer's file-backed event store (soulon-backend/internal/indexer/ *)
(* store.go, FileEventStore): an append-only JSON-lines file, and the      *)
(* in-memory index (seen, eventsByHeight, tip, reorgs) that Upsert keeps   *)
(* beside it and that loadSeen rebuilds from the file when the process     *)
(* starts.  The API process reads the same file (internal/api/server.go,   *)
(* loadEventsFromFile and rebuildState).                                   *)
(*                                                                         *)
(* Upsert holds the store's mutex, so one call is in progress at a time;   *)
(* but it may write two lines (a rollback, then the block), each of which  *)
(* can fail, and the process can die between them or in the middle of one. *)
(***************************************************************************)
EXTENDS IndexerEvents

CONSTANTS
    MaxLog,      \* bound: lines written to the file
    MaxFailures, \* bound: appends that fail
    MaxCrashes   \* bound: crashes of the process

ASSUME BoundsAssumption == MaxLog \in Nat /\ MaxFailures \in Nat /\ MaxCrashes \in Nat

VARIABLES
    log,      \* the lines of the file
    torn,     \* the file holds a partly written line
    mem,      \* the in-memory index, a record of the store's fields
    loaded,   \* how many lines of the file the index accounts for
    pending,  \* what the Upsert in progress still has to write
    up,       \* the process is running
    failures, \* how many appends have failed
    crashes   \* how often the process has crashed

storeVars == <<log, torn, mem, loaded, pending, up, failures, crashes>>

Idle == [from |-> 0, block |-> NoBlock]

\* NewFileEventStore has returned: loadSeen has read the whole file.
Ready == up /\ loaded = Len(log)

(***************************************************************************)
(* The index.  chain stands for eventsByHeight, a map with one block per   *)
(* height.                                                                 *)
(***************************************************************************)
Fresh == [chain |-> {}, seen |-> {}, tipHeight |-> 0, tipHash |-> NoName, reorgs |-> 0]

\* recalculateTip: the highest block of the map, or 0 and "".
RecalculateTip(m) ==
    IF m.chain = {}
    THEN [m EXCEPT !.tipHeight = 0, !.tipHash = NoName]
    ELSE LET top == CHOOSE b \in m.chain : \A c \in m.chain : c.height <= b.height
         IN  [m EXCEPT !.tipHeight = top.height, !.tipHash = top.hash]

\* applyRollback: forget every block at or above `from`, and its ID.
ApplyRollback(m, from) ==
    LET gone == {b \in m.chain : b.height >= from}
    IN  RecalculateTip([m EXCEPT !.chain = @ \ gone, !.seen = @ \ {b.id : b \in gone}])

\* Faulty variant: the reorg is not counted.
CountedRollback_Uncounted(m, from) == ApplyRollback(m, from)

\* The rollback as both Upsert and loadSeen do it: s.reorgs++ follows.
CountedRollback(m, from) == [ApplyRollback(m, from) EXCEPT !.reorgs = @ + 1]

\* applyBlock: the block replaces the one at its height.
ApplyBlock(m, b) ==
    LET placed == [m EXCEPT !.chain = {c \in @ : c.height # b.height} \cup {b},
                            !.seen = @ \cup {b.id}]
    IN  IF b.height >= m.tipHeight
        THEN [placed EXCEPT !.tipHeight = b.height, !.tipHash = b.hash]
        ELSE placed

ApplyLine(m, line) ==
    IF line.from > 0 THEN CountedRollback(m, line.from) ELSE ApplyBlock(m, line.block)

\* Faulty variant: a block below the tip needs no rollback.
RollbackFrom_TipOnly(m, b) ==
    LET forked == \E c \in m.chain : c.height = b.height /\ c.hash # b.hash
    IN  IF forked THEN b.height ELSE 0

\* requiresRollback: 0 for no rollback, otherwise the height to roll back from.
RollbackFrom(m, b) ==
    LET forked  == \E c \in m.chain : c.height = b.height /\ c.hash # b.hash
        covered == m.tipHeight # 0 /\ b.height <= m.tipHeight
        orphan  == /\ m.tipHeight # 0
                   /\ m.tipHash # NoName /\ b.parent # NoName
                   /\ b.parent # m.tipHash
    IN  IF forked \/ covered THEN b.height
        ELSE IF orphan THEN IF b.height - 1 <= 0 THEN 1 ELSE b.height - 1
        ELSE 0

\* State(): what the store itself reports.
State == [tipHeight |-> mem.tipHeight, tipHash |-> mem.tipHash,
          total |-> Cardinality(mem.seen), reorgs |-> mem.reorgs]

(***************************************************************************)
(* Actions.                                                                *)
(***************************************************************************)
\* appendEvent.  The line is written; or nothing is (mkdir, open or write
\* fails); or Write reports an error after part of the line has gone out.
Outcomes == {"written", "failed", "short"}

AppendEvent(line, outcome) ==
    /\ Len(log) < MaxLog
    /\ outcome # "written" => failures < MaxFailures
    /\ IF outcome = "written"
       THEN /\ log' = Append(log, line)
            /\ loaded' = loaded + 1
            /\ UNCHANGED failures
       ELSE /\ failures' = failures + 1
            /\ UNCHANGED <<log, loaded>>
    /\ torn' = (torn \/ outcome = "short")

\* Upsert of a block, up to its first write: a duplicate returns at once.
UpsertBlock(ev) ==
    LET b == Normalise(ev)
    IN  /\ Ready /\ pending = Idle
        /\ b.id \notin mem.seen
        /\ pending' = [from |-> RollbackFrom(mem, b), block |-> b]
        /\ UNCHANGED <<log, torn, mem, loaded, up, failures, crashes>>

\* Upsert of an explicit rollback event: an invalid height is an error.
UpsertRollback(from) ==
    /\ Ready /\ pending = Idle
    /\ from > 0
    /\ pending' = [from |-> from, block |-> NoBlock]
    /\ UNCHANGED <<log, torn, mem, loaded, up, failures, crashes>>

\* The rollback line, then the rollback; a failed append ends the call.
WriteRollback(outcome) ==
    /\ up /\ pending.from > 0
    /\ AppendEvent([from |-> pending.from, block |-> NoBlock], outcome)
    /\ IF outcome = "written"
       THEN /\ mem' = CountedRollback(mem, pending.from)
            /\ pending' = [pending EXCEPT !.from = 0]
       ELSE /\ mem' = mem
            /\ pending' = Idle
    /\ UNCHANGED <<up, crashes>>

\* Faulty variant: the block is indexed whether or not its line was written.
WriteBlock_Eager(outcome) ==
    /\ up /\ pending # Idle /\ pending.from = 0
    /\ AppendEvent([from |-> 0, block |-> pending.block], outcome)
    /\ mem' = ApplyBlock(mem, pending.block)
    /\ pending' = Idle
    /\ UNCHANGED <<up, crashes>>

\* The block line, then the block; either way the call returns.
WriteBlock(outcome) ==
    /\ up /\ pending # Idle /\ pending.from = 0
    /\ AppendEvent([from |-> 0, block |-> pending.block], outcome)
    /\ mem' = IF outcome = "written" THEN ApplyBlock(mem, pending.block) ELSE mem
    /\ pending' = Idle
    /\ UNCHANGED <<up, crashes>>

\* The process is gone, and its memory with it.
Stop ==
    /\ up' = FALSE
    /\ mem' = Fresh
    /\ loaded' = 0
    /\ pending' = Idle
    /\ UNCHANGED <<log, failures>>

\* It dies at any moment: a write in progress may be cut short.
Crash ==
    /\ up /\ crashes < MaxCrashes
    /\ Stop
    /\ crashes' = crashes + 1
    /\ \/ torn' = torn
       \/ torn' = TRUE /\ pending # Idle

\* NewFileEventStore.  At a torn line loadSeen returns the decoder's error and
\* the process exits, so such a file is never opened again.
Open ==
    /\ ~up /\ ~torn
    /\ up' = TRUE
    /\ UNCHANGED <<log, torn, mem, loaded, pending, failures, crashes>>

\* One turn of loadSeen's loop.
LoadSeen ==
    /\ up /\ loaded < Len(log)
    /\ mem' = ApplyLine(mem, log[loaded + 1])
    /\ loaded' = loaded + 1
    /\ UNCHANGED <<log, torn, pending, up, failures, crashes>>

StoreInit ==
    /\ log = <<>>
    /\ torn = FALSE
    /\ mem = Fresh
    /\ loaded = 0
    /\ pending = Idle
    /\ up = TRUE
    /\ failures = 0
    /\ crashes = 0

StoreNext ==
    \/ \E ev \in Events : UpsertBlock(ev)
    \/ \E from \in RollbackFroms : UpsertRollback(from)
    \/ \E outcome \in Outcomes : WriteRollback(outcome) \/ WriteBlock(outcome)
    \/ Crash
    \/ Open
    \/ LoadSeen

StoreSpec == StoreInit /\ [][StoreNext]_storeVars

(***************************************************************************)
(* Properties.                                                             *)
(***************************************************************************)
Mem == [chain : SUBSET Block, seen : SUBSET Names, tipHeight : Nat,
        tipHash : MaybeName, reorgs : Nat]

\* The store's state is well formed; in particular every block that is on file,
\* in the index or about to be written has a non-empty ID and hash, which
\* Upsert supplies when the event lacks them.
StoreTypeOK ==
    /\ log \in Seq(Line)
    /\ torn \in BOOLEAN
    /\ mem \in Mem
    /\ loaded \in 0 .. Len(log)
    /\ pending \in [from : Heights \cup {0}, block : Block \cup {NoBlock}]
    /\ up \in BOOLEAN
    /\ failures \in Nat
    /\ crashes \in Nat

TipIsTop(m) ==
    IF m.chain = {} THEN m.tipHeight = 0 /\ m.tipHash = NoName
    ELSE \E b \in m.chain : /\ b.height = m.tipHeight /\ b.hash = m.tipHash
                            /\ \A c \in m.chain : c.height <= b.height

\* The four maps and fields of an index agree: one block per height and per ID,
\* seen holds exactly the IDs of the blocks, and the tip is the highest block.
Sound(m) ==
    /\ \A b, c \in m.chain : b # c => b.height # c.height /\ b.id # c.id
    /\ m.seen = {b.id : b \in m.chain}
    /\ TipIsTop(m)

\* At every moment, through failed writes, crashes and reloads, the in-memory
\* index is sound and holds exactly the blocks that the lines it accounts for
\* leave standing.
IndexIsLiveLog ==
    /\ mem.chain = LiveBlocks(log, loaded)
    /\ Sound(mem)

\* Every block line of the file lies above, and has another ID than, all that
\* the lines before it leave standing: the rollback that Upsert writes first
\* has always made room, even if the process died in between.
LogAscends ==
    \A i \in 1 .. Len(log) :
        log[i].from = 0 =>
            \A b \in LiveBlocks(log, i - 1) :
                b.height < log[i].block.height /\ b.id # log[i].block.id

\* Upsert is idempotent: an event whose block stands in the file, written by
\* this process or an earlier one, is never taken up for writing again.
RedeliveryWritesNothing ==
    pending.block # NoBlock =>
        \A b \in LiveBlocks(log, Len(log)) : b.id # pending.block.id

\* What the store promises at every moment, through failed writes, crashes and
\* reloads: index and file agree, the file is a history of one stack of blocks,
\* and what is delivered again is not written again.
StoreSafe == StoreTypeOK /\ IndexIsLiveLog /\ LogAscends /\ RedeliveryWritesNothing

\* The API process, which reads the file on its own, reports the tip, the
\* number of blocks and the number of reorgs that the store itself reports.
ApiAgrees == Ready /\ ~torn => RebuildState(log) = State

\* The file implements the abstract index.
Index == INSTANCE BlockChainIndex
            WITH Blocks <- Block, chain <- LiveBlocks(log, Len(log))

\* Every step of the store puts one block on top of the persisted index, takes
\* blocks off its top, or leaves it alone; crashes and failed writes leave it
\* alone.
ImplementsIndex == Index!Spec
=============================================================================
