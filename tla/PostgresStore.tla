---------------------------- MODULE PostgresStore ----------------------------
(***************************************************************************)
(* The indexer's PostgreSQL event store (soulon-backend/internal/indexer/  *)
(* postgres_store.go).  Upsert and RunMaintenance are one transaction      *)
(* each, under the store's mutex: a step commits the whole transaction,    *)
(* and one that fails anywhere leaves the tables as they were.             *)
(*                                                                         *)
(* What the file store does not have: a retention window, whose older      *)
(* blocks and events are moved to archive tables; a row with the tip and   *)
(* the counts; and a connection that is tried once per process.            *)
(***************************************************************************)
EXTENDS IndexerEvents

CONSTANTS
    Retentions,   \* INDEXER_POSTGRES_RETENTION_BLOCKS of successive processes
    MaxLog,       \* bound: rows of indexer_events_log
    MaxRestarts   \* bound: restarts of the process

ASSUME RetentionsAssumption == Retentions \subseteq Int /\ Retentions # {}
ASSUME PostgresBounds == MaxLog \in Nat /\ MaxRestarts \in Nat

VARIABLES
    db,          \* the tables
    connection,  \* initOnce and initErr: "untried", "ready" or "broken"
    retention,   \* retentionBlocks
    restarts     \* how often the process has been restarted

postgresVars == <<db, connection, retention, restarts>>

\* A row of indexer_events that belongs to a block.  (Rows of rollbacks have
\* an ID of their own and are only ever deleted.)
Row == [id : Names, height : Heights]

Tables == [blocks        : SUBSET Block,   \* indexer_blocks
           events        : SUBSET Row,     \* indexer_events
           log           : Seq(Line),      \* indexer_events_log
           archive       : SUBSET Block,   \* indexer_blocks_archive
           eventsArchive : SUBSET Names,   \* indexer_events_archive, by ID
           state : [tipHeight : Nat, tipHash : MaybeName, total : Nat, reorgs : Nat]]

EmptyTables ==
    [blocks |-> {}, events |-> {}, log |-> <<>>, archive |-> {}, eventsArchive |-> {},
     state |-> [tipHeight |-> 0, tipHash |-> NoName, total |-> 0, reorgs |-> 0]]

(***************************************************************************)
(* The statements of a transaction, as operators on the tables.            *)
(***************************************************************************)
\* The table's keys: height, event_id and block_hash.
Unique(blocks) ==
    \A b, c \in blocks : b # c => b.height # c.height /\ b.id # c.id /\ b.hash # c.hash

\* appendEventTx for a block and for a rollback.
AppendBlockTx(d, b) ==
    [d EXCEPT !.events = IF \E e \in @ : e.id = b.id THEN @
                         ELSE @ \cup {[id |-> b.id, height |-> b.height]},
              !.log = Append(@, [from |-> 0, block |-> b])]

AppendRollbackTx(d, from) ==
    [d EXCEPT !.log = Append(@, [from |-> from, block |-> NoBlock])]

ApplyRollbackTx(d, from) ==
    LET eventIDs == {b.id : b \in {b \in d.blocks : b.height >= from}}
    IN  [d EXCEPT !.blocks = {b \in @ : b.height < from},
                  !.events = {e \in @ : e.id \notin eventIDs}]

\* Faulty variant: the rollback is not logged.
RollbackTx_Unlogged(d, from) ==
    [ApplyRollbackTx(d, from) EXCEPT !.state.reorgs = @ + 1]

\* A rollback: logged, applied, counted.
RollbackTx(d, from) ==
    [ApplyRollbackTx(AppendRollbackTx(d, from), from) EXCEPT !.state.reorgs = @ + 1]

InsertBlockTx(d, b) ==
    [d EXCEPT !.blocks = {c \in @ : c.height # b.height} \cup {b}]

\* refreshStateTx.
RefreshStateTx(d) ==
    LET top == CHOOSE b \in d.blocks : \A c \in d.blocks : c.height <= b.height
    IN  [d EXCEPT !.state = [tipHeight |-> IF d.blocks = {} THEN 0 ELSE top.height,
                             tipHash   |-> IF d.blocks = {} THEN NoName ELSE top.hash,
                             total     |-> Cardinality(d.blocks),
                             reorgs    |-> @.reorgs]]

\* Faulty variant: the window starts one block too low.
CleanupOldBlocksTx_OneMore(d) ==
    LET keepFrom == d.state.tipHeight - retention
        old      == {b \in d.blocks : b.height < keepFrom}
        archive  == d.archive \cup {b \in old : \A a \in d.archive : a.height # b.height}
    IN  IF retention <= 0 \/ keepFrom <= 1 THEN d
        ELSE [d EXCEPT !.archive = archive,
                       !.eventsArchive = @ \cup ({e.id : e \in {e \in d.events : e.height < keepFrom}}
                                                  \cap {a.id : a \in archive}),
                       !.events = {e \in @ : e.height >= keepFrom},
                       !.blocks = @ \ old]

\* Faulty variant: blocks are deleted, not archived, once the archive is in use.
CleanupOldBlocksTx_ArchivesOnce(d) ==
    LET keepFrom == d.state.tipHeight - retention + 1
        old      == {b \in d.blocks : b.height < keepFrom}
        archive  == IF d.archive = {} THEN old ELSE d.archive
    IN  IF retention <= 0 \/ keepFrom <= 1 THEN d
        ELSE [d EXCEPT !.archive = archive,
                       !.eventsArchive = @ \cup ({e.id : e \in {e \in d.events : e.height < keepFrom}}
                                                  \cap {a.id : a \in archive}),
                       !.events = {e \in @ : e.height >= keepFrom},
                       !.blocks = @ \ old]

\* cleanupOldBlocksTx: blocks below the window are archived, unless the archive
\* has one at that height; so are the rows whose block is in the archive; all
\* are deleted.
CleanupOldBlocksTx(d) ==
    LET keepFrom == d.state.tipHeight - retention + 1
        old      == {b \in d.blocks : b.height < keepFrom}
        archive  == d.archive \cup {b \in old : \A a \in d.archive : a.height # b.height}
    IN  IF retention <= 0 \/ keepFrom <= 1 THEN d
        ELSE [d EXCEPT !.archive = archive,
                       !.eventsArchive = @ \cup ({e.id : e \in {e \in d.events : e.height < keepFrom}}
                                                  \cap {a.id : a \in archive}),
                       !.events = {e \in @ : e.height >= keepFrom},
                       !.blocks = @ \ old]

\* requiresRollbackTx: 0 for no rollback, otherwise the height to roll back from.
RequiresRollbackTx(d, b) ==
    LET forked  == \E c \in d.blocks : c.height = b.height /\ c.hash # b.hash
        covered == d.state.tipHeight > 0 /\ b.height <= d.state.tipHeight
        orphan  == /\ d.state.tipHash # NoName /\ b.parent # NoName
                   /\ d.state.tipHash # b.parent
    IN  IF forked \/ covered THEN b.height
        ELSE IF orphan THEN IF b.height - 1 <= 0 THEN 1 ELSE b.height - 1
        ELSE 0

(***************************************************************************)
(* Actions.                                                                *)
(***************************************************************************)
\* Upsert of a block that indexer_blocks does not hold yet.
UpsertBlock(ev) ==
    LET b        == Normalise(ev)
        from     == RequiresRollbackTx(db, b)
        base     == IF from > 0 THEN RollbackTx(db, from) ELSE db
        inserted == RefreshStateTx(InsertBlockTx(AppendBlockTx(base, b), b))
        cleaned  == CleanupOldBlocksTx(inserted)
    IN  /\ connection = "ready"
        /\ Len(db.log) + 2 <= MaxLog
        /\ \A c \in db.blocks : c.id # b.id
        /\ Unique(inserted.blocks) /\ Unique(cleaned.archive)
        /\ db' = RefreshStateTx(cleaned)
        /\ UNCHANGED <<connection, retention, restarts>>

\* Upsert of an explicit rollback.
UpsertRollback(from) ==
    /\ connection = "ready"
    /\ Len(db.log) < MaxLog
    /\ from > 0
    /\ db' = RefreshStateTx(RollbackTx(db, from))
    /\ UNCHANGED <<connection, retention, restarts>>

RunMaintenance ==
    LET cleaned == CleanupOldBlocksTx(RefreshStateTx(db))
    IN  /\ connection = "ready"
        /\ Unique(cleaned.archive)
        /\ db' = RefreshStateTx(cleaned)
        /\ UNCHANGED <<connection, retention, restarts>>

\* ensureInitialized, in the first call of a process: a failure is final.
EnsureInitialized(reached) ==
    /\ connection = "untried"
    /\ connection' = IF reached THEN "ready" ELSE "broken"
    /\ UNCHANGED <<db, retention, restarts>>

\* The process ends, at any moment, and another starts (NewPostgresStore).
Restart ==
    /\ restarts < MaxRestarts
    /\ restarts' = restarts + 1
    /\ connection' = "untried"
    /\ retention' \in Retentions
    /\ UNCHANGED db

Init ==
    /\ db = EmptyTables
    /\ connection = "untried"
    /\ retention \in Retentions
    /\ restarts = 0

Next ==
    \/ \E ev \in Events : UpsertBlock(ev)
    \/ \E from \in RollbackFroms : UpsertRollback(from)
    \/ RunMaintenance
    \/ \E reached \in BOOLEAN : EnsureInitialized(reached)
    \/ Restart

Spec == Init /\ [][Next]_postgresVars

(***************************************************************************)
(* Properties.                                                             *)
(***************************************************************************)
\* Type invariant: every stored block has an ID and a hash, which Upsert
\* supplies when the event lacks them.
PostgresTypeOK ==
    /\ db \in Tables
    /\ connection \in {"untried", "ready", "broken"}
    /\ retention \in Retentions
    /\ restarts \in Nat

TipIs(blocks, tipHeight, tipHash) ==
    IF blocks = {} THEN tipHeight = 0 /\ tipHash = NoName
    ELSE \E b \in blocks : /\ b.height = tipHeight /\ b.hash = tipHash
                           /\ \A c \in blocks : c.height <= b.height

\* After every committed transaction the tables agree: indexer_events holds the
\* rows of exactly the blocks in indexer_blocks, no two blocks share a height,
\* an ID or a hash, and the state row describes the highest block.
TablesAgree ==
    /\ Unique(db.blocks)
    /\ db.events = {[id |-> b.id, height |-> b.height] : b \in db.blocks}
    /\ TipIs(db.blocks, db.state.tipHeight, db.state.tipHash)

\* Whenever a block has been stored, what is left are blocks of the window:
\* the last retentionBlocks heights up to the tip.
WindowKept ==
    [][(db'.blocks \ db.blocks # {} /\ retention > 0) =>
          \A b \in db'.blocks : b.height > db'.state.tipHeight - retention]_postgresVars

\* The archive has the event of each of its blocks: a block and its event move
\* there together, whatever forks and redeliveries came before.
ArchivePaired == db.eventsArchive = {a.id : a \in db.archive}

\* No height disappears: a block that was stored and not rolled back is still
\* in indexer_blocks, or the archive has a block at its height (though after a
\* deep fork not always the same one).
PrunedIsArchived ==
    \A b \in LiveBlocks(db.log, Len(db.log)) :
        b \in db.blocks \/ \E a \in db.archive : a.height = b.height

\* What every transaction preserves: the tables agree, archived rows come in
\* pairs and no height is lost, through forks, redelivery, maintenance and
\* restarts with another retention.
DatabaseSafe == PostgresTypeOK /\ TablesAgree /\ ArchivePaired /\ PrunedIsArchived

\* indexer_events_log is a full history of indexer_state: as long as nothing
\* has been archived, replaying it as rebuildState does gives the tip, the total
\* and the reorgs that the store reports.
LogReplays == db.archive = {} => RebuildState(db.log) = db.state

\* Persistence is idempotent: an event whose block was stored before and has
\* not been rolled back since is not written again.
IdempotentUpsert ==
    [][db'.log # db.log =>
          \A b \in LiveBlocks(db.log, Len(db.log)) :
              db'.log[Len(db'.log)].block.id # b.id]_postgresVars
=============================================================================
