--------------------------- MODULE PostgresProofs ---------------------------
(***************************************************************************)
(* For all heights, names, events, retention settings and bounds: after    *)
(* every transaction the tables of the PostgreSQL store agree with one     *)
(* another, the archive is complete in the sense of ArchivePaired and      *)
(* PrunedIsArchived, the retention window is kept, and until a block is    *)
(* archived the log replays to the state row.                              *)
(***************************************************************************)
EXTENDS PostgresStore, IndexerEventsProofs, FiniteSetTheorems, TLAPS

RowsOf(blocks) == {[id |-> b.id, height |-> b.height] : b \in blocks}

Live(d) == LiveBlocks(d.log, Len(d.log))

\* Until a block is archived, the log stands for the blocks of the table, and
\* its rollbacks are the reorgs that have been counted.
Replays(d) ==
    d.archive = {} =>
        /\ Ascending(d.log)
        /\ Live(d) = d.blocks
        /\ Rebuilt(d.log)[Len(d.log)].reorgs = d.state.reorgs

\* What holds of the tables after every statement of a transaction, up to the
\* state row.
Good(d) ==
    /\ d \in Tables
    /\ IsFiniteSet(d.blocks)
    /\ Unique(d.blocks)
    /\ d.events = RowsOf(d.blocks)
    /\ d.eventsArchive = {a.id : a \in d.archive}
    /\ \A b \in Live(d) : b \in d.blocks \/ \E a \in d.archive : a.height = b.height
    /\ Replays(d)

TipOK(d) ==
    /\ TipIs(d.blocks, d.state.tipHeight, d.state.tipHash)
    /\ d.state.total = Cardinality(d.blocks)

PostgresInv == PostgresTypeOK /\ Good(db) /\ TipOK(db)

(***************************************************************************)
(* The statements.                                                         *)
(***************************************************************************)
\* refreshStateTx changes the state row only, and makes it describe the tip.
LEMMA RefreshGood ==
    ASSUME NEW d, Good(d), NEW top \in Nat, \A b \in d.blocks : b.height <= top
    PROVE  LET r == RefreshStateTx(d)
           IN  /\ Good(r) /\ TipOK(r)
               /\ r.blocks = d.blocks /\ r.archive = d.archive /\ r.log = d.log
<1> DEFINE t == CHOOSE b \in d.blocks : \A c \in d.blocks : c.height <= b.height
           st == [tipHeight |-> IF d.blocks = {} THEN 0 ELSE t.height,
                  tipHash   |-> IF d.blocks = {} THEN NoName ELSE t.hash,
                  total     |-> Cardinality(d.blocks),
                  reorgs    |-> d.state.reorgs]
           r == RefreshStateTx(d)
<1>1. d \in Tables /\ d.blocks \subseteq Block /\ IsFiniteSet(d.blocks)
  BY DEF Good, Tables
<1>2. r = [blocks |-> d.blocks, events |-> d.events, log |-> d.log, archive |-> d.archive,
           eventsArchive |-> d.eventsArchive, state |-> st]
  <2>1. r = [d EXCEPT !.state = st]
    BY Zenon DEF RefreshStateTx
  <2> HIDE DEF r, st
  <2> QED
    BY <1>1, <2>1 DEF Tables
<1>3. d.blocks # {} => t \in d.blocks /\ \A c \in d.blocks : c.height <= t.height
  <2> SUFFICES ASSUME d.blocks # {}
               PROVE  \E b \in d.blocks : \A c \in d.blocks : c.height <= b.height
    BY Zenon
  <2> QED
    BY <1>1, HighestBlock
<1> HIDE DEF t
<1>4. Cardinality(d.blocks) \in Nat
  BY <1>1, FS_CardinalityType
<1>5. d.blocks # {} => t.height \in Nat /\ t.hash \in Names
  BY <1>1, <1>3, BlockHeights DEF Block
<1>6. st \in [tipHeight : Nat, tipHash : MaybeName, total : Nat, reorgs : Nat]
  BY <1>1, <1>4, <1>5 DEF Tables, MaybeName
<1>7. st.tipHeight = (IF d.blocks = {} THEN 0 ELSE t.height)
      /\ st.tipHash = (IF d.blocks = {} THEN NoName ELSE t.hash)
      /\ st.total = Cardinality(d.blocks) /\ st.reorgs = d.state.reorgs
  OBVIOUS
<1> HIDE DEF st, r
<1>8. r \in Tables
  BY <1>1, <1>2, <1>6 DEF Tables
<1>9. /\ r.blocks = d.blocks /\ r.events = d.events /\ r.log = d.log /\ r.archive = d.archive
      /\ r.eventsArchive = d.eventsArchive /\ r.state = st
  BY <1>2
<1>10. Good(r)
  BY <1>7, <1>8, <1>9 DEF Good, Live, Replays
<1>11. TipOK(r)
  BY <1>3, <1>7, <1>9 DEF TipOK, TipIs
<1> QED
  BY <1>9, <1>10, <1>11 DEF r

\* A rollback removes blocks and their rows together.
LEMMA RollbackGood ==
    ASSUME NEW d, Good(d), NEW from \in Heights
    PROVE  LET r == RollbackTx(d, from)
           IN  Good(r) /\ r.blocks = {b \in d.blocks : b.height < from}
<1> DEFINE line == [from |-> from, block |-> NoBlock]
           r    == RollbackTx(d, from)
           eventIDs == {b.id : b \in {b \in d.blocks : b.height >= from}}
<1>1. /\ d \in Tables /\ d.blocks \subseteq Block /\ d.log \in Seq(Line)
      /\ IsFiniteSet(d.blocks) /\ Unique(d.blocks) /\ d.events = RowsOf(d.blocks)
      /\ d.eventsArchive = {a.id : a \in d.archive}
  BY DEF Good, Tables
<1>2. from \in Nat /\ from > 0
  BY HeightsPositive
<1>3. line \in Line
  BY DEF Line
<1> DEFINE base == ApplyRollbackTx(AppendRollbackTx(d, from), from)
           st   == [d.state EXCEPT !.reorgs = @ + 1]
<1>4. /\ r.blocks = {b \in d.blocks : b.height < from}
      /\ r.events = {e \in d.events : e.id \notin eventIDs}
      /\ r.log = Append(d.log, line)
      /\ r.archive = d.archive
      /\ r.eventsArchive = d.eventsArchive
      /\ r.state = st
      /\ r = [blocks |-> r.blocks, events |-> r.events, log |-> r.log, archive |-> r.archive,
              eventsArchive |-> r.eventsArchive, state |-> r.state]
  <2>1. base = [blocks |-> {b \in d.blocks : b.height < from},
                events |-> {e \in d.events : e.id \notin eventIDs},
                log |-> Append(d.log, line), archive |-> d.archive,
                eventsArchive |-> d.eventsArchive, state |-> d.state]
    <3> DEFINE logged == AppendRollbackTx(d, from)
               kept == {b \in d.blocks : b.height < from}
               rows == {e \in d.events : e.id \notin eventIDs}
    <3>1. logged = [blocks |-> d.blocks, events |-> d.events, log |-> Append(d.log, line),
                    archive |-> d.archive, eventsArchive |-> d.eventsArchive,
                    state |-> d.state]
      <4> DEFINE newLog == Append(d.log, line)
      <4>1. logged = [d EXCEPT !.log = newLog]
        BY Zenon DEF AppendRollbackTx
      <4> HIDE DEF logged, newLog
      <4>2. logged = [blocks |-> d.blocks, events |-> d.events, log |-> newLog,
                      archive |-> d.archive, eventsArchive |-> d.eventsArchive,
                      state |-> d.state]
        BY <1>1, <4>1 DEF Tables
      <4> QED
        BY <4>2, Zenon DEF newLog
    <3> HIDE DEF logged
    <3>2. logged.blocks = d.blocks /\ logged.events = d.events
      BY <3>1
    <3>3. base = [logged EXCEPT !.blocks = kept, !.events = rows]
      BY <3>2, Zenon DEF ApplyRollbackTx, logged
    <3> HIDE DEF base, kept, rows, line
    <3>4. base = [blocks |-> kept, events |-> rows, log |-> Append(d.log, line),
                  archive |-> d.archive, eventsArchive |-> d.eventsArchive, state |-> d.state]
      BY <3>1, <3>3
    <3> QED
      BY <3>4 DEF kept, rows
  <2>2. r = [base EXCEPT !.state = [base.state EXCEPT !.reorgs = base.state.reorgs + 1]]
    BY Zenon DEF RollbackTx
  <2>3. base.state = d.state
    BY <2>1
  <2>4. r = [base EXCEPT !.state = st]
    BY <2>2, <2>3, Zenon
  <2> HIDE DEF base, r, st, eventIDs, line
  <2> QED
    BY <2>1, <2>4
<1>5. r.state \in [tipHeight : Nat, tipHash : MaybeName, total : Nat, reorgs : Nat]
  <2>1. d.state \in [tipHeight : Nat, tipHash : MaybeName, total : Nat, reorgs : Nat]
    BY <1>1 DEF Tables
  <2> QED
    BY <1>4, <2>1
<1> HIDE DEF st
<1> HIDE DEF r
<1>6. r \in Tables
  <2>1. r.log \in Seq(Line)
    BY <1>1, <1>3, <1>4
  <2>2. r.blocks \subseteq Block /\ r.events \subseteq Row /\ r.archive \subseteq Block
        /\ r.eventsArchive \subseteq Names
    BY <1>1, <1>4 DEF Tables
  <2> QED
    BY <1>4, <1>5, <2>1, <2>2 DEF Tables
<1>7. IsFiniteSet(r.blocks) /\ Unique(r.blocks)
  <2>1. r.blocks \subseteq d.blocks
    BY <1>4
  <2> QED
    BY <1>1, <2>1, FS_Subset DEF Unique
<1>8. r.events = RowsOf(r.blocks)
  <2>1. ASSUME NEW b \in d.blocks
        PROVE  b.id \notin eventIDs <=> b.height < from
    BY <1>1, <1>2, BlockHeights DEF Unique
  <2> HIDE DEF eventIDs
  <2> QED
    BY <1>1, <1>4, <2>1 DEF RowsOf
<1>9. Live(r) = {b \in Live(d) : b.height < from}
  <2>1. Len(r.log) = Len(d.log) + 1 /\ r.log[Len(d.log) + 1] = line
    BY <1>1, <1>3, <1>4
  <2>2. Len(d.log) \in 0 .. Len(r.log) - 1
    BY <1>1, <2>1
  <2>3. r.log \in Seq(Line)
    BY <1>1, <1>3, <1>4
  <2>4. LiveBlocks(r.log, Len(d.log)) = LiveBlocks(d.log, Len(d.log))
    BY <1>1, <1>3, <1>4, LivePrefix
  <2>5. LiveBlocks(r.log, Len(d.log) + 1) =
            {b \in LiveBlocks(r.log, Len(d.log)) : b.height < from}
    BY <1>2, <2>1, <2>2, <2>3, LiveTruncate
  <2> QED
    BY <2>1, <2>4, <2>5 DEF Live
<1>10. \A b \in Live(r) : b \in r.blocks \/ \E a \in r.archive : a.height = b.height
  BY <1>4, <1>9 DEF Good
<1>11. Replays(r)
  <2> SUFFICES ASSUME r.archive = {}
               PROVE  /\ Ascending(r.log)
                      /\ Live(r) = r.blocks
                      /\ Rebuilt(r.log)[Len(r.log)].reorgs = r.state.reorgs
    BY DEF Replays
  <2>1. /\ Ascending(d.log) /\ Live(d) = d.blocks
        /\ Rebuilt(d.log)[Len(d.log)].reorgs = d.state.reorgs
    BY <1>4 DEF Good, Replays
  <2>2. line.from # 0
    BY <1>2
  <2>3. r.state.reorgs = d.state.reorgs + 1
    BY <1>1, <1>4 DEF Tables, st
  <2> HIDE DEF line
  <2>4. /\ Ascending(r.log)
        /\ Rebuilt(r.log)[Len(r.log)].reorgs = Rebuilt(d.log)[Len(d.log)].reorgs + 1
    BY <1>1, <1>3, <1>4, <2>1, <2>2, AppendReads
  <2> QED
    BY <1>4, <1>9, <2>1, <2>3, <2>4
<1> QED
  BY <1>1, <1>4, <1>6, <1>7, <1>8, <1>10, <1>11 DEF Good, r

\* Storing a block on top adds the block, its row and its line.
LEMMA InsertGood ==
    ASSUME NEW d, Good(d), NEW b \in Block,
           \A c \in d.blocks : c.height < b.height /\ c.id # b.id,
           Unique(InsertBlockTx(AppendBlockTx(d, b), b).blocks)
    PROVE  LET r == InsertBlockTx(AppendBlockTx(d, b), b)
           IN  Good(r) /\ r.blocks = d.blocks \cup {b}
<1> DEFINE r      == InsertBlockTx(AppendBlockTx(d, b), b)
           row    == [id |-> b.id, height |-> b.height]
           line   == [from |-> 0, block |-> b]
           newLog == Append(d.log, line)
           rows   == d.events \cup {row}
           blocks == d.blocks \cup {b}
<1>1. /\ d \in Tables /\ d.blocks \subseteq Block /\ d.log \in Seq(Line)
      /\ IsFiniteSet(d.blocks) /\ Unique(d.blocks) /\ d.events = RowsOf(d.blocks)
      /\ d.eventsArchive = {a.id : a \in d.archive}
  BY DEF Good, Tables
<1>2. line \in Line
  BY DEF Line
<1>3. b.height \in Nat /\ \A c \in d.blocks : c.height \in Nat
  BY <1>1, BlockHeights
<1>4. ~ \E e \in d.events : e.id = b.id
  BY <1>1 DEF RowsOf
<1>5. {c \in d.blocks : c.height # b.height} \cup {b} = blocks
  BY <1>3
<1>6. r = [blocks |-> blocks, events |-> rows, log |-> newLog, archive |-> d.archive,
           eventsArchive |-> d.eventsArchive, state |-> d.state]
  <2> DEFINE logged == AppendBlockTx(d, b)
  <2>1. logged = [d EXCEPT !.events = rows, !.log = newLog]
    BY <1>4, Zenon DEF AppendBlockTx
  <2> HIDE DEF logged, rows, newLog, blocks
  <2>2. logged = [blocks |-> d.blocks, events |-> rows, log |-> newLog,
                  archive |-> d.archive, eventsArchive |-> d.eventsArchive, state |-> d.state]
    BY <1>1, <2>1 DEF Tables
  <2>3. logged.blocks = d.blocks
    BY <2>2
  <2>4. r = [logged EXCEPT !.blocks = blocks]
    BY <1>5, <2>3, Zenon DEF InsertBlockTx, logged
  <2> HIDE DEF r
  <2> QED
    BY <2>2, <2>4
<1> HIDE DEF r
<1>7. /\ r.blocks = blocks /\ r.events = rows /\ r.log = newLog /\ r.archive = d.archive
      /\ r.eventsArchive = d.eventsArchive /\ r.state = d.state
  BY <1>6
<1>8. r \in Tables
  <2>1. newLog \in Seq(Line)
    BY <1>1, <1>2
  <2>2. blocks \subseteq Block /\ rows \subseteq Row
    BY <1>1 DEF Tables, Row, Block
  <2> HIDE DEF newLog, blocks, rows
  <2> QED
    BY <1>1, <1>6, <2>1, <2>2 DEF Tables
<1>9. IsFiniteSet(r.blocks) /\ Unique(r.blocks)
  <2>1. IsFiniteSet(blocks)
    BY <1>1, FS_AddElement
  <2> QED
    BY <1>7, <2>1 DEF r
<1>10. r.events = RowsOf(r.blocks)
  BY <1>1, <1>7 DEF RowsOf
<1>11. Live(r) = Live(d) \cup {b}
  <2>1. Len(r.log) = Len(d.log) + 1 /\ r.log[Len(d.log) + 1] = line
    BY <1>1, <1>2, <1>7
  <2>2. Len(d.log) \in 0 .. Len(r.log) - 1
    BY <1>1, <2>1
  <2>3. r.log \in Seq(Line)
    BY <1>1, <1>2, <1>7
  <2>4. LiveBlocks(r.log, Len(d.log)) = LiveBlocks(d.log, Len(d.log))
    BY <1>1, <1>2, <1>7, LivePrefix
  <2>5. LiveBlocks(r.log, Len(d.log) + 1) = LiveBlocks(r.log, Len(d.log)) \cup {b}
    <3>1. r.log[Len(d.log) + 1].from = 0 /\ r.log[Len(d.log) + 1].block = b
      BY <2>1
    <3> HIDE DEF r, newLog, line
    <3> DEFINE n == Len(d.log)
               lines == r.log
    <3>2. lines \in Seq(Line) /\ n \in 0 .. Len(lines) - 1 /\ lines[n + 1].from = 0
      BY <2>2, <2>3, <3>1
    <3> HIDE DEF n, lines
    <3>3. LiveBlocks(lines, n + 1) = LiveBlocks(lines, n) \cup {lines[n + 1].block}
      BY <3>2, LiveExtend
    <3> QED
      BY <3>1, <3>3, Zenon DEF n, lines
  <2> QED
    BY <2>1, <2>4, <2>5 DEF Live
<1>12. \A c \in Live(r) : c \in r.blocks \/ \E a \in r.archive : a.height = c.height
  BY <1>7, <1>11 DEF Good
<1>13. Replays(r)
  <2> SUFFICES ASSUME r.archive = {}
               PROVE  /\ Ascending(r.log)
                      /\ Live(r) = r.blocks
                      /\ Rebuilt(r.log)[Len(r.log)].reorgs = r.state.reorgs
    BY DEF Replays
  <2>1. /\ Ascending(d.log) /\ LiveBlocks(d.log, Len(d.log)) = d.blocks
        /\ Rebuilt(d.log)[Len(d.log)].reorgs = d.state.reorgs
    BY <1>7 DEF Good, Replays, Live
  <2>2. line.from = 0 /\ line.block = b
    OBVIOUS
  <2> HIDE DEF line
  <2>3. /\ Ascending(Append(d.log, line))
        /\ Rebuilt(Append(d.log, line))[Len(Append(d.log, line))].reorgs =
              Rebuilt(d.log)[Len(d.log)].reorgs
    BY <1>1, <1>2, <2>1, <2>2, AppendReads
  <2> QED
    BY <1>7, <1>11, <2>1, <2>3 DEF Live
<1> QED
  BY <1>1, <1>7, <1>8, <1>9, <1>10, <1>12, <1>13 DEF Good, r

\* Cleaning up moves blocks and events below the window to the archive.
LEMMA CleanupGood ==
    ASSUME NEW d, Good(d), retention \in Int
    PROVE  LET r == CleanupOldBlocksTx(d)
           IN  /\ Good(r)
               /\ r.blocks \subseteq d.blocks
               /\ retention > 0 =>
                    \A b \in r.blocks : b.height > d.state.tipHeight - retention
<1> DEFINE keepFrom == d.state.tipHeight - retention + 1
           old      == {b \in d.blocks : b.height < keepFrom}
           kept     == d.blocks \ old
           archive  == d.archive \cup {b \in old : \A a \in d.archive : a.height # b.height}
           ids      == d.eventsArchive \cup ({e.id : e \in {e \in d.events : e.height < keepFrom}}
                                              \cap {a.id : a \in archive})
           rows     == {e \in d.events : e.height >= keepFrom}
           r        == CleanupOldBlocksTx(d)
<1>1. /\ d \in Tables /\ d.blocks \subseteq Block /\ d.archive \subseteq Block
      /\ d.log \in Seq(Line)
      /\ IsFiniteSet(d.blocks) /\ Unique(d.blocks) /\ d.events = RowsOf(d.blocks)
      /\ d.eventsArchive = {a.id : a \in d.archive}
      /\ d.state.tipHeight \in Nat
  BY DEF Good, Tables
<1>2. \A b \in d.blocks : b.height \in Nat /\ b.height > 0
  BY <1>1, BlockHeights
<1>3. keepFrom \in Int
  BY <1>1
<1>4. CASE retention <= 0 \/ keepFrom <= 1
  <2>1. r = d
    BY <1>4, Zenon DEF CleanupOldBlocksTx
  <2>2. retention > 0 => \A b \in d.blocks : b.height > d.state.tipHeight - retention
    BY <1>1, <1>2, <1>4
  <2> HIDE DEF r
  <2> QED
    BY <2>1, <2>2 DEF r
<1>5. CASE ~ (retention <= 0 \/ keepFrom <= 1)
  <2>1. r = [blocks |-> kept, events |-> rows, log |-> d.log, archive |-> archive,
             eventsArchive |-> ids, state |-> d.state]
    <3>1. r = [d EXCEPT !.archive = archive, !.eventsArchive = ids, !.events = rows,
                        !.blocks = kept]
      BY <1>5, Zenon DEF CleanupOldBlocksTx
    <3> HIDE DEF r, archive, ids, rows, kept
    <3> QED
      BY <1>1, <3>1 DEF Tables
  <2> HIDE DEF r
  <2>2. /\ r.blocks = kept /\ r.events = rows /\ r.log = d.log /\ r.archive = archive
        /\ r.eventsArchive = ids /\ r.state = d.state
    BY <2>1
  <2>3. r \in Tables
    <3>1. kept \subseteq Block /\ archive \subseteq Block /\ rows \subseteq Row
      BY <1>1 DEF Tables
    <3>2. ids \subseteq Names
      BY <1>1 DEF Tables, Row
    <3> HIDE DEF kept, archive, rows, ids
    <3> QED
      BY <1>1, <2>1, <3>1, <3>2 DEF Tables
  <2>4. IsFiniteSet(r.blocks) /\ Unique(r.blocks)
    <3>1. r.blocks \subseteq d.blocks
      BY <2>2
    <3> QED
      BY <1>1, <3>1, FS_Subset DEF Unique
  <2>5. r.events = RowsOf(r.blocks)
    BY <1>1, <1>2, <1>3, <2>2 DEF RowsOf
  <2>6. r.eventsArchive = {a.id : a \in r.archive}
    <3>1. ASSUME NEW a \in archive PROVE a.id \in ids
      <4>1. CASE a \in d.archive
        BY <1>1, <4>1
      <4>2. CASE a \in old
        <5>1. [id |-> a.id, height |-> a.height] \in d.events
          BY <1>1, <4>2 DEF RowsOf
        <5> DEFINE e == [id |-> a.id, height |-> a.height]
        <5>2. e \in d.events /\ e.height < keepFrom /\ e.id = a.id
          BY <4>2, <5>1
        <5> HIDE DEF e, keepFrom
        <5> QED
          BY <5>2
      <4> QED
        BY <4>1, <4>2
    <3>2. ids \subseteq {a.id : a \in archive}
      BY <1>1
    <3> HIDE DEF ids, archive
    <3> QED
      BY <2>2, <3>1, <3>2
  <2>7. \A b \in Live(r) : b \in r.blocks \/ \E a \in r.archive : a.height = b.height
    <3>1. Live(r) = Live(d)
      BY <2>2 DEF Live
    <3>2. \A b \in Live(d) : b \in d.blocks \/ \E a \in d.archive : a.height = b.height
      BY DEF Good
    <3> QED
      BY <2>2, <3>1, <3>2
  <2>8. \A b \in r.blocks : b.height > d.state.tipHeight - retention
    BY <1>1, <1>2, <2>2
  <2>9. Replays(r)
    <3> SUFFICES ASSUME archive = {} PROVE Replays(d) /\ d.archive = {} /\ kept = d.blocks
      BY <2>2 DEF Replays, Live
    <3> QED
      BY DEF Good
  <2>10. Good(r)
    BY <2>3, <2>4, <2>5, <2>6, <2>7, <2>9 DEF Good
  <2> QED
    BY <2>2, <2>8, <2>10 DEF r
<1> QED
  BY <1>4, <1>5

\* The rollback that requiresRollbackTx asks for leaves only lower blocks.
LEMMA RollbackMakesRoomTx ==
    ASSUME NEW d, Good(d), TipOK(d), NEW b \in Block
    PROVE  LET from == RequiresRollbackTx(d, b)
           IN  /\ from \in Heights \cup {0}
               /\ from > 0 => from <= b.height
               /\ from = 0 => \A c \in d.blocks : c.height < b.height
<1> DEFINE from == RequiresRollbackTx(d, b)
<1>1. /\ b.height \in Heights /\ b.height \in Nat /\ b.height > 0
      /\ \A c \in d.blocks : c.height \in Nat /\ c.height > 0
      /\ d.state.tipHeight \in Nat
  BY BlockHeights DEF Good, Tables
<1>2. 1 \in Heights /\ (b.height > 1 => b.height - 1 \in Heights)
  BY <1>1, HeightsClosed
<1>3. from \in {0, 1, b.height, b.height - 1} /\ from <= b.height
      /\ (from = b.height - 1 => b.height = 1 \/ b.height > 1)
  BY <1>1 DEF RequiresRollbackTx
<1>4. from \in Heights \cup {0}
  BY <1>1, <1>2, <1>3
<1>5. ASSUME from = 0, NEW c \in d.blocks PROVE c.height < b.height
  <2>1. ~ (d.state.tipHeight > 0 /\ b.height <= d.state.tipHeight)
    BY <1>1, <1>5 DEF RequiresRollbackTx
  <2>2. c.height <= d.state.tipHeight
    BY <1>1 DEF TipOK, TipIs
  <2> QED
    BY <1>1, <2>1, <2>2
<1> QED
  BY <1>3, <1>4, <1>5

(***************************************************************************)
(* The transactions.                                                       *)
(***************************************************************************)
\* The heights of tables that agree are bounded by their tip.
LEMMA TipBounds ==
    ASSUME NEW d, Good(d), TipOK(d)
    PROVE  d.state.tipHeight \in Nat /\ \A c \in d.blocks : c.height <= d.state.tipHeight
BY DEF Good, Tables, TipOK, TipIs

LEMMA InitGood == Init => PostgresInv
<1> SUFFICES ASSUME Init PROVE PostgresInv
  OBVIOUS
<1>1. EmptyTables \in Tables
  BY DEF EmptyTables, Tables, MaybeName
<1>2. LiveBlocks(EmptyTables.log, Len(EmptyTables.log)) = {}
  BY LiveNone DEF EmptyTables
<1>3. Good(EmptyTables)
  <2>1. IsFiniteSet(EmptyTables.blocks)
    BY FS_EmptySet DEF EmptyTables
  <2>2. Replays(EmptyTables)
    <3>1. <<>> \in Seq(Line) /\ Len(<<>>) = 0
      OBVIOUS
    <3>2. Rebuilt(<<>>)[0] = NothingRead
      BY <3>1, RebuiltUnfolds
    <3>3. Ascending(<<>>)
      BY DEF Ascending
    <3> QED
      BY <1>2, <3>1, <3>2, <3>3 DEF Replays, EmptyTables, Live, NothingRead
  <2> QED
    BY <1>1, <1>2, <2>1, <2>2 DEF EmptyTables, Good, Live, Unique, RowsOf
<1>4. TipOK(EmptyTables)
  BY FS_EmptySet DEF EmptyTables, TipOK, TipIs
<1> QED
  BY <1>1, <1>3, <1>4 DEF Init, PostgresInv, PostgresTypeOK

\* What WindowKept says of one step.
KeepsWindow ==
    (db'.blocks \ db.blocks # {} /\ retention > 0) =>
        \A b \in db'.blocks : b.height > db'.state.tipHeight - retention

\* Cleaning up and refreshing, as the last steps of both transactions.
LEMMA FinishGood ==
    ASSUME NEW d, Good(d), TipOK(d), retention \in Int
    PROVE  LET r == RefreshStateTx(CleanupOldBlocksTx(d))
           IN  /\ Good(r) /\ TipOK(r) /\ r.blocks \subseteq d.blocks
               /\ retention > 0 => \A b \in r.blocks : b.height > r.state.tipHeight - retention
<1> DEFINE c == CleanupOldBlocksTx(d)
           r == RefreshStateTx(c)
<1>1. /\ Good(c) /\ c.blocks \subseteq d.blocks
      /\ retention > 0 => \A b \in c.blocks : b.height > d.state.tipHeight - retention
  BY CleanupGood
<1>2. d.state.tipHeight \in Nat /\ \A b \in d.blocks : b.height <= d.state.tipHeight
  BY TipBounds
<1> HIDE DEF c
<1>3. Good(r) /\ TipOK(r) /\ r.blocks = c.blocks
  <2>1. \A b \in c.blocks : b.height <= d.state.tipHeight
    BY <1>1, <1>2
  <2> QED
    BY <1>1, <1>2, <2>1, RefreshGood
<1> HIDE DEF r
<1>4. r.state.tipHeight <= d.state.tipHeight
  BY <1>1, <1>2, <1>3 DEF TipOK, TipIs
<1>5. ASSUME retention > 0, NEW b \in r.blocks PROVE b.height > r.state.tipHeight - retention
  <2>1. b.height \in Nat
    BY <1>3, BlockHeights DEF Good, Tables
  <2>2. r.state.tipHeight \in Nat
    BY <1>3, TipBounds
  <2> QED
    BY <1>1, <1>2, <1>3, <1>4, <1>5, <2>1, <2>2
<1> QED
  BY <1>1, <1>3, <1>5 DEF r, c

LEMMA UpsertBlockStep ==
    ASSUME PostgresInv, NEW ev \in Events, UpsertBlock(ev)
    PROVE  Good(db') /\ TipOK(db') /\ KeepsWindow
<1> DEFINE b        == Normalise(ev)
           from     == RequiresRollbackTx(db, b)
           base     == IF from > 0 THEN RollbackTx(db, from) ELSE db
           stored   == InsertBlockTx(AppendBlockTx(base, b), b)
           inserted == RefreshStateTx(stored)
<1>1. /\ b \in Block
      /\ \A c \in db.blocks : c.id # b.id
      /\ Unique(inserted.blocks)
      /\ db' = RefreshStateTx(CleanupOldBlocksTx(inserted))
  BY NormaliseType, EventsAssumption DEF UpsertBlock
<1>2. Good(db) /\ TipOK(db) /\ retention \in Int
  BY RetentionsAssumption DEF PostgresInv, PostgresTypeOK
<1> HIDE DEF b
<1>3. /\ from \in Heights \cup {0}
      /\ from > 0 => from <= b.height
      /\ from = 0 => \A c \in db.blocks : c.height < b.height
  BY <1>1, <1>2, RollbackMakesRoomTx
<1>4. b.height \in Nat /\ \A c \in db.blocks : c.height \in Nat
  BY <1>1, <1>2, BlockHeights DEF Good, Tables
<1>5. Good(base) /\ base.blocks \subseteq db.blocks /\ \A c \in base.blocks : c.height < b.height
  <2> HIDE DEF from
  <2>1. CASE from > 0
    <3>1. from \in Heights /\ from \in Nat
      BY <1>3, <2>1, HeightsPositive
    <3>2. Good(RollbackTx(db, from))
          /\ RollbackTx(db, from).blocks = {c \in db.blocks : c.height < from}
      BY <1>2, <3>1, RollbackGood
    <3> QED
      BY <1>3, <1>4, <2>1, <3>1, <3>2
  <2>2. CASE ~ (from > 0)
    <3>1. from = 0
      BY <1>3, <2>2, HeightsPositive
    <3> QED
      BY <1>2, <1>3, <3>1
  <2> QED
    BY <2>1, <2>2
<1> HIDE DEF base
<1>6. stored.blocks = inserted.blocks
  BY DEF RefreshStateTx, InsertBlockTx, AppendBlockTx
<1>7. Good(stored) /\ stored.blocks = base.blocks \cup {b}
  <2>1. \A c \in base.blocks : c.height < b.height /\ c.id # b.id
    BY <1>1, <1>5
  <2>2. Unique(stored.blocks)
    BY <1>1, <1>6
  <2> QED
    BY <1>1, <1>5, <2>1, <2>2, InsertGood
<1> HIDE DEF stored
<1>8. Good(inserted) /\ TipOK(inserted)
  <2>1. \A c \in stored.blocks : c.height <= b.height
    BY <1>4, <1>5, <1>7
  <2> QED
    BY <1>4, <1>7, <2>1, RefreshGood
<1> HIDE DEF inserted
<1>9. /\ Good(db') /\ TipOK(db')
      /\ retention > 0 => \A c \in db'.blocks : c.height > db'.state.tipHeight - retention
  BY <1>1, <1>2, <1>8, FinishGood
<1> QED
  BY <1>9 DEF KeepsWindow

LEMMA UpsertRollbackStep ==
    ASSUME PostgresInv, NEW from \in RollbackFroms, UpsertRollback(from)
    PROVE  Good(db') /\ TipOK(db') /\ KeepsWindow
<1> DEFINE r == RollbackTx(db, from)
<1>1. from \in Heights
  BY RollbackFromsAssumption DEF UpsertRollback
<1>2. Good(db) /\ TipOK(db)
  BY DEF PostgresInv
<1>3. Good(r) /\ r.blocks \subseteq db.blocks
  BY <1>1, <1>2, RollbackGood
<1>4. db' = RefreshStateTx(r)
  BY DEF UpsertRollback
<1> HIDE DEF r
<1>5. db.state.tipHeight \in Nat /\ \A c \in r.blocks : c.height <= db.state.tipHeight
  BY <1>2, <1>3, TipBounds
<1>6. Good(db') /\ TipOK(db') /\ db'.blocks = r.blocks
  BY <1>3, <1>4, <1>5, RefreshGood
<1> QED
  BY <1>3, <1>6 DEF KeepsWindow

LEMMA MaintenanceStep ==
    ASSUME PostgresInv, RunMaintenance
    PROVE  Good(db') /\ TipOK(db') /\ KeepsWindow
<1> DEFINE r == RefreshStateTx(db)
<1>1. Good(db) /\ TipOK(db) /\ retention \in Int
  BY RetentionsAssumption DEF PostgresInv, PostgresTypeOK
<1>2. db.state.tipHeight \in Nat /\ \A c \in db.blocks : c.height <= db.state.tipHeight
  BY <1>1, TipBounds
<1>3. Good(r) /\ TipOK(r) /\ r.blocks = db.blocks
  BY <1>1, <1>2, RefreshGood
<1>4. db' = RefreshStateTx(CleanupOldBlocksTx(r))
  BY DEF RunMaintenance
<1> HIDE DEF r
<1>5. Good(db') /\ TipOK(db') /\ db'.blocks \subseteq r.blocks
  BY <1>1, <1>3, <1>4, FinishGood
<1> QED
  BY <1>3, <1>5 DEF KeepsWindow

LEMMA NextGood == PostgresInv /\ [Next]_postgresVars => PostgresInv' /\ KeepsWindow
<1> SUFFICES ASSUME PostgresInv, [Next]_postgresVars PROVE PostgresInv' /\ KeepsWindow
  OBVIOUS
<1>1. Good(db') /\ TipOK(db') /\ KeepsWindow
  <2>1. CASE \E ev \in Events : UpsertBlock(ev)
    BY <2>1, UpsertBlockStep
  <2>2. CASE \E from \in RollbackFroms : UpsertRollback(from)
    BY <2>2, UpsertRollbackStep
  <2>3. CASE RunMaintenance
    BY <2>3, MaintenanceStep
  <2>4. CASE UNCHANGED db
    BY <2>4 DEF PostgresInv, KeepsWindow
  <2>5. (\E reached \in BOOLEAN : EnsureInitialized(reached)) \/ Restart \/ UNCHANGED postgresVars
            => UNCHANGED db
    BY DEF EnsureInitialized, Restart, postgresVars
  <2> QED
    BY <2>1, <2>2, <2>3, <2>4, <2>5 DEF Next
<1>2. /\ connection' \in {"untried", "ready", "broken"}
      /\ retention' \in Retentions
      /\ restarts' \in Nat
  BY DEF PostgresInv, PostgresTypeOK, Next, UpsertBlock, UpsertRollback, RunMaintenance,
         EnsureInitialized, Restart, postgresVars
<1>3. db' \in Tables
  BY <1>1 DEF Good
<1> QED
  BY <1>1, <1>2, <1>3 DEF PostgresInv, PostgresTypeOK

(***************************************************************************)
(* The theorems.                                                           *)
(***************************************************************************)
\* PostgresInv is an inductive invariant of the store's specification.
THEOREM PostgresInvHolds == Spec => []PostgresInv
BY InitGood, NextGood, PTL DEF Spec

\* Every stored block has an ID and a hash, however Upsert is called.
THEOREM PostgresTypeCorrect == Spec => []PostgresTypeOK
<1>1. PostgresInv => PostgresTypeOK
  BY DEF PostgresInv
<1> QED
  BY <1>1, PostgresInvHolds, PTL

\* After every transaction, events, blocks and the state row agree.
THEOREM TablesCorrect == Spec => []TablesAgree
<1>1. PostgresInv => TablesAgree
  BY DEF PostgresInv, Good, TipOK, TablesAgree, RowsOf
<1> QED
  BY <1>1, PostgresInvHolds, PTL

\* A block and its event are archived together.
THEOREM ArchiveCorrect == Spec => []ArchivePaired
<1>1. PostgresInv => ArchivePaired
  BY DEF PostgresInv, Good, ArchivePaired
<1> QED
  BY <1>1, PostgresInvHolds, PTL

\* Cleaning up loses no height.
THEOREM NoHeightLost == Spec => []PrunedIsArchived
<1>1. PostgresInv => PrunedIsArchived
  BY DEF PostgresInv, Good, Live, PrunedIsArchived
<1> QED
  BY <1>1, PostgresInvHolds, PTL

\* What every transaction preserves: the four theorems above together.
THEOREM DatabaseCorrect == Spec => []DatabaseSafe
BY PostgresTypeCorrect, TablesCorrect, ArchiveCorrect, NoHeightLost, PTL DEF DatabaseSafe

\* Storing a block leaves nothing below the retention window.
THEOREM WindowCorrect == Spec => WindowKept
<1>1. PostgresInv /\ [Next]_postgresVars => KeepsWindow
  BY NextGood
<1> QED
  BY <1>1, PostgresInvHolds, PTL DEF Spec, WindowKept, KeepsWindow

\* As long as nothing has been archived, replaying indexer_events_log the way
\* the API does gives exactly the row of indexer_state.
THEOREM LogCorrect == Spec => []LogReplays
<1>1. ASSUME PostgresInv PROVE LogReplays
  <2> SUFFICES ASSUME db.archive = {} PROVE RebuildState(db.log) = db.state
    BY DEF LogReplays
  <2> DEFINE S == db.blocks
             lines == db.log
             st == db.state
  <2>1. /\ lines \in Seq(Line)
        /\ st \in [tipHeight : Nat, tipHash : MaybeName, total : Nat, reorgs : Nat]
    BY <1>1 DEF PostgresInv, Good, Tables
  <2>2. /\ Ascending(lines) /\ LiveBlocks(lines, Len(lines)) = S
        /\ Rebuilt(lines)[Len(lines)].reorgs = st.reorgs
    BY <1>1 DEF PostgresInv, Good, Replays, Live
  <2>3. \A b, c \in S : b # c => b.height # c.height
    BY <1>1 DEF PostgresInv, Good, Unique
  <2>4. Highest(S, st.tipHeight, st.tipHash) /\ st.total = Cardinality(S)
    BY <1>1 DEF PostgresInv, TipOK, TipIs, Highest
  <2> HIDE DEF S, lines, st
  <2>5. RebuildState(lines) =
            [tipHeight |-> st.tipHeight, tipHash |-> st.tipHash, total |-> Cardinality(S),
             reorgs |-> Rebuilt(lines)[Len(lines)].reorgs]
    BY <2>1, <2>2, <2>3, <2>4, RebuildReports
  <2>6. RebuildState(lines) = st
    BY <2>1, <2>2, <2>4, <2>5
  <2> QED
    BY <2>6 DEF lines, st
<1> QED
  BY <1>1, PostgresInvHolds, PTL
=============================================================================
