---------------------------- MODULE IndexerProofs ----------------------------
(***************************************************************************)
(* For all heights, names, events and bounds: the index that the store     *)
(* keeps in memory is always the one its file stands for, the file is      *)
(* always a legal history, the store implements BlockChainIndex, and the   *)
(* API reads the same from the file.  Then the worker over this store: the *)
(* file links the blocks it makes, and the webhook is told of the tip.     *)
(***************************************************************************)
EXTENDS IndexerPipeline, IndexerEventsProofs, TLAPS

(***************************************************************************)
(* What applyBlock, applyRollback and requiresRollback do to an index.     *)
(***************************************************************************)
\* A block above all others goes on top and the index stays sound.
LEMMA ApplyBlockSound ==
    ASSUME NEW m \in Mem, Sound(m), NEW b \in Block,
           \A c \in m.chain : c.height < b.height /\ c.id # b.id
    PROVE  /\ ApplyBlock(m, b) \in Mem
           /\ ApplyBlock(m, b).chain = m.chain \cup {b}
           /\ Sound(ApplyBlock(m, b))
<1> DEFINE r == ApplyBlock(m, b)
<1>1. b.height \in Nat /\ b.id \in Names /\ b.hash \in Names
  BY HeightsAssumption DEF Block
<1>2. \A c \in m.chain : c.height \in Nat
  BY HeightsAssumption DEF Mem, Block
<1>3. {c \in m.chain : c.height # b.height} = m.chain
  BY <1>1, <1>2
<1>4. b.height >= m.tipHeight
  <2>1. CASE m.chain = {}
    BY <2>1, <1>1 DEF Sound, TipIsTop
  <2>2. CASE m.chain # {}
    BY <2>2, <1>1, <1>2 DEF Sound, TipIsTop
  <2> QED
    BY <2>1, <2>2
<1>5. /\ r.chain = m.chain \cup {b}
      /\ r.seen = m.seen \cup {b.id}
      /\ r.tipHeight = b.height
      /\ r.tipHash = b.hash
      /\ r \in Mem
  BY <1>1, <1>3, <1>4 DEF ApplyBlock, Mem, MaybeName
<1> HIDE DEF r
<1>6. r.seen = {c.id : c \in r.chain}
  BY <1>5 DEF Sound
<1>7. TipIsTop(r)
  BY <1>1, <1>2, <1>5 DEF TipIsTop
<1>8. \A c, d \in r.chain : c # d => c.height # d.height /\ c.id # d.id
  BY <1>1, <1>2, <1>5 DEF Sound
<1> QED
  BY <1>5, <1>6, <1>7, <1>8 DEF Sound, r

\* A rollback removes exactly the blocks from its height upwards.
LEMMA RollbackSound ==
    ASSUME NEW m \in Mem, Sound(m), NEW from
    PROVE  /\ CountedRollback(m, from) \in Mem
           /\ CountedRollback(m, from).chain = {b \in m.chain : ~ (b.height >= from)}
           /\ Sound(CountedRollback(m, from))
           /\ CountedRollback(m, from).reorgs = m.reorgs + 1
<1> DEFINE gone == {b \in m.chain : b.height >= from}
           kept == m.chain \ gone
           top  == CHOOSE b \in kept : \A c \in kept : c.height <= b.height
           r    == CountedRollback(m, from)
           cut  == [m EXCEPT !.chain = kept, !.seen = m.seen \ {b.id : b \in gone}]
<1>0. /\ cut \in [chain : SUBSET Block, seen : SUBSET Names, tipHeight : Nat,
                  tipHash : MaybeName, reorgs : Nat]
      /\ cut.chain = kept
      /\ cut.seen = m.seen \ {b.id : b \in gone}
      /\ cut.reorgs = m.reorgs
      /\ r = [RecalculateTip(cut) EXCEPT !.reorgs = RecalculateTip(cut).reorgs + 1]
  BY DEF CountedRollback, ApplyRollback, Mem
<1> HIDE DEF kept, gone, cut
<1>1. /\ r.chain = kept
      /\ r.seen = m.seen \ {b.id : b \in gone}
      /\ r.reorgs = m.reorgs + 1
      /\ r.tipHeight = IF kept = {} THEN 0 ELSE top.height
      /\ r.tipHash = IF kept = {} THEN NoName ELSE top.hash
      /\ r = [chain |-> r.chain, seen |-> r.seen, tipHeight |-> r.tipHeight,
              tipHash |-> r.tipHash, reorgs |-> r.reorgs]
  BY <1>0 DEF RecalculateTip
<1> USE DEF kept, gone
<1>2. kept = {b \in m.chain : ~ (b.height >= from)}
  OBVIOUS
<1> HIDE DEF r
<1>3. r.seen = {b.id : b \in r.chain}
  BY <1>1, <1>2 DEF Sound
<1>4. \A b, c \in r.chain : b # c => b.height # c.height /\ b.id # c.id
  BY <1>1 DEF Sound
<1>5. kept # {} => top \in kept /\ \A c \in kept : c.height <= top.height
  <2> SUFFICES ASSUME kept # {}
               PROVE  \E b \in kept : \A c \in kept : c.height <= b.height
    BY Zenon
  <2>1. kept \subseteq Block /\ m.tipHeight \in Nat
    BY DEF Mem
  <2>2. \A b \in kept : b.height <= m.tipHeight
    BY DEF Sound, TipIsTop
  <2> HIDE DEF kept
  <2> QED
    BY <2>1, <2>2, HighestBlock
<1> HIDE DEF top, kept
<1>6. TipIsTop(r)
  BY <1>1, <1>5 DEF TipIsTop
<1>7. r \in Mem
  <2>1. r.chain \subseteq Block /\ r.seen \subseteq Names /\ r.reorgs \in Nat
    BY <1>1 DEF Mem, kept
  <2>2. kept # {} => top.height \in Nat /\ top.hash \in Names
    BY <2>1, <1>1, <1>5, HeightsAssumption DEF Block
  <2>3. r.tipHeight \in Nat /\ r.tipHash \in MaybeName
    BY <1>1, <2>2 DEF MaybeName
  <2> QED
    BY <1>1, <2>1, <2>3 DEF Mem
<1> QED
  BY <1>1, <1>2, <1>3, <1>4, <1>6, <1>7 DEF Sound, r, kept

\* The rollback that requiresRollback asks for leaves only lower blocks.
LEMMA RollbackMakesRoom ==
    ASSUME NEW m \in Mem, Sound(m), NEW b \in Block
    PROVE  /\ RollbackFrom(m, b) \in Heights \cup {0}
           /\ \A c \in m.chain :
                \/ c.height < b.height
                \/ RollbackFrom(m, b) > 0 /\ c.height >= RollbackFrom(m, b)
<1>1. b.height \in Heights /\ b.height \in Nat /\ b.height > 0
  BY BlockHeights
<1>2. \A c \in m.chain : c.height \in Nat /\ c.height > 0 /\ c.height <= m.tipHeight
  <2>1. \A c \in m.chain : c.height \in Nat /\ c.height > 0
    BY BlockHeights DEF Mem
  <2> QED
    BY <2>1 DEF Sound, TipIsTop
<1>3. m.tipHeight \in Nat
  BY DEF Mem
<1>4. RollbackFrom(m, b) \in {0, b.height, b.height - 1, 1}
  BY <1>1 DEF RollbackFrom
<1>5. b.height - 1 > 0 => b.height - 1 \in Heights
  BY <1>1, HeightsClosed
<1>6. RollbackFrom(m, b) \in Heights \cup {0}
  BY <1>1, <1>4, <1>5, HeightsClosed
<1>7. ASSUME NEW c \in m.chain, ~ (c.height < b.height)
      PROVE  RollbackFrom(m, b) = b.height
  BY <1>1, <1>2, <1>3, <1>7 DEF RollbackFrom
<1> QED
  BY <1>1, <1>2, <1>6, <1>7

(***************************************************************************)
(* The inductive invariant.  IndexIsLiveLog and LogAscends need each other  *)
(* (a reload replays lines that were legal when they were written), and    *)
(* both need to know that what an Upsert in progress is about to write     *)
(* still fits the index it was computed from.                              *)
(***************************************************************************)
PendingFits ==
    /\ pending # Idle => loaded = Len(log)
    /\ pending.block # NoBlock =>
         \A c \in mem.chain :
            /\ c.id # pending.block.id
            /\ \/ c.height < pending.block.height
               \/ pending.from > 0 /\ c.height >= pending.from

StoreInv == StoreTypeOK /\ IndexIsLiveLog /\ LogAscends /\ PendingFits

\* Writing a line that fits the index, and applying it, keeps file and index in step.
LEMMA WriteKeepsStep ==
    ASSUME StoreTypeOK, IndexIsLiveLog, LogAscends, loaded = Len(log),
           NEW line \in Line, log' = Append(log, line), loaded' = loaded + 1,
           line.from = 0 => /\ mem' = ApplyBlock(mem, line.block)
                            /\ \A c \in mem.chain : /\ c.height < line.block.height
                                                    /\ c.id # line.block.id,
           line.from > 0 => mem' = CountedRollback(mem, line.from)
    PROVE  /\ log' \in Seq(Line)
           /\ mem' \in Mem
           /\ loaded' \in 0 .. Len(log')
           /\ loaded' = Len(log')
           /\ IndexIsLiveLog'
           /\ LogAscends'
<1>1. /\ log' \in Seq(Line)
      /\ Len(log') = Len(log) + 1
      /\ log'[Len(log) + 1] = line
      /\ \A i \in 1 .. Len(log) : log'[i] = log[i]
      /\ Len(log) \in Nat
      /\ Len(log) \in 0 .. Len(log') - 1
  BY DEF StoreTypeOK
<1>2. \A n \in 0 .. Len(log) : LiveBlocks(log', n) = LiveBlocks(log, n)
  BY LivePrefix DEF StoreTypeOK
<1>3. LiveBlocks(log', Len(log)) = mem.chain
  BY <1>1, <1>2 DEF IndexIsLiveLog
<1>4. mem \in Mem /\ Sound(mem)
  BY DEF StoreTypeOK, IndexIsLiveLog
<1>5. CASE line.from = 0
  <2>1. line.block \in Block
    BY <1>5, LineKinds
  <2>2. /\ mem' \in Mem
        /\ mem'.chain = mem.chain \cup {line.block}
        /\ Sound(mem')
    BY <1>4, <1>5, <2>1, ApplyBlockSound
  <2>3. LiveBlocks(log', Len(log) + 1) = mem.chain \cup {line.block}
    <3>1. log'[Len(log) + 1].from = 0
      BY <1>1, <1>5
    <3>2. LiveBlocks(log', Len(log) + 1) =
             LiveBlocks(log', Len(log)) \cup {log'[Len(log) + 1].block}
      BY <1>1, <3>1, LiveExtend
    <3> QED
      BY <1>1, <1>3, <3>2
  <2>4. IndexIsLiveLog'
    BY <2>2, <2>3 DEF IndexIsLiveLog, Sound, TipIsTop
  <2>5. ASSUME NEW i \in 1 .. Len(log'), log'[i].from = 0
        PROVE  \A b \in LiveBlocks(log', i - 1) :
                  b.height < log'[i].block.height /\ b.id # log'[i].block.id
    <3>1. CASE i = Len(log) + 1
      BY <1>1, <1>3, <1>5, <3>1
    <3>2. CASE i # Len(log) + 1
      <4>1. i \in 1 .. Len(log) /\ i - 1 \in 0 .. Len(log)
        BY <1>1, <3>2
      <4>2. log'[i] = log[i] /\ LiveBlocks(log', i - 1) = LiveBlocks(log, i - 1)
        BY <1>1, <1>2, <4>1
      <4> QED
        BY <2>5, <4>1, <4>2 DEF LogAscends
    <3> QED
      BY <3>1, <3>2
  <2> QED
    BY <1>1, <2>2, <2>4, <2>5 DEF LogAscends
<1>6. CASE line.from # 0
  <2>1. line.from \in Nat /\ line.from > 0
    BY <1>6, LineKinds
  <2>2. /\ mem' \in Mem
        /\ mem'.chain = {b \in mem.chain : ~ (b.height >= line.from)}
        /\ Sound(mem')
    BY <1>4, <2>1, RollbackSound
  <2>3. mem'.chain = {b \in mem.chain : b.height < line.from}
    <3>1. \A b \in mem.chain : b.height \in Nat
      BY <1>4, BlockHeights DEF Mem
    <3> QED
      BY <2>1, <2>2, <3>1
  <2>4. LiveBlocks(log', Len(log) + 1) = {b \in mem.chain : b.height < line.from}
    <3>1. log'[Len(log) + 1].from > 0
      BY <1>1, <2>1
    <3>2. LiveBlocks(log', Len(log) + 1) =
             {b \in LiveBlocks(log', Len(log)) : b.height < log'[Len(log) + 1].from}
      BY <1>1, <3>1, LiveTruncate
    <3> QED
      BY <1>1, <1>3, <3>2
  <2>5. IndexIsLiveLog'
    BY <2>2, <2>3, <2>4 DEF IndexIsLiveLog, Sound, TipIsTop
  <2>6. ASSUME NEW i \in 1 .. Len(log'), log'[i].from = 0
        PROVE  \A b \in LiveBlocks(log', i - 1) :
                  b.height < log'[i].block.height /\ b.id # log'[i].block.id
    <3>1. i # Len(log) + 1
      BY <1>1, <1>6, <2>6
    <3>2. i \in 1 .. Len(log) /\ i - 1 \in 0 .. Len(log)
      BY <1>1, <3>1
    <3>3. log'[i] = log[i] /\ LiveBlocks(log', i - 1) = LiveBlocks(log, i - 1)
      BY <1>1, <1>2, <3>2
    <3> QED
      BY <2>6, <3>2, <3>3 DEF LogAscends
  <2> QED
    BY <1>1, <2>2, <2>5, <2>6 DEF LogAscends
<1> QED
  BY <1>5, <1>6

LEMMA InitEstablishes == StoreInit => StoreInv
<1> SUFFICES ASSUME StoreInit PROVE StoreInv
  OBVIOUS
<1>1. StoreTypeOK
  <2>1. Fresh \in Mem
    BY DEF Mem, Fresh, MaybeName
  <2>2. log \in Seq(Line) /\ loaded \in 0 .. Len(log)
    BY DEF StoreInit
  <2>3. pending \in [from : Heights \cup {0}, block : Block \cup {NoBlock}]
    BY DEF StoreInit, Idle
  <2> QED
    BY <2>1, <2>2, <2>3 DEF StoreInit, StoreTypeOK
<1>2. IndexIsLiveLog
  BY LiveNone DEF StoreInit, IndexIsLiveLog, Sound, TipIsTop, Fresh
<1>3. LogAscends /\ PendingFits
  BY DEF StoreInit, LogAscends, PendingFits, Idle
<1> QED
  BY <1>1, <1>2, <1>3 DEF StoreInv

\* A failed append changes neither the file's lines nor the index.
LEMMA FailedAppend ==
    ASSUME StoreInv, NEW line, NEW outcome, outcome # "written",
           AppendEvent(line, outcome), mem' = mem, pending' = Idle,
           UNCHANGED <<up, crashes>>
    PROVE  StoreInv'
<1>1. log' = log /\ loaded' = loaded /\ failures' = failures + 1
      /\ torn' = (torn \/ outcome = "short")
  BY DEF AppendEvent
<1>2. torn' \in BOOLEAN
  BY <1>1
<1>3. StoreTypeOK'
  BY <1>1, <1>2 DEF StoreInv, StoreTypeOK, Idle
<1>4. IndexIsLiveLog' /\ LogAscends'
  BY <1>1 DEF StoreInv, IndexIsLiveLog, LogAscends, Sound, TipIsTop
<1>5. PendingFits'
  BY DEF PendingFits, Idle
<1> QED
  BY <1>3, <1>4, <1>5 DEF StoreInv

LEMMA WriteRollbackStep ==
    ASSUME StoreInv, NEW outcome \in Outcomes, WriteRollback(outcome)
    PROVE  StoreInv'
<1> DEFINE line == [from |-> pending.from, block |-> NoBlock]
<1>1. CASE outcome = "written"
  <2>1. pending.from \in Heights /\ pending.from > 0 /\ pending # Idle
    BY DEF WriteRollback, StoreInv, StoreTypeOK, Idle
  <2>2. loaded = Len(log)
    BY <2>1 DEF StoreInv, PendingFits
  <2>3. line \in Line /\ line.from = pending.from
    BY <2>1 DEF Line
  <2>4. /\ log' = Append(log, line) /\ loaded' = loaded + 1 /\ failures' = failures
        /\ mem' = CountedRollback(mem, line.from)
        /\ pending' = [pending EXCEPT !.from = 0]
        /\ up' = up /\ crashes' = crashes
    BY <1>1 DEF WriteRollback, AppendEvent
  <2>5. torn' \in BOOLEAN
    BY DEF WriteRollback, AppendEvent
  <2> HIDE DEF line
  <2>6. /\ log' \in Seq(Line)
        /\ mem' \in Mem
        /\ loaded' \in 0 .. Len(log')
        /\ loaded' = Len(log')
        /\ IndexIsLiveLog'
        /\ LogAscends'
    <3>1. line.from # 0
      BY <2>1, <2>3
    <3> QED
      BY <2>2, <2>3, <2>4, <3>1, WriteKeepsStep DEF StoreInv
  <2>7. StoreTypeOK'
    BY <2>4, <2>5, <2>6 DEF StoreTypeOK, StoreInv
  <2>8. mem'.chain = {b \in mem.chain : ~ (b.height >= pending.from)}
    BY <2>3, <2>4, RollbackSound DEF StoreInv, StoreTypeOK, IndexIsLiveLog
  <2>9. pending'.block = pending.block /\ pending'.from = 0
    BY <2>4 DEF StoreInv, StoreTypeOK
  <2>10. PendingFits'
    BY <2>6, <2>8, <2>9 DEF PendingFits, StoreInv
  <2> QED
    BY <2>6, <2>7, <2>10 DEF StoreInv
<1>2. CASE outcome # "written"
  BY <1>2, FailedAppend DEF WriteRollback
<1> QED
  BY <1>1, <1>2

LEMMA WriteBlockStep ==
    ASSUME StoreInv, NEW outcome \in Outcomes, WriteBlock(outcome)
    PROVE  StoreInv'
<1> DEFINE line == [from |-> 0, block |-> pending.block]
<1>1. CASE outcome = "written"
  <2>1. pending.block \in Block /\ pending.block # NoBlock
    BY NoBlockIsNone DEF WriteBlock, StoreInv, StoreTypeOK, Idle
  <2>2. loaded = Len(log)
    BY DEF WriteBlock, StoreInv, PendingFits
  <2>3. \A c \in mem.chain : c.height < pending.block.height /\ c.id # pending.block.id
    BY <2>1 DEF WriteBlock, StoreInv, PendingFits
  <2>4. line \in Line /\ line.from = 0 /\ line.block = pending.block
    BY <2>1 DEF Line
  <2>5. /\ log' = Append(log, line) /\ loaded' = loaded + 1 /\ failures' = failures
        /\ mem' = ApplyBlock(mem, line.block)
        /\ pending' = Idle
        /\ up' = up /\ crashes' = crashes
    BY <1>1 DEF WriteBlock, AppendEvent
  <2>6. torn' \in BOOLEAN
    BY DEF WriteBlock, AppendEvent
  <2> HIDE DEF line
  <2>7. /\ log' \in Seq(Line)
        /\ mem' \in Mem
        /\ loaded' \in 0 .. Len(log')
        /\ IndexIsLiveLog'
        /\ LogAscends'
    BY <2>2, <2>3, <2>4, <2>5, WriteKeepsStep DEF StoreInv
  <2>8. StoreTypeOK'
    BY <2>5, <2>6, <2>7 DEF StoreTypeOK, StoreInv, Idle
  <2>9. PendingFits'
    BY <2>5 DEF PendingFits, Idle
  <2> QED
    BY <2>7, <2>8, <2>9 DEF StoreInv
<1>2. CASE outcome # "written"
  BY <1>2, FailedAppend DEF WriteBlock
<1> QED
  BY <1>1, <1>2

LEMMA LoadSeenStep ==
    ASSUME StoreInv, LoadSeen PROVE StoreInv'
<1> DEFINE line == log[loaded + 1]
<1>1. /\ log \in Seq(Line) /\ loaded \in 0 .. Len(log) - 1 /\ loaded \in Nat
      /\ loaded + 1 \in 1 .. Len(log) /\ line \in Line
      /\ mem \in Mem /\ Sound(mem) /\ mem.chain = LiveBlocks(log, loaded)
      /\ log' = log /\ loaded' = loaded + 1 /\ pending' = pending
  BY DEF LoadSeen, StoreInv, StoreTypeOK, IndexIsLiveLog
<1>2. pending = Idle
  BY DEF LoadSeen, StoreInv, StoreTypeOK, PendingFits
<1>3. PendingFits'
  BY <1>1, <1>2 DEF PendingFits, Idle
<1>4. LogAscends'
  BY <1>1 DEF StoreInv, LogAscends
<1>5. mem' \in Mem /\ mem'.chain = LiveBlocks(log, loaded + 1) /\ Sound(mem')
  <2>1. CASE line.from = 0
    <3>1. mem' = ApplyBlock(mem, line.block) /\ line.block \in Block
      BY <2>1, <1>1, LineKinds DEF LoadSeen, ApplyLine
    <3>2. \A c \in mem.chain : c.height < line.block.height /\ c.id # line.block.id
      <4>1. \A b \in LiveBlocks(log, loaded + 1 - 1) :
               b.height < line.block.height /\ b.id # line.block.id
        BY <1>1, <2>1 DEF StoreInv, LogAscends
      <4> QED
        BY <1>1, <4>1
    <3>3. LiveBlocks(log, loaded + 1) = mem.chain \cup {line.block}
      BY <1>1, <2>1, LiveExtend
    <3> HIDE DEF line
    <3> QED
      BY <1>1, <3>1, <3>2, <3>3, ApplyBlockSound
  <2>2. CASE line.from # 0
    <3>1. mem' = CountedRollback(mem, line.from) /\ line.from \in Nat /\ line.from > 0
      BY <2>2, <1>1, LineKinds DEF LoadSeen, ApplyLine
    <3>2. LiveBlocks(log, loaded + 1) = {b \in mem.chain : b.height < line.from}
      BY <1>1, <3>1, LiveTruncate
    <3>3. \A b \in mem.chain : b.height \in Nat
      BY <1>1, BlockHeights DEF Mem
    <3> HIDE DEF line
    <3>4. /\ mem' \in Mem
          /\ mem'.chain = {b \in mem.chain : ~ (b.height >= line.from)}
          /\ Sound(mem')
      BY <1>1, <3>1, RollbackSound
    <3> QED
      BY <3>1, <3>2, <3>3, <3>4
  <2> QED
    BY <2>1, <2>2
<1>6. IndexIsLiveLog'
  BY <1>1, <1>5 DEF IndexIsLiveLog, Sound, TipIsTop
<1>7. StoreTypeOK'
  BY <1>1, <1>5 DEF LoadSeen, StoreInv, StoreTypeOK
<1> QED
  BY <1>3, <1>4, <1>6, <1>7 DEF StoreInv

LEMMA UpsertBlockStep ==
    ASSUME StoreInv, NEW ev \in Event, UpsertBlock(ev) PROVE StoreInv'
<1> DEFINE b == Normalise(ev)
           f == RollbackFrom(mem, b)
<1>1. b \in Block /\ b # NoBlock
  BY NormaliseType, NoBlockIsNone
<1>2. /\ b.id \notin mem.seen
      /\ pending' = [from |-> f, block |-> b]
      /\ loaded = Len(log)
      /\ UNCHANGED <<log, torn, mem, loaded, up, failures, crashes>>
  BY DEF UpsertBlock, Ready
<1> HIDE DEF b
<1>3. /\ f \in Heights \cup {0}
      /\ \A c \in mem.chain : c.height < b.height \/ (f > 0 /\ c.height >= f)
  BY <1>1, RollbackMakesRoom DEF StoreInv, StoreTypeOK, IndexIsLiveLog
<1> HIDE DEF f
<1>4. \A c \in mem.chain : c.id # b.id
  BY <1>2 DEF StoreInv, IndexIsLiveLog, Sound
<1>5. PendingFits'
  BY <1>2, <1>3, <1>4 DEF PendingFits
<1>6. StoreTypeOK'
  BY <1>1, <1>2, <1>3 DEF StoreInv, StoreTypeOK
<1>7. IndexIsLiveLog' /\ LogAscends'
  BY <1>2 DEF StoreInv, IndexIsLiveLog, LogAscends, Sound, TipIsTop
<1> QED
  BY <1>5, <1>6, <1>7 DEF StoreInv

LEMMA UpsertStep ==
    ASSUME StoreInv,
           \/ \E ev \in Events : UpsertBlock(ev)
           \/ \E from \in RollbackFroms : UpsertRollback(from)
    PROVE  StoreInv'
<1>1. CASE \E ev \in Events : UpsertBlock(ev)
  BY <1>1, EventsAssumption, UpsertBlockStep
<1>2. CASE \E from \in RollbackFroms : UpsertRollback(from)
  <2>1. PICK from \in RollbackFroms : UpsertRollback(from)
    BY <1>2
  <2>2. /\ from \in Heights
        /\ pending' = [from |-> from, block |-> NoBlock]
        /\ loaded = Len(log)
        /\ UNCHANGED <<log, torn, mem, loaded, up, failures, crashes>>
    BY <2>1, RollbackFromsAssumption DEF UpsertRollback, Ready
  <2>3. PendingFits'
    BY <2>2 DEF PendingFits
  <2>4. StoreTypeOK'
    BY <2>2 DEF StoreInv, StoreTypeOK
  <2>5. IndexIsLiveLog' /\ LogAscends'
    BY <2>2 DEF StoreInv, IndexIsLiveLog, LogAscends, Sound, TipIsTop
  <2> QED
    BY <2>3, <2>4, <2>5 DEF StoreInv
<1> QED
  BY <1>1, <1>2

\* A crash empties memory; no line of the file is lost, whatever else is cut.
LEMMA StopStep ==
    ASSUME StoreInv, Stop, torn' \in BOOLEAN, crashes' \in Nat PROVE StoreInv'
<1>1. /\ log' = log /\ mem' = Fresh /\ loaded' = 0 /\ pending' = Idle
      /\ up' = FALSE /\ failures' = failures
  BY DEF Stop
<1>2. Fresh \in Mem
  BY DEF Mem, Fresh, MaybeName
<1>3. StoreTypeOK'
  <2>1. Idle \in [from : Heights \cup {0}, block : Block \cup {NoBlock}]
    BY DEF Idle
  <2>2. log \in Seq(Line) /\ 0 \in 0 .. Len(log) /\ failures \in Nat
    BY DEF StoreInv, StoreTypeOK
  <2>3. /\ log' \in Seq(Line) /\ mem' \in Mem /\ loaded' \in 0 .. Len(log')
        /\ pending' \in [from : Heights \cup {0}, block : Block \cup {NoBlock}]
    BY <1>1, <1>2, <2>1, <2>2, Zenon
  <2>4. failures' \in Nat /\ crashes' \in Nat
    BY <1>1, <2>2
  <2>5. torn' \in BOOLEAN /\ up' \in BOOLEAN
    BY <1>1, Zenon
  <2> QED
    BY <2>3, <2>4, <2>5, Zenon DEF StoreTypeOK
<1>4. IndexIsLiveLog'
  BY <1>1, LiveNone DEF IndexIsLiveLog, Sound, TipIsTop, Fresh
<1>5. LogAscends' /\ PendingFits'
  BY <1>1 DEF StoreInv, LogAscends, PendingFits, Idle
<1> QED
  BY <1>3, <1>4, <1>5 DEF StoreInv

LEMMA CrashStep ==
    ASSUME StoreInv, Crash PROVE StoreInv'
<1>1. Stop /\ crashes' \in Nat
  BY DEF Crash, StoreInv, StoreTypeOK
<1>2. torn' \in BOOLEAN
  BY DEF Crash, StoreInv, StoreTypeOK
<1> QED
  BY <1>1, <1>2, StopStep

LEMMA OpenStep ==
    ASSUME StoreInv, Open PROVE StoreInv'
<1>1. up' = TRUE /\ UNCHANGED <<log, torn, mem, loaded, pending, failures, crashes>>
  BY DEF Open
<1> QED
  BY <1>1 DEF StoreInv, StoreTypeOK, IndexIsLiveLog, LogAscends, PendingFits, Sound, TipIsTop

LEMMA NextPreserves ==
    ASSUME StoreInv, [StoreNext]_storeVars PROVE StoreInv'
<1>1. CASE StoreNext
  BY <1>1, UpsertStep, WriteRollbackStep, WriteBlockStep, CrashStep, OpenStep, LoadSeenStep
     DEF StoreNext
<1>2. CASE UNCHANGED storeVars
  BY <1>2 DEF storeVars, StoreInv, StoreTypeOK, IndexIsLiveLog, LogAscends, PendingFits,
              Sound, TipIsTop
<1> QED
  BY <1>1, <1>2

(***************************************************************************)
(* The theorems.                                                           *)
(***************************************************************************)
THEOREM InvHolds == StoreSpec => []StoreInv
BY InitEstablishes, NextPreserves, PTL DEF StoreSpec

\* Every block on file, indexed or about to be written is well formed.
THEOREM TypeCorrect == StoreSpec => []StoreTypeOK
BY InvHolds, PTL DEF StoreInv

\* The index that Upsert maintains and loadSeen rebuilds is always exactly what
\* the file stands for, whatever fails and whenever the process dies.
THEOREM IndexCorrect == StoreSpec => []IndexIsLiveLog
BY InvHolds, PTL DEF StoreInv

\* Upsert only ever appends a block that fits on what the file leaves standing.
THEOREM HistoryCorrect == StoreSpec => []LogAscends
BY InvHolds, PTL DEF StoreInv

\* Upsert never takes up an event whose block stands in the file.
THEOREM UpsertIdempotent == StoreSpec => []RedeliveryWritesNothing
<1>1. StoreInv => RedeliveryWritesNothing
  <2> SUFFICES ASSUME StoreInv, pending.block # NoBlock
               PROVE  \A b \in LiveBlocks(log, Len(log)) : b.id # pending.block.id
    BY DEF RedeliveryWritesNothing
  <2>1. pending # Idle
    BY DEF Idle
  <2>2. mem.chain = LiveBlocks(log, Len(log))
    BY <2>1 DEF StoreInv, PendingFits, IndexIsLiveLog
  <2> QED
    BY <2>2 DEF StoreInv, PendingFits
<1> QED
  BY <1>1, InvHolds, PTL

\* The store keeps what it promises: the four theorems above together.
THEOREM StoreCorrect == StoreSpec => []StoreSafe
BY TypeCorrect, IndexCorrect, HistoryCorrect, UpsertIdempotent, PTL DEF StoreSafe

\* What each way of changing the file does to the blocks that stand.
LEMMA StepRefines ==
    ASSUME StoreInv, StoreInv', [StoreNext]_storeVars
    PROVE  [Index!Next]_(LiveBlocks(log, Len(log)))
<1> DEFINE old == LiveBlocks(log, Len(log))
           new == LiveBlocks(log', Len(log'))
<1>1. CASE log' = log
  BY <1>1
<1>2. ASSUME NEW line \in Line, log' = Append(log, line)
      PROVE  Index!Next
  <2>1. /\ log \in Seq(Line) /\ log' \in Seq(Line) /\ Len(log') = Len(log) + 1
        /\ Len(log) \in Nat /\ Len(log) \in 0 .. Len(log') - 1
        /\ log'[Len(log) + 1] = line
    BY <1>2 DEF StoreInv, StoreTypeOK
  <2>2. LiveBlocks(log', Len(log)) = old
    BY <1>2, <2>1, LivePrefix
  <2>3. CASE line.from = 0
    <3>1. new = old \cup {line.block} /\ line.block \in Block
      BY <2>1, <2>2, <2>3, LiveExtend, LineKinds
    <3>2. \A c \in old : c.height < line.block.height /\ c.id # line.block.id
      <4>1. Len(log) + 1 \in 1 .. Len(log') /\ Len(log) + 1 - 1 = Len(log)
        BY <2>1
      <4>2. \A c \in LiveBlocks(log', Len(log) + 1 - 1) :
               c.height < line.block.height /\ c.id # line.block.id
        BY <2>1, <2>3, <4>1 DEF StoreInv, LogAscends
      <4> QED
        BY <2>2, <4>1, <4>2
    <3> HIDE DEF old, new
    <3>3. \E b \in new : /\ b \in Block
                         /\ \A c \in old : c.height < b.height /\ c.id # b.id
                         /\ new = old \cup {b}
      BY <3>1, <3>2
    <3> QED
      BY <3>3 DEF Index!Next, Index!Extend, old, new
  <2>4. CASE line.from # 0
    <3>1. line.from \in Heights /\ line.from > 0
      BY <2>4, LineKinds
    <3>2. new = {b \in old : b.height < line.from}
      BY <2>1, <2>2, <3>1, LiveTruncate
    <3> QED
      BY <3>1, <3>2 DEF Index!Next, Index!Truncate
  <2> QED
    BY <2>3, <2>4
<1>3. log' = log \/ \E line \in Line : log' = Append(log, line)
  <2>1. CASE \E outcome \in Outcomes : WriteRollback(outcome)
    <3>1. PICK outcome \in Outcomes : WriteRollback(outcome)
      BY <2>1
    <3>2. [from |-> pending.from, block |-> NoBlock] \in Line
      BY <3>1 DEF WriteRollback, StoreInv, StoreTypeOK, Line
    <3> QED
      BY <3>1, <3>2 DEF WriteRollback, AppendEvent
  <2>2. CASE \E outcome \in Outcomes : WriteBlock(outcome)
    <3>1. PICK outcome \in Outcomes : WriteBlock(outcome)
      BY <2>2
    <3>2. [from |-> 0, block |-> pending.block] \in Line
      BY <3>1 DEF WriteBlock, StoreInv, StoreTypeOK, Line, Idle
    <3> QED
      BY <3>1, <3>2 DEF WriteBlock, AppendEvent
  <2>3. CASE \/ \E ev \in Events : UpsertBlock(ev)
             \/ \E from \in RollbackFroms : UpsertRollback(from)
             \/ Crash \/ Open \/ LoadSeen \/ UNCHANGED storeVars
    BY <2>3 DEF UpsertBlock, UpsertRollback, Crash, Stop, Open, LoadSeen, storeVars
  <2> QED
    BY <2>1, <2>2, <2>3 DEF StoreNext
<1> QED
  BY <1>1, <1>2, <1>3

\* The persisted index implements the abstract one: it is only ever extended
\* on top or truncated from the top, and survives crashes and failed writes.
THEOREM Refinement == StoreSpec => ImplementsIndex
<1>1. StoreInit => Index!Init
  BY LiveNone DEF StoreInit, Index!Init
<1> QED
  BY <1>1, StepRefines, InvHolds, PTL DEF StoreSpec, ImplementsIndex, Index!Spec

(***************************************************************************)
(* The API process.  That it finds the blocks the store has follows from   *)
(* StoreInv; that it counts the same reorgs is an invariant of its own.    *)
(***************************************************************************)
ReorgsCounted == mem.reorgs = Rebuilt(log)[loaded].reorgs

\* A line counts for the index as it counts for rebuildState.
LEMMA LineCounts ==
    ASSUME NEW lines \in Seq(Line), NEW n \in 0 .. Len(lines) - 1, NEW m \in Mem, Sound(m),
           m.reorgs = Rebuilt(lines)[n].reorgs
    PROVE  ApplyLine(m, lines[n + 1]).reorgs = Rebuilt(lines)[n + 1].reorgs
<1> DEFINE l == lines[n + 1]
           s == Rebuilt(lines)[n]
<1>1. l \in Line /\ n \in 0 .. Len(lines) /\ n + 1 \in 1 .. Len(lines) /\ (n + 1) - 1 = n
  OBVIOUS
<1>2. Rebuilt(lines)[n + 1] = RebuildStep(s, l) /\ s \in Reading
  <2>1. Rebuilt(lines)[n + 1] = RebuildStep(Rebuilt(lines)[(n + 1) - 1], lines[n + 1])
    BY <1>1, RebuiltUnfolds
  <2> QED
    BY <1>1, <2>1, RebuiltType
<1> HIDE DEF l, s
<1>3. CASE l.from = 0
  <2>1. ApplyLine(m, l) = ApplyBlock(m, l.block)
    BY <1>3 DEF ApplyLine
  <2>2. ApplyBlock(m, l.block).reorgs = m.reorgs
    BY DEF ApplyBlock, Mem
  <2> QED
    BY <1>1, <1>2, <1>3, <2>1, <2>2, StepReads DEF l, s
<1>4. CASE l.from # 0
  <2>1. l.from > 0
    BY <1>1, <1>4, LineKinds
  <2>2. ApplyLine(m, l).reorgs = m.reorgs + 1
    BY <2>1, RollbackSound DEF ApplyLine
  <2> QED
    BY <1>1, <1>2, <1>4, <2>2, StepReads DEF l, s
<1> QED
  BY <1>3, <1>4

\* A line that is written and applied counts for both.
LEMMA WriteCounts ==
    ASSUME StoreInv, ReorgsCounted, loaded = Len(log), NEW line \in Line,
           log' = Append(log, line), loaded' = loaded + 1, mem' = ApplyLine(mem, line)
    PROVE  ReorgsCounted'
<1>1. /\ log \in Seq(Line) /\ log' \in Seq(Line) /\ Len(log') = Len(log) + 1
      /\ Len(log) \in 0 .. Len(log') - 1 /\ Len(log) \in 0 .. Len(log)
      /\ log'[Len(log) + 1] = line /\ mem \in Mem /\ Sound(mem)
  BY DEF StoreInv, StoreTypeOK, IndexIsLiveLog
<1>2. Rebuilt(log')[Len(log)] = Rebuilt(log)[Len(log)]
  BY <1>1, RebuiltPrefix
<1>3. ApplyLine(mem, log'[Len(log) + 1]).reorgs = Rebuilt(log')[Len(log) + 1].reorgs
  BY <1>1, <1>2, LineCounts DEF ReorgsCounted
<1> QED
  BY <1>1, <1>3 DEF ReorgsCounted

\* Every step keeps the counts equal: a reload counts again what was counted.
LEMMA ReorgsStep ==
    ASSUME StoreInv, ReorgsCounted, [StoreNext]_storeVars
    PROVE  ReorgsCounted'
<1>1. CASE UNCHANGED <<log, mem, loaded>>
  BY <1>1 DEF ReorgsCounted
<1>2. ASSUME NEW outcome \in Outcomes, WriteRollback(outcome) PROVE ReorgsCounted'
  <2>1. CASE outcome = "written"
    <3> DEFINE line == [from |-> pending.from, block |-> NoBlock]
    <3>1. pending.from \in Heights /\ pending.from > 0 /\ pending # Idle
      BY <1>2 DEF WriteRollback, StoreInv, StoreTypeOK, Idle
    <3>2. line \in Line /\ line.from = pending.from /\ loaded = Len(log)
      BY <3>1 DEF Line, StoreInv, PendingFits
    <3>3. /\ log' = Append(log, line) /\ loaded' = loaded + 1
          /\ mem' = ApplyLine(mem, line)
      BY <1>2, <2>1, <3>1 DEF WriteRollback, AppendEvent, ApplyLine
    <3> HIDE DEF line
    <3> QED
      BY <3>2, <3>3, WriteCounts
  <2>2. CASE outcome # "written"
    BY <1>1, <1>2, <2>2 DEF WriteRollback, AppendEvent
  <2> QED
    BY <2>1, <2>2
<1>3. ASSUME NEW outcome \in Outcomes, WriteBlock(outcome) PROVE ReorgsCounted'
  <2>1. CASE outcome = "written"
    <3> DEFINE line == [from |-> 0, block |-> pending.block]
    <3>1. pending.block \in Block /\ loaded = Len(log)
      BY <1>3 DEF WriteBlock, StoreInv, StoreTypeOK, PendingFits, Idle
    <3>2. line \in Line
      BY <3>1 DEF Line
    <3>3. /\ log' = Append(log, line) /\ loaded' = loaded + 1
          /\ mem' = ApplyLine(mem, line)
      BY <1>3, <2>1 DEF WriteBlock, AppendEvent, ApplyLine
    <3> HIDE DEF line
    <3> QED
      BY <3>1, <3>2, <3>3, WriteCounts
  <2>2. CASE outcome # "written"
    BY <1>1, <1>3, <2>2 DEF WriteBlock, AppendEvent
  <2> QED
    BY <2>1, <2>2
<1>4. CASE Crash
  <2>1. mem' = Fresh /\ loaded' = 0 /\ log' = log /\ log \in Seq(Line)
    BY <1>4 DEF Crash, Stop, StoreInv, StoreTypeOK
  <2>2. Rebuilt(log)[0] = NothingRead
    BY <2>1, RebuiltUnfolds
  <2> QED
    BY <2>1, <2>2 DEF ReorgsCounted, Fresh, NothingRead
<1>5. CASE LoadSeen
  <2>1. /\ log \in Seq(Line) /\ loaded \in 0 .. Len(log) - 1 /\ mem \in Mem /\ Sound(mem)
        /\ log' = log /\ loaded' = loaded + 1 /\ mem' = ApplyLine(mem, log[loaded + 1])
    BY <1>5 DEF LoadSeen, StoreInv, StoreTypeOK, IndexIsLiveLog
  <2> QED
    BY <2>1, LineCounts DEF ReorgsCounted
<1>6. CASE \/ \E ev \in Events : UpsertBlock(ev)
           \/ \E from \in RollbackFroms : UpsertRollback(from)
           \/ Open \/ UNCHANGED storeVars
  BY <1>1, <1>6 DEF UpsertBlock, UpsertRollback, Open, storeVars
<1> QED
  BY <1>1, <1>2, <1>3, <1>4, <1>5, <1>6 DEF StoreNext

\* Index and API agree as soon as the whole file has been loaded.
LEMMA CountedAgrees == StoreInv /\ ReorgsCounted => ApiAgrees
<1> SUFFICES ASSUME StoreInv, ReorgsCounted, loaded = Len(log)
             PROVE  RebuildState(log) = State
  BY DEF ApiAgrees, Ready
<1>1. /\ log \in Seq(Line) /\ Len(log) \in 0 .. Len(log) /\ Sound(mem)
      /\ mem.chain = LiveBlocks(log, Len(log))
  BY DEF StoreInv, StoreTypeOK, IndexIsLiveLog
<1>2. Ascending(log)
  BY DEF StoreInv, LogAscends, Ascending
<1>3. \A b, c \in mem.chain : b # c => b.height # c.height /\ b.id # c.id
  BY <1>1 DEF Sound
<1>4. \/ mem.chain = {} /\ mem.tipHeight = 0 /\ mem.tipHash = NoName
      \/ \E b \in mem.chain : /\ b.height = mem.tipHeight /\ b.hash = mem.tipHash
                              /\ \A c \in mem.chain : c.height <= b.height
  BY <1>1 DEF Sound, TipIsTop
<1>5. RebuildState(log) =
          [tipHeight |-> mem.tipHeight, tipHash |-> mem.tipHash,
           total |-> Cardinality(mem.chain), reorgs |-> Rebuilt(log)[Len(log)].reorgs]
  <2>1. \A b, c \in mem.chain : b # c => b.height # c.height
    BY <1>3
  <2>2. Highest(mem.chain, mem.tipHeight, mem.tipHash)
    BY <1>4 DEF Highest
  <2> QED
    BY <1>1, <1>2, <2>1, <2>2, RebuildReports
<1>6. Cardinality(mem.seen) = Cardinality(mem.chain)
  <2>1. IsFiniteSet(mem.chain)
    BY <1>1, LiveFinite
  <2>2. Cardinality({b.id : b \in mem.chain}) = Cardinality(mem.chain)
    BY <1>3, <2>1, CountByID
  <2> QED
    BY <1>1, <2>2 DEF Sound
<1> QED
  BY <1>5, <1>6 DEF State, ReorgsCounted

\* What the API process reads from the file, whenever the store is up and has
\* read it too, is what the store itself reports: tip, total and reorgs.
THEOREM ApiCorrect == StoreSpec => []ApiAgrees
<1>1. StoreInit => ReorgsCounted
  <2> SUFFICES ASSUME StoreInit PROVE ReorgsCounted
    OBVIOUS
  <2>1. log \in Seq(Line) /\ loaded = 0 /\ mem.reorgs = 0
    BY DEF StoreInit, Fresh
  <2> QED
    BY <2>1, RebuiltUnfolds DEF ReorgsCounted, NothingRead
<1> QED
  BY <1>1, InvHolds, ReorgsStep, CountedAgrees, PTL DEF StoreSpec

(***************************************************************************)
(* The worker.  generateTickEvents never gets past the first height at     *)
(* which it simulates a reorg, so it makes only these events: the main     *)
(* blocks up to that height, each on the block below it, and the fork      *)
(* block just below that height.  Whatever of them is lost, retried, or    *)
(* sent again after a restart, Upsert links what it stores.                *)
(***************************************************************************)
BelowReorg(h) == \A k \in Heights : ReorgAt(k) => h <= k

MainMade(b) ==
    /\ b.hash = mainName[b.height] /\ BelowReorg(b.height)
    /\ \/ b.height = 1 /\ b.parent = NoName
       \/ b.height > 1 /\ b.parent = mainName[b.height - 1]
       \/ ReorgAt(b.height) /\ b.parent = forkName[b.height - 1]

ForkMade(b) ==
    /\ b.hash = forkName[b.height] /\ b.height > 1
    /\ ReorgAt(b.height + 1) /\ BelowReorg(b.height + 1)
    /\ b.parent = mainName[b.height - 1]

Made(b) == b \in Block /\ b.id = b.hash /\ (MainMade(b) \/ ForkMade(b))

\* What Run remembers of the heights it has made.
HashesMade ==
    /\ BelowReorg(nextHeight)
    /\ hashByHeight[0] = NoName
    /\ \A k \in Heights : k < nextHeight =>
         \/ hashByHeight[k] = mainName[k]
         \/ ReorgAt(k + 1) /\ hashByHeight[k] = forkName[k]

\* Every event on its way to the store is one of the worker's.
EventsMade ==
    /\ \A i \in 1 .. Len(outbox) : Made(outbox[i])
    /\ \A i \in 1 .. Len(queue) : Made(queue[i])
    /\ \A i \in 1 .. Len(hand) : Made(hand[i])
    /\ current # NoBlock => Made(current)

\* And so is every block on file.
LogMade == \A i \in 1 .. Len(log) : log[i].from = 0 => Made(log[i].block)

\* What consumeLoop is doing, and what the store is doing for it.
Stages ==
    /\ ~Ready => outbox = <<>> /\ queue = <<>> /\ hand = <<>> /\ phase = "idle"
    /\ phase # "writing" => pending = Idle
    /\ phase = "writing" => pending # Idle /\ pending.block = current
    /\ phase = "notify" => current.height = mem.tipHeight /\ current.hash = mem.tipHash

\* The block to be written is a child of what the rollback will leave right
\* below it.
PendingLinks ==
    \A c \in mem.chain :
        (/\ pending.block # NoBlock /\ c.height + 1 = pending.block.height
         /\ pending.from = 0 \/ c.height < pending.from) => pending.block.parent = c.hash

PipelineInv ==
    /\ StoreInv /\ PipelineTypeOK /\ HashesMade /\ EventsMade /\ LogMade
    /\ Stages /\ PendingLinks /\ ChainLinked

LEMMA MadeNormal ==
    ASSUME NEW b, Made(b)
    PROVE  /\ Normalise(b) = b /\ b \in Block /\ b \in Event /\ b # NoBlock
           /\ b.height \in Heights /\ b.height \in Nat /\ b.height > 0
<1>1. b \in Block
  BY DEF Made
<1>2. b \in Event /\ b # NoBlock /\ b.height \in Heights
  BY <1>1, NoBlockIsNone DEF Block, Event, MaybeName
<1>3. b.id # NoName /\ b.hash # NoName
  BY <1>1, NamesAssumption DEF Block
<1>4. Normalise(b) = [b EXCEPT !.id = b.id, !.hash = b.hash]
  BY <1>3, Zenon DEF Normalise
<1>5. [b EXCEPT !.id = b.id, !.hash = b.hash] = b
  BY <1>1 DEF Block
<1> QED
  BY <1>1, <1>2, <1>4, <1>5, HeightsAssumption

LEMMA NewBlockMade ==
    ASSUME NEW name \in Names, NEW h \in Heights, NEW parent \in MaybeName
    PROVE  LET b == NewBlock(name, h, parent)
           IN  /\ b \in Block /\ b \in Event /\ b.id = name /\ b.hash = name
               /\ b.height = h /\ b.parent = parent
  BY DEF NewBlock, Block, Event, MaybeName

\* generateTickEvents makes nothing else, and remembers what it made.
LEMMA TickMakes ==
    ASSUME HashesMade, nextHeight \in Heights, hashByHeight \in [Heights \cup {0} -> MaybeName]
    PROVE  LET g == GenerateTickEvents(nextHeight)
           IN  /\ g.events \in Seq(Event) /\ Len(g.events) <= 2 /\ Len(g.events) > 0
               /\ \A i \in 1 .. Len(g.events) : Made(g.events[i])
               /\ g.hashes \in [Heights \cup {0} -> MaybeName]
               /\ g.next \in Nat \ {0}
               /\ BelowReorg(g.next)
               /\ g.hashes[0] = NoName
               /\ \A k \in Heights : k < g.next =>
                    \/ g.hashes[k] = mainName[k]
                    \/ ReorgAt(k + 1) /\ g.hashes[k] = forkName[k]
<1> DEFINE h == nextHeight
           main == MainBlock(h)
           fork == NewBlock(forkName[h - 1], h - 1, hashByHeight[h - 2])
           one == [hashByHeight EXCEPT ![h] = mainName[h]]
<1>1. h \in Nat /\ h > 0 /\ (h = 1 \/ h - 1 \in Heights) /\ Heights \subseteq Nat \ {0}
  BY HeightsAssumption, HeightsClosed
<1>2. h - 1 \in Heights \cup {0} /\ hashByHeight[h - 1] \in MaybeName /\ mainName[h] \in Names
  BY <1>1, PipelineAssumption
<1>3. Made(main) /\ main \in Event
  <2>1. /\ main \in Block /\ main \in Event /\ main.id = mainName[h] /\ main.hash = mainName[h]
        /\ main.height = h /\ main.parent = hashByHeight[h - 1]
    BY <1>2, NewBlockMade DEF MainBlock
  <2>2. BelowReorg(h)
    BY DEF HashesMade
  <2> HIDE DEF main
  <2>3. CASE h = 1
    BY <2>1, <2>2, <2>3 DEF HashesMade, Made, MainMade
  <2>4. CASE h # 1
    <3>1. h - 1 \in Heights /\ h - 1 < h /\ (h - 1) + 1 = h /\ h > 1
      BY <1>1, <2>4
    <3>2. hashByHeight[h - 1] = mainName[h - 1]
          \/ (ReorgAt(h) /\ hashByHeight[h - 1] = forkName[h - 1])
      BY <3>1 DEF HashesMade
    <3> QED
      BY <2>1, <2>2, <3>1, <3>2 DEF Made, MainMade
  <2> QED
    BY <2>3, <2>4
<1>4. one \in [Heights \cup {0} -> MaybeName] /\ one[h] = mainName[h]
      /\ \A k \in Heights \cup {0} : k # h => one[k] = hashByHeight[k]
  BY <1>1, <1>2 DEF MaybeName
<1>5. CASE ReorgAt(h)
  <2>1. h > 2 /\ h - 1 \in Heights /\ h - 2 \in Heights /\ h - 1 > 1 /\ h - 2 < h
        /\ (h - 1) + 1 = h /\ (h - 2) + 1 = h - 1 /\ (h - 1) - 1 = h - 2 /\ h - 2 # h /\ h - 1 # h
    <3>1. h > 2 /\ h - 1 \in Heights /\ h - 1 > 1
      BY <1>1, <1>5 DEF ReorgAt
    <3>2. (h - 1) - 1 \in Heights
      BY <3>1, HeightsClosed
    <3>3. (h - 1) - 1 = h - 2
      BY <1>1
    <3> QED
      BY <1>1, <3>1, <3>2, <3>3
  <2>2. hashByHeight[h - 2] = mainName[h - 2] /\ one[h - 2] = hashByHeight[h - 2]
    <3>1. ~ReorgAt(h - 1)
      <4>1. ~(h <= h - 1)
        BY <1>1
      <4> QED
        BY <2>1, <4>1 DEF HashesMade, BelowReorg
    <3> QED
      BY <1>4, <2>1, <3>1 DEF HashesMade
  <2>3. forkName[h - 1] \in Names /\ hashByHeight[h - 2] \in MaybeName
    BY <2>1, PipelineAssumption
  <2>4. Made(fork) /\ fork \in Event
    <3>1. /\ fork \in Block /\ fork \in Event /\ fork.id = forkName[h - 1]
          /\ fork.hash = forkName[h - 1]
          /\ fork.height = h - 1 /\ fork.parent = hashByHeight[h - 2]
      BY <2>1, <2>3, NewBlockMade
    <3>2. BelowReorg(h)
      BY DEF HashesMade
    <3> HIDE DEF fork
    <3>3. ForkMade(fork)
      BY <1>5, <2>1, <2>2, <3>1, <3>2 DEF ForkMade
    <3> QED
      BY <3>1, <3>3 DEF Made
  <2> DEFINE two == [one EXCEPT ![h - 1] = forkName[h - 1], ![h] = NoName]
  <2>5. GenerateTickEvents(h) = [events |-> <<main, fork>>, hashes |-> two, next |-> h]
    BY <1>5, <2>2 DEF GenerateTickEvents
  <2>6. /\ two \in [Heights \cup {0} -> MaybeName] /\ two[0] = NoName /\ two[h - 1] = forkName[h - 1]
        /\ \A k \in Heights : k < h - 1 => two[k] = hashByHeight[k]
    <3>1. hashByHeight[0] = NoName /\ 0 # h /\ 0 # h - 1 /\ NoName \in MaybeName
      BY <1>1, <2>1 DEF HashesMade, MaybeName
    <3>2. forkName[h - 1] \in MaybeName
      BY <2>3 DEF MaybeName
    <3> HIDE DEF one
    <3> QED
      BY <1>1, <1>4, <2>1, <3>1, <3>2
  <2>7. ASSUME NEW k \in Heights, k < h
        PROVE  \/ two[k] = mainName[k]
               \/ ReorgAt(k + 1) /\ two[k] = forkName[k]
    <3>1. CASE k = h - 1
      BY <1>5, <2>1, <2>6, <3>1
    <3>2. CASE k # h - 1
      <4>1. k < h - 1
        BY <1>1, <2>7, <3>2
      <4> QED
        BY <2>6, <2>7, <4>1 DEF HashesMade
    <3> QED
      BY <3>1, <3>2
  <2> HIDE DEF two, main, fork
  <2>8. BelowReorg(h)
    BY DEF HashesMade
  <2> QED
    BY <1>1, <1>3, <2>4, <2>5, <2>6, <2>7, <2>8
<1>6. CASE ~ReorgAt(h)
  <2>1. GenerateTickEvents(h) = [events |-> <<main>>, hashes |-> one, next |-> h + 1]
    BY <1>6 DEF GenerateTickEvents
  <2>2. BelowReorg(h + 1)
    <3>1. ASSUME NEW k \in Heights, ReorgAt(k) PROVE h + 1 <= k
      <4>1. h <= k /\ k # h
        BY <1>6, <3>1 DEF HashesMade, BelowReorg
      <4> QED
        BY <1>1, <4>1
    <3> QED
      BY <3>1 DEF BelowReorg
  <2>3. ASSUME NEW k \in Heights, k < h + 1
        PROVE  \/ one[k] = mainName[k]
               \/ ReorgAt(k + 1) /\ one[k] = forkName[k]
    <3>1. CASE k = h
      BY <1>4, <3>1
    <3>2. CASE k # h
      <4>1. k < h
        BY <1>1, <2>3, <3>2
      <4> QED
        BY <1>4, <3>2, <4>1 DEF HashesMade
    <3> QED
      BY <3>1, <3>2
  <2>4. one[0] = NoName
    BY <1>1, <1>4 DEF HashesMade
  <2> HIDE DEF one, main
  <2> QED
    BY <1>1, <1>3, <1>4, <2>1, <2>2, <2>3, <2>4
<1> QED
  BY <1>5, <1>6

\* requiresRollback, on an index of such blocks, leaves below a new one only
\* its parent: it rolls back to the new block's own height only when the
\* block below is on the same branch, since the block that follows the fork
\* cannot stand at the reorg's height and be new there as well.
LEMMA BeginLinks ==
    ASSUME NEW m \in Mem, Sound(m), \A c \in m.chain : Made(c),
           NEW b, Made(b), b.id \notin m.seen,
           NEW c \in m.chain, c.height + 1 = b.height,
           RollbackFrom(m, b) = 0 \/ c.height < RollbackFrom(m, b)
    PROVE  b.parent = c.hash
<1> DEFINE h == b.height
<1>1. PICK top \in m.chain : /\ top.height = m.tipHeight /\ top.hash = m.tipHash
                             /\ \A d \in m.chain : d.height <= top.height
  BY DEF Sound, TipIsTop
<1>2. /\ h \in Heights /\ h \in Nat /\ c.height \in Heights /\ c.height \in Nat /\ c.height > 0
      /\ top.height \in Nat /\ top.height >= c.height /\ c.height = h - 1 /\ h > 1
      /\ b \in Block /\ c \in Block /\ top \in Block /\ top.height \in Heights
  BY <1>1, MadeNormal
<1>3. b.id = b.hash /\ top.id = top.hash /\ Made(top) /\ Made(c)
  BY <1>1 DEF Made
<1>4. CASE top.height >= h
  <2>1. ~ReorgAt(h)
    <3> SUFFICES ASSUME ReorgAt(h) PROVE FALSE
      OBVIOUS
    <3>1. ~ForkMade(top)
      <4>1. BelowReorg(top.height + 1) => top.height + 1 <= h
        BY <1>2 DEF BelowReorg
      <4> QED
        BY <1>2, <1>4, <4>1 DEF ForkMade
    <3>2. MainMade(top)
      BY <1>3, <3>1 DEF Made
    <3>3. top.height <= h
      BY <1>2, <3>2 DEF MainMade, BelowReorg
    <3>4. top.height = h /\ top.hash = mainName[h]
      BY <1>2, <1>4, <3>2, <3>3 DEF MainMade
    <3>5. ~ForkMade(b)
      <4>1. BelowReorg(h + 1) => h + 1 <= h
        BY <1>2 DEF BelowReorg
      <4> QED
        BY <1>2, <4>1 DEF ForkMade
    <3>6. b.hash = mainName[h]
      BY <3>5 DEF Made, MainMade
    <3>7. b.id = top.id
      BY <1>3, <3>4, <3>6
    <3> QED
      BY <3>7, <1>1 DEF Sound
  <2>2. ~ForkMade(c)
    <3>1. c.height + 1 = h
      OBVIOUS
    <3> QED
      BY <2>1, <3>1 DEF ForkMade
  <2>3. c.hash = mainName[h - 1]
    BY <1>2, <1>3, <2>2 DEF Made, MainMade
  <2>4. b.parent = mainName[h - 1]
    BY <1>2, <2>1 DEF Made, MainMade, ForkMade
  <2> QED
    BY <2>3, <2>4
<1>5. CASE top.height < h
  <2>1. top.height = h - 1
    BY <1>2, <1>5
  <2>2. top = c
    BY <1>1, <1>2, <2>1 DEF Sound
  <2>3. m.tipHeight = h - 1 /\ m.tipHash = c.hash
    BY <1>1, <2>1, <2>2
  <2>4. c.hash # NoName
    BY <1>2, NamesAssumption DEF Block
  <2>5. b.parent # NoName
    <3>1. mainName[h - 1] \in Names /\ forkName[h - 1] \in Names
      BY <1>2, PipelineAssumption
    <3>2. b.parent \in {mainName[h - 1], forkName[h - 1]}
      BY <1>2 DEF Made, MainMade, ForkMade
    <3> QED
      BY <3>1, <3>2, NamesAssumption
  <2>6. ~ \E d \in m.chain : d.height = h /\ d.hash # b.hash
    <3>1. ASSUME NEW d \in m.chain, d.height = h PROVE FALSE
      BY <1>1, <1>2, <1>5, <3>1
    <3> QED
      BY <3>1
  <2>7. CASE b.parent # m.tipHash
    <3>1. RollbackFrom(m, b) = h - 1
      BY <1>2, <2>3, <2>4, <2>5, <2>6, <2>7 DEF RollbackFrom
    <3> QED
      BY <1>2, <3>1
  <2> QED
    BY <2>3, <2>7
<1> QED
  BY <1>2, <1>4, <1>5

\* Every block that stands in the file is one of the worker's.
LEMMA StandingMade ==
    ASSUME StoreTypeOK, LogMade, NEW n \in 0 .. Len(log)
    PROVE  \A b \in LiveBlocks(log, n) : Made(b)
<1>1. ASSUME NEW b \in LiveBlocks(log, n)
      PROVE  \E i \in 1 .. n : log[i].from = 0 /\ b = log[i].block
  BY DEF LiveBlocks
<1>2. Len(log) \in Nat /\ 1 .. n \subseteq 1 .. Len(log)
  BY DEF StoreTypeOK
<1> QED
  BY <1>1, <1>2 DEF LogMade

LEMMA IndexMade ==
    ASSUME PipelineInv
    PROVE  /\ mem \in Mem /\ Sound(mem)
           /\ \A b \in mem.chain : Made(b)
<1>1. mem \in Mem /\ Sound(mem) /\ mem.chain = LiveBlocks(log, loaded) /\ loaded \in 0 .. Len(log)
      /\ StoreTypeOK /\ LogMade
  BY DEF PipelineInv, StoreInv, StoreTypeOK, IndexIsLiveLog
<1> QED
  BY <1>1, StandingMade

\* The worker's own steps leave the store alone.
LEMMA StoreKept ==
    ASSUME PipelineInv, UNCHANGED storeVars
    PROVE  StoreInv' /\ LogMade' /\ PendingLinks' /\ ChainLinked' /\ Ready' = Ready
<1>1. UNCHANGED <<log, torn, mem, loaded, pending, up, failures, crashes>>
  BY DEF storeVars
<1>2. StoreInv'
  BY <1>1, NextPreserves DEF storeVars, PipelineInv
<1>3. LogMade' /\ PendingLinks' /\ ChainLinked'
  BY <1>1 DEF PipelineInv, LogMade, PendingLinks, ChainLinked
<1> QED
  BY <1>1, <1>2, <1>3 DEF Ready

LEMMA PipelineStarts == Init => PipelineInv
<1> SUFFICES ASSUME Init PROVE PipelineInv
  OBVIOUS
<1>1. StoreInv
  BY InitEstablishes DEF Init
<1>2. log = <<>> /\ mem = Fresh /\ pending = Idle /\ up /\ loaded = 0
  BY DEF Init, StoreInit
<1>3. PipelineTypeOK
  <2>1. NoHashes \in [Heights \cup {0} -> MaybeName]
    BY DEF NoHashes, MaybeName
  <2>2. nextHeight \in Nat \ {0} /\ attempt \in 0 .. PersistMaxRetries
    BY PipelineAssumption DEF Init
  <2>3. /\ outbox \in Seq(Event) /\ Len(outbox) <= 2
        /\ queue \in Seq(Event) /\ Len(queue) <= QueueBuffer
        /\ hand \in Seq(Event) /\ Len(hand) <= 1
    BY PipelineAssumption DEF Init
  <2>4. /\ phase \in Phases /\ current \in Event \cup {NoBlock} /\ announced \in Event \cup {NoBlock}
        /\ (current = NoBlock <=> phase \in {"idle", "failed"})
        /\ policy \in PersistFailurePolicies
    BY DEF Init, Phases
  <2> QED
    BY <2>1, <2>2, <2>3, <2>4 DEF PipelineTypeOK, Init
<1>4. HashesMade
  <2>1. nextHeight = 1 /\ hashByHeight[0] = NoName
    BY DEF Init, NoHashes
  <2> QED
    BY <2>1, HeightsPositive DEF HashesMade, BelowReorg
<1>5. EventsMade
  BY DEF EventsMade, Init
<1>6. LogMade /\ PendingLinks /\ ChainLinked
  <2>1. LiveBlocks(log, Len(log)) = {}
    BY <1>2, LiveNone
  <2> QED
    BY <1>2, <2>1 DEF LogMade, PendingLinks, ChainLinked, Fresh
<1>7. Stages
  BY <1>2 DEF Stages, Init, Ready
<1> QED
  BY <1>1, <1>3, <1>4, <1>5, <1>6, <1>7 DEF PipelineInv

(***************************************************************************)
(* The steps that leave the store alone.                                   *)
(***************************************************************************)
LEMMA TickStep ==
    ASSUME PipelineInv, Tick, policy' = policy PROVE PipelineInv'
<1> DEFINE g == GenerateTickEvents(nextHeight)
<1>1. /\ UNCHANGED storeVars
      /\ UNCHANGED <<queue, hand, phase, current, attempt, announced, policy>>
      /\ outbox' = g.events /\ hashByHeight' = g.hashes /\ nextHeight' = g.next
      /\ Ready
  BY DEF Tick
<1>2. StoreInv' /\ LogMade' /\ PendingLinks' /\ ChainLinked' /\ Ready' = Ready
  BY <1>1, StoreKept
<1>3. /\ g.events \in Seq(Event) /\ Len(g.events) <= 2
      /\ \A i \in 1 .. Len(g.events) : Made(g.events[i])
      /\ g.hashes \in [Heights \cup {0} -> MaybeName]
      /\ g.next \in Nat \ {0}
      /\ BelowReorg(g.next)
      /\ g.hashes[0] = NoName
      /\ \A k \in Heights : k < g.next =>
           \/ g.hashes[k] = mainName[k]
           \/ ReorgAt(k + 1) /\ g.hashes[k] = forkName[k]
  BY TickMakes DEF Tick, PipelineInv, PipelineTypeOK
<1> HIDE DEF g
<1>4. PipelineTypeOK'
  BY <1>1, <1>3 DEF PipelineInv, PipelineTypeOK
<1>5. HashesMade'
  BY <1>1, <1>3 DEF HashesMade
<1>6. EventsMade'
  BY <1>1, <1>3 DEF PipelineInv, EventsMade
<1>7. Stages'
  BY <1>1, <1>2 DEF PipelineInv, Stages, storeVars
<1> QED
  BY <1>2, <1>4, <1>5, <1>6, <1>7 DEF PipelineInv

LEMMA PublishStep ==
    ASSUME PipelineInv, Publish, policy' = policy PROVE PipelineInv'
<1>1. /\ UNCHANGED storeVars
      /\ UNCHANGED <<nextHeight, hashByHeight, hand, phase, current, attempt, announced, policy>>
      /\ outbox # <<>> /\ Len(queue) < QueueBuffer
      /\ queue' = Append(queue, Head(outbox)) /\ outbox' = Tail(outbox)
  BY DEF Publish
<1>2. StoreInv' /\ LogMade' /\ PendingLinks' /\ ChainLinked' /\ Ready' = Ready
  BY <1>1, StoreKept
<1>3. /\ outbox \in Seq(Event) /\ queue \in Seq(Event) /\ Len(outbox) <= 2
      /\ \A i \in 1 .. Len(outbox) : Made(outbox[i])
      /\ \A i \in 1 .. Len(queue) : Made(queue[i])
  BY DEF PipelineInv, PipelineTypeOK, EventsMade
<1>4. /\ outbox' \in Seq(Event) /\ Len(outbox') <= 2
      /\ queue' \in Seq(Event) /\ Len(queue') <= QueueBuffer
  BY <1>1, <1>3, PipelineAssumption
<1>5. PipelineTypeOK'
  BY <1>1, <1>4 DEF PipelineInv, PipelineTypeOK
<1>6. HashesMade'
  BY <1>1 DEF PipelineInv, HashesMade
<1>7. EventsMade'
  <2>1. \A i \in 1 .. Len(outbox') : Made(outbox'[i])
    BY <1>1, <1>3
  <2>2. Made(Head(outbox))
    BY <1>1, <1>3
  <2>3. \A i \in 1 .. Len(queue') : Made(queue'[i])
    BY <1>1, <1>3, <2>2
  <2> QED
    BY <1>1, <2>1, <2>3 DEF PipelineInv, EventsMade
<1>8. Stages'
  <2>1. Ready
    BY <1>1 DEF PipelineInv, Stages
  <2> QED
    BY <1>1, <1>2, <2>1 DEF PipelineInv, Stages, storeVars
<1> QED
  BY <1>2, <1>5, <1>6, <1>7, <1>8 DEF PipelineInv

LEMMA ForwardStep ==
    ASSUME PipelineInv, Forward, policy' = policy PROVE PipelineInv'
<1>1. /\ UNCHANGED storeVars
      /\ UNCHANGED <<nextHeight, hashByHeight, outbox, phase, current, attempt, announced, policy>>
      /\ queue # <<>> /\ hand' = <<Head(queue)>> /\ queue' = Tail(queue)
  BY DEF Forward
<1>2. StoreInv' /\ LogMade' /\ PendingLinks' /\ ChainLinked' /\ Ready' = Ready
  BY <1>1, StoreKept
<1>3. /\ queue \in Seq(Event) /\ Len(queue) <= QueueBuffer
      /\ \A i \in 1 .. Len(queue) : Made(queue[i])
  BY DEF PipelineInv, PipelineTypeOK, EventsMade
<1>4. /\ queue' \in Seq(Event) /\ Len(queue') <= QueueBuffer
      /\ hand' \in Seq(Event) /\ Len(hand') <= 1
  BY <1>1, <1>3, PipelineAssumption
<1>5. PipelineTypeOK'
  BY <1>1, <1>4 DEF PipelineInv, PipelineTypeOK
<1>6. HashesMade'
  BY <1>1 DEF PipelineInv, HashesMade
<1>7. EventsMade'
  <2>1. \A i \in 1 .. Len(queue') : Made(queue'[i])
    BY <1>1, <1>3
  <2>2. Made(Head(queue))
    BY <1>1, <1>3
  <2>3. \A i \in 1 .. Len(hand') : Made(hand'[i])
    BY <1>1, <2>2
  <2> QED
    BY <1>1, <2>1, <2>3 DEF PipelineInv, EventsMade
<1>8. Stages'
  <2>1. Ready
    BY <1>1 DEF PipelineInv, Stages
  <2> QED
    BY <1>1, <1>2, <2>1 DEF PipelineInv, Stages, storeVars
<1> QED
  BY <1>2, <1>5, <1>6, <1>7, <1>8 DEF PipelineInv

LEMMA ReceiveStep ==
    ASSUME PipelineInv, Receive, policy' = policy PROVE PipelineInv'
<1>1. /\ UNCHANGED storeVars
      /\ UNCHANGED <<nextHeight, hashByHeight, outbox, queue, announced, policy>>
      /\ phase = "idle" /\ hand # <<>>
      /\ current' = hand[1] /\ hand' = <<>> /\ phase' = "call" /\ attempt' = 1
  BY DEF Receive
<1>2. StoreInv' /\ LogMade' /\ PendingLinks' /\ ChainLinked' /\ Ready' = Ready
  BY <1>1, StoreKept
<1>3. Made(hand[1])
  BY <1>1 DEF PipelineInv, PipelineTypeOK, EventsMade
<1>4. current' \in Event /\ current' # NoBlock /\ Made(current')
  BY <1>1, <1>3, MadeNormal
<1>5. PipelineTypeOK'
  <2>1. hand' \in Seq(Event) /\ Len(hand') <= 1 /\ attempt' \in 0 .. PersistMaxRetries
    BY <1>1, PipelineAssumption
  <2> QED
    BY <1>1, <1>4, <2>1 DEF PipelineInv, PipelineTypeOK, Phases
<1>6. HashesMade'
  BY <1>1 DEF PipelineInv, HashesMade
<1>7. EventsMade'
  BY <1>1, <1>4 DEF PipelineInv, EventsMade
<1>8. Stages'
  <2>1. Ready /\ pending = Idle
    BY <1>1 DEF PipelineInv, Stages
  <2> QED
    BY <1>1, <1>2, <2>1 DEF Stages, storeVars
<1> QED
  BY <1>2, <1>5, <1>6, <1>7, <1>8 DEF PipelineInv

\* Upsert found a duplicate, or the webhook has been tried: the next event.
LEMMA IdleAgain ==
    ASSUME PipelineInv, UNCHANGED storeVars, phase \in {"call", "notify"},
           UNCHANGED <<nextHeight, hashByHeight, outbox, queue, hand, attempt, policy>>,
           announced' \in {current, announced}, phase' = "idle", current' = NoBlock
    PROVE  PipelineInv'
<1>2. StoreInv' /\ LogMade' /\ PendingLinks' /\ ChainLinked' /\ Ready' = Ready
  BY StoreKept
<1>3. PipelineTypeOK'
  BY DEF PipelineInv, PipelineTypeOK, Phases
<1>4. HashesMade'
  BY DEF PipelineInv, HashesMade
<1>5. EventsMade'
  BY DEF PipelineInv, EventsMade
<1>6. Stages'
  <2>1. Ready /\ pending = Idle
    BY DEF PipelineInv, Stages
  <2> QED
    BY <1>2, <2>1 DEF Stages, storeVars
<1> QED
  BY <1>2, <1>3, <1>4, <1>5, <1>6 DEF PipelineInv

LEMMA ConsumerRests ==
    ASSUME PipelineInv, policy' = policy,
           SkipDuplicate \/ \E delivered \in BOOLEAN : Notify(delivered)
    PROVE  PipelineInv'
<1>1. UNCHANGED storeVars /\ phase \in {"call", "notify"}
      /\ UNCHANGED <<nextHeight, hashByHeight, outbox, queue, hand, attempt, policy>>
      /\ announced' \in {current, announced} /\ phase' = "idle" /\ current' = NoBlock
  BY DEF SkipDuplicate, Notify
<1> QED
  BY <1>1, IdleAgain

(***************************************************************************)
(* The steps in which the store takes part.                                *)
(***************************************************************************)
\* An attempt ends without its line: the event is tried again or given up.
LEMMA GivenBack ==
    ASSUME PipelineInv, UpsertFailed, UNCHANGED policy, phase = "writing",
           UNCHANGED <<nextHeight, hashByHeight, outbox, queue, hand, announced>>
    PROVE  PipelineTypeOK' /\ HashesMade' /\ EventsMade'
           /\ phase' \in {"call", "idle", "failed"}
<1>1. CASE attempt < PersistMaxRetries /\ attempt' = attempt + 1 /\ phase' = "call"
           /\ UNCHANGED current
  <2>1. attempt' \in 0 .. PersistMaxRetries
    BY <1>1, PipelineAssumption DEF PipelineInv, PipelineTypeOK
  <2>2. current # NoBlock
    BY DEF PipelineInv, PipelineTypeOK
  <2>3. PipelineTypeOK'
    BY <1>1, <2>1, <2>2 DEF PipelineInv, PipelineTypeOK, Phases
  <2> QED
    BY <1>1, <2>3 DEF PipelineInv, HashesMade, EventsMade
<1>2. CASE phase' = (IF policy = "skip" THEN "idle" ELSE "failed") /\ current' = NoBlock
           /\ UNCHANGED attempt
  <2>1. phase' \in {"idle", "failed"}
    BY <1>2
  <2>2. PipelineTypeOK'
    BY <1>2, <2>1 DEF PipelineInv, PipelineTypeOK, Phases
  <2> QED
    BY <1>2, <2>1, <2>2 DEF PipelineInv, HashesMade, EventsMade
<1> QED
  BY <1>1, <1>2 DEF UpsertFailed

LEMMA FailedStep ==
    ASSUME PipelineInv, policy' = policy, NEW outcome \in Outcomes, outcome # "written",
           PersistRollback(outcome) \/ PersistBlock(outcome)
    PROVE  PipelineInv'
<1>1. /\ phase = "writing" /\ UpsertFailed /\ (WriteRollback(outcome) \/ WriteBlock(outcome))
      /\ UNCHANGED <<nextHeight, hashByHeight, outbox, queue, hand, announced>>
  BY DEF PersistRollback, PersistBlock
<1>2. /\ log' = log /\ loaded' = loaded /\ mem' = mem /\ pending' = Idle /\ up' = up
  BY <1>1 DEF WriteRollback, WriteBlock, AppendEvent
<1>3. StoreInv'
  BY <1>1, WriteRollbackStep, WriteBlockStep DEF PipelineInv
<1>4. PipelineTypeOK' /\ HashesMade' /\ EventsMade' /\ phase' \in {"call", "idle", "failed"}
  BY <1>1, GivenBack
<1>5. LogMade' /\ ChainLinked' /\ PendingLinks'
  BY <1>2 DEF PipelineInv, LogMade, ChainLinked, PendingLinks, Idle
<1>6. Stages'
  <2>1. Ready /\ Ready'
    BY <1>1, <1>2 DEF PipelineInv, Stages, Ready
  <2> QED
    BY <1>2, <1>4, <2>1 DEF Stages
<1> QED
  BY <1>3, <1>4, <1>5, <1>6 DEF PipelineInv

LEMMA BeginStep ==
    ASSUME PipelineInv, BeginUpsert, policy' = policy PROVE PipelineInv'
<1>1. /\ phase = "call" /\ phase' = "writing" /\ UpsertBlock(current)
      /\ UNCHANGED <<nextHeight, hashByHeight, outbox, queue, hand, current, attempt, announced,
                     policy>>
  BY DEF BeginUpsert
<1>2. Made(current) /\ current # NoBlock
  BY <1>1 DEF PipelineInv, PipelineTypeOK, EventsMade
<1>3. Normalise(current) = current /\ current \in Event /\ current \in Block
  BY <1>2, MadeNormal
<1>4. /\ pending' = [from |-> RollbackFrom(mem, current), block |-> current]
      /\ current.id \notin mem.seen /\ Ready
      /\ UNCHANGED <<log, torn, mem, loaded, up, failures, crashes>>
  BY <1>1, <1>3 DEF UpsertBlock
<1>5. StoreInv'
  BY <1>1, <1>3, UpsertBlockStep DEF PipelineInv
<1>6. PipelineTypeOK' /\ HashesMade' /\ EventsMade'
  BY <1>1, <1>2 DEF PipelineInv, PipelineTypeOK, HashesMade, EventsMade, Phases
<1>7. LogMade' /\ ChainLinked'
  BY <1>4 DEF PipelineInv, LogMade, ChainLinked
<1>8. PendingLinks'
  <2>1. ASSUME NEW c \in mem.chain, c.height + 1 = current.height,
               RollbackFrom(mem, current) = 0 \/ c.height < RollbackFrom(mem, current)
        PROVE  current.parent = c.hash
    BY <1>2, <1>4, <2>1, IndexMade, BeginLinks
  <2>2. mem' = mem /\ pending'.block = current /\ pending'.from = RollbackFrom(mem, current)
    BY <1>4
  <2> QED
    BY <2>1, <2>2 DEF PendingLinks
<1>9. Stages'
  <2>1. pending' # Idle /\ pending'.block = current'
    BY <1>1, <1>2, <1>4 DEF Idle
  <2>2. Ready'
    BY <1>4 DEF Ready
  <2> QED
    BY <1>1, <2>1, <2>2 DEF Stages
<1> QED
  BY <1>5, <1>6, <1>7, <1>8, <1>9 DEF PipelineInv

\* The rollback only takes blocks away.
LEMMA RollbackWritten ==
    ASSUME PipelineInv, PersistRollback("written"), policy' = policy PROVE PipelineInv'
<1> DEFINE line == [from |-> pending.from, block |-> NoBlock]
<1>1. /\ phase = "writing" /\ WriteRollback("written")
      /\ UNCHANGED <<nextHeight, hashByHeight, outbox, queue, hand, phase, current, attempt,
                     announced, policy>>
  BY DEF PersistRollback
<1>2. /\ log' = Append(log, line) /\ loaded' = loaded + 1 /\ up' = up /\ up
      /\ mem' = CountedRollback(mem, pending.from) /\ pending.from > 0
      /\ pending' = [pending EXCEPT !.from = 0]
  BY <1>1 DEF WriteRollback, AppendEvent
<1>3. StoreInv'
  BY <1>1, WriteRollbackStep DEF PipelineInv, Outcomes
<1>4. PipelineTypeOK' /\ HashesMade' /\ EventsMade'
  BY <1>1 DEF PipelineInv, PipelineTypeOK, HashesMade, EventsMade
<1>5. /\ log \in Seq(Line) /\ Len(log) \in Nat /\ pending.from \in Heights /\ loaded = Len(log)
      /\ pending # Idle /\ pending.block = current /\ current # NoBlock
      /\ pending \in [from : Heights \cup {0}, block : Block \cup {NoBlock}]
  <2>1. Ready /\ pending # Idle /\ pending.block = current /\ current # NoBlock
    BY <1>1 DEF PipelineInv, Stages, PipelineTypeOK
  <2> QED
    BY <1>2, <2>1 DEF PipelineInv, StoreInv, StoreTypeOK, Ready
<1>6. line \in Line /\ line.from > 0 /\ line.from = pending.from
  BY <1>2, <1>5 DEF Line
<1> HIDE DEF line
<1>7. /\ log' \in Seq(Line) /\ Len(log') = Len(log) + 1 /\ log'[Len(log) + 1] = line
      /\ \A i \in 1 .. Len(log) : log'[i] = log[i]
      /\ Len(log) \in 0 .. Len(log') - 1
  BY <1>2, <1>5, <1>6
<1>8. LogMade'
  <2>1. ASSUME NEW i \in 1 .. Len(log'), log'[i].from = 0 PROVE Made(log'[i].block)
    <3>1. i # Len(log) + 1
      BY <1>6, <1>7, <2>1
    <3>2. i \in 1 .. Len(log) /\ log'[i] = log[i]
      BY <1>5, <1>7, <3>1
    <3> QED
      BY <2>1, <3>2 DEF PipelineInv, LogMade
  <2> QED
    BY <2>1 DEF LogMade
<1>9. LiveBlocks(log', Len(log')) \subseteq LiveBlocks(log, Len(log))
  <2>1. LiveBlocks(log', Len(log)) = LiveBlocks(log, Len(log))
    BY <1>2, <1>5, <1>6, LivePrefix
  <2>2. LiveBlocks(log', Len(log) + 1) =
          {b \in LiveBlocks(log', Len(log)) : b.height < log'[Len(log) + 1].from}
    BY <1>6, <1>7, LiveTruncate
  <2> QED
    BY <1>7, <2>1, <2>2
<1>10. ChainLinked'
  BY <1>9 DEF PipelineInv, ChainLinked
<1>11. mem'.chain = {b \in mem.chain : ~ (b.height >= pending.from)}
  <2>1. pending.from \in Nat /\ mem \in Mem /\ Sound(mem)
    BY <1>5, IndexMade, HeightsPositive
  <2> QED
    BY <1>2, <2>1, RollbackSound
<1>12. PendingLinks'
  <2>1. pending'.block = pending.block /\ pending'.from = 0
    BY <1>2, <1>5
  <2>2. ASSUME NEW c \in mem'.chain PROVE c \in mem.chain /\ c.height < pending.from
    <3>1. c \in mem.chain /\ ~ (c.height >= pending.from)
      BY <1>11
    <3>2. c.height \in Nat /\ pending.from \in Nat
      BY <1>5, <3>1, IndexMade, MadeNormal, HeightsPositive
    <3> QED
      BY <3>1, <3>2
  <2> QED
    BY <2>1, <2>2 DEF PipelineInv, PendingLinks
<1>13. Stages'
  <2>1. Ready'
    BY <1>2, <1>5, <1>7 DEF Ready
  <2>2. pending'.block = current' /\ pending' # Idle /\ phase' = "writing"
    BY <1>1, <1>2, <1>5 DEF Idle
  <2> QED
    BY <2>1, <2>2 DEF Stages
<1> QED
  BY <1>3, <1>4, <1>8, <1>10, <1>12, <1>13 DEF PipelineInv

\* The block becomes the tip, and it lies on its parent if anything is there.
LEMMA BlockWritten ==
    ASSUME PipelineInv, PersistBlock("written"), policy' = policy PROVE PipelineInv'
<1> DEFINE b == pending.block
           line == [from |-> 0, block |-> b]
<1>1. /\ phase = "writing" /\ phase' = "notify" /\ WriteBlock("written")
      /\ UNCHANGED <<nextHeight, hashByHeight, outbox, queue, hand, current, attempt,
                     announced, policy>>
  BY DEF PersistBlock
<1>2. /\ log' = Append(log, line) /\ loaded' = loaded + 1 /\ up' = up /\ up
      /\ mem' = ApplyBlock(mem, b) /\ pending.from = 0 /\ pending' = Idle
  BY <1>1 DEF WriteBlock, AppendEvent
<1>3. StoreInv'
  BY <1>1, WriteBlockStep DEF PipelineInv, Outcomes
<1>4. /\ log \in Seq(Line) /\ Len(log) \in Nat /\ loaded = Len(log)
      /\ b = current /\ current # NoBlock /\ Made(b)
  <2>1. Ready /\ b = current /\ current # NoBlock
    BY <1>1 DEF PipelineInv, Stages, PipelineTypeOK
  <2> QED
    BY <2>1 DEF PipelineInv, StoreInv, StoreTypeOK, Ready, EventsMade
<1>5. b \in Block /\ b.height \in Nat /\ b.height > 0
  BY <1>4, MadeNormal
<1>6. PipelineTypeOK' /\ HashesMade' /\ EventsMade'
  BY <1>1, <1>4 DEF PipelineInv, PipelineTypeOK, HashesMade, EventsMade, Phases
<1>7. line \in Line /\ line.from = 0 /\ line.block = b
  BY <1>5 DEF Line
<1>8. \A c \in mem.chain : c.height < b.height
  BY <1>2, <1>4 DEF PipelineInv, StoreInv, PendingFits
<1> HIDE DEF line
<1>9. /\ log' \in Seq(Line) /\ Len(log') = Len(log) + 1 /\ log'[Len(log) + 1] = line
      /\ \A i \in 1 .. Len(log) : log'[i] = log[i]
      /\ Len(log) \in 0 .. Len(log') - 1
  BY <1>2, <1>4, <1>7
<1>10. LogMade'
  <2>1. ASSUME NEW i \in 1 .. Len(log'), log'[i].from = 0 PROVE Made(log'[i].block)
    <3>1. CASE i = Len(log) + 1
      BY <1>4, <1>7, <1>9, <3>1
    <3>2. CASE i # Len(log) + 1
      <4>1. i \in 1 .. Len(log) /\ log'[i] = log[i]
        BY <1>4, <1>9, <3>2
      <4> QED
        BY <2>1, <4>1 DEF PipelineInv, LogMade
    <3> QED
      BY <3>1, <3>2
  <2> QED
    BY <2>1 DEF LogMade
<1>11. LiveBlocks(log', Len(log')) = mem.chain \cup {b} /\ mem.chain = LiveBlocks(log, Len(log))
  <2>1. LiveBlocks(log', Len(log)) = LiveBlocks(log, Len(log))
    BY <1>2, <1>4, <1>7, LivePrefix
  <2>2. LiveBlocks(log', Len(log) + 1) = LiveBlocks(log', Len(log)) \cup {log'[Len(log) + 1].block}
    BY <1>7, <1>9, LiveExtend
  <2>3. mem.chain = LiveBlocks(log, Len(log))
    BY <1>4 DEF PipelineInv, StoreInv, IndexIsLiveLog
  <2> QED
    BY <1>7, <1>9, <2>1, <2>2, <2>3
<1>12. ChainLinked'
  <2>1. ASSUME NEW x \in mem.chain \cup {b}, NEW y \in mem.chain \cup {b},
               y.height = x.height + 1
        PROVE  y.parent = x.hash
    <3>1. x.height \in Nat /\ y.height \in Nat
      BY <1>5, IndexMade, MadeNormal
    <3>2. x # b /\ x \in mem.chain
      <4>1. y.height <= b.height
        BY <1>5, <1>8, <3>1
      <4> QED
        BY <2>1, <3>1, <4>1
    <3>3. CASE y = b
      <4>1. x.height + 1 = b.height
        BY <2>1, <3>3
      <4> QED
        BY <1>2, <1>4, <3>2, <3>3, <4>1 DEF PipelineInv, PendingLinks
    <3>4. CASE y \in mem.chain
      BY <1>11, <2>1, <3>2, <3>4 DEF PipelineInv, ChainLinked
    <3> QED
      BY <3>3, <3>4
  <2> QED
    BY <1>11, <2>1 DEF ChainLinked
<1>13. PendingLinks'
  BY <1>2 DEF PendingLinks, Idle
<1>14. mem'.tipHeight = b.height /\ mem'.tipHash = b.hash
  <2>1. mem \in Mem /\ Sound(mem)
    BY IndexMade
  <2>2. b.height >= mem.tipHeight
    BY <1>5, <1>8, <2>1 DEF Sound, TipIsTop, Mem
  <2> QED
    BY <1>2, <2>1, <2>2 DEF ApplyBlock, Mem
<1>15. Stages'
  <2>1. Ready'
    BY <1>2, <1>4, <1>9 DEF Ready
  <2> QED
    BY <1>1, <1>2, <1>4, <1>14, <2>1 DEF Stages
<1> QED
  BY <1>3, <1>6, <1>10, <1>12, <1>13, <1>15 DEF PipelineInv

\* The process ends: what is left is the file, and a worker at height 1.
LEMMA EndStep ==
    ASSUME PipelineInv, policy' = policy, RunReturns \/ ProcessCrash PROVE PipelineInv'
<1>1. Stop /\ NewWorker
  BY DEF RunReturns, ProcessCrash, Crash
<1>2. /\ log' = log /\ mem' = Fresh /\ loaded' = 0 /\ pending' = Idle /\ up' = FALSE
      /\ nextHeight' = 1 /\ hashByHeight' = NoHashes /\ outbox' = <<>> /\ queue' = <<>>
      /\ hand' = <<>> /\ phase' = "idle" /\ current' = NoBlock /\ attempt' = 0
      /\ announced' = announced
  BY <1>1 DEF Stop, NewWorker
<1>3. StoreInv'
  <2>1. CASE RunReturns
    <3>1. torn' \in BOOLEAN
      BY <2>1 DEF RunReturns, PipelineInv, StoreInv, StoreTypeOK
    <3>2. crashes' \in Nat
      BY <2>1 DEF RunReturns, PipelineInv, StoreInv, StoreTypeOK
    <3> QED
      BY <1>1, <3>1, <3>2, StopStep DEF PipelineInv
  <2>2. CASE ProcessCrash
    BY <2>2, CrashStep DEF ProcessCrash, PipelineInv
  <2> QED
    BY <2>1, <2>2
<1>4. PipelineTypeOK'
  <2>1. NoHashes \in [Heights \cup {0} -> MaybeName]
    BY DEF NoHashes, MaybeName
  <2>2. nextHeight' \in Nat \ {0} /\ attempt' \in 0 .. PersistMaxRetries
    BY <1>2, PipelineAssumption
  <2>3. /\ outbox' \in Seq(Event) /\ Len(outbox') <= 2
        /\ queue' \in Seq(Event) /\ Len(queue') <= QueueBuffer
        /\ hand' \in Seq(Event) /\ Len(hand') <= 1
    BY <1>2, PipelineAssumption
  <2>4. /\ phase' \in Phases /\ current' \in Event \cup {NoBlock}
        /\ announced' \in Event \cup {NoBlock}
        /\ (current' = NoBlock <=> phase' \in {"idle", "failed"})
        /\ policy' \in PersistFailurePolicies
    BY <1>2 DEF Phases, PipelineInv, PipelineTypeOK
  <2> QED
    BY <1>2, <2>1, <2>2, <2>3, <2>4 DEF PipelineTypeOK
<1>5. HashesMade'
  <2>1. nextHeight' = 1 /\ hashByHeight'[0] = NoName
    BY <1>2 DEF NoHashes
  <2> QED
    BY <2>1, HeightsPositive DEF HashesMade, BelowReorg
<1>6. EventsMade'
  BY <1>2 DEF EventsMade
<1>7. LogMade' /\ PendingLinks' /\ ChainLinked'
  BY <1>2 DEF PipelineInv, LogMade, PendingLinks, ChainLinked, Idle
<1>8. Stages'
  BY <1>2 DEF Stages
<1> QED
  BY <1>3, <1>4, <1>5, <1>6, <1>7, <1>8 DEF PipelineInv

\* Until loadSeen has read the file, the worker has not begun.
LEMMA StartStep ==
    ASSUME PipelineInv, policy' = policy, Start \/ Load PROVE PipelineInv'
<1>1. /\ UNCHANGED <<nextHeight, hashByHeight, outbox, queue, hand, phase, current, attempt,
                     announced, policy>>
      /\ log' = log /\ pending' = pending /\ (Open \/ LoadSeen)
  BY DEF Start, Load, Open, LoadSeen, workerVars
<1>2. ~Ready
  <2>1. Len(log) \in Nat /\ loaded \in 0 .. Len(log)
    BY DEF PipelineInv, StoreInv, StoreTypeOK
  <2> QED
    BY <1>1, <2>1 DEF Open, LoadSeen, Ready
<1>3. outbox = <<>> /\ queue = <<>> /\ hand = <<>> /\ phase = "idle" /\ pending = Idle
  BY <1>2 DEF PipelineInv, Stages
<1>4. StoreInv'
  BY <1>1, OpenStep, LoadSeenStep DEF PipelineInv
<1>5. PipelineTypeOK' /\ HashesMade' /\ EventsMade'
  BY <1>1 DEF PipelineInv, PipelineTypeOK, HashesMade, EventsMade
<1>6. LogMade' /\ PendingLinks' /\ ChainLinked'
  BY <1>1, <1>3 DEF PipelineInv, LogMade, PendingLinks, ChainLinked, Idle
<1>7. Stages'
  BY <1>1, <1>3 DEF Stages
<1> QED
  BY <1>4, <1>5, <1>6, <1>7 DEF PipelineInv

LEMMA PipelineStep ==
    ASSUME PipelineInv, [Next]_pipelineVars PROVE PipelineInv'
<1>1. CASE Next
  <2>1. policy' = policy
    BY <1>1 DEF Next
  <2>2. ASSUME NEW outcome \in Outcomes, PersistRollback(outcome) \/ PersistBlock(outcome)
        PROVE  PipelineInv'
    BY <2>1, <2>2, RollbackWritten, BlockWritten, FailedStep
  <2>3. CASE Consumer
    BY <2>1, <2>2, <2>3, ReceiveStep, ConsumerRests, BeginStep DEF Consumer
  <2> QED
    BY <1>1, <2>1, <2>3, TickStep, PublishStep, ForwardStep, EndStep, StartStep DEF Next
<1>2. CASE UNCHANGED pipelineVars
  <2>1. /\ UNCHANGED storeVars
        /\ UNCHANGED <<nextHeight, hashByHeight, outbox, queue, hand, phase, current, attempt,
                       announced, policy>>
    BY <1>2 DEF pipelineVars, workerVars
  <2>2. StoreInv' /\ LogMade' /\ PendingLinks' /\ ChainLinked' /\ Ready' = Ready
    BY <2>1, StoreKept
  <2>3. PipelineTypeOK' /\ HashesMade' /\ EventsMade'
    BY <2>1 DEF PipelineInv, PipelineTypeOK, HashesMade, EventsMade
  <2>4. Stages'
    BY <2>1, <2>2 DEF PipelineInv, Stages, storeVars
  <2> QED
    BY <2>2, <2>3, <2>4 DEF PipelineInv
<1> QED
  BY <1>1, <1>2

\* What the worker and its store keep between them, at every moment.
THEOREM PipelineInvHolds == Spec => []PipelineInv
BY PipelineStarts, PipelineStep, PTL DEF Spec

\* Whatever the queue holds back, whichever appends fail and whenever the
\* process ends, the file holds no neighbours of different branches, the index
\* stays at or below the first simulated reorg, and the worker is within its
\* limits.
THEOREM PipelineCorrect == Spec => []PipelineSafe
<1>1. PipelineInv => PipelineSafe
  <2> SUFFICES ASSUME PipelineInv PROVE PipelineSafe
    OBVIOUS
  <2>1. PipelineTypeOK /\ ChainLinked
    BY DEF PipelineInv
  <2>2. ASSUME NEW h \in Heights, ReorgAt(h) PROVE mem.tipHeight <= h
    <3>1. CASE mem.chain = {}
      BY <3>1, IndexMade, HeightsPositive DEF Sound, TipIsTop
    <3>2. CASE mem.chain # {}
      <4>1. PICK top \in mem.chain : top.height = mem.tipHeight
        BY <3>2, IndexMade DEF Sound, TipIsTop
      <4>2. Made(top) /\ top.height \in Nat /\ h \in Nat
        BY IndexMade, MadeNormal, HeightsPositive
      <4>3. BelowReorg(top.height) \/ BelowReorg(top.height + 1)
        BY <4>2 DEF Made, MainMade, ForkMade
      <4> QED
        BY <2>2, <4>1, <4>2, <4>3 DEF BelowReorg
    <3> QED
      BY <3>1, <3>2
  <2> QED
    BY <2>1, <2>2 DEF PipelineSafe, TipPinned
<1> QED
  BY <1>1, PipelineInvHolds, PTL

\* The webhook is only ever told of the block that is the tip at that moment.
THEOREM AnnouncementsCorrect == Spec => AnnouncesTip
<1>1. ASSUME PipelineInv, [Next]_pipelineVars, announced' # announced
      PROVE  announced'.height = mem'.tipHeight /\ announced'.hash = mem'.tipHash
  <2>1. Next
    BY <1>1 DEF pipelineVars, workerVars
  <2>2. PICK delivered \in BOOLEAN : Notify(delivered)
    BY <1>1, <2>1 DEF Next, Consumer, Tick, Publish, Forward, Receive, SkipDuplicate, BeginUpsert,
                      PersistRollback, PersistBlock, RunReturns, ProcessCrash, NewWorker, Start,
                      Load, workerVars
  <2>3. announced' = current /\ phase = "notify" /\ UNCHANGED storeVars
    BY <1>1, <2>2 DEF Notify
  <2>4. mem' = mem
    BY <2>3 DEF storeVars
  <2> QED
    BY <1>1, <2>3, <2>4 DEF PipelineInv, Stages
<1> QED
  BY <1>1, PipelineInvHolds, PTL DEF Spec, AnnouncesTip
=============================================================================
