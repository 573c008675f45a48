------------------------- MODULE IndexerEventsProofs -------------------------
(***************************************************************************)
(* Facts about blocks, lines and logs that the proofs about both stores    *)
(* rest on.                                                                *)
(***************************************************************************)
EXTENDS IndexerEvents, FiniteSetTheorems, WellFoundedInduction, TLAPS

\* A non-empty set of naturals has a least element.
LEMMA NatMin ==
    ASSUME NEW T, T \subseteq Nat, T # {}
    PROVE  \E x \in T : \A y \in T : x <= y
<1> DEFINE R == {ss \in Nat \X Nat : ss[1] < ss[2]}
<1>1. IsWellFoundedOn(R, Nat)
  BY NatLessThanWellFounded, Zenon DEF OpToRel
<1>2. \E x \in T : \A y \in T : ~ (<<y, x>> \in R)
  <2> HIDE DEF R
  <2> QED BY <1>1, WFMin, Zenon
<1>3. PICK x \in T : \A y \in T : ~ (<<y, x>> \in R)
  BY <1>2
<1>4. ASSUME NEW y \in T PROVE x <= y
  <2>1. <<y, x>> \in R <=> y < x
    BY SMT
  <2>2. ~ (y < x)
    BY <1>3, <2>1, Zenon
  <2> QED
    BY <2>2, SMT
<1> QED
  BY <1>4

\* A non-empty set of blocks below some height has a highest block, which is
\* what recalculateTip looks for.
LEMMA HighestBlock ==
    ASSUME NEW S, S \subseteq Block, S # {},
           NEW top \in Nat, \A b \in S : b.height <= top
    PROVE  \E b \in S : \A c \in S : c.height <= b.height
<1> DEFINE T == {top - b.height : b \in S}
<1>1. \A b \in S : b.height \in Nat
  BY HeightsAssumption DEF Block
<1>2. T \subseteq Nat /\ T # {}
  BY <1>1
<1>3. PICK x \in T : \A y \in T : x <= y
  BY <1>2, NatMin
<1>4. PICK b \in S : x = top - b.height
  BY <1>3
<1>5. ASSUME NEW c \in S PROVE c.height <= b.height
  <2>1. top - c.height \in T
    OBVIOUS
  <2>2. x <= top - c.height
    BY <1>3, <2>1, Zenon
  <2> HIDE DEF T
  <2>3. b.height \in Nat /\ c.height \in Nat
    BY <1>1
  <2> QED
    BY <1>4, <2>2, <2>3
<1> QED
  BY <1>5

LEMMA HeightsPositive ==
    ASSUME NEW h \in Heights PROVE h \in Nat /\ h > 0
<1>1. h \in Nat \ {0}
  BY HeightsAssumption, Zenon
<1> QED
  BY <1>1

LEMMA BlockHeights ==
    ASSUME NEW b \in Block PROVE b.height \in Heights /\ b.height \in Nat /\ b.height > 0
<1>1. b.height \in Heights
  BY DEF Block
<1> QED
  BY <1>1, HeightsPositive

\* A line is a block or a rollback from some height.
LEMMA LineKinds ==
    ASSUME NEW l \in Line
    PROVE  /\ l.from = 0 => l.block \in Block
           /\ l.from # 0 => l.from \in Heights /\ l.from > 0
           /\ l.from \in Nat
<1>1. CASE l \in [from : {0}, block : Block]
  BY <1>1
<1>2. CASE l \in [from : Heights, block : {NoBlock}]
  <2>1. l.from \in Heights
    BY <1>2
  <2>2. l.from \in Nat /\ l.from > 0
    BY <2>1, HeightsPositive
  <2> QED
    BY <2>1, <2>2
<1> QED
  BY <1>1, <1>2, Zenon DEF Line

LEMMA NoBlockIsNone == NoBlock \notin Block
BY HeightsAssumption DEF Block, NoBlock

LEMMA LiveType ==
    ASSUME NEW lines \in Seq(Line), NEW n \in 0 .. Len(lines)
    PROVE  LiveBlocks(lines, n) \subseteq Block
BY LineKinds DEF LiveBlocks

LEMMA LiveNone ==
    ASSUME NEW lines PROVE LiveBlocks(lines, 0) = {}
BY DEF LiveBlocks

\* A block line adds its block to those that stand.
LEMMA LiveExtend ==
    ASSUME NEW lines \in Seq(Line), NEW n \in 0 .. Len(lines) - 1,
           lines[n + 1].from = 0
    PROVE  LiveBlocks(lines, n + 1) = LiveBlocks(lines, n) \cup {lines[n + 1].block}
BY LineKinds DEF LiveBlocks

\* A rollback line takes away the blocks from its height upwards.
LEMMA LiveTruncate ==
    ASSUME NEW lines \in Seq(Line), NEW n \in 0 .. Len(lines) - 1,
           lines[n + 1].from > 0
    PROVE  LiveBlocks(lines, n + 1) =
               {b \in LiveBlocks(lines, n) : b.height < lines[n + 1].from}
BY LineKinds DEF LiveBlocks

\* Appending a line does not change what the lines before it leave standing.
LEMMA LivePrefix ==
    ASSUME NEW lines \in Seq(Line), NEW l \in Line, NEW n \in 0 .. Len(lines)
    PROVE  LiveBlocks(Append(lines, l), n) = LiveBlocks(lines, n)
BY DEF LiveBlocks

\* The defaults make a stored block of any event.
LEMMA NormaliseType ==
    ASSUME NEW ev \in Event PROVE Normalise(ev) \in Block
<1>1. ev \in Event
  OBVIOUS
<1>2. blockName[ev.height] \in Names
  BY <1>1, NamesAssumption DEF Event
<1> DEFINE id == IF ev.id # NoName THEN ev.id
                 ELSE IF ev.hash # NoName THEN ev.hash ELSE blockName[ev.height]
<1>3. id \in Names
  BY <1>1, <1>2 DEF Event, MaybeName
<1>4. (IF ev.hash = NoName THEN id ELSE ev.hash) \in Names
  BY <1>1, <1>3 DEF Event, MaybeName
<1> QED
  BY <1>1, <1>3, <1>4 DEF Normalise, Block, Event

(***************************************************************************)
(* The API's reading of a log.                                             *)
(***************************************************************************)
\* Induction over 0 .. n, for the set of the numbers that have a property.
LEMMA UpTo ==
    ASSUME NEW n \in Nat, NEW Holds, 0 \in Holds,
           \A m \in 1 .. n : m - 1 \in Holds => m \in Holds
    PROVE  \A m \in 0 .. n : m \in Holds
<1> DEFINE Fails == {m \in 0 .. n : m \notin Holds}
<1>1. SUFFICES ASSUME Fails # {} PROVE FALSE
  BY Zenon
<1>2. Fails \subseteq Nat
  OBVIOUS
<1>3. PICK m \in Fails : \A y \in Fails : m <= y
  <2> HIDE DEF Fails
  <2> QED
    BY <1>1, <1>2, NatMin
<1>4. m \in 0 .. n /\ m \notin Holds /\ m # 0
  OBVIOUS
<1>5. m \in 1 .. n /\ m - 1 \in 0 .. n /\ ~ (m <= m - 1)
  BY <1>4
<1>6. m - 1 \in Holds
  BY <1>3, <1>5, Zenon
<1> QED
  BY <1>4, <1>5, <1>6, Zenon

NothingRead == [hashes |-> {}, reorgs |-> 0]

\* The loop of rebuildState is what its body says, turn by turn.
LEMMA RebuiltUnfolds ==
    ASSUME NEW lines \in Seq(Line)
    PROVE  /\ Rebuilt(lines)[0] = NothingRead
           /\ \A n \in 1 .. Len(lines) :
                 Rebuilt(lines)[n] = RebuildStep(Rebuilt(lines)[n - 1], lines[n])
<1> DEFINE Loop(g, p) == g = [n \in 0 .. p |-> IF n = 0 THEN [hashes |-> {}, reorgs |-> 0]
                                               ELSE RebuildStep(g[n - 1], lines[n])]
           Defined == {p \in Nat : \E g : Loop(g, p)}
<1>1. Len(lines) \in Nat
  OBVIOUS
<1>2. 0 \in Defined
  <2> DEFINE g == [n \in 0 .. 0 |-> [hashes |-> {}, reorgs |-> 0]]
  <2>1. Loop(g, 0)
    OBVIOUS
  <2> HIDE DEF g, Loop
  <2> QED
    BY <2>1
<1>3. ASSUME NEW m \in 1 .. Len(lines), m - 1 \in Defined PROVE m \in Defined
  <2>1. PICK g : Loop(g, m - 1)
    BY <1>3
  <2> DEFINE h == [n \in 0 .. m |-> IF n < m THEN g[n] ELSE RebuildStep(g[n - 1], lines[n])]
  <2>2. ASSUME NEW n \in 0 .. m
        PROVE  h[n] = IF n = 0 THEN [hashes |-> {}, reorgs |-> 0]
                      ELSE RebuildStep(h[n - 1], lines[n])
    <3>1. CASE n = 0
      BY <2>1, <3>1
    <3>2. CASE n # 0 /\ n < m
      <4>1. n \in 0 .. m - 1 /\ n - 1 \in 0 .. m /\ n - 1 < m
        BY <3>2
      <4>2. g[n] = RebuildStep(g[n - 1], lines[n])
        BY <2>1, <3>2, <4>1
      <4>3. h[n] = g[n] /\ h[n - 1] = g[n - 1]
        BY <3>2, <4>1
      <4> QED
        BY <3>2, <4>2, <4>3
    <3>3. CASE n # 0 /\ n = m
      <4>1. n - 1 \in 0 .. m /\ n - 1 < m
        BY <3>3
      <4>2. h[n - 1] = g[n - 1]
        BY <4>1
      <4> QED
        BY <3>3, <4>2
    <3> QED
      BY <3>1, <3>2, <3>3
  <2>3. h = [n \in 0 .. m |-> IF n = 0 THEN [hashes |-> {}, reorgs |-> 0]
                              ELSE RebuildStep(h[n - 1], lines[n])]
    BY <2>2
  <2> HIDE DEF h
  <2>4. Loop(h, m)
    BY <2>3
  <2> HIDE DEF Loop
  <2> QED
    BY <2>4
<1>4. Len(lines) \in Defined
  <2> HIDE DEF Defined
  <2>1. \A m \in 0 .. Len(lines) : m \in Defined
    BY <1>1, <1>2, <1>3, UpTo
  <2> QED
    BY <1>1, <2>1
<1>5. \E g : Loop(g, Len(lines))
  BY <1>4
<1>6. Loop(Rebuilt(lines), Len(lines))
  BY <1>5, Zenon DEF Rebuilt
<1> DEFINE R == Rebuilt(lines)
<1>7. R = [n \in 0 .. Len(lines) |-> IF n = 0 THEN [hashes |-> {}, reorgs |-> 0]
                                     ELSE RebuildStep(R[n - 1], lines[n])]
  BY <1>6
<1> HIDE DEF R
<1>8. R[0] = NothingRead
  BY <1>1, <1>7 DEF NothingRead
<1>9. ASSUME NEW n \in 1 .. Len(lines) PROVE R[n] = RebuildStep(R[n - 1], lines[n])
  <2>1. n \in 0 .. Len(lines) /\ n # 0
    BY <1>1
  <2> QED
    BY <1>7, <2>1
<1> QED
  BY <1>8, <1>9 DEF R

Reading == [hashes : SUBSET (Heights \X Names), reorgs : Nat]
HashesOf(blocks) == {<<b.height, b.hash>> : b \in blocks}

\* One turn, on what the lines before it left standing.
LEMMA StepReads ==
    ASSUME NEW s \in Reading, NEW l \in Line
    PROVE  /\ RebuildStep(s, l) \in Reading
           /\ l.from = 0 => /\ RebuildStep(s, l).reorgs = s.reorgs
                            /\ RebuildStep(s, l).hashes =
                                  {p \in s.hashes : p[1] # l.block.height}
                                      \cup {<<l.block.height, l.block.hash>>}
           /\ l.from # 0 => /\ RebuildStep(s, l).reorgs = s.reorgs + 1
                            /\ RebuildStep(s, l).hashes = {p \in s.hashes : p[1] < l.from}
<1>1. l.from \in Nat
  BY LineKinds
<1>2. CASE l.from = 0
  <2>1. l.block \in Block /\ ~ (l.from > 0)
    BY <1>2, LineKinds
  <2>2. <<l.block.height, l.block.hash>> \in Heights \X Names
    BY <2>1 DEF Block
  <2> DEFINE new == {p \in s.hashes : p[1] # l.block.height}
                        \cup {<<l.block.height, l.block.hash>>}
  <2>3. new \in SUBSET (Heights \X Names)
    BY <2>2 DEF Reading
  <2>4. RebuildStep(s, l) = [s EXCEPT !.hashes = new]
    BY <2>1 DEF RebuildStep
  <2> HIDE DEF new
  <2>5. /\ RebuildStep(s, l) \in Reading
        /\ RebuildStep(s, l).reorgs = s.reorgs /\ RebuildStep(s, l).hashes = new
    BY <2>3, <2>4 DEF Reading
  <2> QED
    BY <1>2, <2>5 DEF new
<1>3. CASE l.from # 0
  <2>1. l.from > 0
    BY <1>1, <1>3
  <2> DEFINE new == {p \in s.hashes : p[1] < l.from}
  <2>2. new \in SUBSET (Heights \X Names) /\ s.reorgs + 1 \in Nat
    BY DEF Reading
  <2>3. RebuildStep(s, l) = [hashes |-> new, reorgs |-> s.reorgs + 1]
    BY <2>1 DEF RebuildStep
  <2> HIDE DEF new
  <2>4. /\ RebuildStep(s, l) \in Reading
        /\ RebuildStep(s, l).reorgs = s.reorgs + 1 /\ RebuildStep(s, l).hashes = new
    BY <2>2, <2>3 DEF Reading
  <2> QED
    BY <1>3, <2>4 DEF new
<1> QED
  BY <1>2, <1>3

LEMMA RebuiltType ==
    ASSUME NEW lines \in Seq(Line)
    PROVE  \A n \in 0 .. Len(lines) : Rebuilt(lines)[n] \in Reading
<1> DEFINE Typed == {n \in Nat : Rebuilt(lines)[n] \in Reading}
<1>1. Len(lines) \in Nat
  OBVIOUS
<1>2. 0 \in Typed
  BY RebuiltUnfolds DEF NothingRead, Reading
<1>3. ASSUME NEW m \in 1 .. Len(lines), m - 1 \in Typed PROVE m \in Typed
  BY <1>3, RebuiltUnfolds, StepReads
<1> HIDE DEF Typed
<1>4. \A n \in 0 .. Len(lines) : n \in Typed
  BY <1>1, <1>2, <1>3, UpTo
<1> QED
  BY <1>4 DEF Typed

\* What has been read does not depend on the lines to come.
LEMMA RebuiltPrefix ==
    ASSUME NEW lines \in Seq(Line), NEW l \in Line
    PROVE  \A n \in 0 .. Len(lines) : Rebuilt(Append(lines, l))[n] = Rebuilt(lines)[n]
<1> DEFINE longer == Append(lines, l)
           Same == {n \in Nat : Rebuilt(longer)[n] = Rebuilt(lines)[n]}
<1>1. /\ longer \in Seq(Line) /\ Len(longer) = Len(lines) + 1 /\ Len(lines) \in Nat
      /\ \A n \in 1 .. Len(lines) : longer[n] = lines[n]
  OBVIOUS
<1> HIDE DEF longer
<1>2. 0 \in Same
  BY <1>1, RebuiltUnfolds
<1>3. ASSUME NEW m \in 1 .. Len(lines), m - 1 \in Same PROVE m \in Same
  <2>1. Rebuilt(lines)[m] = RebuildStep(Rebuilt(lines)[m - 1], lines[m])
    BY RebuiltUnfolds
  <2>2. m \in 1 .. Len(longer) /\ longer[m] = lines[m]
    BY <1>1
  <2>3. Rebuilt(longer)[m] = RebuildStep(Rebuilt(longer)[m - 1], longer[m])
    BY <1>1, <2>2, RebuiltUnfolds
  <2> QED
    BY <1>3, <2>1, <2>2, <2>3
<1> HIDE DEF Same
<1>4. \A n \in 0 .. Len(lines) : n \in Same
  BY <1>1, <1>2, <1>3, UpTo
<1> QED
  BY <1>4 DEF Same, longer

\* Every block line of a log lies above all that the lines before it leave
\* standing, which is the part of LogAscends that the heights need.
Ascending(lines) ==
    \A i \in 1 .. Len(lines) :
        lines[i].from = 0 => \A b \in LiveBlocks(lines, i - 1) : b.height < lines[i].block.height

\* Of an ascending log rebuildState finds the hashes of the blocks that stand.
LEMMA RebuiltIsLive ==
    ASSUME NEW lines \in Seq(Line), Ascending(lines)
    PROVE  \A n \in 0 .. Len(lines) : Rebuilt(lines)[n].hashes = HashesOf(LiveBlocks(lines, n))
<1> DEFINE Right == {n \in Nat : Rebuilt(lines)[n].hashes = HashesOf(LiveBlocks(lines, n))}
<1>1. Len(lines) \in Nat
  OBVIOUS
<1>2. 0 \in Right
  BY RebuiltUnfolds, LiveNone DEF NothingRead, HashesOf
<1>3. ASSUME NEW m \in 1 .. Len(lines), m - 1 \in Right PROVE m \in Right
  <2> DEFINE s == Rebuilt(lines)[m - 1]
             live == LiveBlocks(lines, m - 1)
             l == lines[m]
  <2>1. /\ m \in Nat /\ m - 1 \in 0 .. Len(lines) - 1 /\ m - 1 \in 0 .. Len(lines)
        /\ (m - 1) + 1 = m /\ l \in Line
    OBVIOUS
  <2>2. s \in Reading /\ s.hashes = HashesOf(live)
    BY <1>3, <2>1, RebuiltType
  <2>3. live \subseteq Block
    BY <2>1, LiveType
  <2>4. Rebuilt(lines)[m] = RebuildStep(s, l)
    BY RebuiltUnfolds
  <2>5. CASE l.from = 0
    <3>1. LiveBlocks(lines, m) = live \cup {l.block}
      <4> DEFINE k == m - 1
      <4>1. k \in 0 .. Len(lines) - 1 /\ k + 1 = m
        BY <2>1
      <4> HIDE DEF k
      <4>2. LiveBlocks(lines, k + 1) = LiveBlocks(lines, k) \cup {lines[k + 1].block}
        BY <2>5, <4>1, LiveExtend
      <4> QED
        BY <4>1, <4>2 DEF k
    <3>2. \A b \in live : b.height < l.block.height
      BY <2>5 DEF Ascending
    <3>3. l.block \in Block
      BY <2>1, <2>5, LineKinds
    <3> HIDE DEF s, live, l
    <3>4. RebuildStep(s, l).hashes = {p \in s.hashes : p[1] # l.block.height}
                                        \cup {<<l.block.height, l.block.hash>>}
      BY <2>1, <2>2, <2>5, StepReads
    <3>5. \A b \in live : b.height # l.block.height
      BY <2>3, <3>2, <3>3, BlockHeights
    <3>6. {p \in s.hashes : p[1] # l.block.height} = s.hashes
      BY <2>2, <3>5 DEF HashesOf
    <3>7. HashesOf(live \cup {l.block}) = HashesOf(live) \cup {<<l.block.height, l.block.hash>>}
      BY DEF HashesOf
    <3> QED
      BY <2>1, <2>2, <2>4, <3>1, <3>4, <3>6, <3>7
  <2>6. CASE l.from # 0
    <3>1. l.from > 0
      BY <2>1, <2>6, LineKinds
    <3>2. LiveBlocks(lines, m) = {b \in live : b.height < l.from}
      BY <2>1, <3>1, LiveTruncate
    <3> HIDE DEF s, live, l
    <3>3. RebuildStep(s, l).hashes = {p \in s.hashes : p[1] < l.from}
      BY <2>1, <2>2, <2>6, StepReads
    <3>4. {p \in HashesOf(live) : p[1] < l.from} = HashesOf({b \in live : b.height < l.from})
      BY DEF HashesOf
    <3> QED
      BY <2>1, <2>2, <2>4, <3>2, <3>3, <3>4
  <2> QED
    BY <2>5, <2>6
<1> HIDE DEF Right
<1>4. \A n \in 0 .. Len(lines) : n \in Right
  BY <1>1, <1>2, <1>3, UpTo
<1> QED
  BY <1>4 DEF Right

\* The blocks that stand are finitely many.
LEMMA LiveFinite ==
    ASSUME NEW lines \in Seq(Line), NEW n \in 0 .. Len(lines)
    PROVE  IsFiniteSet(LiveBlocks(lines, n))
<1> DEFINE I == {i \in 1 .. n : /\ lines[i].from = 0
                                /\ \A k \in i + 1 .. n :
                                     lines[k].from > 0 => lines[k].from > lines[i].block.height}
           f == [i \in I |-> lines[i].block]
<1>1. IsFiniteSet(1 .. n)
  BY FS_Interval
<1>2. IsFiniteSet(I)
  BY <1>1, FS_Subset
<1>3. LiveBlocks(lines, n) = {f[i] : i \in I}
  BY DEF LiveBlocks
<1> HIDE DEF I
<1>4. f \in Surjection(I, {f[i] : i \in I})
  BY DEF Surjection
<1> QED
  BY <1>2, <1>3, <1>4, FS_Surjection

\* A finite set of blocks has as many hashes by height as blocks when no two
\* share a height, and as many IDs when no two share an ID.
LEMMA CountByHeight ==
    ASSUME NEW S, IsFiniteSet(S), \A b, c \in S : b # c => b.height # c.height
    PROVE  Cardinality(HashesOf(S)) = Cardinality(S)
<1> DEFINE f == [b \in S |-> <<b.height, b.hash>>]
<1>1. f \in Surjection(S, HashesOf(S))
  BY DEF Surjection, HashesOf
<1>2. f \in Injection(S, HashesOf(S))
  BY DEF Injection, HashesOf, IsInjective
<1> QED
  BY <1>1, <1>2, FS_Surjection

LEMMA CountByID ==
    ASSUME NEW S, IsFiniteSet(S), \A b, c \in S : b # c => b.id # c.id
    PROVE  Cardinality({b.id : b \in S}) = Cardinality(S)
<1> DEFINE T == {b.id : b \in S}
           f == [b \in S |-> b.id]
<1>1. f \in Surjection(S, T)
  BY DEF Surjection
<1>2. f \in Injection(S, T)
  BY DEF Injection, IsInjective
<1> QED
  BY <1>1, <1>2, FS_Surjection

\* The tip of a set of blocks, as the stores' own definitions have it.
Highest(S, tipHeight, tipHash) ==
    \/ S = {} /\ tipHeight = 0 /\ tipHash = NoName
    \/ \E b \in S : /\ b.height = tipHeight /\ b.hash = tipHash
                    /\ \A c \in S : c.height <= b.height

\* What rebuildState reports of an ascending log: the highest of the blocks
\* that stand, how many they are, and the rollbacks it has counted.
LEMMA RebuildReports ==
    ASSUME NEW lines \in Seq(Line), Ascending(lines), NEW S, S = LiveBlocks(lines, Len(lines)),
           \A b, c \in S : b # c => b.height # c.height,
           NEW tipHeight, NEW tipHash, Highest(S, tipHeight, tipHash)
    PROVE  RebuildState(lines) =
               [tipHeight |-> tipHeight, tipHash |-> tipHash, total |-> Cardinality(S),
                reorgs |-> Rebuilt(lines)[Len(lines)].reorgs]
<1> DEFINE final == Rebuilt(lines)[Len(lines)]
           top == CHOOSE p \in final.hashes : \A q \in final.hashes : q[1] <= p[1]
<1>1. Len(lines) \in 0 .. Len(lines)
  OBVIOUS
<1>2. final.hashes = HashesOf(S) /\ S \subseteq Block /\ IsFiniteSet(S)
  BY <1>1, RebuiltIsLive, LiveType, LiveFinite
<1>3. RebuildState(lines) =
          [tipHeight |-> IF final.hashes = {} THEN 0 ELSE top[1],
           tipHash   |-> IF final.hashes = {} THEN NoName ELSE top[2],
           total     |-> Cardinality(final.hashes),
           reorgs    |-> final.reorgs]
  BY DEF RebuildState
<1> HIDE DEF final
<1>4. Cardinality(final.hashes) = Cardinality(S)
  BY <1>2, CountByHeight
<1>5. CASE S = {}
  <2>1. final.hashes = {} /\ tipHeight = 0 /\ tipHash = NoName
    BY <1>2, <1>5 DEF HashesOf, Highest
  <2> QED
    BY <1>3, <1>4, <2>1 DEF final
<1>6. CASE S # {}
  <2>1. PICK b \in S : /\ b.height = tipHeight /\ b.hash = tipHash
                       /\ \A c \in S : c.height <= b.height
    BY <1>6 DEF Highest
  <2>2. <<tipHeight, tipHash>> \in final.hashes
    BY <1>2, <2>1 DEF HashesOf
  <2>3. \A q \in final.hashes : q[1] <= tipHeight
    BY <1>2, <2>1 DEF HashesOf
  <2>4. top \in final.hashes /\ \A q \in final.hashes : q[1] <= top[1]
    <3>1. \E p \in final.hashes : \A q \in final.hashes : q[1] <= p[1]
      BY <2>2, <2>3
    <3> QED
      BY <3>1
  <2> HIDE DEF top
  <2>5. PICK c \in S : top = <<c.height, c.hash>>
    BY <1>2, <2>4 DEF HashesOf
  <2>6. b.height \in Nat /\ c.height \in Nat
    BY <1>2, BlockHeights
  <2>7. c.height <= b.height /\ b.height <= c.height
    BY <2>1, <2>2, <2>4, <2>5
  <2>8. c = b
    BY <2>6, <2>7
  <2>9. top[1] = tipHeight /\ top[2] = tipHash /\ final.hashes # {}
    BY <2>1, <2>2, <2>5, <2>8
  <2> QED
    BY <1>3, <1>4, <2>9 DEF final, top
<1> QED
  BY <1>5, <1>6

\* A line that fits on top keeps a log ascending, and counts if it is a rollback.
LEMMA AppendReads ==
    ASSUME NEW lines \in Seq(Line), Ascending(lines), NEW l \in Line,
           l.from = 0 => \A b \in LiveBlocks(lines, Len(lines)) : b.height < l.block.height
    PROVE  LET longer == Append(lines, l)
               before == Rebuilt(lines)[Len(lines)].reorgs
               after == Rebuilt(longer)[Len(longer)].reorgs
           IN  /\ Ascending(longer)
               /\ l.from = 0 => after = before
               /\ l.from # 0 => after = before + 1
<1> DEFINE longer == Append(lines, l)
           n == Len(lines)
<1>1. /\ longer \in Seq(Line) /\ Len(longer) = n + 1 /\ n \in Nat /\ longer[n + 1] = l
      /\ \A i \in 1 .. n : longer[i] = lines[i]
      /\ n \in 0 .. n /\ (n + 1) - 1 = n /\ n + 1 \in 1 .. Len(longer)
  OBVIOUS
<1>2. /\ \A i \in 0 .. n : LiveBlocks(longer, i) = LiveBlocks(lines, i)
      /\ Rebuilt(longer)[n] = Rebuilt(lines)[n]
  BY <1>1, LivePrefix, RebuiltPrefix
<1> HIDE DEF longer, n
<1>3. ASSUME NEW i \in 1 .. Len(longer), longer[i].from = 0
      PROVE  \A b \in LiveBlocks(longer, i - 1) : b.height < longer[i].block.height
  <2>1. CASE i = n + 1
    BY <1>1, <1>2, <1>3, <2>1 DEF n
  <2>2. CASE i # n + 1
    <3>1. i \in 1 .. n /\ i - 1 \in 0 .. n
      BY <1>1, <2>2
    <3>2. longer[i] = lines[i] /\ LiveBlocks(longer, i - 1) = LiveBlocks(lines, i - 1)
      BY <1>1, <1>2, <3>1
    <3>3. lines[i].from = 0 => \A b \in LiveBlocks(lines, i - 1) : b.height < lines[i].block.height
      BY <3>1 DEF Ascending, n
    <3> QED
      BY <1>3, <3>2, <3>3
  <2> QED
    BY <2>1, <2>2
<1>4. Rebuilt(longer)[n + 1] = RebuildStep(Rebuilt(lines)[n], l)
  <2>1. Rebuilt(longer)[n + 1] = RebuildStep(Rebuilt(longer)[(n + 1) - 1], longer[n + 1])
    BY <1>1, RebuiltUnfolds
  <2> QED
    BY <1>1, <1>2, <2>1
<1>5. Rebuilt(lines)[n] \in Reading
  BY <1>1, RebuiltType DEF n
<1>6. /\ l.from = 0 => RebuildStep(Rebuilt(lines)[n], l).reorgs = Rebuilt(lines)[n].reorgs
      /\ l.from # 0 => RebuildStep(Rebuilt(lines)[n], l).reorgs = Rebuilt(lines)[n].reorgs + 1
  BY <1>5, StepReads
<1>7. Ascending(longer)
  BY <1>3 DEF Ascending
<1> QED
  BY <1>1, <1>4, <1>6, <1>7 DEF longer, n
=============================================================================
