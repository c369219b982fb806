---------------------------- MODULE PicoDvi_proofs ----------------------------
(***************************************************************************)
(* What holds of the RP2040's scanout for every timing, frame and number   *)
(* of buffers.                                                             *)
(***************************************************************************)
EXTENDS PicoDvi, FiniteSetTheorems, SequenceTheorems, WellFoundedInduction,
        TLAPS

-----------------------------------------------------------------------------
(* The lines of the screen.                                                *)

RegionNames == {"front", "sync", "back", "active"}

LEMMA BeamFacts ==
  ASSUME NEW b \in Beams
  PROVE  /\ b.region \in RegionNames
         /\ b.line \in Nat /\ b.line < LinesOf[b.region]
         /\ b = [region |-> b.region, line |-> b.line]
<1>1. {Regions[k] : k \in 1 .. 4} = RegionNames
  BY DEF Regions, RegionNames
<1>2. b.line \in 0 .. VFront + VSync + VBack + VActive
  BY DEF Beams
<1> QED
  BY <1>1, <1>2, LinesAssumption DEF Beams

LEMMA MakeBeam ==
  ASSUME NEW r \in RegionNames, NEW l \in Nat, l < LinesOf[r]
  PROVE  [region |-> r, line |-> l] \in Beams
<1>1. {Regions[k] : k \in 1 .. 4} = RegionNames
  BY DEF Regions, RegionNames
<1>2. l \in 0 .. VFront + VSync + VBack + VActive
  BY LinesAssumption DEF RegionNames, LinesOf
<1> QED
  BY <1>1, <1>2 DEF Beams

LEMMA NextBeamFacts ==
  ASSUME NEW b \in Beams
  PROVE  NextBeam(b) \in Beams
<1>1. CASE b.line + 1 = LinesOf[b.region]
  <2>1. NextBeam(b) = [region |-> FollowingRegion[b.region], line |-> 0]
    BY <1>1 DEF NextBeam
  <2>2. FollowingRegion[b.region] \in RegionNames
    BY BeamFacts DEF FollowingRegion, RegionNames
  <2>3. 0 < LinesOf[FollowingRegion[b.region]]
    BY <2>2, LinesAssumption DEF RegionNames, LinesOf
  <2> QED
    BY <2>1, <2>2, <2>3, MakeBeam
<1>2. CASE b.line + 1 # LinesOf[b.region]
  <2>1. NextBeam(b) = [region |-> b.region, line |-> b.line + 1]
    BY <1>2, BeamFacts DEF NextBeam
  <2>2. LinesOf[b.region] \in Nat
    BY BeamFacts, LinesAssumption DEF RegionNames, LinesOf
  <2>3. b.line + 1 \in Nat /\ b.line + 1 < LinesOf[b.region]
    BY <1>2, <2>2, BeamFacts
  <2> QED
    BY <2>1, <2>3, BeamFacts, MakeBeam
<1> QED
  BY <1>1, <1>2

\* The row the beam will need next, and the row after a row.
RowAfter(r) == IF r + 1 >= Height THEN 0 ELSE r + 1
Awaited(b) ==
  IF b.region # "active" THEN 0
  ELSE IF LastRepeat(b) THEN RowAfter(b.line \div Repeat)
                        ELSE b.line \div Repeat

LEMMA RowAfterFacts ==
  /\ \A r \in Rows : RowAfter(r) \in Rows
  /\ \A r, s \in Rows : RowAfter(r) = RowAfter(s) => r = s
BY SizesAssumption DEF RowAfter, Rows

\* Every row is on two lines of the screen.
Doubled == VActive = Repeat * Height

LEMMA AwaitedFacts ==
  ASSUME Doubled, NEW b \in Beams
  PROVE  /\ Awaited(b) \in Rows
         /\ NextBeam(b).region = "active"
              => Awaited(b) = NextBeam(b).line \div Repeat
         /\ Awaited(NextBeam(b)) =
              IF CallsBack(NextBeam(b)) THEN RowAfter(Awaited(b)) ELSE Awaited(b)
<1> DEFINE c == NextBeam(b)
<1>1. 0 \in Rows /\ Height \in Nat /\ Height > 2
  BY SizesAssumption DEF Rows
<1>2. /\ b.region \in RegionNames /\ b.line \in Nat
      /\ c.region \in RegionNames /\ c.line \in Nat
  BY BeamFacts, NextBeamFacts
<1>3. CASE b.region = "active"
  <2>1. b.line < 2 * Height
    BY <1>3, BeamFacts DEF LinesOf, Doubled, Repeat
  <2>2. CASE b.line + 1 = 2 * Height
    <3>1. c = [region |-> "front", line |-> 0]
      BY <1>3, <2>2 DEF NextBeam, LinesOf, FollowingRegion, Doubled, Repeat
    <3>2. b.line % 2 = 1 /\ b.line \div 2 = Height - 1
      BY <1>1, <1>2, <2>2
    <3> QED
      BY <1>1, <1>3, <3>1, <3>2
         DEF Awaited, RowAfter, LastRepeat, Repeat, CallsBack, Rows
  <2>3. CASE b.line + 1 < 2 * Height
    <3>1. c.region = "active" /\ c.line = b.line + 1
      BY <1>1, <1>2, <1>3, <2>3 DEF NextBeam, LinesOf, Doubled, Repeat
    <3>2. CASE b.line % 2 = 0
      <4>1. /\ c.line % 2 = 1 /\ c.line \div 2 = b.line \div 2
            /\ b.line \div 2 \in 0 .. Height - 1
        BY <1>1, <1>2, <2>3, <3>1, <3>2
      <4>2. Awaited(b) = b.line \div 2 /\ Awaited(c) = RowAfter(c.line \div 2)
        BY <1>3, <3>1, <3>2, <4>1 DEF Awaited, LastRepeat, Repeat
      <4> QED
        BY <3>1, <4>1, <4>2 DEF Rows, CallsBack, LastRepeat, Repeat
    <3>3. CASE b.line % 2 = 1
      <4>1. /\ c.line % 2 = 0 /\ c.line \div 2 = b.line \div 2 + 1
            /\ b.line \div 2 \in 0 .. Height - 2
        BY <1>1, <1>2, <2>3, <3>1, <3>3
      <4>2. /\ Awaited(b) = RowAfter(b.line \div 2) /\ Awaited(c) = c.line \div 2
            /\ RowAfter(b.line \div 2) = b.line \div 2 + 1
        BY <1>1, <1>3, <3>1, <3>3, <4>1 DEF Awaited, LastRepeat, Repeat, RowAfter
      <4> QED
        BY <1>1, <3>1, <4>1, <4>2 DEF Rows, CallsBack, LastRepeat, Repeat
    <3> QED
      BY <1>2, <3>2, <3>3
  <2> QED
    BY <1>1, <1>2, <2>1, <2>2, <2>3
<1>4. CASE b.region # "active"
  <2>1. Awaited(b) = 0
    BY <1>4 DEF Awaited
  <2>2. c.region = "active" => c.line = 0
    BY <1>2, <1>4 DEF NextBeam, RegionNames
  <2>3. CASE c.region = "active"
    <3>1. c.line % 2 = 0 /\ c.line \div 2 = 0
      BY <2>2, <2>3
    <3> QED
      BY <1>1, <2>1, <2>3, <3>1 DEF Awaited, LastRepeat, Repeat, CallsBack
  <2>4. CASE c.region # "active"
    BY <1>1, <2>1, <2>4 DEF Awaited, CallsBack
  <2> QED
    BY <2>3, <2>4
<1> QED
  BY <1>3, <1>4

-----------------------------------------------------------------------------
(* The lanes.                                                              *)

\* What a list of two, or of four, control blocks sends, block by block.
LEMMA TwoBlocks ==
  ASSUME NEW blocks, Len(blocks) = 2,
         NEW w1 \in Nat, NEW w2 \in Nat,
         blocks[1].words = w1, blocks[2].words = w2
  PROVE  /\ WordsSent(blocks)[1] = w1
         /\ WordsSent(blocks)[2] = w1 + w2
<1> DEFINE Sum(f) == f = [k \in 0 .. Len(blocks) |->
                            IF k = 0 THEN 0 ELSE f[k - 1] + blocks[k].words]
           witness == [k \in 0 .. 2 |-> IF k = 0 THEN 0
                                        ELSE IF k = 1 THEN w1 ELSE w1 + w2]
<1>1. Sum(witness)
  <2>1. \A k \in 0 .. 2 : witness[k] =
          IF k = 0 THEN 0 ELSE witness[k - 1] + blocks[k].words
    OBVIOUS
  <2> QED
    BY <2>1
<1>2. WordsSent(blocks) = CHOOSE f : Sum(f)
  BY DEF WordsSent
<1> HIDE DEF Sum, witness
<1>3. Sum(WordsSent(blocks))
  BY <1>1, <1>2
<1>4. \A k \in 0 .. 2 : WordsSent(blocks)[k] =
        IF k = 0 THEN 0 ELSE WordsSent(blocks)[k - 1] + blocks[k].words
  <2>1. WordsSent(blocks) = [k \in 0 .. 2 |->
          IF k = 0 THEN 0 ELSE WordsSent(blocks)[k - 1] + blocks[k].words]
    BY <1>3, Zenon DEF Sum
  <2> QED
    BY <2>1
<1>5. WordsSent(blocks)[0] = 0
  BY <1>4
<1>6. WordsSent(blocks)[1] = WordsSent(blocks)[0] + w1
  BY <1>4
<1>7. WordsSent(blocks)[2] = WordsSent(blocks)[1] + w2
  BY <1>4
<1> QED
  BY <1>5, <1>6, <1>7

LEMMA FourBlocks ==
  ASSUME NEW blocks, Len(blocks) = 4,
         NEW w1 \in Nat, NEW w2 \in Nat, NEW w3 \in Nat, NEW w4 \in Nat,
         blocks[1].words = w1, blocks[2].words = w2,
         blocks[3].words = w3, blocks[4].words = w4
  PROVE  /\ WordsSent(blocks)[3] = w1 + w2 + w3
         /\ WordsSent(blocks)[4] = w1 + w2 + w3 + w4
<1> DEFINE Sum(f) == f = [k \in 0 .. Len(blocks) |->
                            IF k = 0 THEN 0 ELSE f[k - 1] + blocks[k].words]
           witness == [k \in 0 .. 4 |-> IF k = 0 THEN 0
                                        ELSE IF k = 1 THEN w1
                                        ELSE IF k = 2 THEN w1 + w2
                                        ELSE IF k = 3 THEN w1 + w2 + w3
                                        ELSE w1 + w2 + w3 + w4]
<1>1. Sum(witness)
  <2>1. \A k \in 0 .. 4 : witness[k] =
          IF k = 0 THEN 0 ELSE witness[k - 1] + blocks[k].words
    OBVIOUS
  <2> QED
    BY <2>1
<1>2. WordsSent(blocks) = CHOOSE f : Sum(f)
  BY DEF WordsSent
<1> HIDE DEF Sum, witness
<1>3. Sum(WordsSent(blocks))
  BY <1>1, <1>2
<1>4. \A k \in 0 .. 4 : WordsSent(blocks)[k] =
        IF k = 0 THEN 0 ELSE WordsSent(blocks)[k - 1] + blocks[k].words
  <2>1. WordsSent(blocks) = [k \in 0 .. 4 |->
          IF k = 0 THEN 0 ELSE WordsSent(blocks)[k - 1] + blocks[k].words]
    BY <1>3, Zenon DEF Sum
  <2> QED
    BY <2>1
<1>5. WordsSent(blocks)[0] = 0
  BY <1>4
<1>6. WordsSent(blocks)[1] = WordsSent(blocks)[0] + w1
  BY <1>4
<1>7. WordsSent(blocks)[2] = WordsSent(blocks)[1] + w2
  BY <1>4
<1>8. WordsSent(blocks)[3] = WordsSent(blocks)[2] + w3
  BY <1>4
<1>9. WordsSent(blocks)[4] = WordsSent(blocks)[3] + w4
  BY <1>4
<1> QED
  BY <1>5, <1>6, <1>7, <1>8, <1>9

\* The blocks of a line, whichever list it is: the sync lane sends its
\* porches one by one, the others all at once.
SyncShape(blocks) ==
  /\ Len(blocks) = 4
  /\ blocks[1].words = HFront \div 2 /\ blocks[1].irq = FALSE
  /\ blocks[2].words = HSync \div 2 /\ blocks[2].irq = FALSE
  /\ blocks[3].words = HBack \div 2 /\ blocks[3].irq = TRUE
  /\ blocks[4].words = HActive \div 2 /\ blocks[4].irq = FALSE
PlainShape(blocks) ==
  /\ Len(blocks) = 2
  /\ blocks[1].words = (HFront + HSync + HBack) \div 2 /\ blocks[1].irq = FALSE
  /\ blocks[2].words = HActive \div 2 /\ blocks[2].irq = FALSE

LEMMA Shapes ==
  ASSUME NEW line \in Lines, NEW lane \in Lanes
  PROVE  /\ lane = SyncLane => SyncShape(LaneBlocks(line, lane))
         /\ lane # SyncLane => PlainShape(LaneBlocks(line, lane))
<1>1. ASSUME NEW source
      PROVE  /\ lane = SyncLane => SyncShape(ActiveLane(source, lane))
             /\ lane # SyncLane => PlainShape(ActiveLane(source, lane))
  BY DEF ActiveLane, SyncShape, PlainShape, SyncPorches, PlainPorches, Block
<1>2. ASSUME NEW asserted \in BOOLEAN
      PROVE  /\ lane = SyncLane => SyncShape(VblankLane(asserted, lane))
             /\ lane # SyncLane => PlainShape(VblankLane(asserted, lane))
  BY DEF VblankLane, SyncShape, PlainShape, SyncPorches, PlainPorches, Block
<1>3. \/ line.list = "nosync" \/ line.list = "sync"
      \/ line.list = "error" \/ line.list = "active"
  BY DEF Lines, BlankLine, SyncLine, ErrorLine, BufferLine
<1>4. CASE line.list = "nosync"
  BY <1>2, <1>4 DEF LaneBlocks
<1>5. CASE line.list = "sync"
  BY <1>2, <1>5 DEF LaneBlocks
<1>6. CASE line.list = "error"
  BY <1>1, <1>6 DEF LaneBlocks
<1>7. CASE line.list = "active"
  BY <1>1, <1>7 DEF LaneBlocks
<1> QED
  BY <1>3, <1>4, <1>5, <1>6, <1>7

LEMMA InStep ==
  ASSUME sent.line \in Lines
  PROVE  LanesInStep
<1> DEFINE blocks(l) == LaneBlocks(sent.line, l)
           words(l) == WordsSent(blocks(l))
           last(l) == Len(blocks(l))
           porches == HFront \div 2 + HSync \div 2 + HBack \div 2
<1>1. HFront \in Nat /\ HSync \in Nat /\ HBack \in Nat /\ HActive \in Nat
  BY PixelsAssumption
<1>2. HFront % 2 = 0 /\ HSync % 2 = 0 /\ HBack % 2 = 0
  BY PixelsAssumption
<1>3. /\ HFront \div 2 \in Nat /\ HSync \div 2 \in Nat /\ HBack \div 2 \in Nat
      /\ HActive \div 2 \in Nat /\ (HFront + HSync + HBack) \div 2 \in Nat
  BY <1>1
<1>4. (HFront + HSync + HBack) \div 2 = porches
  BY <1>1, <1>2
<1>5. /\ last(SyncLane) = 4
      /\ words(SyncLane)[3] = porches
      /\ words(SyncLane)[4] = porches + HActive \div 2
      /\ {k \in 1 .. last(SyncLane) : blocks(SyncLane)[k].irq} = {3}
  <2>1. SyncShape(blocks(SyncLane))
    BY Shapes DEF Lanes, SyncLane
  <2>2. last(SyncLane) = 4
    BY <2>1 DEF SyncShape
  <2>3. /\ words(SyncLane)[3] = porches
        /\ words(SyncLane)[4] = porches + HActive \div 2
    BY <1>3, <2>1, FourBlocks DEF SyncShape
  <2>4. \A k \in 1 .. 4 : blocks(SyncLane)[k].irq <=> k = 3
    BY <2>1 DEF SyncShape
  <2> QED
    BY <2>2, <2>3, <2>4
<1>6. ASSUME NEW l \in Lanes, l # SyncLane
      PROVE  /\ last(l) = 2
             /\ words(l)[1] = porches
             /\ words(l)[2] = porches + HActive \div 2
             /\ {k \in 1 .. last(l) : blocks(l)[k].irq} = {}
  <2>1. PlainShape(blocks(l))
    BY <1>6, Shapes
  <2>2. last(l) = 2
    BY <2>1 DEF PlainShape
  <2>3. /\ words(l)[1] = porches
        /\ words(l)[2] = porches + HActive \div 2
    BY <1>3, <1>4, <2>1, TwoBlocks DEF PlainShape
  <2>4. \A k \in 1 .. 2 : ~ blocks(l)[k].irq
    BY <2>1 DEF PlainShape
  <2> QED
    BY <2>2, <2>3, <2>4
<1> HIDE DEF blocks, words, last, porches
<1>7. ASSUME NEW l \in Lanes
      PROVE  /\ words(l)[last(l)] = words(SyncLane)[last(SyncLane)]
             /\ words(l)[last(l) - 1] = words(SyncLane)[last(SyncLane) - 1]
             /\ {k \in 1 .. last(l) : blocks(l)[k].irq}
                  = IF l = SyncLane THEN {last(l) - 1} ELSE {}
  <2>1. last(SyncLane) - 1 = 3
    BY <1>5
  <2>2. CASE l = SyncLane
    BY <1>5, <2>1, <2>2
  <2>3. CASE l # SyncLane
    <3>1. last(l) = 2 /\ last(l) - 1 = 1
      BY <1>6, <2>3
    <3> QED
      BY <1>5, <1>6, <2>1, <2>3, <3>1
  <2> QED
    BY <2>2, <2>3
<1> QED
  BY <1>7, Zenon DEF LanesInStep, blocks, words, last

-----------------------------------------------------------------------------
(* How often a buffer is in a queue.                                       *)

Count(q, b) == Cardinality({k \in DOMAIN q : q[k] = b})

\* The places of a value in a stretch of a sequence.
Places(q, i, j, b) == {k \in i .. j : q[k] = b}

LEMMA PlacesFinite ==
  ASSUME NEW q, NEW i \in Int, NEW j \in Int, NEW b
  PROVE  /\ IsFiniteSet(Places(q, i, j, b))
         /\ Cardinality(Places(q, i, j, b)) \in Nat
BY FS_Interval, FS_Subset, FS_CardinalityType DEF Places

LEMMA CountPlaces ==
  ASSUME NEW S, NEW q \in Seq(S), NEW b
  PROVE  /\ Count(q, b) = Cardinality(Places(q, 1, Len(q), b))
         /\ Count(q, b) \in Nat
<1>1. DOMAIN q = 1 .. Len(q) /\ Len(q) \in Nat
  BY LenProperties
<1>2. Count(q, b) = Cardinality(Places(q, 1, Len(q), b))
  BY <1>1 DEF Count, Places
<1> QED
  BY <1>1, <1>2, PlacesFinite

\* Moving a stretch changes nothing.
LEMMA PlacesMoved ==
  ASSUME NEW q, NEW r, NEW m \in Nat, NEW n \in Nat, NEW b,
         \A i \in 1 .. n : r[i + m] = q[i]
  PROVE  Cardinality(Places(r, m + 1, m + n, b)) = Cardinality(Places(q, 1, n, b))
<1> DEFINE S == Places(q, 1, n, b)
           T == Places(r, m + 1, m + n, b)
           f == [i \in S |-> i + m]
<1>1. f \in [S -> T]
  BY DEF Places
<1>2. \A i, j \in S : f[i] = f[j] => i = j
  BY DEF Places
<1>3. \A k \in T : \E i \in S : f[i] = k
  <2> SUFFICES ASSUME NEW k \in T PROVE \E i \in S : f[i] = k
    OBVIOUS
  <2>1. k \in m + 1 .. m + n /\ r[k] = b
    BY DEF Places
  <2>2. k - m \in 1 .. n /\ (k - m) + m = k
    BY <2>1
  <2>3. k - m \in S
    BY <2>1, <2>2 DEF Places
  <2> QED
    BY <2>2, <2>3
<1>4. f \in Bijection(S, T)
  <2> HIDE DEF S, T, f
  <2> QED
    BY <1>1, <1>2, <1>3 DEF Bijection, Injection, IsInjective, Surjection
<1>5. IsFiniteSet(S)
  BY PlacesFinite
<1>6. ExistsBijection(S, T)
  BY <1>4, Zenon DEF ExistsBijection
<1> QED
  BY <1>5, <1>6, FS_Bijection, Zenon

LEMMA CountConcat ==
  ASSUME NEW S, NEW q \in Seq(S), NEW r \in Seq(S), NEW b
  PROVE  Count(q \o r, b) = Count(q, b) + Count(r, b)
<1> DEFINE m == Len(q)
           n == Len(r)
           both == q \o r
<1>1. /\ m \in Nat /\ n \in Nat /\ both \in Seq(S) /\ Len(both) = m + n
      /\ \A i \in 1 .. m : both[i] = q[i]
      /\ \A i \in 1 .. n : both[i + m] = r[i]
  BY ConcatProperties, LenProperties
<1> HIDE DEF m, n, both
<1>2. Places(both, 1, m + n, b)
        = Places(both, 1, m, b) \cup Places(both, m + 1, m + n, b)
  BY <1>1 DEF Places
<1>3. Places(both, 1, m, b) \cap Places(both, m + 1, m + n, b) = {}
  BY <1>1 DEF Places
<1>4. Cardinality(Places(both, 1, m + n, b))
        = Cardinality(Places(both, 1, m, b))
            + Cardinality(Places(both, m + 1, m + n, b))
  <2> DEFINE A == Places(both, 1, m, b)
             B == Places(both, m + 1, m + n, b)
  <2>1. 1 \in Int /\ m \in Int /\ m + 1 \in Int /\ m + n \in Int
    BY <1>1
  <2>2. /\ IsFiniteSet(A) /\ Cardinality(A) \in Nat
        /\ IsFiniteSet(B) /\ Cardinality(B) \in Nat
    BY <2>1, PlacesFinite, Zenon
  <2>3. Cardinality(A \cup B) = Cardinality(A) + Cardinality(B) - Cardinality(A \cap B)
    BY <2>2, FS_Union, Zenon
  <2>4. Cardinality(A \cap B) = 0
    BY <1>3, FS_EmptySet, Zenon
  <2> HIDE DEF A, B
  <2>5. Cardinality(A \cup B) = Cardinality(A) + Cardinality(B)
    BY <2>2, <2>3, <2>4
  <2> QED
    BY <1>2, <2>5, Zenon DEF A, B
<1>5. Places(both, 1, m, b) = Places(q, 1, m, b)
  BY <1>1 DEF Places
<1>6. Cardinality(Places(both, m + 1, m + n, b)) = Cardinality(Places(r, 1, n, b))
  <2>1. m \in Nat /\ n \in Nat /\ \A i \in 1 .. n : both[i + m] = r[i]
    BY <1>1
  <2> QED
    BY <2>1, PlacesMoved
<1> QED
  BY <1>1, <1>4, <1>5, <1>6, CountPlaces DEF m, n, both

LEMMA CountOne ==
  ASSUME NEW x, NEW b
  PROVE  Count(<<x>>, b) = IF x = b THEN 1 ELSE 0
<1>1. {k \in DOMAIN <<x>> : <<x>>[k] = b} = IF x = b THEN {1} ELSE {}
  OBVIOUS
<1> QED
  BY <1>1, FS_Singleton, FS_EmptySet DEF Count

LEMMA CountEmpty ==
  ASSUME NEW b
  PROVE  Count(<<>>, b) = 0
BY FS_EmptySet DEF Count

LEMMA CountAppend ==
  ASSUME NEW S, NEW q \in Seq(S), NEW x \in S, NEW b
  PROVE  Count(Append(q, x), b) = Count(q, b) + (IF x = b THEN 1 ELSE 0)
<1>1. <<x>> \in Seq(S)
  OBVIOUS
<1>2. Append(q, x) = q \o <<x>>
  BY AppendIsConcat, Zenon
<1>3. Count(q \o <<x>>, b) = Count(q, b) + Count(<<x>>, b)
  BY <1>1, CountConcat, Zenon
<1> QED
  BY <1>2, <1>3, CountOne, Zenon

LEMMA CountTail ==
  ASSUME NEW S, NEW q \in Seq(S), q # <<>>, NEW b
  PROVE  Count(q, b) = Count(Tail(q), b) + (IF Head(q) = b THEN 1 ELSE 0)
<1>1. Head(q) \in S /\ Tail(q) \in Seq(S) /\ <<Head(q)>> \in Seq(S)
  BY HeadTailProperties
<1>2. q = <<Head(q)>> \o Tail(q)
  <2>1. Len(q) \in Nat \ {0} /\ Head(q) = q[1]
    BY EmptySeq
  <2>2. q = SubSeq(q, 1, Len(q)) /\ Tail(q) = SubSeq(q, 2, Len(q))
    BY SubSeqFull, TailIsSubSeq
  <2>3. SubSeq(q, 1, Len(q)) = <<q[1]>> \o SubSeq(q, 1 + 1, Len(q))
    BY <2>1, SubSeqRecursiveFirst
  <2> QED
    BY <2>1, <2>2, <2>3
<1>3. Count(<<Head(q)>> \o Tail(q), b) = Count(<<Head(q)>>, b) + Count(Tail(q), b)
  BY <1>1, CountConcat, Zenon
<1>4. Count(<<Head(q)>>, b) \in Nat /\ Count(Tail(q), b) \in Nat
  BY <1>1, CountPlaces
<1>5. Count(q, b) = Count(<<Head(q)>>, b) + Count(Tail(q), b)
  BY <1>2, <1>3, Zenon
<1>6. Count(<<Head(q)>>, b) = IF Head(q) = b THEN 1 ELSE 0
  BY CountOne, Zenon
<1> QED
  BY <1>4, <1>5, <1>6

LEMMA CountThere ==
  ASSUME NEW S, NEW q \in Seq(S), NEW k \in 1 .. Len(q)
  PROVE  Count(q, q[k]) >= 1
<1>1. k \in Places(q, 1, Len(q), q[k])
  BY DEF Places
<1> QED
  BY <1>1, CountPlaces, PlacesFinite, FS_EmptySet, LenProperties

\* The first buffers of a queue and the rest.
LEMMA CountSplit ==
  ASSUME NEW S, NEW q \in Seq(S), NEW n \in 0 .. Len(q), NEW b
  PROVE  /\ SubSeq(q, 1, n) \in Seq(S) /\ SubSeq(q, n + 1, Len(q)) \in Seq(S)
         /\ Count(q, b) = Count(SubSeq(q, 1, n), b)
                            + Count(SubSeq(q, n + 1, Len(q)), b)
<1>1. Len(q) \in Nat /\ \A i \in 1 .. Len(q) : q[i] \in S
  BY LenProperties, ElementOfSeq
<1>2. SubSeq(q, 1, n) \in Seq(S) /\ Len(SubSeq(q, 1, n)) = n
  BY <1>1, SubSeqProperties
<1>3. /\ SubSeq(q, n + 1, Len(q)) \in Seq(S)
      /\ Len(SubSeq(q, n + 1, Len(q))) = Len(q) - n
  BY <1>1, SubSeqProperties
<1>4. SubSeq(q, 1, n) \o SubSeq(q, n + 1, Len(q)) = q
  <2>1. 1 \in 1 .. Len(q) + 1 /\ n \in 1 - 1 .. Len(q) /\ Len(q) \in n .. Len(q)
    BY <1>1
  <2>2. SubSeq(q, 1, n) \o SubSeq(q, n + 1, Len(q)) = SubSeq(q, 1, Len(q))
    BY <2>1, ConcatAdjacentSubSeq, Zenon
  <2> QED
    BY <2>2, SubSeqFull, Zenon
<1>5. Count(SubSeq(q, 1, n) \o SubSeq(q, n + 1, Len(q)), b)
        = Count(SubSeq(q, 1, n), b) + Count(SubSeq(q, n + 1, Len(q)), b)
  BY <1>2, <1>3, CountConcat, Zenon
<1> QED
  BY <1>2, <1>3, <1>4, <1>5, Zenon

-----------------------------------------------------------------------------
(* The inductive invariant.                                                *)

Encoders == [pc : {"off", "boot", "row", "buffer", "encode", "give", "hang"},
             row : Rows, buf : 0 .. 2 * NBuf]

BeamTyped == /\ beam \in Beams /\ loaded \in Lines
             /\ sent \in [line : Lines, at : Beams]
QueuesTyped == /\ colourValid \in Seq(Rows) /\ colourFree \in Seq(Rows)
               /\ tmdsValid \in Seq(Buffers) /\ tmdsFree \in Seq(Buffers)
QueuesFit == /\ Len(colourValid) <= QCap /\ Len(colourFree) <= QCap
             /\ Len(tmdsValid) <= QCap /\ Len(tmdsFree) <= QCap
IrqTyped == /\ releaseNext \in Buffers \cup {None}
            /\ release \in Buffers \cup {None}
            /\ late \in 0 .. MaxLate
            /\ irq \in {"off", "on", "blocked", "panic"}
            /\ nextScanline \in Rows
EncoderTyped == /\ encoder \in Encoders
                /\ content \in [Buffers -> Rows \cup {None}]
HostTyped == /\ trailing \in TrailingWords
             /\ ctor \in {"idle", "first", "second", "spin"}
             /\ active \in Objects \cup {None} /\ fb \subseteq Objects
             /\ sms \in [Pios -> 0 .. 4]
Typed == BeamTyped /\ QueuesTyped /\ IrqTyped /\ EncoderTyped /\ HostTyped

\* What each of the two cores is doing tells what the other can be doing.
Phases ==
  /\ active = None <=> encoder.pc = "off"
  /\ irq = "off" <=> encoder.pc \in {"off", "boot"}
  /\ irq # "panic"
  /\ encoder.buf # 0 <=> encoder.pc \in {"encode", "hang"}
  /\ active = None =>
       /\ ctor = "idle"
       /\ beam = FirstBeam /\ loaded = BlankLine /\ sent = NothingSent
  /\ ctor # "idle" => irq # "blocked" /\ beam.region # "active"

One(condition) == IF condition THEN 1 ELSE 0

\* As many buffers are about as were made.
Tally ==
  active # None =>
    Len(tmdsFree) + Len(tmdsValid) + One(encoder.buf # 0)
      + One(releaseNext # None) + One(release # None) = 2 * NBuf

\* The rows queued and not yet taken by the beam: those encoded, the one the
\* encoder is at, those it has not begun.
AtRow == encoder.pc \in {"buffer", "encode", "hang"}
Begun == One(AtRow)
InFlight == Len(tmdsValid) + Begun + Len(colourValid)

\* Two rows are ahead of the beam, the late ones not counted.
Working == active # None /\ irq # "blocked"
Paced ==
  Working =>
    /\ ctor = "first" => InFlight = 0 /\ late = 0 /\ nextScanline = 0
    /\ ctor = "second" => InFlight = 1 /\ late = 0 /\ nextScanline = 1
    /\ ctor \in {"spin", "idle"} => InFlight = 2 + late

Kept == Typed /\ QueuesFit /\ Phases /\ Tally /\ Paced

LEMMA NumberFacts ==
  /\ NBuf \in Nat /\ NBuf >= 1 /\ QCap \in Nat /\ QCap >= 2 /\ 2 * NBuf <= QCap
  /\ Height \in Nat /\ Height > 2 /\ MaxLate \in Nat
  /\ 0 \in Rows /\ 1 \in Rows /\ 2 \in Rows
  /\ None \notin Buffers /\ None \notin Rows /\ None \notin Objects
  /\ \A b \in Buffers : b \in Nat /\ b # 0
BY SizesAssumption, NoneAssumption DEF Rows, Buffers

\* What the interrupt takes from the queue of encoded rows.
LEMMA DropFacts ==
  ASSUME QueuesTyped, IrqTyped
  PROVE  /\ Len(tmdsValid) \in Nat /\ Len(tmdsFree) \in Nat
         /\ late \in Nat /\ Dropped \in 0 .. Len(tmdsValid) /\ Dropped <= late
         /\ StillValid \in Seq(Buffers)
         /\ Len(StillValid) = Len(tmdsValid) - Dropped
         /\ \A i \in 1 .. Len(StillValid) : StillValid[i] = tmdsValid[i + Dropped]
         /\ StillValid = <<>> <=> Dropped = Len(tmdsValid)
         /\ StillValid # <<>> => Dropped = late
         /\ SubSeq(tmdsValid, 1, Dropped) \in Seq(Buffers)
         /\ Len(SubSeq(tmdsValid, 1, Dropped)) = Dropped
<1>1. /\ Len(tmdsValid) \in Nat /\ Len(tmdsFree) \in Nat
      /\ \A i \in 1 .. Len(tmdsValid) : tmdsValid[i] \in Buffers
  BY LenProperties, ElementOfSeq DEF QueuesTyped
<1>2. late \in Nat
  BY NumberFacts DEF IrqTyped
<1>3. /\ Dropped \in 0 .. Len(tmdsValid) /\ Dropped <= late
      /\ Dropped # Len(tmdsValid) => Dropped = late
  BY <1>1, <1>2 DEF Dropped
<1> HIDE DEF Dropped
<1>4. /\ StillValid \in Seq(Buffers)
      /\ Len(StillValid) = Len(tmdsValid) - Dropped
      /\ \A i \in 1 .. Len(StillValid) : StillValid[i] = tmdsValid[i + Dropped]
  <2>1. \A i \in Dropped + 1 .. Len(tmdsValid) : tmdsValid[i] \in Buffers
    BY <1>1, <1>3
  <2>2. Dropped + 1 \in Int /\ Len(tmdsValid) \in Int
    BY <1>1, <1>3
  <2>3. /\ StillValid \in Seq(Buffers)
        /\ Len(StillValid) = IF Dropped + 1 <= Len(tmdsValid)
                               THEN Len(tmdsValid) - (Dropped + 1) + 1 ELSE 0
        /\ \A i \in 1 .. Len(tmdsValid) - (Dropped + 1) + 1 :
             StillValid[i] = tmdsValid[(Dropped + 1) + i - 1]
    BY <2>1, <2>2, SubSeqProperties DEF StillValid
  <2>4. Len(StillValid) = Len(tmdsValid) - Dropped
    BY <1>1, <1>3, <2>3
  <2>5. ASSUME NEW i \in 1 .. Len(StillValid)
        PROVE  StillValid[i] = tmdsValid[i + Dropped]
    <3>1. i \in 1 .. Len(tmdsValid) - (Dropped + 1) + 1
      BY <1>1, <1>3, <2>4
    <3>2. (Dropped + 1) + i - 1 = i + Dropped
      BY <1>3
    <3> QED
      BY <2>3, <3>1, <3>2
  <2> QED
    BY <2>3, <2>4, <2>5
<1>5. StillValid = <<>> <=> Dropped = Len(tmdsValid)
  <2>1. StillValid = <<>> <=> Len(StillValid) = 0
    BY <1>4, EmptySeq
  <2> QED
    BY <1>1, <1>3, <1>4, <2>1
<1>6. /\ SubSeq(tmdsValid, 1, Dropped) \in Seq(Buffers)
      /\ Len(SubSeq(tmdsValid, 1, Dropped)) = Dropped
  <2>1. \A i \in 1 .. Dropped : tmdsValid[i] \in Buffers
    BY <1>1, <1>3
  <2>2. /\ SubSeq(tmdsValid, 1, Dropped) \in Seq(Buffers)
        /\ Len(SubSeq(tmdsValid, 1, Dropped))
             = IF 1 <= Dropped THEN Dropped - 1 + 1 ELSE 0
    BY <1>3, <2>1, SubSeqProperties
  <2> QED
    BY <1>3, <2>2
<1> QED
  BY <1>1, <1>2, <1>3, <1>4, <1>5, <1>6

\* What it gives back.
LEMMA RecycleFacts ==
  ASSUME QueuesTyped, IrqTyped
  PROVE  /\ FreeAgain \in Seq(Buffers)
         /\ Len(FreeAgain) = Len(tmdsFree) + One(release # None) + Dropped
         /\ \A b \in Buffers : Count(FreeAgain, b) =
              Count(tmdsFree, b) + One(release = b)
                + Count(SubSeq(tmdsValid, 1, Dropped), b)
<1> DEFINE D == SubSeq(tmdsValid, 1, Dropped)
<1>1. /\ D \in Seq(Buffers) /\ Len(D) = Dropped /\ Dropped \in Nat
      /\ tmdsFree \in Seq(Buffers) /\ Len(tmdsFree) \in Nat
  BY DropFacts DEF QueuesTyped
<1>2. release \in Buffers \cup {None} /\ None \notin Buffers
  BY NumberFacts DEF IrqTyped
<1>3. /\ Recycled \in Seq(Buffers)
      /\ Len(Recycled) = Len(tmdsFree) + One(release # None)
      /\ \A b \in Buffers : Count(Recycled, b) = Count(tmdsFree, b) + One(release = b)
  <2>1. CASE release = None
    <3>1. Recycled = tmdsFree /\ One(release # None) = 0
      BY <2>1 DEF Recycled, One
    <3>2. \A b \in Buffers : One(release = b) = 0 /\ Count(tmdsFree, b) \in Nat
      BY <1>1, <1>2, <2>1, CountPlaces DEF One
    <3> QED
      BY <1>1, <3>1, <3>2
  <2>2. CASE release # None
    <3>1. release \in Buffers /\ Recycled = Append(tmdsFree, release)
      BY <1>2, <2>2 DEF Recycled
    <3>2. /\ Append(tmdsFree, release) \in Seq(Buffers)
          /\ Len(Append(tmdsFree, release)) = Len(tmdsFree) + 1
      BY <1>1, <3>1
    <3>3. ASSUME NEW b \in Buffers
          PROVE  Count(Append(tmdsFree, release), b)
                   = Count(tmdsFree, b) + (IF release = b THEN 1 ELSE 0)
      BY <1>1, <3>1, CountAppend
    <3> QED
      BY <2>2, <3>1, <3>2, <3>3 DEF One
  <2> QED
    BY <2>1, <2>2
<1>4. /\ FreeAgain \in Seq(Buffers)
      /\ Len(FreeAgain) = Len(Recycled) + Dropped
  BY <1>1, <1>3 DEF FreeAgain
<1>5. ASSUME NEW b \in Buffers
      PROVE  Count(FreeAgain, b) = Count(Recycled, b) + Count(D, b)
  <2> HIDE DEF D
  <2>0. Recycled \in Seq(Buffers) /\ D \in Seq(Buffers)
    BY <1>1, <1>3
  <2>1. Count(Recycled \o D, b) = Count(Recycled, b) + Count(D, b)
    BY <2>0, CountConcat, Zenon
  <2> QED
    BY <2>1 DEF FreeAgain, D
<1>6. One(release # None) \in Nat
  BY DEF One
<1>7. Len(FreeAgain) = Len(tmdsFree) + One(release # None) + Dropped
  BY <1>1, <1>3, <1>4, <1>6
<1> QED
  BY <1>3, <1>4, <1>5, <1>7

-----------------------------------------------------------------------------
(* What the interrupt does.                                                *)

LEMMA NeverPanics ==
  ASSUME Kept, irq = "on"
  PROVE  active # None /\ ~Panics
<1>1. active # None
  BY DEF Kept, Phases
<1>2. /\ Len(tmdsFree) \in Nat /\ Len(tmdsValid) \in Nat
      /\ One(encoder.buf # 0) \in Nat /\ One(releaseNext # None) \in Nat
  BY DropFacts DEF Kept, Typed, One
<1>3. release # None => Len(tmdsFree) < 2 * NBuf
  BY <1>1, <1>2, NumberFacts DEF Kept, Tally, One
<1> QED
  BY <1>1, <1>2, <1>3, NumberFacts DEF Panics

LEMMA IrqEffect ==
  ASSUME Kept, DmaIrq
  PROVE  /\ irq = "on" /\ active # None
         /\ beam' = NextBeam(beam) /\ loaded' = ChosenLine(NextBeam(beam))
         /\ sent' = [line |-> loaded, at |-> beam]
         /\ tmdsFree' = FreeAgain
         /\ tmdsValid' = IF Taken(NextBeam(beam)) THEN Tail(StillValid) ELSE StillValid
         /\ release' = releaseNext
         /\ releaseNext' = IF Taken(NextBeam(beam)) THEN Head(StillValid) ELSE None
         /\ late' = LateAfter(NextBeam(beam)) /\ late' <= MaxLate
         /\ NextBeam(beam).region = "active" => ctor = "idle"
         /\ IF CallsBack(NextBeam(beam))
              THEN Callback
              ELSE UNCHANGED <<colourValid, colourFree, nextScanline, irq>>
         /\ UNCHANGED <<encoder, content, trailing, core0>>
<1>1. ~Panics /\ irq = "on" /\ active # None
  BY NeverPanics DEF DmaIrq
<1> QED
  BY <1>1 DEF DmaIrq, KeepsUp, StartsInTime

\* The queue of encoded rows after it.
LEMMA IrqQueue ==
  ASSUME Kept, DmaIrq, NEW t, t = One(Taken(NextBeam(beam)))
  PROVE  /\ t \in {0, 1}
         /\ tmdsValid' \in Seq(Buffers)
         /\ Len(tmdsValid') = Len(tmdsValid) - Dropped - t
         /\ \A i \in 1 .. Len(tmdsValid') : tmdsValid'[i] = tmdsValid[i + Dropped + t]
         /\ t = 1 => /\ releaseNext' \in Buffers
                     /\ Dropped < Len(tmdsValid) /\ Dropped = late
                     /\ releaseNext' = tmdsValid[Dropped + 1]
         /\ t = 0 => releaseNext' = None
         /\ \A b \in Buffers : Count(tmdsValid, b) =
              Count(SubSeq(tmdsValid, 1, Dropped), b) + Count(tmdsValid', b)
                + One(releaseNext' = b)
<1>1. /\ QueuesTyped /\ IrqTyped /\ tmdsValid \in Seq(Buffers)
      /\ None \notin Buffers
  BY NumberFacts DEF Kept, Typed, QueuesTyped
<1>2. /\ Len(tmdsValid) \in Nat /\ Dropped \in 0 .. Len(tmdsValid)
      /\ StillValid \in Seq(Buffers)
      /\ Len(StillValid) = Len(tmdsValid) - Dropped
      /\ \A i \in 1 .. Len(StillValid) : StillValid[i] = tmdsValid[i + Dropped]
      /\ StillValid = <<>> <=> Dropped = Len(tmdsValid)
      /\ StillValid # <<>> => Dropped = late
  BY <1>1, DropFacts
<1>3. ASSUME NEW b \in Buffers
      PROVE  /\ Count(tmdsValid, b) = Count(SubSeq(tmdsValid, 1, Dropped), b)
                                        + Count(StillValid, b)
             /\ Count(SubSeq(tmdsValid, 1, Dropped), b) \in Nat
             /\ Count(StillValid, b) \in Nat
  <2>1. /\ SubSeq(tmdsValid, 1, Dropped) \in Seq(Buffers)
        /\ Count(tmdsValid, b) = Count(SubSeq(tmdsValid, 1, Dropped), b)
                                   + Count(StillValid, b)
    <3>1. tmdsValid \in Seq(Buffers) /\ Dropped \in 0 .. Len(tmdsValid)
      BY <1>1, <1>2
    <3>2. /\ SubSeq(tmdsValid, 1, Dropped) \in Seq(Buffers)
          /\ Count(tmdsValid, b) = Count(SubSeq(tmdsValid, 1, Dropped), b)
               + Count(SubSeq(tmdsValid, Dropped + 1, Len(tmdsValid)), b)
      BY <3>1, CountSplit, Zenon
    <3> QED
      BY <3>2 DEF StillValid
  <2> QED
    BY <1>2, <2>1, CountPlaces, Zenon
<1>4. CASE Taken(NextBeam(beam))
  <2>1. /\ t = 1 /\ StillValid # <<>>
        /\ tmdsValid' = Tail(StillValid) /\ releaseNext' = Head(StillValid)
    BY <1>4, IrqEffect DEF One, Taken
  <2>2. /\ Head(StillValid) \in Buffers /\ Tail(StillValid) \in Seq(Buffers)
        /\ Len(Tail(StillValid)) = Len(StillValid) - 1
        /\ \A i \in 1 .. Len(Tail(StillValid)) : Tail(StillValid)[i] = StillValid[i + 1]
        /\ Head(StillValid) = StillValid[1]
    BY <1>2, <2>1, HeadTailProperties
  <2>3. Dropped < Len(tmdsValid)
    BY <1>2, <2>1
  <2>4. ASSUME NEW i \in 1 .. Len(tmdsValid')
        PROVE  tmdsValid'[i] = tmdsValid[i + Dropped + t]
    <3>1. /\ i \in 1 .. Len(Tail(StillValid)) /\ Dropped \in Nat /\ t = 1
          /\ Len(StillValid) \in Nat /\ Len(Tail(StillValid)) = Len(StillValid) - 1
      BY <1>2, <2>1, <2>2
    <3>2. i + 1 \in 1 .. Len(StillValid) /\ (i + 1) + Dropped = i + Dropped + t
      BY <3>1
    <3> QED
      BY <1>2, <2>1, <2>2, <3>1, <3>2
  <2>5. releaseNext' = tmdsValid[Dropped + 1]
    <3>1. 1 \in 1 .. Len(StillValid) /\ 1 + Dropped = Dropped + 1
      BY <1>2, <2>3
    <3> QED
      BY <1>2, <2>1, <2>2, <3>1
  <2>6. ASSUME NEW b \in Buffers
        PROVE  Count(tmdsValid, b) =
                 Count(SubSeq(tmdsValid, 1, Dropped), b) + Count(tmdsValid', b)
                   + One(releaseNext' = b)
    <3>1. Count(StillValid, b) = Count(Tail(StillValid), b)
                                   + (IF Head(StillValid) = b THEN 1 ELSE 0)
      BY <1>2, <2>1, CountTail, Zenon
    <3>2. Count(Tail(StillValid), b) \in Nat
      BY <2>2, CountPlaces, Zenon
    <3> QED
      BY <1>3, <2>1, <3>1, <3>2 DEF One
  <2> QED
    BY <1>2, <2>1, <2>2, <2>3, <2>4, <2>5, <2>6
<1>5. CASE ~Taken(NextBeam(beam))
  <2>1. t = 0 /\ tmdsValid' = StillValid /\ releaseNext' = None
    BY <1>5, IrqEffect DEF One
  <2>2. ASSUME NEW b \in Buffers
        PROVE  Count(tmdsValid, b) =
                 Count(SubSeq(tmdsValid, 1, Dropped), b) + Count(tmdsValid', b)
                   + One(releaseNext' = b)
    BY <1>1, <1>3, <2>1 DEF One
  <2>3. ASSUME NEW i \in 1 .. Len(tmdsValid')
        PROVE  tmdsValid'[i] = tmdsValid[i + Dropped + t]
    BY <1>2, <2>1
  <2> QED
    BY <1>2, <2>1, <2>2, <2>3
<1> QED
  BY <1>4, <1>5

-----------------------------------------------------------------------------
(* Types.                                                                  *)

\* Whatever stops the hardware leaves the queues and the rows alone.
Halts ==
  /\ HwStop /\ ctor = "idle" /\ fb' \subseteq fb
  /\ UNCHANGED <<ctor, sms>>

LEMMA NextCases ==
  ASSUME Next
  PROVE  \/ DmaIrq \/ StartDvi \/ TakeRow \/ TakeBuffer \/ Encode \/ GiveRow
         \/ QueueFirst \/ QueueSecond \/ Ready \/ Halts
         \/ \E o \in Objects : Construct(o)
<1>1. ASSUME NEW o \in Objects, Deinit(o) PROVE Halts
  BY <1>1 DEF Deinit, Halts
<1>2. CASE ConstructFails
  BY <1>2 DEF ConstructFails, Halts
<1>3. CASE SoftReset
  BY <1>3 DEF SoftReset, Halts
<1> QED
  BY <1>1, <1>2, <1>3 DEF Next

LEMMA StartTyped ==
  /\ FirstBeam \in Beams /\ BlankLine \in Lines
  /\ NothingSent \in [line : Lines, at : Beams]
  /\ FirstBeam.region = "front"
<1>1. FirstBeam \in Beams
  BY MakeBeam, LinesAssumption DEF FirstBeam, RegionNames, LinesOf
<1> QED
  BY <1>1 DEF FirstBeam, NothingSent, Lines

LEMMA FreshTyped ==
  /\ <<>> \in Seq(Rows) /\ <<>> \in Seq(Buffers)
  /\ [k \in Buffers |-> k] \in Seq(Buffers)
  /\ Len([k \in Buffers |-> k]) = 2 * NBuf
  /\ IdleEncoder \in Encoders /\ [IdleEncoder EXCEPT !.pc = "boot"] \in Encoders
<1>1. Buffers = 1 .. 2 * NBuf /\ 2 * NBuf \in Nat
  BY NumberFacts DEF Buffers
<1>2. [k \in 1 .. 2 * NBuf |-> k] \in Seq(1 .. 2 * NBuf)
  BY <1>1
<1>3. Len([k \in 1 .. 2 * NBuf |-> k]) = 2 * NBuf
  BY <1>1
<1>4. IdleEncoder \in Encoders /\ [IdleEncoder EXCEPT !.pc = "boot"] \in Encoders
  BY NumberFacts DEF IdleEncoder, Encoders
<1> QED
  BY <1>1, <1>2, <1>3, <1>4

LEMMA InitTyped == Init => Typed
<1> SUFFICES ASSUME Init PROVE Typed
  OBVIOUS
<1> USE NumberFacts, StartTyped, FreshTyped
<1>1. BeamTyped
  BY DEF Init, BeamTyped
<1>2. QueuesTyped
  BY DEF Init, QueuesTyped
<1>3. IrqTyped
  BY DEF Init, IrqTyped
<1>4. EncoderTyped
  BY DEF Init, EncoderTyped
<1>5. HostTyped
  BY DEF Init, HostTyped
<1> QED
  BY <1>1, <1>2, <1>3, <1>4, <1>5 DEF Typed

LEMMA BeamTypedStep ==
  ASSUME Kept, Next
  PROVE  BeamTyped'
<1>1. BeamTyped /\ QueuesTyped /\ IrqTyped
  BY DEF Kept, Typed
<1>2. CASE DmaIrq
  <2>1. NextBeam(beam) \in Beams /\ NextBeam(beam).region \in RegionNames
    BY <1>1, NextBeamFacts, BeamFacts DEF BeamTyped
  <2>2. StillValid # <<>> => Head(StillValid) \in Buffers
    BY <1>1, DropFacts, HeadTailProperties
  <2>3. ChosenLine(NextBeam(beam)) \in Lines
    BY <2>1, <2>2 DEF ChosenLine, Lines, RegionNames
  <2>4. [line |-> loaded, at |-> beam] \in [line : Lines, at : Beams]
    BY <1>1 DEF BeamTyped
  <2> QED
    BY <1>2, <2>1, <2>3, <2>4, IrqEffect DEF BeamTyped
<1>3. CASE Halts \/ \E o \in Objects : Construct(o)
  BY <1>1, <1>3, StartTyped DEF Halts, HwStop, Stopped, Construct, BeamTyped, beamVars
<1>4. CASE StartDvi \/ TakeRow \/ TakeBuffer \/ Encode \/ GiveRow
           \/ QueueFirst \/ QueueSecond \/ Ready
  BY <1>1, <1>4 DEF StartDvi, TakeRow, TakeBuffer, Encode, GiveRow, QueueFirst,
     QueueSecond, QueueRow, Ready, BeamTyped, beamVars
<1> QED
  BY <1>2, <1>3, <1>4, NextCases

LEMMA RowQueued ==
  ASSUME Kept, QueueFirst \/ QueueSecond
  PROVE  /\ nextScanline = 0 \/ nextScanline = 1
         /\ nextScanline' = nextScanline + 1
         /\ InFlight = nextScanline /\ late = 0
         /\ active # None /\ irq # "blocked" /\ Working
         /\ colourValid' = Append(colourValid, nextScanline)
         /\ Len(colourValid) <= 1
<1>1. Len(colourValid) \in Nat /\ Len(tmdsValid) \in Nat /\ Begun \in Nat
  BY DEF Kept, Typed, QueuesTyped, Begun, One
<1>2. active # None /\ irq # "blocked" /\ Working
  BY DEF QueueFirst, QueueSecond, QueueRow, Kept, Phases, Working
<1>3. /\ InFlight = nextScanline /\ late = 0
      /\ nextScanline = 0 \/ nextScanline = 1
  BY <1>2 DEF QueueFirst, QueueSecond, QueueRow, Kept, Paced
<1>4. Len(colourValid) <= 1
  BY <1>1, <1>3 DEF InFlight
<1> QED
  BY <1>2, <1>3, <1>4 DEF QueueFirst, QueueSecond, QueueRow

LEMMA QueuesTypedStep ==
  ASSUME Kept, Next
  PROVE  QueuesTyped'
<1>1. QueuesTyped /\ IrqTyped /\ nextScanline \in Rows
  BY DEF Kept, Typed, IrqTyped
<1>0. Append(colourValid, nextScanline) \in Seq(Rows)
  BY <1>1, AppendProperties DEF QueuesTyped
<1>2. CASE DmaIrq
  <2>1. tmdsFree' \in Seq(Buffers) /\ tmdsValid' \in Seq(Buffers)
    BY <1>1, <1>2, IrqEffect, IrqQueue, RecycleFacts
  <2>2. colourValid' \in Seq(Rows) /\ colourFree' \in Seq(Rows)
    BY <1>0, <1>1, <1>2, IrqEffect, FreshTyped DEF Callback, QueuesTyped
  <2> QED
    BY <2>1, <2>2 DEF QueuesTyped
<1>3. CASE Halts
  BY <1>1, <1>3 DEF Halts, HwStop, QueuesTyped, queues
<1>4. CASE \E o \in Objects : Construct(o)
  BY <1>4, FreshTyped DEF Construct, ClearQueues, QueuesTyped
<1>5. CASE QueueFirst \/ QueueSecond
  BY <1>0, <1>1, <1>5 DEF QueueFirst, QueueSecond, QueueRow, QueuesTyped
<1>6. CASE TakeRow
  BY <1>1, <1>6, HeadTailProperties DEF TakeRow, QueuesTyped
<1>7. CASE TakeBuffer
  BY <1>1, <1>7, HeadTailProperties DEF TakeBuffer, QueuesTyped
<1>8. CASE Encode
  <2>1. encoder.buf \in Buffers
    BY <1>8, NumberFacts DEF Encode, Kept, Phases, Typed, EncoderTyped, Encoders, Buffers
  <2> QED
    BY <1>1, <1>8, <2>1 DEF Encode, QueuesTyped
<1>9. CASE GiveRow
  <2>1. encoder.row \in Rows
    BY DEF Kept, Typed, EncoderTyped, Encoders
  <2> QED
    BY <1>1, <1>9, <2>1 DEF GiveRow, QueuesTyped
<1>10. CASE StartDvi \/ Ready
  BY <1>1, <1>10 DEF StartDvi, Ready, QueuesTyped, queues
<1> QED
  BY <1>2, <1>3, <1>4, <1>5, <1>6, <1>7, <1>8, <1>9, <1>10, NextCases

LEMMA IrqTypedStep ==
  ASSUME Kept, Next
  PROVE  IrqTyped'
<1>1. QueuesTyped /\ IrqTyped
  BY DEF Kept, Typed
<1>2. CASE DmaIrq
  <2>1. /\ release' \in Buffers \cup {None} /\ releaseNext' \in Buffers \cup {None}
    BY <1>1, <1>2, IrqEffect, IrqQueue DEF IrqTyped
  <2>2. late' \in 0 .. MaxLate
    <3>1. late - Dropped \in Nat
      BY <1>1, DropFacts
    <3>2. LateAfter(NextBeam(beam)) \in Nat
      BY <3>1 DEF LateAfter
    <3> QED
      BY <1>2, <3>2, IrqEffect, NumberFacts
  <2>3. irq' \in {"off", "on", "blocked", "panic"} /\ nextScanline' \in Rows
    <3>1. NextRow \in Rows
      BY <1>1, NumberFacts DEF NextRow, IrqTyped, Rows
    <3> QED
      BY <1>1, <1>2, <3>1, IrqEffect DEF Callback, IrqTyped
  <2> QED
    BY <2>1, <2>2, <2>3 DEF IrqTyped
<1>3. CASE Halts
  BY <1>1, <1>3 DEF Halts, HwStop, Stopped, IrqTyped
<1>4. CASE \E o \in Objects : Construct(o)
  BY <1>4, NumberFacts DEF Construct, ClearQueues, IrqTyped
<1>5. CASE QueueFirst \/ QueueSecond
  <2>1. nextScanline' \in Rows
    BY <1>5, RowQueued, NumberFacts
  <2> QED
    BY <1>1, <1>5, <2>1 DEF QueueFirst, QueueSecond, QueueRow, IrqTyped
<1>6. CASE StartDvi
  BY <1>1, <1>6 DEF StartDvi, IrqTyped
<1>7. CASE TakeRow \/ TakeBuffer \/ Encode \/ GiveRow \/ Ready
  BY <1>1, <1>7 DEF TakeRow, TakeBuffer, Encode, GiveRow, Ready, IrqTyped, irqVars
<1> QED
  BY <1>2, <1>3, <1>4, <1>5, <1>6, <1>7, NextCases

LEMMA EncoderTypedStep ==
  ASSUME Kept, Next
  PROVE  EncoderTyped'
<1>1. EncoderTyped /\ QueuesTyped
  BY DEF Kept, Typed
<1>2. ASSUME NEW p \in {"off", "boot", "row", "buffer", "encode", "give", "hang"},
             NEW r \in Rows, NEW b \in 0 .. 2 * NBuf
      PROVE  [encoder EXCEPT !.pc = p, !.row = r, !.buf = b] \in Encoders
  BY <1>1 DEF EncoderTyped, Encoders
<1>3. encoder \in Encoders /\ encoder.row \in Rows /\ encoder.buf \in 0 .. 2 * NBuf
      /\ 0 \in 0 .. 2 * NBuf
  BY <1>1, NumberFacts DEF EncoderTyped, Encoders
<1>4. \A b \in Buffers : b \in 0 .. 2 * NBuf
  BY NumberFacts DEF Buffers
<1>5. CASE StartDvi \/ GiveRow
  BY <1>1, <1>5 DEF StartDvi, GiveRow, EncoderTyped, Encoders
<1>6. CASE TakeRow
  <2>1. Head(colourValid) \in Rows
    BY <1>1, <1>6, HeadTailProperties DEF TakeRow, QueuesTyped
  <2> QED
    BY <1>1, <1>6, <2>1 DEF TakeRow, EncoderTyped, Encoders
<1>7. CASE TakeBuffer
  <2>1. Head(tmdsFree) \in Buffers
    BY <1>1, <1>7, HeadTailProperties DEF TakeBuffer, QueuesTyped
  <2>2. encoder' \in Encoders
    BY <1>1, <1>4, <1>7, <2>1 DEF TakeBuffer, EncoderTyped, Encoders
  <2>3. content' \in [Buffers -> Rows \cup {None}]
    BY <1>1, <1>7, <2>1 DEF TakeBuffer, EncoderTyped
  <2> QED
    BY <2>2, <2>3 DEF EncoderTyped
<1>8. CASE Encode
  <2>1. encoder' \in Encoders
    BY <1>1, <1>3, <1>8 DEF Encode, EncoderTyped, Encoders
  <2>2. content' \in [Buffers -> Rows \cup {None}]
    BY <1>1, <1>3, <1>8 DEF Encode, EncoderTyped
  <2> QED
    BY <2>1, <2>2 DEF EncoderTyped
<1>9. CASE Halts
  BY <1>1, <1>9, FreshTyped DEF Halts, HwStop, Stopped, EncoderTyped
<1>10. CASE \E o \in Objects : Construct(o)
  BY <1>10, FreshTyped DEF Construct, ClearQueues, EncoderTyped
<1>11. CASE DmaIrq \/ QueueFirst \/ QueueSecond \/ Ready
  BY <1>1, <1>11 DEF DmaIrq, QueueFirst, QueueSecond, QueueRow, Ready, EncoderTyped
<1> QED
  BY <1>5, <1>6, <1>7, <1>8, <1>9, <1>10, <1>11, NextCases

LEMMA FirstPioFree ==
  ASSUME FreePios # {}
  PROVE  FirstPio \in FreePios
<1>1. FreePios \subseteq Nat
  BY PiosAssumption DEF FreePios
<1>2. IsWellFoundedOn(OpToRel(<, Nat), Nat)
  BY NatLessThanWellFounded
<1>3. \E p \in FreePios : \A q \in FreePios : ~(<<q, p>> \in OpToRel(<, Nat))
  BY <1>1, <1>2, WFMin
<1>4. ASSUME NEW p \in Nat, NEW q \in Nat, q < p
      PROVE  <<q, p>> \in OpToRel(<, Nat)
  <2>1. <<q, p>> \in Nat \X Nat /\ <<q, p>>[1] < <<q, p>>[2]
    BY <1>4
  <2> QED
    BY <2>1 DEF OpToRel
<1>5. \E p \in FreePios : \A q \in FreePios : p <= q
  <2>1. PICK p \in FreePios :
          \A q \in FreePios : ~(<<q, p>> \in OpToRel(<, Nat))
    BY <1>3
  <2>2. ASSUME NEW q \in FreePios PROVE p <= q
    <3>1. p \in Nat /\ q \in Nat
      BY <1>1
    <3>2. ~(q < p)
      <4>1. ~(<<q, p>> \in OpToRel(<, Nat))
        BY <2>1
      <4> QED
        BY <1>4, <3>1, <4>1, Zenon
    <3> QED
      BY <3>1, <3>2
  <2> QED
    BY <2>2
<1> QED
  BY <1>5 DEF FirstPio

LEMMA HostTypedStep ==
  ASSUME Kept, Next
  PROVE  HostTyped'
<1>1. HostTyped
  BY DEF Kept, Typed
<1>2. CASE Halts
  BY <1>1, <1>2 DEF Halts, HwStop, Stopped, HostTyped
<1>3. ASSUME NEW o \in Objects, Construct(o) PROVE HostTyped'
  <2>1. FirstPio \in Pios /\ 4 - sms[FirstPio] >= 3
    BY <1>3, FirstPioFree DEF Construct, FreePios
  <2>2. sms' \in [Pios -> 0 .. 4]
    BY <1>1, <1>3, <2>1 DEF Construct, HostTyped
  <2> QED
    BY <1>1, <1>3, <2>2 DEF Construct, HostTyped
<1>4. CASE DmaIrq \/ StartDvi \/ TakeRow \/ TakeBuffer \/ Encode \/ GiveRow
  BY <1>1, <1>4 DEF DmaIrq, StartDvi, TakeRow, TakeBuffer, Encode, GiveRow,
     HostTyped, core0
<1>5. CASE QueueFirst \/ QueueSecond \/ Ready
  BY <1>1, <1>5 DEF QueueFirst, QueueSecond, QueueRow, Ready, HostTyped
<1> QED
  BY <1>2, <1>3, <1>4, <1>5, NextCases

-----------------------------------------------------------------------------
(* The counts.                                                             *)

LEMMA OneFacts ==
  /\ One(encoder.buf # 0) \in Nat /\ Begun \in Nat /\ Begun' \in Nat
  /\ One(releaseNext # None) \in Nat /\ One(release # None) \in Nat
BY DEF One, Begun

LEMMA LengthsAreNumbers ==
  ASSUME QueuesTyped
  PROVE  /\ Len(colourValid) \in Nat /\ Len(colourFree) \in Nat
         /\ Len(tmdsValid) \in Nat /\ Len(tmdsFree) \in Nat
BY DEF QueuesTyped

LEMMA QueuesFitStep ==
  ASSUME Kept, Next
  PROVE  QueuesFit'
<1>1. QueuesTyped /\ IrqTyped /\ QueuesFit
  BY DEF Kept, Typed
<1>2. CASE DmaIrq
  <2>1. Len(tmdsFree') <= 2 * NBuf
    <3>1. Len(FreeAgain) = Len(tmdsFree) + One(release # None) + Dropped
      BY <1>1, RecycleFacts
    <3>2. Dropped \in Nat /\ Dropped <= Len(tmdsValid)
      BY <1>1, DropFacts
    <3>3. Len(tmdsFree) + Len(tmdsValid) + One(encoder.buf # 0)
            + One(releaseNext # None) + One(release # None) = 2 * NBuf
      BY <1>2, IrqEffect DEF Kept, Tally
    <3>4. Len(FreeAgain) <= 2 * NBuf
      BY <1>1, <3>1, <3>2, <3>3, OneFacts, LengthsAreNumbers, NumberFacts, SMTT(30)
    <3> QED
      BY <1>2, <3>4, IrqEffect
  <2>2. Len(tmdsValid') <= Len(tmdsValid)
    <3>1. Dropped \in Nat
      BY <1>1, DropFacts
    <3> QED
      BY <1>1, <1>2, <3>1, IrqQueue, LengthsAreNumbers DEF One
  <2>3. Len(colourValid') <= QCap
    <3>1. Len(colourValid) # QCap => Len(Append(colourValid, nextScanline)) <= QCap
      BY <1>1, NumberFacts DEF QueuesTyped, QueuesFit, IrqTyped
    <3> QED
      BY <1>1, <1>2, <3>1, IrqEffect DEF Callback, QueuesFit
  <2>4. Len(colourFree') <= QCap
    BY <1>1, <1>2, IrqEffect, NumberFacts DEF Callback, QueuesFit
  <2> QED
    BY <1>1, <2>1, <2>2, <2>3, <2>4, NumberFacts, LengthsAreNumbers,
       QueuesTypedStep DEF QueuesFit, QueuesTyped
<1>3. CASE Halts \/ StartDvi \/ Ready
  BY <1>1, <1>3 DEF Halts, HwStop, StartDvi, Ready, QueuesFit, queues
<1>4. CASE \E o \in Objects : Construct(o)
  BY <1>4, FreshTyped, NumberFacts DEF Construct, ClearQueues, QueuesFit
<1>5. CASE QueueFirst \/ QueueSecond
  <2>1. Len(colourValid') <= 2
    BY <1>1, <1>5, RowQueued DEF QueuesTyped, IrqTyped
  <2> QED
    BY <1>1, <1>5, <2>1, NumberFacts, QueuesTypedStep
       DEF QueueFirst, QueueSecond, QueueRow, QueuesFit, QueuesTyped
<1>6. CASE TakeRow
  BY <1>1, <1>6, HeadTailProperties, NumberFacts DEF TakeRow, QueuesTyped, QueuesFit
<1>7. CASE TakeBuffer
  BY <1>1, <1>7, HeadTailProperties, NumberFacts
     DEF TakeBuffer, QueuesTyped, QueuesFit
<1>8. CASE Encode
  BY <1>1, <1>8, NumberFacts DEF Encode, QueuesTyped, QueuesFit
<1>9. CASE GiveRow
  BY <1>1, <1>9, NumberFacts DEF GiveRow, QueuesTyped, QueuesFit
<1> QED
  BY <1>2, <1>3, <1>4, <1>5, <1>6, <1>7, <1>8, <1>9, NextCases

LEMMA PhasesStep ==
  ASSUME Kept, Next
  PROVE  Phases'
<1>1. Phases /\ IrqTyped /\ encoder \in Encoders
  BY DEF Kept, Typed, EncoderTyped
<1>2. CASE DmaIrq
  <2>1. irq' = "on" \/ (irq' = "blocked" /\ ctor = "idle")
    BY <1>2, IrqEffect DEF Callback, CallsBack
  <2>2. ctor # "idle" => beam'.region # "active"
    BY <1>2, IrqEffect
  <2> QED
    BY <1>1, <1>2, <2>1, <2>2, IrqEffect DEF Phases, core0
<1>3. CASE Halts
  <2>1. CASE active # None
    BY <1>1, <1>3, <2>1 DEF Halts, HwStop, Stopped, IdleEncoder, Phases
  <2>2. CASE active = None
    BY <1>1, <1>3, <2>2 DEF Halts, HwStop, Phases, beamVars
  <2> QED
    BY <2>1, <2>2
<1>4. CASE \E o \in Objects : Construct(o)
  BY <1>4, StartTyped, NumberFacts DEF Construct, IdleEncoder, Phases
<1>5. CASE QueueFirst \/ QueueSecond \/ Ready
  BY <1>1, <1>5, RowQueued DEF QueueFirst, QueueSecond, QueueRow, Ready, Phases,
     beamVars, irqVars
<1>6. CASE StartDvi
  BY <1>1, <1>6 DEF StartDvi, Phases, Encoders, beamVars, core0
<1>7. CASE TakeRow
  BY <1>1, <1>7 DEF TakeRow, Phases, Encoders, beamVars, core0, irqVars
<1>8. CASE TakeBuffer
  <2>1. Head(tmdsFree) \in Buffers
    BY <1>8, HeadTailProperties DEF TakeBuffer, Kept, Typed, QueuesTyped
  <2>2. Head(tmdsFree) # 0
    BY <2>1, NumberFacts
  <2> QED
    BY <1>1, <1>8, <2>2 DEF TakeBuffer, Phases, Encoders, beamVars, core0, irqVars
<1>9. CASE Encode
  BY <1>1, <1>9 DEF Encode, Phases, Encoders, beamVars, core0, irqVars
<1>10. CASE GiveRow
  BY <1>1, <1>10 DEF GiveRow, Phases, Encoders, beamVars, core0, irqVars
<1> QED
  BY <1>2, <1>3, <1>4, <1>5, <1>6, <1>7, <1>8, <1>9, <1>10, NextCases

LEMMA TallyStep ==
  ASSUME Kept, Next
  PROVE  Tally'
<1>1. QueuesTyped /\ IrqTyped /\ Tally /\ Phases /\ encoder \in Encoders
  BY DEF Kept, Typed, EncoderTyped
<1>2. CASE DmaIrq
  <2>1. Len(FreeAgain) = Len(tmdsFree) + One(release # None) + Dropped
    BY <1>1, RecycleFacts
  <2>2. Dropped \in Nat
    BY <1>1, DropFacts
  <2>3. Len(tmdsFree) + Len(tmdsValid) + One(encoder.buf # 0)
          + One(releaseNext # None) + One(release # None) = 2 * NBuf
    BY <1>1, <1>2, IrqEffect DEF Tally
  <2>4. PICK t \in Nat : t = One(Taken(NextBeam(beam)))
    BY DEF One
  <2>5. /\ Len(tmdsValid') = Len(tmdsValid) - Dropped - t
        /\ One(releaseNext' # None) = t
    BY <1>2, <2>4, IrqQueue, NumberFacts DEF One
  <2>6. One(release' # None) = One(releaseNext # None)
    BY <1>2, IrqEffect
  <2>7. Len(FreeAgain) + Len(tmdsValid') + One(encoder.buf # 0)
          + One(releaseNext' # None) + One(release' # None) = 2 * NBuf
    <3> DEFINE e == One(encoder.buf # 0)
               n == One(releaseNext # None)
               r == One(release # None)
               f == Len(tmdsFree)
               v == Len(tmdsValid)
               d == Dropped
    <3>1. e \in Nat /\ n \in Nat /\ r \in Nat /\ f \in Nat /\ v \in Nat /\ d \in Nat
      BY <1>1, <2>2, OneFacts, LengthsAreNumbers
    <3>2. f + v + e + n + r = 2 * NBuf
      BY <2>3
    <3> HIDE DEF e, n, r, f, v, d
    <3>3. (f + r + d) + (v - d - t) + e + t + n = 2 * NBuf
      BY <2>4, <3>1, <3>2, NumberFacts
    <3> QED
      BY <2>1, <2>5, <2>6, <3>3 DEF e, n, r, f, v, d
  <2> QED
    BY <1>2, <2>7, IrqEffect DEF Tally
<1>3. CASE Halts
  BY <1>1, <1>3 DEF Halts, HwStop, Stopped, Tally, queues
<1>4. CASE \E o \in Objects : Construct(o)
  BY <1>4, FreshTyped, NumberFacts DEF Construct, ClearQueues, IdleEncoder, Tally, One
<1>5. CASE TakeBuffer
  <2>1. /\ Len(tmdsFree') = Len(tmdsFree) - 1
        /\ Head(tmdsFree) \in Buffers
    BY <1>1, <1>5, HeadTailProperties DEF TakeBuffer, QueuesTyped
  <2>2. encoder.buf = 0 /\ encoder'.buf # 0
    BY <1>1, <1>5, <2>1, NumberFacts DEF TakeBuffer, Phases, Encoders
  <2>3. One(encoder'.buf # 0) = One(encoder.buf # 0) + 1
    BY <2>2 DEF One
  <2> QED
    BY <1>1, <1>5, <2>1, <2>3, OneFacts, LengthsAreNumbers, NumberFacts, SMTT(30)
       DEF TakeBuffer, Tally, core0, irqVars
<1>6. CASE Encode
  <2>1. Len(tmdsValid') = Len(tmdsValid) + 1
    BY <1>1, <1>6 DEF Encode, QueuesTyped
  <2>2. encoder.buf # 0 /\ encoder'.buf = 0
    BY <1>1, <1>6 DEF Encode, Phases, Encoders
  <2>3. One(encoder'.buf # 0) = One(encoder.buf # 0) - 1
    BY <2>2 DEF One
  <2> QED
    BY <1>1, <1>6, <2>1, <2>3, OneFacts, LengthsAreNumbers, NumberFacts, SMTT(30)
       DEF Encode, Tally, core0, irqVars
<1>7. CASE StartDvi \/ TakeRow \/ GiveRow
  <2>1. encoder'.buf = encoder.buf
    BY <1>1, <1>7 DEF StartDvi, TakeRow, GiveRow, Encoders
  <2> QED
    BY <1>1, <1>7, <2>1 DEF StartDvi, TakeRow, GiveRow, Tally, core0, irqVars, queues
<1>8. CASE QueueFirst \/ QueueSecond \/ Ready
  BY <1>1, <1>8 DEF QueueFirst, QueueSecond, QueueRow, Ready, Tally, queues, irqVars
<1> QED
  BY <1>2, <1>3, <1>4, <1>5, <1>6, <1>7, <1>8, NextCases

\* The interrupt queues a row for every one that is taken or given up.
LEMMA IrqPace ==
  ASSUME Kept, DmaIrq, irq' # "blocked"
  PROVE  /\ InFlight' = InFlight - late + late'
         /\ InFlight' \in Nat /\ late' \in Nat /\ InFlight \in Nat /\ late \in Nat
         /\ CallsBack(NextBeam(beam)) =>
              /\ ctor = "idle"
              /\ Len(colourValid) # QCap
              /\ colourValid' = Append(colourValid, nextScanline)
              /\ nextScanline' = NextRow
         /\ ~CallsBack(NextBeam(beam)) =>
              UNCHANGED <<colourValid, nextScanline>>
         /\ ctor # "idle" => Dropped <= late /\ late' = late - Dropped
                             /\ UNCHANGED <<colourValid, nextScanline>>
<1>1. QueuesTyped /\ IrqTyped
  BY DEF Kept, Typed
<1>2. PICK t \in Nat : t = One(Taken(NextBeam(beam))) /\ (t = 0 \/ t = 1)
  BY DEF One
<1>3. /\ Dropped \in Nat /\ Dropped <= late /\ late \in Nat
      /\ Dropped <= Len(tmdsValid)
  BY <1>1, DropFacts
<1>4. Len(tmdsValid') = Len(tmdsValid) - Dropped - t
  BY <1>2, IrqQueue
<1>5. Begun' = Begun
  BY IrqEffect DEF AtRow, Begun
<1>6. Len(tmdsValid') \in Nat
  BY IrqQueue, <1>2
<1>9. /\ InFlight = Len(tmdsValid) + Begun + Len(colourValid)
      /\ InFlight' = Len(tmdsValid') + Begun + Len(colourValid')
      /\ Len(tmdsValid) \in Nat /\ Begun \in Nat /\ Len(colourValid) \in Nat
  BY <1>1, <1>5, OneFacts, LengthsAreNumbers DEF InFlight
<1>7. CASE CallsBack(NextBeam(beam))
  <2>1. /\ colourValid' = Append(colourValid, nextScanline)
        /\ nextScanline' = NextRow /\ Len(colourValid) # QCap
    BY <1>7, IrqEffect DEF Callback
  <2>2. Len(colourValid') = Len(colourValid) + 1
    BY <1>1, <2>1 DEF QueuesTyped, IrqTyped
  <2>3. ctor = "idle"
    BY <1>7, IrqEffect DEF CallsBack
  <2>4. late' = late - Dropped + 1 - t
    <3>1. CASE t = 1
      <4>1. Taken(NextBeam(beam)) /\ ~Missed(NextBeam(beam))
        BY <1>2, <3>1 DEF One, Taken, Missed
      <4> QED
        BY <1>3, <3>1, <4>1, IrqEffect DEF LateAfter
    <3>2. CASE t = 0
      <4>1. Missed(NextBeam(beam))
        BY <1>2, <1>7, <3>2 DEF One, Taken, Missed, CallsBack
      <4> QED
        BY <1>3, <3>2, <4>1, IrqEffect DEF LateAfter
    <3> QED
      BY <1>2, <3>1, <3>2
  <2>5. InFlight' = InFlight - Dropped - t + 1
    BY <1>2, <1>3, <1>4, <1>9, <2>2, SMTT(30)
  <2>6. InFlight' \in Nat /\ InFlight \in Nat /\ late' \in Nat
    <3>1. Len(colourValid') \in Nat
      BY <1>9, <2>2
    <3>2. InFlight' \in Nat /\ InFlight \in Nat
      BY <1>6, <1>9, <3>1
    <3>3. late' \in Nat
      BY <1>2, <1>3, <2>4
    <3> QED
      BY <3>2, <3>3
  <2> QED
    BY <1>2, <1>3, <1>7, <2>1, <2>3, <2>4, <2>5, <2>6, SMTT(30)
<1>8. CASE ~CallsBack(NextBeam(beam))
  <2>1. t = 0 /\ ~Missed(NextBeam(beam))
    BY <1>2, <1>8 DEF CallsBack, Taken, Missed, One
  <2>2. UNCHANGED <<colourValid, nextScanline>>
    BY <1>8, IrqEffect
  <2>3. late' = late - Dropped
    BY <1>3, <2>1, IrqEffect DEF LateAfter
  <2>4. InFlight' = InFlight - Dropped
    BY <1>3, <1>4, <1>9, <2>1, <2>2
  <2>5. InFlight' \in Nat /\ InFlight \in Nat /\ late' \in Nat
    BY <1>3, <1>4, <1>6, <1>9, <2>1, <2>2, <2>3
  <2> QED
    BY <1>3, <1>8, <2>2, <2>3, <2>4, <2>5
<1> QED
  BY <1>7, <1>8

\* The encoder moves rows on without losing one.
LEMMA EncoderPace ==
  ASSUME Kept, StartDvi \/ TakeRow \/ TakeBuffer \/ Encode \/ GiveRow
  PROVE  InFlight' = InFlight
<1>1. QueuesTyped /\ encoder \in Encoders
  BY DEF Kept, Typed, EncoderTyped
<1>2. CASE TakeRow
  <2>1. Len(colourValid') = Len(colourValid) - 1
    BY <1>1, <1>2, HeadTailProperties DEF TakeRow, QueuesTyped
  <2>2. Begun = 0 /\ Begun' = 1 /\ tmdsValid' = tmdsValid
    BY <1>1, <1>2 DEF TakeRow, AtRow, Begun, One, Encoders
  <2> QED
    BY <1>1, <2>1, <2>2, LengthsAreNumbers DEF InFlight
<1>3. CASE Encode
  <2>1. Len(tmdsValid') = Len(tmdsValid) + 1
    BY <1>1, <1>3 DEF Encode, QueuesTyped
  <2>2. Begun = 1 /\ Begun' = 0 /\ colourValid' = colourValid
    BY <1>1, <1>3 DEF Encode, AtRow, Begun, One, Encoders
  <2> QED
    BY <1>1, <2>1, <2>2, LengthsAreNumbers DEF InFlight
<1>4. CASE StartDvi \/ TakeBuffer \/ GiveRow
  <2>1. Begun' = Begun
    BY <1>1, <1>4 DEF StartDvi, TakeBuffer, GiveRow, AtRow, Begun, One, Encoders
  <2>2. tmdsValid' = tmdsValid /\ colourValid' = colourValid
    BY <1>4 DEF StartDvi, TakeBuffer, GiveRow, queues
  <2> QED
    BY <2>1, <2>2 DEF InFlight
<1> QED
  BY <1>2, <1>3, <1>4

LEMMA PacedStep ==
  ASSUME Kept, Next
  PROVE  Paced'
<1>1. QueuesTyped /\ IrqTyped /\ HostTyped /\ Phases /\ Paced
  BY DEF Kept, Typed
<1>2. CASE DmaIrq
  <2> SUFFICES ASSUME Working' PROVE Paced'
    BY DEF Paced
  <2>1. irq' # "blocked" /\ ctor' = ctor /\ Working
    BY <1>2, IrqEffect DEF Working, core0
  <2>2. /\ InFlight' = InFlight - late + late'
        /\ InFlight' \in Nat /\ late' \in Nat /\ InFlight \in Nat /\ late \in Nat
    BY <1>2, <2>1, IrqPace
  <2>3. CASE ctor = "first" \/ ctor = "second"
    <3>1. late = 0 /\ Dropped = 0 /\ late' = 0 /\ nextScanline' = nextScanline
      <4>1. late = 0
        BY <1>1, <2>1, <2>3 DEF Paced
      <4>2. Dropped = 0
        BY <1>1, <4>1, DropFacts
      <4> QED
        BY <1>2, <2>1, <2>3, <4>1, <4>2, IrqPace
    <3> QED
      BY <1>1, <2>1, <2>2, <2>3, <3>1 DEF Paced
  <2>4. CASE ctor = "spin" \/ ctor = "idle"
    <3>1. InFlight = 2 + late
      BY <1>1, <2>1, <2>4 DEF Paced
    <3>2. InFlight' = 2 + late'
      BY <2>2, <3>1
    <3>3. ctor' # "first" /\ ctor' # "second"
      BY <2>1, <2>4
    <3> QED
      BY <3>2, <3>3 DEF Paced
  <2> QED
    BY <1>1, <2>3, <2>4 DEF HostTyped
<1>3. CASE Halts
  <2>1. CASE active # None
    BY <1>3, <2>1 DEF Halts, HwStop, Stopped, Paced, Working
  <2>2. CASE active = None
    BY <1>3, <2>2 DEF Halts, HwStop, Paced, Working
  <2> QED
    BY <2>1, <2>2
<1>4. CASE \E o \in Objects : Construct(o)
  BY <1>4 DEF Construct, ClearQueues, IdleEncoder, Paced, InFlight, AtRow, Begun, One
<1>5. CASE StartDvi \/ TakeRow \/ TakeBuffer \/ Encode \/ GiveRow
  <2>1. InFlight' = InFlight
    BY <1>5, EncoderPace
  <2>2. /\ ctor' = ctor /\ late' = late /\ nextScanline' = nextScanline
        /\ Working' => Working
    BY <1>1, <1>5 DEF StartDvi, TakeRow, TakeBuffer, Encode, GiveRow, core0,
       irqVars, Working, Phases
  <2> QED
    BY <1>1, <2>1, <2>2 DEF Paced
<1>6. CASE QueueFirst \/ QueueSecond
  <2>1. /\ nextScanline' = nextScanline + 1 /\ InFlight = nextScanline
        /\ late' = 0
        /\ nextScanline = 0 \/ nextScanline = 1
    BY <1>6, RowQueued DEF QueueFirst, QueueSecond, QueueRow
  <2>2. Len(colourValid') = Len(colourValid) + 1
    BY <1>1, <1>6, RowQueued DEF QueuesTyped, IrqTyped
  <2>3. tmdsValid' = tmdsValid /\ Begun' = Begun
    BY <1>6 DEF QueueFirst, QueueSecond, QueueRow, AtRow, Begun
  <2>4. InFlight' = nextScanline + 1
    BY <1>1, <2>1, <2>2, <2>3, OneFacts, LengthsAreNumbers DEF InFlight
  <2>5. \/ ctor = "first" /\ ctor' = "second" /\ nextScanline = 0
        \/ ctor = "second" /\ ctor' = "spin" /\ nextScanline = 1
    BY <1>1, <1>6, RowQueued DEF QueueFirst, QueueSecond, QueueRow, Paced
  <2> QED
    BY <2>1, <2>4, <2>5 DEF Paced
<1>7. CASE Ready
  <2>1. InFlight' = InFlight
    BY <1>7 DEF Ready, InFlight, AtRow, Begun, queues
  <2> QED
    BY <1>1, <1>7, <2>1 DEF Ready, Paced, Working, irqVars
<1> QED
  BY <1>2, <1>3, <1>4, <1>5, <1>6, <1>7, NextCases

-----------------------------------------------------------------------------
(* The invariant holds.                                                    *)

LEMMA InitKept == Init => Kept
<1> SUFFICES ASSUME Init PROVE Kept
  OBVIOUS
<1>1. Typed
  BY InitTyped
<1>2. QueuesFit
  BY NumberFacts DEF Init, QueuesFit
<1>3. Phases
  BY StartTyped, NumberFacts DEF Init, Phases, IdleEncoder
<1>4. Tally
  BY DEF Init, Tally
<1>5. Paced
  BY DEF Init, Paced, Working
<1> QED
  BY <1>1, <1>2, <1>3, <1>4, <1>5 DEF Kept

LEMMA KeptStutter ==
  ASSUME Kept, UNCHANGED vars
  PROVE  Kept'
<1> USE DEF vars, beamVars, queues, irqVars, core0
<1>1. BeamTyped' /\ QueuesTyped'
  BY DEF Kept, Typed, BeamTyped, QueuesTyped
<1>2. IrqTyped' /\ EncoderTyped' /\ HostTyped'
  BY DEF Kept, Typed, IrqTyped, EncoderTyped, HostTyped
<1>3. QueuesFit' /\ Phases'
  BY DEF Kept, QueuesFit, Phases
<1>4. Tally' /\ Paced'
  BY DEF Kept, Tally, Paced, InFlight, Begun, AtRow, Working
<1> QED
  BY <1>1, <1>2, <1>3, <1>4 DEF Kept, Typed

LEMMA KeptStep == Kept /\ [Next]_vars => Kept'
<1>1. ASSUME Kept, Next PROVE Kept'
  <2>1. Typed'
    BY <1>1, BeamTypedStep, QueuesTypedStep, IrqTypedStep, EncoderTypedStep,
       HostTypedStep DEF Typed
  <2> QED
    BY <1>1, <2>1, QueuesFitStep, PhasesStep, TallyStep, PacedStep DEF Kept
<1> QED
  BY <1>1, KeptStutter

LEMMA Keeping == Spec => []Kept
BY InitKept, KeptStep, PTL DEF Spec

\* Every state a device can be brought to is well typed, and none of the four
\* queues ever holds more than it has room for.
THEOREM Typing == Spec => []TypeOK
<1>1. Kept => TypeOK
  <2> SUFFICES ASSUME Kept PROVE TypeOK
    OBVIOUS
  <2>1. BeamTyped /\ QueuesTyped /\ IrqTyped /\ EncoderTyped /\ HostTyped /\ QueuesFit
    BY DEF Kept, Typed
  <2>2. \A q \in {colourValid, colourFree, tmdsValid, tmdsFree} : Len(q) <= QCap
    BY <2>1 DEF QueuesFit
  <2>3. {releaseNext, release} \subseteq Buffers \cup {None}
    BY <2>1 DEF IrqTyped
  <2> QED
    BY <2>1, <2>2, <2>3, Zenon DEF TypeOK, BeamTyped, QueuesTyped, IrqTyped,
       EncoderTyped, HostTyped, Encoders
<1> QED
  BY <1>1, Keeping, PTL

\* The three lanes carry equally many words on either side of the start of
\* the active region, and one interrupt, whatever list each line is sent from
\* and whatever the lengths of the porches: the lanes never drift apart.
THEOREM LanesStayInStep == Spec => []LanesInStep
<1>1. Kept => LanesInStep
  <2> SUFFICES ASSUME Kept PROVE LanesInStep
    OBVIOUS
  <2>1. sent.line \in Lines
    BY DEF Kept, Typed, BeamTyped
  <2> QED
    BY <2>1, InStep
<1> QED
  BY <1>1, Keeping, PTL

\* What core 1 and the DMA work for still has its framebuffer, through every
\* construction, failed construction, deinit() and soft reset: whichever
\* object gives up its framebuffer, the hardware is stopped first.
THEOREM ScansWhatIsAllocated == Spec => []ScansAllocated
<1>1. Init => ScansAllocated
  BY DEF Init, ScansAllocated
<1>2. ScansAllocated /\ [Next]_vars => ScansAllocated'
  <2> SUFFICES ASSUME ScansAllocated, [Next]_vars PROVE ScansAllocated'
    OBVIOUS
  <2>1. CASE ConstructFails \/ SoftReset \/ \E o \in Objects : Construct(o) \/ Deinit(o)
    BY <2>1 DEF ConstructFails, SoftReset, Construct, Deinit, HwStop, Stopped,
       ScansAllocated
  <2>2. CASE DmaIrq \/ StartDvi \/ TakeRow \/ TakeBuffer \/ Encode \/ GiveRow
    BY <2>2 DEF DmaIrq, StartDvi, TakeRow, TakeBuffer, Encode, GiveRow, core0,
       ScansAllocated
  <2>3. CASE QueueFirst \/ QueueSecond \/ Ready \/ UNCHANGED vars
    BY <2>3 DEF QueueFirst, QueueSecond, QueueRow, Ready, vars, core0, ScansAllocated
  <2> QED
    BY <2>1, <2>2, <2>3 DEF Next
<1> QED
  BY <1>1, <1>2, PTL DEF Spec

\* The callback's add finds room: the rows in flight are two and the late
\* ones, and of those a callback has just taken one or counted one more late.
LEMMA RoomForARow ==
  ASSUME Kept, DmaIrq, CallsBack(NextBeam(beam)), MaxLate + 2 <= QCap
  PROVE  Len(colourValid) # QCap
<1>1. QueuesTyped /\ IrqTyped /\ irq = "on" /\ active # None /\ ctor = "idle"
  BY IrqEffect DEF Kept, Typed, CallsBack
<1>2. InFlight = 2 + late
  BY <1>1 DEF Kept, Paced, Working
<1> DEFINE v == Len(tmdsValid)
           c == Len(colourValid)
<1>3. v \in Nat /\ c \in Nat /\ late \in Nat /\ Dropped \in Nat /\ v + c <= 2 + late
  <2>1. v \in Nat /\ c \in Nat /\ late \in Nat /\ Dropped \in Nat /\ Begun \in Nat
    BY <1>1, LengthsAreNumbers, DropFacts, OneFacts
  <2>2. v + Begun + c = 2 + late
    BY <1>2 DEF InFlight
  <2> HIDE DEF v, c
  <2> QED
    BY <2>1, <2>2
<1>4. CASE Taken(NextBeam(beam))
  <2>1. late < v
    BY <1>1, <1>4, DropFacts DEF Taken
  <2> HIDE DEF v, c
  <2>2. c <= 1
    BY <1>3, <2>1
  <2> QED
    BY <1>3, <2>2, NumberFacts DEF c
<1>5. CASE Missed(NextBeam(beam))
  <2>1. Dropped = v
    BY <1>1, <1>5, DropFacts DEF Missed
  <2>2. late' = late - Dropped + 1 /\ late' <= MaxLate
    BY <1>5, IrqEffect DEF LateAfter
  <2> HIDE DEF v, c
  <2>3. c <= MaxLate + 1
    BY <1>3, <2>1, <2>2, NumberFacts
  <2> QED
    BY <1>3, <2>3, NumberFacts DEF c
<1> QED
  BY <1>4, <1>5 DEF CallsBack, Taken, Missed

\* A queue that holds two rows more than the encoder may be late by is never
\* full when the callback adds a row, and no queue is full when the interrupt
\* hands a buffer back: the interrupt neither waits for ever for the loop it
\* preempts nor panics.
THEOREM InterruptServes ==
  ASSUME MaxLate + 2 <= QCap
  PROVE  Spec => []IrqServes
<1>1. Init => IrqServes
  BY DEF Init, IrqServes
<1>2. Kept /\ IrqServes /\ [Next]_vars => IrqServes'
  <2> SUFFICES ASSUME Kept, IrqServes, [Next]_vars PROVE IrqServes'
    OBVIOUS
  <2>1. CASE DmaIrq
    <3>1. irq' = irq
      BY <2>1, IrqEffect, RoomForARow DEF Callback
    <3> QED
      BY <3>1 DEF IrqServes
  <2>2. CASE Halts \/ StartDvi \/ \E o \in Objects : Construct(o)
    BY <2>2 DEF Halts, HwStop, Stopped, StartDvi, Construct, IrqServes
  <2>3. CASE TakeRow \/ TakeBuffer \/ Encode \/ GiveRow \/ QueueFirst
             \/ QueueSecond \/ Ready \/ UNCHANGED vars
    BY <2>3 DEF TakeRow, TakeBuffer, Encode, GiveRow, QueueFirst, QueueSecond,
       QueueRow, Ready, vars, irqVars, IrqServes
  <2> QED
    BY <2>1, <2>2, <2>3, NextCases
<1> QED
  BY <1>1, <1>2, Keeping, PTL DEF Spec

-----------------------------------------------------------------------------
(* The buffers.                                                            *)

\* The lemmas count with an operator, the property with cardinalities.
LEMMA HeldCounts ==
  /\ \A b : Held(b) =
       Count(tmdsFree, b) + Count(tmdsValid, b) + One(encoder.buf = b)
         + One(releaseNext = b) + One(release = b)
  /\ \A b : Held(b)' =
       Count(tmdsFree', b) + Count(tmdsValid', b) + One(encoder'.buf = b)
         + One(releaseNext' = b) + One(release' = b)
BY DEF Held, Count, One

LEMMA CountsAreNumbers ==
  ASSUME QueuesTyped, NEW b
  PROVE  /\ Count(tmdsFree, b) \in Nat /\ Count(tmdsValid, b) \in Nat
         /\ One(encoder.buf = b) \in Nat
         /\ One(releaseNext = b) \in Nat /\ One(release = b) \in Nat
BY CountPlaces DEF QueuesTyped, One

LEMMA HeldIrq ==
  ASSUME Kept, DmaIrq, NEW b \in Buffers
  PROVE  Held(b)' = Held(b)
<1>1. QueuesTyped /\ IrqTyped
  BY DEF Kept, Typed
<1>2. /\ Count(FreeAgain, b) = Count(tmdsFree, b) + One(release = b)
                                 + Count(SubSeq(tmdsValid, 1, Dropped), b)
      /\ Count(tmdsValid, b) = Count(SubSeq(tmdsValid, 1, Dropped), b)
                                 + Count(tmdsValid', b) + One(releaseNext' = b)
  BY <1>1, RecycleFacts, IrqQueue
<1>3. /\ Count(SubSeq(tmdsValid, 1, Dropped), b) \in Nat
      /\ Count(tmdsValid', b) \in Nat /\ One(releaseNext' = b) \in Nat
  BY <1>1, DropFacts, IrqQueue, CountPlaces DEF One
<1>4. tmdsFree' = FreeAgain /\ release' = releaseNext /\ encoder' = encoder
  BY IrqEffect
<1>5. Held(b)' = Count(FreeAgain, b) + Count(tmdsValid', b) + One(encoder.buf = b)
                   + One(releaseNext' = b) + One(releaseNext = b)
  BY <1>4, HeldCounts
<1>6. Held(b) = Count(tmdsFree, b) + Count(tmdsValid, b) + One(encoder.buf = b)
                  + One(releaseNext = b) + One(release = b)
  BY HeldCounts
<1> DEFINE f == Count(tmdsFree, b)
           v == Count(tmdsValid, b)
           d == Count(SubSeq(tmdsValid, 1, Dropped), b)
           w == Count(tmdsValid', b)
           e == One(encoder.buf = b)
           m == One(releaseNext' = b)
           n == One(releaseNext = b)
           r == One(release = b)
<1>7. f \in Nat /\ v \in Nat /\ d \in Nat /\ w \in Nat /\ e \in Nat /\ m \in Nat
      /\ n \in Nat /\ r \in Nat
  BY <1>1, <1>3, CountsAreNumbers
<1>8. /\ Held(b)' = (f + r + d) + w + e + m + n
      /\ Held(b) = f + v + e + n + r
      /\ v = d + w + m
  BY <1>2, <1>5, <1>6
<1> HIDE DEF f, v, d, w, e, m, n, r
<1> QED
  BY <1>7, <1>8

LEMMA HeldEncoder ==
  ASSUME Kept, TakeBuffer \/ Encode, NEW b \in Buffers
  PROVE  Held(b)' = Held(b)
<1>1. QueuesTyped /\ encoder \in Encoders /\ b # 0
  BY NumberFacts DEF Kept, Typed, EncoderTyped
<1> DEFINE f == Count(tmdsFree, b)
           v == Count(tmdsValid, b)
           e == One(encoder.buf = b)
           n == One(releaseNext = b)
           r == One(release = b)
<1>2. /\ f \in Nat /\ v \in Nat /\ e \in Nat /\ n \in Nat /\ r \in Nat
      /\ Held(b) = f + v + e + n + r
  BY <1>1, HeldCounts, CountsAreNumbers
<1>3. releaseNext' = releaseNext /\ release' = release
  BY DEF TakeBuffer, Encode, irqVars
<1>4. Held(b)' = Count(tmdsFree', b) + Count(tmdsValid', b) + One(encoder'.buf = b) + n + r
  BY <1>3, HeldCounts
<1>5. CASE TakeBuffer
  <2>1. /\ tmdsFree' = Tail(tmdsFree) /\ tmdsFree # <<>> /\ tmdsValid' = tmdsValid
        /\ encoder.buf = 0 /\ encoder'.buf = Head(tmdsFree)
    BY <1>1, <1>5 DEF TakeBuffer, Kept, Phases, Encoders
  <2>2. f = Count(Tail(tmdsFree), b) + One(Head(tmdsFree) = b)
    <3>1. Count(tmdsFree, b) = Count(Tail(tmdsFree), b)
                                 + (IF Head(tmdsFree) = b THEN 1 ELSE 0)
      BY <1>1, <2>1, CountTail DEF QueuesTyped
    <3> QED
      BY <3>1 DEF One
  <2>3. Count(Tail(tmdsFree), b) \in Nat /\ One(Head(tmdsFree) = b) \in Nat
    BY <1>1, <2>1, HeadTailProperties, CountPlaces DEF QueuesTyped, One
  <2>4. e = 0
    BY <1>1, <2>1 DEF One
  <2>5. Held(b)' = Count(Tail(tmdsFree), b) + v + One(Head(tmdsFree) = b) + n + r
    BY <1>4, <2>1
  <2> HIDE DEF f, v, e, n, r
  <2> QED
    BY <1>2, <2>2, <2>3, <2>4, <2>5
<1>6. CASE Encode
  <2>1. /\ tmdsValid' = Append(tmdsValid, encoder.buf) /\ tmdsFree' = tmdsFree
        /\ encoder'.buf = 0 /\ encoder.buf \in Buffers
    BY <1>1, <1>6, NumberFacts DEF Encode, Kept, Phases, Encoders, Buffers
  <2>2. Count(tmdsValid', b) = v + e
    <3>1. Count(Append(tmdsValid, encoder.buf), b)
            = Count(tmdsValid, b) + (IF encoder.buf = b THEN 1 ELSE 0)
      BY <1>1, <2>1, CountAppend DEF QueuesTyped
    <3> QED
      BY <2>1, <3>1 DEF One
  <2>3. One(encoder'.buf = b) = 0
    BY <1>1, <2>1 DEF One
  <2>4. Held(b)' = f + Count(tmdsValid', b) + One(encoder'.buf = b) + n + r
    BY <1>4, <2>1
  <2> HIDE DEF f, v, e, n, r
  <2> QED
    BY <1>2, <2>2, <2>3, <2>4
<1> QED
  BY <1>5, <1>6

LEMMA HeldAtFirst ==
  ASSUME NEW o \in Objects, Construct(o), NEW b \in Buffers
  PROVE  Held(b)' = 1
<1>1. /\ tmdsFree' = [k \in Buffers |-> k] /\ tmdsValid' = <<>>
      /\ encoder'.buf = 0 /\ releaseNext' = None /\ release' = None
  BY DEF Construct, ClearQueues, IdleEncoder
<1>2. Count(tmdsFree', b) = 1
  <2>1. {k \in DOMAIN tmdsFree' : tmdsFree'[k] = b} = {b}
    BY <1>1
  <2> QED
    BY <2>1, FS_Singleton DEF Count
<1>3. Count(tmdsValid', b) = 0
  BY <1>1, CountEmpty
<1>4. One(encoder'.buf = b) = 0 /\ One(releaseNext' = b) = 0 /\ One(release' = b) = 0
  BY <1>1, NumberFacts DEF One
<1>5. Held(b)' = Count(tmdsFree', b) + Count(tmdsValid', b) + One(encoder'.buf = b)
                   + One(releaseNext' = b) + One(release' = b)
  BY HeldCounts
<1> QED
  BY <1>2, <1>3, <1>4, <1>5

LEMMA Conserving ==
  ASSUME Kept, BuffersConserved, [Next]_vars
  PROVE  BuffersConserved'
<1>1. CASE DmaIrq
  BY <1>1, HeldIrq, IrqEffect DEF BuffersConserved, core0
<1>2. CASE TakeBuffer \/ Encode
  BY <1>2, HeldEncoder DEF TakeBuffer, Encode, BuffersConserved, core0
<1>3. CASE \E o \in Objects : Construct(o)
  BY <1>3, HeldAtFirst DEF BuffersConserved
<1>4. CASE Halts
  <2>1. CASE active # None
    BY <1>4, <2>1 DEF Halts, HwStop, Stopped, BuffersConserved
  <2>2. CASE active = None
    BY <1>4, <2>2 DEF Halts, HwStop, BuffersConserved
  <2> QED
    BY <2>1, <2>2
<1>5. CASE StartDvi \/ TakeRow \/ GiveRow \/ QueueFirst \/ QueueSecond \/ Ready
           \/ UNCHANGED vars
  <2>1. encoder'.buf = encoder.buf
    BY <1>5 DEF StartDvi, TakeRow, GiveRow, QueueFirst, QueueSecond, QueueRow,
       Ready, vars, Kept, Typed, EncoderTyped, Encoders
  <2>2. /\ tmdsFree' = tmdsFree /\ tmdsValid' = tmdsValid
        /\ releaseNext' = releaseNext /\ release' = release /\ active' = active
    BY <1>5 DEF StartDvi, TakeRow, GiveRow, QueueFirst, QueueSecond, QueueRow,
       Ready, vars, queues, irqVars, core0
  <2>3. \A b : Held(b)' = Held(b)
    BY <2>1, <2>2, HeldCounts
  <2> QED
    BY <2>2, <2>3 DEF BuffersConserved
<1> QED
  BY <1>1, <1>2, <1>3, <1>4, <1>5, NextCases

\* A TMDS buffer is never lost and never in two places, however many there
\* are, whatever the encoder's pace and however rows are dropped: each is in
\* one queue, with the encoder, or on its way back from the beam.
THEOREM ConservesBuffers == Spec => []BuffersConserved
<1>1. Init => BuffersConserved
  BY DEF Init, BuffersConserved
<1>2. Kept /\ BuffersConserved /\ [Next]_vars => BuffersConserved'
  BY Conserving
<1> QED
  BY <1>1, <1>2, Keeping, PTL DEF Spec

-----------------------------------------------------------------------------
(* The rows in flight.                                                     *)

\* The k-th of them, from the one encoded first; after the last, the row to
\* be queued next.
FlowAt(k) ==
  IF k <= Len(tmdsValid) THEN content[tmdsValid[k]]
  ELSE IF k <= Len(tmdsValid) + Begun THEN encoder.row
  ELSE IF k <= InFlight THEN colourValid[k - Len(tmdsValid) - Begun]
  ELSE nextScanline

\* They follow one another.
InOrder ==
  Working =>
    /\ \A k \in 1 .. InFlight + 1 : FlowAt(k) \in Rows
    /\ \A k \in 1 .. InFlight : FlowAt(k + 1) = RowAfter(FlowAt(k))

\* The row to be queued next is two after the one the beam waits for.
Aimed ==
  Working /\ ctor \in {"spin", "idle"} =>
    nextScanline = RowAfter(RowAfter(Awaited(beam)))

\* The line that is loaded is the beam's, and its buffer is at the head of
\* the queue for the first of a row's lines and set aside for the last.
LoadedRight ==
  /\ loaded.list = "sync" <=> beam.region = "sync"
  /\ loaded.list = "nosync" <=> beam.region \in {"front", "back"}
  /\ loaded.list = "active" =>
       /\ loaded.buf \in Buffers
       /\ content[loaded.buf] = beam.line \div Repeat
       /\ LastRepeat(beam) => releaseNext = loaded.buf
       /\ ~LastRepeat(beam) => /\ late = 0 /\ tmdsValid # <<>>
                               /\ tmdsValid[1] = loaded.buf

\* The line that is sent is its place's, and its buffer is set aside.
SentRight ==
  /\ LineInPlace
  /\ sent.line.list = "active" => /\ sent.line.buf \in Buffers
                                  /\ sent.line.buf \in {releaseNext, release}

Shown == BuffersConserved /\ InOrder /\ Aimed /\ LoadedRight /\ SentRight

\* A buffer in the queue of encoded rows is nowhere else; nor is one the beam
\* has or leaves.
LEMMA Elsewhere ==
  ASSUME Kept, BuffersConserved, active # None, NEW b \in Buffers
  PROVE  /\ Count(tmdsValid, b) >= 1 \/ releaseNext = b \/ release = b
              => encoder.buf # b /\ (tmdsFree # <<>> => Head(tmdsFree) # b)
<1>1. QueuesTyped /\ Held(b) = 1
  BY DEF Kept, Typed, BuffersConserved
<1> DEFINE f == Count(tmdsFree, b)
           v == Count(tmdsValid, b)
           e == One(encoder.buf = b)
           n == One(releaseNext = b)
           r == One(release = b)
<1>2. /\ f \in Nat /\ v \in Nat /\ e \in Nat /\ n \in Nat /\ r \in Nat
      /\ 1 = f + v + e + n + r
  BY <1>1, HeldCounts, CountsAreNumbers
<1>3. tmdsFree # <<>> /\ Head(tmdsFree) = b => f >= 1
  <2> SUFFICES ASSUME tmdsFree # <<>>, Head(tmdsFree) = b PROVE f >= 1
    OBVIOUS
  <2>1. 1 \in 1 .. Len(tmdsFree) /\ tmdsFree[1] = b
    BY <1>1, EmptySeq, LenProperties DEF QueuesTyped
  <2> QED
    BY <1>1, <2>1, CountThere DEF QueuesTyped
<1>4. /\ encoder.buf = b => e = 1
      /\ releaseNext = b => n = 1
      /\ release = b => r = 1
  BY DEF One
<1> HIDE DEF f, n, r, e
<1> SUFFICES ASSUME v >= 1 \/ n = 1 \/ r = 1
             PROVE  e = 0 /\ f = 0
  BY <1>3, <1>4
<1> HIDE DEF v
<1> QED
  BY <1>2

\* What the encoder writes is not what the beam shows or will.
LEMMA QueuedElsewhere ==
  ASSUME Kept, BuffersConserved, active # None, NEW k \in 1 .. Len(tmdsValid)
  PROVE  /\ tmdsValid[k] \in Buffers /\ encoder.buf # tmdsValid[k]
         /\ tmdsFree # <<>> => Head(tmdsFree) # tmdsValid[k]
<1>1. tmdsValid \in Seq(Buffers)
  BY DEF Kept, Typed, QueuesTyped
<1>2. tmdsValid[k] \in Buffers /\ Count(tmdsValid, tmdsValid[k]) >= 1
  BY <1>1, CountThere, ElementOfSeq
<1> QED
  BY <1>2, Elsewhere

\* A step that gives up the first d rows and adds at most one keeps the order.
Ordered(n, F) == /\ \A k \in 1 .. n + 1 : F[k] \in Rows
                 /\ \A k \in 1 .. n : F[k + 1] = RowAfter(F[k])
Continues(n, d, e, F, G) ==
  /\ \A k \in 1 .. n + 1 - d : G[k] = F[k + d]
  /\ e = 1 => G[n - d + 2] = RowAfter(F[n + 1])

LEMMA OrderKept ==
  ASSUME NEW n \in Nat, NEW d \in 0 .. n, NEW e \in {0, 1}, NEW F, NEW G,
         Ordered(n, F), Continues(n, d, e, F, G)
  PROVE  Ordered(n - d + e, G)
<1> USE DEF Ordered, Continues
<1>1. ASSUME NEW k \in 1 .. (n - d + e) + 1 PROVE G[k] \in Rows
  <2>1. CASE k <= n + 1 - d
    <3>1. k \in 1 .. n + 1 - d /\ k + d \in 1 .. n + 1
      BY <2>1
    <3> QED
      BY <3>1
  <2>2. CASE k > n + 1 - d
    <3>1. e = 1 /\ k = n - d + 2 /\ n + 1 \in 1 .. n + 1
      BY <2>2
    <3>2. G[k] = RowAfter(F[n + 1]) /\ F[n + 1] \in Rows
      BY <3>1
    <3> QED
      BY <3>2, RowAfterFacts
  <2> QED
    BY <2>1, <2>2
<1>2. ASSUME NEW k \in 1 .. n - d + e PROVE G[k + 1] = RowAfter(G[k])
  <2>1. CASE k <= n - d
    <3>1. /\ k \in 1 .. n + 1 - d /\ k + 1 \in 1 .. n + 1 - d /\ k + d \in 1 .. n
          /\ (k + 1) + d = (k + d) + 1
      BY <2>1
    <3> QED
      BY <3>1
  <2>2. CASE k > n - d
    <3>1. /\ e = 1 /\ k = n - d + 1 /\ k + 1 = n - d + 2 /\ k + d = n + 1
          /\ k \in 1 .. n + 1 - d
      BY <2>2
    <3>2. G[k + 1] = RowAfter(F[n + 1]) /\ G[k] = F[n + 1]
      BY <3>1
    <3> QED
      BY <3>2
  <2> QED
    BY <2>1, <2>2
<1> QED
  BY <1>1, <1>2

\* The same of the rows in flight.
LEMMA FlowKept ==
  ASSUME Kept, InOrder, Working, NEW d \in 0 .. InFlight, NEW e \in {0, 1},
         InFlight' = InFlight - d + e,
         \A k \in 1 .. InFlight + 1 - d : FlowAt(k)' = FlowAt(k + d),
         \A k : e = 1 /\ k = InFlight - d + 2 =>
                 FlowAt(k)' = RowAfter(nextScanline)
  PROVE  InOrder'
<1>1. InFlight \in Nat /\ FlowAt(InFlight + 1) = nextScanline
  <2>1. Len(tmdsValid) \in Nat /\ Len(colourValid) \in Nat /\ Begun \in Nat
    BY LengthsAreNumbers, OneFacts DEF Kept, Typed
  <2> QED
    BY <2>1 DEF InFlight, FlowAt
<1> DEFINE n == InFlight
           m == InFlight - d + e
           F == [k \in 1 .. n + 1 |-> FlowAt(k)]
           G == [k \in 1 .. m + 1 |-> FlowAt(k)']
<1> HIDE DEF n
<1>2. n \in Nat /\ d \in 0 .. n /\ m = n - d + e
  BY <1>1 DEF n
<1>3. /\ \A k \in 1 .. n + 1 : F[k] = FlowAt(k)
      /\ \A k \in 1 .. m + 1 : G[k] = FlowAt(k)'
  OBVIOUS
<1> HIDE DEF F, G, m
<1>4. \A k \in 1 .. n + 1 : F[k] \in Rows
  BY <1>3 DEF InOrder, n
<1>5. \A k \in 1 .. n : F[k + 1] = RowAfter(F[k])
  <2> SUFFICES ASSUME NEW k \in 1 .. n PROVE F[k + 1] = RowAfter(F[k])
    OBVIOUS
  <2>1. k \in 1 .. n + 1 /\ k + 1 \in 1 .. n + 1
    BY <1>2
  <2>2. FlowAt(k + 1) = RowAfter(FlowAt(k))
    BY DEF InOrder, n
  <2> QED
    BY <1>3, <2>1, <2>2
<1>6. \A k \in 1 .. n + 1 - d : G[k] = F[k + d]
  <2> SUFFICES ASSUME NEW k \in 1 .. n + 1 - d PROVE G[k] = F[k + d]
    OBVIOUS
  <2>1. k \in 1 .. m + 1 /\ k + d \in 1 .. n + 1
    BY <1>2
  <2>2. FlowAt(k)' = FlowAt(k + d)
    BY DEF n
  <2> QED
    BY <1>3, <2>1, <2>2
<1>7. e = 1 => G[n - d + 2] = RowAfter(F[n + 1])
  <2> SUFFICES ASSUME e = 1 PROVE G[n - d + 2] = RowAfter(F[n + 1])
    OBVIOUS
  <2>1. n - d + 2 \in 1 .. m + 1 /\ n + 1 \in 1 .. n + 1
    BY <1>2
  <2>2. G[n - d + 2] = RowAfter(nextScanline) /\ F[n + 1] = FlowAt(n + 1)
    BY <1>3, <2>1 DEF n
  <2> QED
    BY <1>1, <2>2 DEF n
<1>8. Ordered(m, G)
  <2>1. n \in Nat /\ d \in 0 .. n
    BY <1>2
  <2>2. Ordered(n, F) /\ Continues(n, d, e, F, G)
    BY <1>4, <1>5, <1>6, <1>7 DEF Ordered, Continues
  <2>3. Ordered(n - d + e, G)
    BY <2>1, <2>2, OrderKept
  <2> QED
    BY <1>2, <2>3
<1>9. InFlight' = m /\ m \in Nat
  BY <1>2 DEF m
<1>10. \A k \in 1 .. m + 1 : FlowAt(k)' \in Rows
  BY <1>3, <1>8 DEF Ordered
<1>11. \A k \in 1 .. m : FlowAt(k + 1)' = RowAfter(FlowAt(k)')
  <2> SUFFICES ASSUME NEW k \in 1 .. m PROVE FlowAt(k + 1)' = RowAfter(FlowAt(k)')
    OBVIOUS
  <2>1. k \in 1 .. m + 1 /\ k + 1 \in 1 .. m + 1
    BY <1>9
  <2> QED
    BY <1>3, <1>8, <2>1 DEF Ordered
<1>12. \A k : RowAfter(FlowAt(k))' = RowAfter(FlowAt(k)')
  BY DEF RowAfter
<1> QED
  BY <1>9, <1>10, <1>11, <1>12 DEF InOrder

LEMMA FlowNumbers ==
  ASSUME QueuesTyped
  PROVE  /\ Len(tmdsValid) \in Nat /\ Len(colourValid) \in Nat
         /\ Begun \in Nat /\ Begun <= 1 /\ InFlight \in Nat
         /\ InFlight = Len(tmdsValid) + Begun + Len(colourValid)
<1>1. Len(tmdsValid) \in Nat /\ Len(colourValid) \in Nat /\ Begun \in Nat /\ Begun <= 1
  BY LengthsAreNumbers DEF Begun, One
<1> QED
  BY <1>1 DEF InFlight

\* A step that leaves each row in its place keeps the order.
LEMMA FlowStays ==
  ASSUME Kept, InOrder, Working, InFlight' = InFlight,
         \A k \in 1 .. InFlight + 1 : FlowAt(k)' = FlowAt(k)
  PROVE  InOrder'
<1>1. InFlight \in Nat
  BY FlowNumbers DEF Kept, Typed
<1>2. /\ 0 \in 0 .. InFlight /\ 0 \in {0, 1} /\ 0 # 1
      /\ InFlight' = InFlight - 0 + 0
  BY <1>1
<1>3. \A k \in 1 .. InFlight + 1 - 0 : FlowAt(k)' = FlowAt(k + 0)
  <2> SUFFICES ASSUME NEW k \in 1 .. InFlight + 1 - 0 PROVE FlowAt(k)' = FlowAt(k + 0)
    OBVIOUS
  <2>1. k \in 1 .. InFlight + 1 /\ k + 0 = k
    BY <1>1
  <2> QED
    BY <2>1
<1> QED
  BY <1>2, <1>3, FlowKept

LEMMA EncoderFlow ==
  ASSUME Kept, BuffersConserved, InOrder, Working,
         StartDvi \/ TakeRow \/ TakeBuffer \/ Encode \/ GiveRow
  PROVE  InOrder'
<1>1. /\ QueuesTyped /\ EncoderTyped /\ encoder \in Encoders /\ active # None
      /\ colourValid \in Seq(Rows) /\ tmdsValid \in Seq(Buffers)
  BY DEF Kept, Typed, EncoderTyped, QueuesTyped, Working
<1>2. InFlight' = InFlight
  BY EncoderPace
<1>3. nextScanline' = nextScanline
  BY DEF StartDvi, TakeRow, TakeBuffer, Encode, GiveRow, irqVars
<1> DEFINE v == Len(tmdsValid)
           c == Len(colourValid)
<1>4. /\ v \in Nat /\ c \in Nat /\ Begun \in Nat /\ Begun <= 1 /\ InFlight \in Nat
      /\ InFlight = v + Begun + c
  BY <1>1, FlowNumbers
<1> SUFFICES ASSUME NEW k \in 1 .. InFlight + 1
             PROVE  FlowAt(k)' = FlowAt(k)
  BY <1>2, FlowStays
<1>5. CASE TakeRow
  <2>1. /\ colourValid # <<>> /\ encoder'.row = colourValid[1]
        /\ tmdsValid' = tmdsValid /\ content' = content
        /\ Len(colourValid') = c - 1 /\ c >= 1
        /\ \A i \in 1 .. c - 1 : colourValid'[i] = colourValid[i + 1]
    BY <1>1, <1>5, HeadTailProperties, EmptySeq, LenProperties
       DEF TakeRow, QueuesTyped, Encoders
  <2>2. Begun = 0 /\ Begun' = 1
    BY <1>1, <1>5 DEF TakeRow, AtRow, Begun, One, Encoders
  <2> HIDE DEF v, c
  <2>3. FlowAt(k) = IF k <= v THEN content[tmdsValid[k]]
                    ELSE IF k <= v + Begun THEN encoder.row
                    ELSE IF k <= InFlight THEN colourValid[k - v - Begun]
                    ELSE nextScanline
    BY DEF FlowAt, v
  <2>4. FlowAt(k)' = IF k <= v THEN content[tmdsValid[k]]
                     ELSE IF k <= v + 1 THEN colourValid[1]
                     ELSE IF k <= InFlight THEN colourValid'[k - v - 1]
                     ELSE nextScanline
    BY <1>2, <1>3, <2>1, <2>2 DEF FlowAt, v
  <2>5. CASE k <= v
    BY <2>3, <2>4, <2>5
  <2>6. CASE k = v + 1
    <3>1. ~(k <= v) /\ ~(k <= v + Begun) /\ k <= InFlight /\ k - v - Begun = 1
      BY <1>4, <2>1, <2>2, <2>6
    <3> QED
      BY <2>3, <2>4, <2>6, <3>1
  <2>7. CASE k > v + 1 /\ k <= InFlight
    <3>1. /\ ~(k <= v) /\ ~(k <= v + 1) /\ ~(k <= v + Begun)
          /\ k - v - 1 \in 1 .. c - 1 /\ (k - v - 1) + 1 = k - v - Begun
      BY <1>4, <2>1, <2>2, <2>7
    <3> QED
      BY <2>1, <2>3, <2>4, <2>7, <3>1
  <2>8. CASE k > InFlight
    <3>1. ~(k <= v) /\ ~(k <= v + 1) /\ ~(k <= v + Begun) /\ ~(k <= InFlight)
      BY <1>4, <2>1, <2>2, <2>8
    <3> QED
      BY <2>3, <2>4, <3>1
  <2> QED
    BY <1>4, <2>5, <2>6, <2>7, <2>8
<1>6. CASE TakeBuffer
  <2>1. /\ tmdsValid' = tmdsValid /\ colourValid' = colourValid
        /\ encoder'.row = encoder.row /\ Begun' = Begun
    <3>1. /\ encoder.pc = "buffer" /\ encoder'.row = encoder.row
          /\ encoder'.pc = "encode" \/ encoder'.pc = "hang"
      BY <1>1, <1>6 DEF TakeBuffer, Encoders
    <3>2. Begun = 1 /\ Begun' = 1
      BY <3>1 DEF AtRow, Begun, One
    <3> QED
      BY <1>6, <3>1, <3>2 DEF TakeBuffer
  <2>2. ASSUME k <= v PROVE content'[tmdsValid[k]] = content[tmdsValid[k]]
    <3>1. k \in 1 .. v
      BY <1>4, <2>2
    <3>2. tmdsValid[k] # Head(tmdsFree) /\ tmdsValid[k] \in Buffers
      BY <1>1, <1>6, <3>1, QueuedElsewhere DEF TakeBuffer
    <3> QED
      BY <1>1, <1>6, <3>2 DEF TakeBuffer, EncoderTyped
  <2> QED
    BY <1>2, <1>3, <2>1, <2>2 DEF FlowAt
<1>7. CASE Encode
  <2>1. /\ encoder.buf \in Buffers /\ Begun = 1 /\ Begun' = 0
        /\ tmdsValid' = Append(tmdsValid, encoder.buf)
        /\ colourValid' = colourValid
        /\ content' = [content EXCEPT ![encoder.buf] = encoder.row]
    BY <1>1, <1>7, NumberFacts
       DEF Encode, Encoders, AtRow, Begun, One, Buffers, Kept, Phases
  <2>2. /\ Len(tmdsValid') = v + 1 /\ tmdsValid'[v + 1] = encoder.buf
        /\ \A i \in 1 .. v : tmdsValid'[i] = tmdsValid[i]
    BY <1>1, <2>1, AppendProperties
  <2> HIDE DEF v, c
  <2>3. FlowAt(k) = IF k <= v THEN content[tmdsValid[k]]
                    ELSE IF k <= v + 1 THEN encoder.row
                    ELSE IF k <= InFlight THEN colourValid[k - v - 1]
                    ELSE nextScanline
    BY <2>1 DEF FlowAt, v
  <2>4. FlowAt(k)' = IF k <= v + 1 THEN content'[tmdsValid'[k]]
                     ELSE IF k <= v + 1 + 0 THEN encoder'.row
                     ELSE IF k <= InFlight THEN colourValid[k - (v + 1) - 0]
                     ELSE nextScanline
    BY <1>2, <1>3, <2>1, <2>2 DEF FlowAt
  <2>5. CASE k <= v
    <3>1. k \in 1 .. v /\ k <= v + 1
      BY <1>4, <2>5
    <3>2. tmdsValid[k] # encoder.buf /\ tmdsValid[k] \in Buffers
      BY <1>1, <3>1, QueuedElsewhere DEF v
    <3>3. content'[tmdsValid[k]] = content[tmdsValid[k]]
      BY <1>1, <2>1, <3>2 DEF EncoderTyped
    <3> QED
      BY <2>2, <2>3, <2>4, <2>5, <3>1, <3>3
  <2>6. CASE k = v + 1
    <3>1. content'[encoder.buf] = encoder.row
      BY <1>1, <2>1 DEF EncoderTyped
    <3> QED
      BY <1>4, <2>2, <2>3, <2>4, <2>6, <3>1
  <2>7. CASE k > v + 1
    <3>1. /\ ~(k <= v) /\ ~(k <= v + 1) /\ ~(k <= v + 1 + 0)
          /\ k - (v + 1) - 0 = k - v - 1
      BY <1>4, <2>7
    <3> QED
      BY <2>3, <2>4, <3>1
  <2> QED
    BY <1>4, <2>5, <2>6, <2>7
<1>8. CASE StartDvi \/ GiveRow
  <2>1. /\ tmdsValid' = tmdsValid /\ colourValid' = colourValid
        /\ encoder'.row = encoder.row /\ Begun' = Begun /\ content' = content
    BY <1>1, <1>8 DEF StartDvi, GiveRow, Encoders, AtRow, Begun, queues
  <2> QED
    BY <1>2, <1>3, <2>1 DEF FlowAt
<1> QED
  BY <1>5, <1>6, <1>7, <1>8

\* Outside the encoder, rows leave at the front and join at the end.
LEMMA FlowMoves ==
  ASSUME Kept, InOrder, Working, NEW d \in 0 .. Len(tmdsValid), NEW e \in {0, 1},
         Len(tmdsValid') = Len(tmdsValid) - d,
         \A k \in 1 .. Len(tmdsValid) - d : tmdsValid'[k] = tmdsValid[k + d],
         encoder' = encoder, content' = content,
         e = 0 => colourValid' = colourValid /\ nextScanline' = nextScanline,
         e = 1 => /\ colourValid' = Append(colourValid, nextScanline)
                  /\ nextScanline' = RowAfter(nextScanline)
  PROVE  InOrder'
<1>1. QueuesTyped /\ colourValid \in Seq(Rows) /\ nextScanline \in Rows
  BY DEF Kept, Typed, IrqTyped, QueuesTyped
<1> DEFINE v == Len(tmdsValid)
           c == Len(colourValid)
<1>2. /\ v \in Nat /\ c \in Nat /\ Begun \in Nat /\ Begun <= 1 /\ InFlight \in Nat
      /\ InFlight = v + Begun + c /\ d \in 0 .. v /\ d \in Nat /\ d <= v
  BY <1>1, FlowNumbers
<1>3. /\ Len(colourValid') = c + e
      /\ \A i \in 1 .. c : colourValid'[i] = colourValid[i]
      /\ e = 1 => colourValid'[c + 1] = nextScanline
  <2>1. CASE e = 0
    BY <1>2, <2>1
  <2>2. CASE e = 1
    BY <1>1, <2>2, AppendProperties
  <2> QED
    BY <2>1, <2>2
<1>4. Begun' = Begun
  BY DEF Begun, AtRow
<1>5. Len(tmdsValid') = v - d /\ \A k \in 1 .. v - d : tmdsValid'[k] = tmdsValid[k + d]
  OBVIOUS
<1> HIDE DEF v, c
<1>6. InFlight' = InFlight - d + e
  <2>1. InFlight' = Len(tmdsValid') + Begun' + Len(colourValid')
    BY DEF InFlight
  <2>2. InFlight' = (v - d) + Begun + (c + e)
    BY <1>3, <1>4, <1>5, <2>1
  <2> QED
    BY <1>2, <2>2
<1>7. \A k : /\ FlowAt(k) = IF k <= v THEN content[tmdsValid[k]]
                            ELSE IF k <= v + Begun THEN encoder.row
                            ELSE IF k <= InFlight THEN colourValid[k - v - Begun]
                            ELSE nextScanline
             /\ FlowAt(k)' = IF k <= v - d THEN content[tmdsValid'[k]]
                             ELSE IF k <= (v - d) + Begun THEN encoder.row
                             ELSE IF k <= InFlight'
                                  THEN colourValid'[k - (v - d) - Begun]
                             ELSE nextScanline'
  BY <1>4, <1>5 DEF FlowAt, v
<1>8. ASSUME NEW k \in 1 .. InFlight + 1 - d
      PROVE  FlowAt(k)' = FlowAt(k + d)
  <2>1. CASE k <= v - d
    <3>1. k \in 1 .. v - d /\ k + d <= v
      BY <1>2, <2>1
    <3> QED
      BY <1>5, <1>7, <2>1, <3>1
  <2>2. CASE k > v - d /\ k <= (v - d) + Begun
    <3>1. ~(k <= v - d) /\ ~(k + d <= v) /\ k + d <= v + Begun
      BY <1>2, <2>2
    <3> QED
      BY <1>7, <2>2, <3>1
  <2>3. CASE k > (v - d) + Begun /\ k <= InFlight - d
    <3>1. /\ ~(k <= v - d) /\ ~(k <= (v - d) + Begun) /\ k <= InFlight - d + e
          /\ ~(k + d <= v) /\ ~(k + d <= v + Begun) /\ k + d <= InFlight
          /\ k - (v - d) - Begun \in 1 .. c
          /\ (k + d) - v - Begun = k - (v - d) - Begun
      BY <1>2, <2>3
    <3> QED
      BY <1>3, <1>6, <1>7, <3>1
  <2>4. CASE k = InFlight - d + 1
    <3>1. /\ ~(k <= v - d) /\ ~(k <= (v - d) + Begun)
          /\ ~(k + d <= v) /\ ~(k + d <= v + Begun) /\ ~(k + d <= InFlight)
          /\ k - (v - d) - Begun = c + 1
          /\ k <= InFlight - d + e <=> e = 1
      BY <1>2, <2>4
    <3> QED
      BY <1>3, <1>6, <1>7, <3>1
  <2>5. \/ k <= v - d
        \/ k > v - d /\ k <= (v - d) + Begun
        \/ k > (v - d) + Begun /\ k <= InFlight - d
        \/ k = InFlight - d + 1
    BY <1>2
  <2> QED
    BY <2>1, <2>2, <2>3, <2>4, <2>5
<1>9. ASSUME NEW k, e = 1, k = InFlight - d + 2
      PROVE  FlowAt(k)' = RowAfter(nextScanline)
  <2>1. /\ ~(k <= v - d) /\ ~(k <= (v - d) + Begun) /\ ~(k <= InFlight - d + e)
    <3> DEFINE j == InFlight - d + 2
    <3>1. /\ ~(j <= v - d) /\ ~(j <= (v - d) + Begun)
          /\ ~(j <= InFlight - d + 1)
      BY <1>2
    <3> QED
      BY <1>9, <3>1
  <2> QED
    BY <1>6, <1>7, <1>9, <2>1
<1>10. d \in 0 .. InFlight
  BY <1>2
<1> QED
  BY <1>6, <1>8, <1>9, <1>10, FlowKept

LEMMA NextRowIsAfter == NextRow = RowAfter(nextScanline)
BY DEF NextRow, RowAfter

LEMMA IrqFlow ==
  ASSUME Kept, InOrder, DmaIrq, irq' # "blocked"
  PROVE  InOrder'
<1>1. QueuesTyped /\ IrqTyped /\ Working
  BY IrqEffect DEF Kept, Typed, Working
<1>2. PICK t \in Nat : t = One(Taken(NextBeam(beam))) /\ (t = 0 \/ t = 1)
  BY DEF One
<1> DEFINE d == Dropped + t
           e == One(CallsBack(NextBeam(beam)))
<1>3. /\ d \in 0 .. Len(tmdsValid)
      /\ Len(tmdsValid') = Len(tmdsValid) - d
      /\ \A k \in 1 .. Len(tmdsValid) - d : tmdsValid'[k] = tmdsValid[k + d]
  <2>1. /\ Dropped \in Nat /\ Dropped <= Len(tmdsValid) /\ Len(tmdsValid) \in Nat
    BY <1>1, DropFacts
  <2>2. t = 1 => Dropped < Len(tmdsValid)
    BY <1>2, IrqQueue
  <2>3. /\ Len(tmdsValid') = Len(tmdsValid) - Dropped - t
        /\ \A i \in 1 .. Len(tmdsValid') : tmdsValid'[i] = tmdsValid[i + Dropped + t]
    BY <1>2, IrqQueue
  <2>4. d \in 0 .. Len(tmdsValid) /\ Len(tmdsValid') = Len(tmdsValid) - d
    BY <1>2, <2>1, <2>2, <2>3
  <2>5. ASSUME NEW k \in 1 .. Len(tmdsValid) - d
        PROVE  tmdsValid'[k] = tmdsValid[k + d]
    <3>1. k + d = k + Dropped + t
      BY <1>2, <2>1
    <3> QED
      BY <2>3, <2>4, <3>1
  <2> QED
    BY <2>4, <2>5
<1>4. /\ e \in {0, 1}
      /\ e = 0 => colourValid' = colourValid /\ nextScanline' = nextScanline
      /\ e = 1 => /\ colourValid' = Append(colourValid, nextScanline)
                  /\ nextScanline' = RowAfter(nextScanline)
  BY IrqPace, NextRowIsAfter DEF One
<1>5. encoder' = encoder /\ content' = content
  BY IrqEffect, SMTT(30)
<1> HIDE DEF d, e
<1> QED
  BY <1>1, <1>3, <1>4, <1>5, FlowMoves

LEMMA HostFlow ==
  ASSUME Kept, InOrder, QueueFirst \/ QueueSecond
  PROVE  InOrder'
<1>1. QueuesTyped /\ Working
  BY RowQueued DEF Kept, Typed
<1>2. tmdsValid' = tmdsValid /\ encoder' = encoder /\ content' = content
  BY DEF QueueFirst, QueueSecond, QueueRow
<1>3. /\ colourValid' = Append(colourValid, nextScanline)
      /\ nextScanline' = RowAfter(nextScanline)
  BY RowQueued, NumberFacts DEF RowAfter
<1>4. /\ 0 \in 0 .. Len(tmdsValid) /\ 1 \in {0, 1} /\ 1 # 0
      /\ Len(tmdsValid') = Len(tmdsValid) - 0
      /\ \A k \in 1 .. Len(tmdsValid) - 0 : tmdsValid'[k] = tmdsValid[k + 0]
  BY <1>1, <1>2, LengthsAreNumbers
<1> QED
  BY <1>1, <1>2, <1>3, <1>4, FlowMoves

LEMMA InOrderStep ==
  ASSUME Kept, BuffersConserved, InOrder, [Next]_vars
  PROVE  InOrder'
<1>1. QueuesTyped /\ encoder \in Encoders /\ Phases
  BY DEF Kept, Typed, EncoderTyped
<1> SUFFICES ASSUME Working' PROVE InOrder'
  BY DEF InOrder
<1>2. CASE DmaIrq
  BY <1>2, IrqFlow DEF Working
<1>3. CASE StartDvi \/ TakeRow \/ TakeBuffer \/ Encode \/ GiveRow
  <2>1. Working
    BY <1>1, <1>3 DEF StartDvi, TakeRow, TakeBuffer, Encode, GiveRow, core0,
       irqVars, Working, Phases
  <2> QED
    BY <1>3, <2>1, EncoderFlow
<1>4. CASE QueueFirst \/ QueueSecond
  BY <1>4, HostFlow
<1>5. CASE Ready \/ UNCHANGED vars
  <2>1. /\ Working /\ tmdsValid' = tmdsValid /\ colourValid' = colourValid
        /\ encoder' = encoder /\ content' = content /\ nextScanline' = nextScanline
    BY <1>5 DEF Ready, vars, queues, irqVars, core0, Working
  <2>2. Begun' = Begun
    BY <2>1 DEF Begun, AtRow
  <2>3. InFlight' = InFlight
    BY <2>1, <2>2 DEF InFlight
  <2>4. \A k : FlowAt(k)' = FlowAt(k)
    BY <2>1, <2>2, <2>3 DEF FlowAt
  <2> QED
    BY <2>1, <2>3, <2>4, FlowStays
<1>6. CASE Halts
  BY <1>6 DEF Halts, HwStop, Stopped, Working
<1>7. CASE \E o \in Objects : Construct(o)
  <2>1. /\ tmdsValid' = <<>> /\ colourValid' = <<>> /\ nextScanline' = 0
        /\ encoder'.pc = "boot"
    BY <1>7 DEF Construct, ClearQueues, IdleEncoder
  <2>2. Begun' = 0
    BY <2>1 DEF Begun, AtRow, One
  <2>3. InFlight' = 0
    BY <2>1, <2>2 DEF InFlight
  <2>4. FlowAt(1)' = 0
    BY <2>1, <2>2, <2>3 DEF FlowAt
  <2> QED
    BY <2>3, <2>4, NumberFacts DEF InOrder
<1> QED
  BY <1>2, <1>3, <1>4, <1>5, <1>6, <1>7, NextCases

LEMMA AimedStep ==
  ASSUME Doubled, Kept, Aimed, [Next]_vars
  PROVE  Aimed'
<1>1. beam \in Beams /\ Phases /\ HostTyped
  BY DEF Kept, Typed, BeamTyped
<1> SUFFICES ASSUME Working', ctor' \in {"spin", "idle"}
             PROVE  nextScanline' = RowAfter(RowAfter(Awaited(beam)))'
  BY DEF Aimed
<1>2. RowAfter(RowAfter(Awaited(beam)))' = RowAfter(RowAfter(Awaited(beam')))
  BY DEF RowAfter, Awaited, LastRepeat
<1>3. CASE DmaIrq
  <2>1. Working /\ ctor \in {"spin", "idle"} /\ irq' # "blocked"
    BY <1>3, IrqEffect DEF Working, core0
  <2>2. nextScanline = RowAfter(RowAfter(Awaited(beam)))
    BY <2>1 DEF Aimed
  <2>3. beam' = NextBeam(beam)
    BY <1>3, IrqEffect
  <2>4. Awaited(beam') = IF CallsBack(NextBeam(beam)) THEN RowAfter(Awaited(beam))
                                                     ELSE Awaited(beam)
    BY <1>1, <2>3, AwaitedFacts
  <2>5. nextScanline' = IF CallsBack(NextBeam(beam)) THEN RowAfter(nextScanline)
                                                   ELSE nextScanline
    BY <1>3, <2>1, IrqPace, NextRowIsAfter
  <2> QED
    BY <1>2, <2>2, <2>4, <2>5
<1>4. CASE StartDvi \/ TakeRow \/ TakeBuffer \/ Encode \/ GiveRow
  <2>1. Working
    BY <1>1, <1>4 DEF StartDvi, TakeRow, TakeBuffer, Encode, GiveRow, core0,
       irqVars, Working, Phases
  <2>2. nextScanline' = nextScanline /\ beam' = beam /\ ctor' = ctor
    BY <1>4 DEF StartDvi, TakeRow, TakeBuffer, Encode, GiveRow, core0, irqVars, beamVars
  <2> QED
    BY <1>2, <2>1, <2>2 DEF Aimed
<1>5. CASE QueueFirst \/ QueueSecond
  <2>1. QueueSecond /\ nextScanline' = 2 /\ beam' = beam /\ ctor = "second"
    BY <1>5, RowQueued DEF QueueFirst, QueueSecond, QueueRow, Kept, Paced, beamVars
  <2>2. beam.region # "active"
    BY <1>1, <2>1 DEF Phases
  <2> QED
    BY <1>2, <2>1, <2>2, NumberFacts DEF Awaited, RowAfter
<1>6. CASE Ready \/ UNCHANGED vars
  BY <1>2, <1>6 DEF Ready, vars, irqVars, beamVars, core0, Working, Aimed
<1>7. CASE Halts
  BY <1>7 DEF Halts, HwStop, Stopped, Working
<1>8. CASE \E o \in Objects : Construct(o)
  BY <1>8 DEF Construct
<1> QED
  BY <1>3, <1>4, <1>5, <1>6, <1>7, <1>8, NextCases

\* The row the beam waits for is the first one in flight that is not late.
LEMMA AwaitedIsThere ==
  ASSUME Doubled, Kept, InOrder, Aimed, Working, ctor \in {"spin", "idle"}
  PROVE  /\ late \in Nat /\ InFlight = 2 + late
         /\ FlowAt(late + 1) = Awaited(beam)
<1>1. /\ late \in Nat /\ InFlight = 2 + late
  BY NumberFacts DEF Kept, Typed, IrqTyped, Paced
<1>2. Awaited(beam) \in Rows
  BY AwaitedFacts DEF Kept, Typed, BeamTyped
<1>3. nextScanline = RowAfter(RowAfter(Awaited(beam)))
  BY DEF Aimed
<1>4. /\ late + 1 \in 1 .. InFlight /\ late + 2 \in 1 .. InFlight
      /\ late + 1 \in 1 .. InFlight + 1 /\ late + 2 \in 1 .. InFlight + 1
      /\ (late + 1) + 1 = late + 2 /\ (late + 2) + 1 = InFlight + 1
  BY <1>1
<1>5. FlowAt(InFlight + 1) = nextScanline
  <2>1. QueuesTyped
    BY DEF Kept, Typed
  <2> QED
    BY <2>1, FlowNumbers DEF FlowAt
<1>6. /\ FlowAt(late + 1) \in Rows /\ FlowAt(late + 2) \in Rows
      /\ FlowAt(late + 2) = RowAfter(FlowAt(late + 1))
      /\ nextScanline = RowAfter(FlowAt(late + 2))
  <2>1. FlowAt(late + 1) \in Rows /\ FlowAt(late + 2) \in Rows
    BY <1>4 DEF InOrder
  <2>2. FlowAt((late + 1) + 1) = RowAfter(FlowAt(late + 1))
    BY <1>4 DEF InOrder
  <2>3. FlowAt((late + 2) + 1) = RowAfter(FlowAt(late + 2))
    BY <1>4 DEF InOrder
  <2> QED
    BY <1>4, <1>5, <2>1, <2>2, <2>3
<1>7. FlowAt(late + 2) = RowAfter(Awaited(beam))
  BY <1>2, <1>3, <1>6, RowAfterFacts
<1> QED
  BY <1>1, <1>2, <1>6, <1>7, RowAfterFacts

\* The encoder writes in no buffer that is queued, or with the beam.
LEMMA EncoderSpares ==
  ASSUME Kept, BuffersConserved, TakeBuffer \/ Encode, NEW b \in Buffers,
         Count(tmdsValid, b) >= 1 \/ releaseNext = b \/ release = b
  PROVE  content'[b] = content[b]
<1>1. active # None /\ EncoderTyped
  BY DEF TakeBuffer, Encode, Kept, Typed, Phases
<1>2. encoder.buf # b /\ (tmdsFree # <<>> => Head(tmdsFree) # b)
  BY <1>1, Elsewhere
<1> QED
  BY <1>1, <1>2 DEF TakeBuffer, Encode, EncoderTyped

LEMMA LoadedStep ==
  ASSUME Doubled, Kept, BuffersConserved, InOrder, Aimed, LoadedRight, [Next]_vars
  PROVE  LoadedRight'
<1>1. /\ BeamTyped /\ QueuesTyped /\ IrqTyped /\ EncoderTyped /\ Phases
      /\ tmdsValid \in Seq(Buffers)
  BY DEF Kept, Typed, QueuesTyped
<1>2. CASE DmaIrq
  <2> DEFINE c == NextBeam(beam)
  <2>1. /\ c \in Beams /\ c.region \in RegionNames /\ beam \in Beams
    BY <1>1, NextBeamFacts, BeamFacts DEF BeamTyped
  <2>2. beam' = c /\ loaded' = ChosenLine(c) /\ content' = content
    BY <1>2, IrqEffect
  <2>3. /\ loaded'.list = "sync" <=> beam'.region = "sync"
        /\ loaded'.list = "nosync" <=> beam'.region \in {"front", "back"}
        /\ loaded'.list = "active" =>
             c.region = "active" /\ StillValid # <<>> /\ loaded'.buf = Head(StillValid)
    BY <2>1, <2>2
       DEF ChosenLine, RegionNames, BlankLine, SyncLine, ErrorLine, BufferLine
  <2>4. ASSUME loaded'.list = "active"
        PROVE  /\ loaded'.buf \in Buffers
               /\ content'[loaded'.buf] = beam'.line \div Repeat
               /\ LastRepeat(beam') => releaseNext' = loaded'.buf
               /\ ~LastRepeat(beam') => /\ late' = 0 /\ tmdsValid' # <<>>
                                        /\ tmdsValid'[1] = loaded'.buf
    <3>1. /\ c.region = "active" /\ StillValid # <<>>
          /\ loaded'.buf = Head(StillValid)
      BY <2>3, <2>4
    <3>2. /\ Dropped = late /\ StillValid \in Seq(Buffers)
          /\ Len(StillValid) = Len(tmdsValid) - Dropped
          /\ \A i \in 1 .. Len(StillValid) : StillValid[i] = tmdsValid[i + Dropped]
      BY <1>1, <3>1, DropFacts
    <3>3. /\ 1 \in 1 .. Len(StillValid) /\ Head(StillValid) = StillValid[1]
          /\ StillValid[1] \in Buffers
      BY <3>1, <3>2, EmptySeq, LenProperties, ElementOfSeq
    <3>4. /\ loaded'.buf = tmdsValid[late + 1] /\ loaded'.buf \in Buffers
          /\ late + 1 <= Len(tmdsValid)
      <4>1. late \in Nat /\ Len(tmdsValid) \in Nat /\ 1 + late = late + 1
        BY <1>1, DropFacts
      <4> QED
        BY <3>1, <3>2, <3>3, <4>1
    <3>5. Working /\ ctor = "idle"
      BY <1>2, <3>1, IrqEffect DEF Working
    <3>6. content[tmdsValid[late + 1]] = Awaited(beam)
      BY <3>4, <3>5, AwaitedIsThere DEF FlowAt
    <3>7. Awaited(beam) = c.line \div Repeat
      BY <2>1, <3>1, AwaitedFacts
    <3>8. LastRepeat(c) => releaseNext' = Head(StillValid)
      BY <1>2, <3>1, IrqEffect DEF Taken
    <3>9. ASSUME ~LastRepeat(c)
          PROVE  /\ late' = 0 /\ tmdsValid' # <<>>
                 /\ tmdsValid'[1] = Head(StillValid)
      <4>1. late' = late - Dropped /\ tmdsValid' = StillValid
        BY <1>1, <1>2, <3>9, IrqEffect, DropFacts DEF Taken, Missed, LateAfter
      <4>2. late \in Nat
        BY <1>1, DropFacts
      <4> QED
        BY <3>1, <3>2, <3>3, <4>1, <4>2
    <3> QED
      BY <2>2, <3>1, <3>4, <3>6, <3>7, <3>8, <3>9
  <2>5. LastRepeat(beam)' <=> LastRepeat(beam')
    BY DEF LastRepeat
  <2> QED
    BY <2>3, <2>4, <2>5 DEF LoadedRight
<1>3. CASE TakeBuffer \/ Encode
  <2>1. /\ loaded' = loaded /\ beam' = beam /\ releaseNext' = releaseNext
        /\ late' = late
    BY <1>3 DEF TakeBuffer, Encode, beamVars, irqVars
  <2>2. ASSUME tmdsValid # <<>>
        PROVE  /\ tmdsValid[1] \in Buffers /\ Count(tmdsValid, tmdsValid[1]) >= 1
               /\ tmdsValid' # <<>> /\ tmdsValid'[1] = tmdsValid[1]
    <3>1. 1 \in 1 .. Len(tmdsValid) /\ Len(tmdsValid) \in Nat
      BY <1>1, <2>2, EmptySeq, LenProperties
    <3>2. tmdsValid[1] \in Buffers /\ Count(tmdsValid, tmdsValid[1]) >= 1
      BY <1>1, <3>1, CountThere, ElementOfSeq
    <3>3. CASE TakeBuffer
      BY <2>2, <3>2, <3>3 DEF TakeBuffer
    <3>4. CASE Encode
      <4>1. encoder.buf \in Buffers /\ tmdsValid' = Append(tmdsValid, encoder.buf)
        BY <1>1, <3>4, NumberFacts
           DEF Encode, Phases, EncoderTyped, Encoders, Buffers
      <4>2. tmdsValid' \in Seq(Buffers) /\ Len(tmdsValid') = Len(tmdsValid) + 1
            /\ tmdsValid'[1] = tmdsValid[1]
        BY <1>1, <3>1, <4>1, AppendProperties
      <4> QED
        BY <3>1, <3>2, <4>2, EmptySeq
    <3> QED
      BY <1>3, <3>3, <3>4
  <2>3. ASSUME loaded.list = "active"
        PROVE  content'[loaded.buf] = content[loaded.buf]
    <3>1. loaded.buf \in Buffers
      BY <2>3 DEF LoadedRight
    <3>2. \/ releaseNext = loaded.buf
          \/ tmdsValid # <<>> /\ tmdsValid[1] = loaded.buf
      BY <2>3 DEF LoadedRight
    <3> QED
      BY <1>3, <2>2, <3>1, <3>2, EncoderSpares
  <2>4. LastRepeat(beam)' <=> LastRepeat(beam)
    BY <2>1 DEF LastRepeat
  <2> QED
    BY <2>1, <2>2, <2>3, <2>4 DEF LoadedRight
<1>4. CASE \/ Halts /\ active # None
           \/ \E o \in Objects : Construct(o)
  <2>1. loaded' = BlankLine /\ beam' = FirstBeam
    BY <1>4 DEF Halts, HwStop, Stopped, Construct
  <2> QED
    BY <2>1 DEF LoadedRight, BlankLine, FirstBeam
<1>5. CASE \/ Halts /\ active = None
           \/ StartDvi \/ TakeRow \/ GiveRow \/ QueueFirst \/ QueueSecond
           \/ Ready \/ UNCHANGED vars
  <2>1. /\ loaded' = loaded /\ beam' = beam /\ releaseNext' = releaseNext
        /\ late' = late /\ tmdsValid' = tmdsValid /\ content' = content
    BY <1>5 DEF Halts, HwStop, StartDvi, TakeRow, GiveRow, QueueFirst, QueueSecond,
       QueueRow, Ready, vars, queues, irqVars, beamVars
  <2> QED
    BY <2>1 DEF LoadedRight, LastRepeat
<1> QED
  BY <1>2, <1>3, <1>4, <1>5, NextCases

\* The buffer loaded for the first of a row's lines is the one the interrupt
\* then sets aside for the second.
LEMMA LoadedIsSetAside ==
  ASSUME Doubled, Kept, LoadedRight, DmaIrq, loaded.list = "active"
  PROVE  loaded.buf \in {releaseNext', release'}
<1>1. QueuesTyped /\ IrqTyped /\ beam \in Beams
  BY DEF Kept, Typed, BeamTyped
<1>2. CASE LastRepeat(beam)
  BY <1>2, IrqEffect DEF LoadedRight
<1>3. CASE ~LastRepeat(beam)
  <2> DEFINE c == NextBeam(beam)
  <2>1. beam.region = "active" /\ beam.line \in Nat /\ beam.line < 2 * Height
    <3>1. beam.region = "active"
      BY <1>1, BeamFacts DEF LoadedRight, RegionNames
    <3> QED
      BY <1>1, <3>1, BeamFacts DEF LinesOf, Doubled, Repeat
  <2>2. beam.line % 2 = 0 /\ Height \in Nat
    BY <1>3, <2>1, NumberFacts DEF LastRepeat, Repeat
  <2>3. beam.line + 1 # 2 * Height /\ (beam.line + 1) % 2 = 1
    BY <2>1, <2>2
  <2>4. c.region = "active" /\ c.line = beam.line + 1
    BY <2>1, <2>3 DEF NextBeam, LinesOf, Doubled, Repeat
  <2>5. LastRepeat(c)
    BY <2>3, <2>4 DEF LastRepeat, Repeat
  <2>6. late = 0 /\ tmdsValid # <<>> /\ tmdsValid[1] = loaded.buf
    BY <1>3 DEF LoadedRight
  <2>7. Len(tmdsValid) \in Nat /\ Len(tmdsValid) # 0
    BY <1>1, <2>6, EmptySeq DEF QueuesTyped
  <2>8. Dropped = 0 /\ StillValid # <<>>
    <3>1. Dropped = 0
      BY <2>6, <2>7 DEF Dropped
    <3> QED
      BY <1>1, <2>7, <3>1, DropFacts
  <2>9. One(Taken(c)) = 1
    BY <2>4, <2>5, <2>8 DEF Taken, One
  <2>10. releaseNext' = tmdsValid[Dropped + 1]
    BY <2>9, IrqQueue
  <2> QED
    BY <2>6, <2>8, <2>10
<1> QED
  BY <1>2, <1>3

LEMMA SentStep ==
  ASSUME Doubled, Kept, BuffersConserved, LoadedRight, SentRight, [Next]_vars
  PROVE  SentRight'
<1>1. CASE DmaIrq
  <2>1. sent' = [line |-> loaded, at |-> beam] /\ content' = content
    BY <1>1, IrqEffect
  <2>2. sent'.line = loaded /\ sent'.at = beam
    BY <2>1
  <2>3. loaded.list = "active" => loaded.buf \in {releaseNext', release'}
    BY <1>1, LoadedIsSetAside
  <2> QED
    BY <2>1, <2>2, <2>3 DEF SentRight, LineInPlace, LoadedRight
<1>2. CASE TakeBuffer \/ Encode
  <2>1. sent' = sent /\ releaseNext' = releaseNext /\ release' = release
    BY <1>2 DEF TakeBuffer, Encode, beamVars, irqVars
  <2>2. sent.line.list = "active" => content'[sent.line.buf] = content[sent.line.buf]
    BY <1>2, EncoderSpares DEF SentRight
  <2> QED
    BY <2>1, <2>2 DEF SentRight, LineInPlace
<1>3. CASE \/ Halts /\ active # None
           \/ \E o \in Objects : Construct(o)
  <2>1. sent' = NothingSent
    BY <1>3 DEF Halts, HwStop, Stopped, Construct
  <2> QED
    BY <2>1 DEF SentRight, LineInPlace, NothingSent, BlankLine, FirstBeam
<1>4. CASE \/ Halts /\ active = None
           \/ StartDvi \/ TakeRow \/ GiveRow \/ QueueFirst \/ QueueSecond
           \/ Ready \/ UNCHANGED vars
  <2>1. /\ sent' = sent /\ releaseNext' = releaseNext /\ release' = release
        /\ content' = content
    BY <1>4 DEF Halts, HwStop, StartDvi, TakeRow, GiveRow, QueueFirst, QueueSecond,
       QueueRow, Ready, vars, queues, irqVars, beamVars
  <2> QED
    BY <2>1 DEF SentRight, LineInPlace
<1> QED
  BY <1>1, <1>2, <1>3, <1>4, NextCases

LEMMA ShownAtFirst == Init => Shown
<1> SUFFICES ASSUME Init PROVE Shown
  OBVIOUS
<1>1. active = None /\ sent = NothingSent /\ loaded = BlankLine /\ beam = FirstBeam
  BY DEF Init
<1>2. BuffersConserved /\ InOrder /\ Aimed
  BY <1>1 DEF BuffersConserved, InOrder, Aimed, Working
<1>3. LoadedRight
  BY <1>1 DEF LoadedRight, BlankLine, FirstBeam
<1>4. SentRight
  BY <1>1 DEF SentRight, LineInPlace, NothingSent, BlankLine, FirstBeam
<1> QED
  BY <1>2, <1>3, <1>4 DEF Shown

\* However late the encoder is, whatever rows are dropped and however often
\* the device is built and taken down, what the DMA sends for a line of the
\* screen is that line's: the sync or the blank list in the blanking and, in
\* the active lines, the framebuffer's row whole, or the error line.  No
\* buffer is written while the beam is in it.
THEOREM LinesInPlace ==
  ASSUME Doubled
  PROVE  Spec => []LineInPlace
<1>1. Init => Shown
  BY ShownAtFirst
<1>2. Kept /\ Shown /\ [Next]_vars => Shown'
  BY Conserving, InOrderStep, AimedStep, LoadedStep, SentStep DEF Shown
<1>3. Shown => LineInPlace
  BY DEF Shown, SentRight
<1> QED
  BY <1>1, <1>2, <1>3, Keeping, PTL DEF Spec
=============================================================================
