-------------------------- MODULE MixedPipelineProofs --------------------------
(***************************************************************************)
(* Machine-checked proof that RingInv is an inductive invariant of the     *)
(* stage ring, for every number of threads, columns, stages, delivery      *)
(* steps and tiles, that the ring's safety properties follow, and that     *)
(* the mainloop implements TileAccumulate.                                 *)
(***************************************************************************)
EXTENDS MixedPipelineInv, ProofArithmetic

-----------------------------------------------------------------------------
(* Facts about the constants.                                              *)

(* The ranges the assumption on the constants gives them.                  *)
LEMMA Sizes ==
  /\ NumThreads \in Nat \ {0} /\ NumColumns \in Nat \ {0}
  /\ NumColumns <= NumThreads
  /\ ScaleGroups \in Nat \ {0} /\ KBlocks \in Nat \ {0} /\ Tiles \in Nat \ {0}
  /\ Stages \in Nat \ {0} /\ Stages >= 2
  /\ TilesPerUnit \in Nat \ {0}
  /\ NoTile = -1
BY PipelineAssumption DEF PipelineAssumption, NoTile

(* A delivery step only ever names scale groups of the tile.               *)
LEMMA GroupsOfType ==
  /\ StepsPerGroup \in Nat \ {0}
  /\ \A k \in Block : GroupsOf[k] \subseteq Groups
<1>1. CASE Coarse
  <2>1. ScaleGroups <= KBlocks /\ (KBlocks % ScaleGroups) = 0
    <3>1. CASE (KBlocks % ScaleGroups) = 0
      BY <1>1, <3>1 DEF Coarse
    <3>2. CASE (ScaleGroups % KBlocks) = 0
      <4>1. ScaleGroups = KBlocks * (ScaleGroups \div KBlocks)
            /\ (ScaleGroups \div KBlocks) \in Nat
        BY <3>2, Sizes, ModDecompose
      <4>2. CASE (ScaleGroups \div KBlocks) = 0
        BY <4>1, <4>2, Sizes
      <4>3. CASE (ScaleGroups \div KBlocks) >= 1
        <5>1. PICK d \in Nat : (ScaleGroups \div KBlocks) = d + 1
          BY <4>1, <4>3
        <5>2. KBlocks * (d + 1) = KBlocks * d + KBlocks /\ KBlocks * d \in Nat
          BY Sizes
        <5>3. ScaleGroups = KBlocks
          BY <5>1, <5>2, <4>1, <1>1, Sizes DEF Coarse
        <5> QED BY <5>3, <1>1, <3>2 DEF Coarse
      <4> QED BY <4>1, <4>2, <4>3
    <3> QED BY <3>1, <3>2, PipelineAssumption DEF PipelineAssumption
  <2>2. StepsPerGroup = (KBlocks \div ScaleGroups) /\ StepsPerGroup \in Nat
        /\ KBlocks = ScaleGroups * StepsPerGroup
    BY <2>1, <1>1, Sizes, ModDecompose DEF StepsPerGroup
  <2>3. StepsPerGroup # 0
    BY <2>2, Sizes
  <2>4. KBlocks = StepsPerGroup * ScaleGroups
    BY <2>2, Sizes
  <2>5. ASSUME NEW k \in Block PROVE GroupsOf[k] \subseteq Groups
    <3>1. k \in 0 .. (StepsPerGroup * ScaleGroups) - 1
      BY <2>4 DEF Block
    <3>2. (k \div StepsPerGroup) \in 0 .. ScaleGroups - 1
      BY <3>1, <2>2, <2>3, Sizes, DivRange
    <3> QED BY <3>2, <1>1 DEF GroupsOf, Groups
  <2> QED BY <2>2, <2>3, <2>5
<1>2. CASE ~Coarse
  BY <1>2 DEF StepsPerGroup, GroupsOf
<1> QED BY <1>1, <1>2

(* The wrapped thread index names a column.                                *)
LEMMA ColumnType == \A t \in Threads : ColumnOf(t) \in Columns
<1> SUFFICES ASSUME NEW t \in Threads PROVE (t % NumColumns) \in 0 .. NumColumns - 1
  BY DEF ColumnOf, Columns
<1>1. t \in Nat
  BY Sizes DEF Threads
<1> QED BY <1>1, Sizes, ModDecompose

(* The decode of a thread stays inside the column the thread itself has    *)
(* copied (and so waited for), and together the threads decode everything. *)
LEMMA DecodeOwnership ==
  /\ \A t \in Threads : \A c \in Columns, g \in Groups :
       <<c, g>> \in Decodes(t) => c = ColumnOf(t)
  /\ \A c \in Columns, g \in Groups : \E t \in Threads : <<c, g>> \in Decodes(t)
<1>1. ASSUME NEW t \in Threads, t < NumColumns PROVE ColumnOf(t) = t
  <2>1. t \in 0 .. NumColumns - 1
    BY <1>1, Sizes DEF Threads
  <2> QED BY <2>1, Sizes, ModSmall DEF ColumnOf
<1>2. CASE SplitGroups
  <2>1. NumThreads = 2 * NumColumns
    BY <1>2, PipelineAssumption DEF PipelineAssumption
  <2>2. ASSUME NEW c \in Columns, NEW g \in Groups
        PROVE  \E t \in Threads : <<c, g>> \in Decodes(t)
    <3>1. c \in Threads /\ c < NumColumns /\ c \in Nat
      BY Sizes DEF Columns, Threads
    <3>2. CASE g < ScaleGroups \div 2
      <4>1. <<c, g>> \in Decodes(c)
        BY <3>1, <3>2, <1>1, <1>2 DEF Decodes
      <4> QED BY <4>1, <3>1
    <3>3. CASE ~(g < ScaleGroups \div 2)
      <4>1. c + NumColumns \in Threads /\ ~(c + NumColumns < NumColumns)
        BY <2>1, Sizes DEF Columns, Threads
      <4>2. ColumnOf(c + NumColumns) = c
        <5>1. ColumnOf(c + NumColumns) = (c % NumColumns)
          BY <3>1, Sizes, ModPeriod DEF ColumnOf
        <5> QED BY <5>1, <1>1, <3>1 DEF ColumnOf
      <4>3. <<c, g>> \in Decodes(c + NumColumns)
        BY <4>1, <4>2, <3>3, <1>2 DEF Decodes
      <4> QED BY <4>1, <4>3
    <3> QED BY <3>2, <3>3
  <2> QED BY <1>2, <2>2 DEF Decodes
<1>3. CASE ~SplitGroups
  <2>1. ASSUME NEW c \in Columns, NEW g \in Groups
        PROVE  c \in Threads /\ <<c, g>> \in Decodes(c)
    BY <1>3, Sizes DEF Decodes, Columns, Threads
  <2>2. ASSUME NEW t \in Threads, NEW c \in Columns, NEW g \in Groups,
               <<c, g>> \in Decodes(t)
        PROVE  c = ColumnOf(t)
    BY <1>1, <1>3, <2>2 DEF Decodes
  <2> QED BY <2>1, <2>2
<1> QED BY <1>2, <1>3
-----------------------------------------------------------------------------
(* Types.                                                                  *)

(* Reading scale metadata returns <<tile, group>> pairs.                   *)
LEMMA PlaneTilesType ==
  ASSUME TypeOK, NEW s \in Stage, NEW gs \in SUBSET Groups
  PROVE  PlaneTiles(s, gs) \in SUBSET (Decoded \X Groups)
<1>1. CASE Packed
  <2>1. \A c \in Columns, g \in Groups : planes[s][c][g] \in Decoded
    BY DEF TypeOK
  <2> QED BY <1>1, <2>1 DEF PlaneTiles
<1>2. CASE ~Packed
  <2>1. \A c \in Columns : raw[s][c] \in Decoded
    BY DEF TypeOK, Cell, Decoded, Tile
  <2> QED BY <1>2, <2>1 DEF PlaneTiles
<1> QED BY <1>1, <1>2

(* Reading the codes of a stage returns tiles.                             *)
LEMMA SlabTilesType ==
  ASSUME TypeOK, NEW s \in Stage
  PROVE  SlabTiles(s) \in SUBSET Cell
BY DEF TypeOK, SlabTiles

(* Issuing a copy of a tile into a stage keeps the groups in type.         *)
LEMMA IssueType ==
  ASSUME TypeOK, NEW t \in Threads, NEW s \in Stage, NEW i \in Tile, Issue(t, s, i)
  PROVE  /\ issued' \in [Threads -> Nat] /\ pending' \in [Threads -> SUBSET Group]
         /\ unitPos' \in [Threads -> [Stage -> 0 .. TilesPerUnit - 1]]
<1>1. [seq |-> issued[t] + 1, stage |-> s, tile |-> i] \in Group
  BY DEF TypeOK, Group
<1>2. (i % TilesPerUnit) \in 0 .. TilesPerUnit - 1
  BY Sizes, ModDecompose DEF Tile
<1>3. unitPos' \in [Threads -> [Stage -> 0 .. TilesPerUnit - 1]]
  BY <1>2 DEF TypeOK, Issue
<1> QED BY <1>1, <1>3 DEF TypeOK, Issue

(* A unit number is in the range of tiles, a decoded tile is a tile number.*)
LEMMA UnitType ==
  /\ \A i \in Tile : UnitOf(i) \in Tile
  /\ TypeOK => \A t \in Threads, s \in Stage, c \in Columns : DecodedTile(t, s, c) \in Decoded
<1>1. ASSUME NEW i \in Tile PROVE UnitOf(i) \in Tile
  <2>1. i \in Nat /\ i < Tiles
    BY Sizes DEF Tile
  <2>2. (i \div TilesPerUnit) \in Nat /\ (i \div TilesPerUnit) <= i
    BY <2>1, Sizes, DivBound
  <2> QED BY <2>1, <2>2, Sizes DEF Tile, UnitOf
<1>2. ASSUME TypeOK, NEW t \in Threads, NEW s \in Stage, NEW c \in Columns
      PROVE  DecodedTile(t, s, c) \in Decoded
  <2>1. raw[s][c] \in Cell /\ unitPos[t][s] \in 0 .. TilesPerUnit - 1
    BY <1>2 DEF TypeOK
  <2>2. CASE raw[s][c] \in Nat
    <3>1. raw[s][c] * TilesPerUnit \in Nat /\ unitPos[t][s] \in Nat
      BY <2>1, <2>2, Sizes
    <3> QED BY <3>1 DEF DecodedTile, Decoded
  <2>3. CASE raw[s][c] = NoTile
    BY <2>3 DEF DecodedTile, Decoded
  <2> QED BY <2>1, <2>2, <2>3, Sizes DEF Cell, Tile
<1> QED BY <1>1, <1>2

(* Decoding the unit fetched for a tile at that tile's coordinate gives it *)
(* back, and a unit that serves one tile is that tile.                     *)
LEMMA UnitDecode ==
  /\ \A i \in Tile : UnitOf(i) * TilesPerUnit + (i % TilesPerUnit) = i
  /\ TilesPerUnit = 1 => \A i \in Tile : UnitOf(i) = i
<1>1. ASSUME NEW i \in Tile
      PROVE  /\ UnitOf(i) * TilesPerUnit + (i % TilesPerUnit) = i
             /\ TilesPerUnit = 1 => UnitOf(i) = i
  <2> DEFINE q == i \div TilesPerUnit
             m == i % TilesPerUnit
  <2>0. i \in Nat
    BY DEF Tile
  <2>1. m \in 0 .. TilesPerUnit - 1 /\ q \in Nat /\ i = TilesPerUnit * q + m
    BY <2>0, Sizes, ModDecompose
  <2> HIDE DEF q, m
  <2>2. q * TilesPerUnit + m = i
    BY <2>1, Sizes
  <2>3. TilesPerUnit = 1 => q = i
    BY <2>1
  <2> QED BY <2>2, <2>3 DEF UnitOf, q, m
<1> QED BY <1>1

(* Preparing a delivery keeps the registers in type.                       *)
LEMMA PrepareType ==
  ASSUME TypeOK, NEW t \in Threads, NEW k \in Block, Prepare(t, k)
  PROVE  /\ scaleReg' \in [Threads -> SUBSET (Decoded \X Groups)]
         /\ frag' \in [Threads ->
              [Block -> [data : SUBSET Cell, meta : SUBSET (Decoded \X Groups)]]]
<1> DEFINE s        == readStage[t]
           loaded   == PlaneTiles(s, GroupsOf[k])
           reloaded == IF Coarse /\ StartsGroup(k) THEN loaded ELSE scaleReg[t]
           meta     == IF Provider # "eager" THEN {} ELSE IF Coarse THEN reloaded ELSE loaded
           delivery == [data |-> SlabTiles(s), meta |-> meta]
<1>1. s \in Stage
  BY DEF TypeOK
<1>2. loaded \in SUBSET (Decoded \X Groups)
  BY <1>1, PlaneTilesType, GroupsOfType
<1>3. SlabTiles(s) \in SUBSET Cell
  BY <1>1, SlabTilesType
<1>4. scaleReg[t] \in SUBSET (Decoded \X Groups)
  BY DEF TypeOK
<1>5. /\ scaleReg' = [scaleReg EXCEPT ![t] = reloaded]
      /\ frag' = [frag EXCEPT ![t][k] = delivery]
  BY DEF Prepare
<1> HIDE DEF loaded, s
<1>6. reloaded \in SUBSET (Decoded \X Groups) /\ meta \in SUBSET (Decoded \X Groups)
  BY <1>2, <1>4
<1> HIDE DEF reloaded, meta
<1>7. delivery \in [data : SUBSET Cell, meta : SUBSET (Decoded \X Groups)]
  BY <1>3, <1>6
<1> HIDE DEF delivery
<1> QED BY <1>5, <1>6, <1>7 DEF TypeOK

(* Whatever the provider, a consumed fragment is a fragment.               *)
LEMMA ConsumedType ==
  ASSUME TypeOK, NEW t \in Threads
  PROVE  Consumed(t) \in Fragments
<1>1. /\ kBlock[t] \in Block /\ token[t] \in Stage
      /\ frag[t][kBlock[t]] \in [data : SUBSET Cell, meta : SUBSET (Decoded \X Groups)]
      /\ scaleReg[t] \in SUBSET (Decoded \X Groups)
  BY DEF TypeOK
<1>2. PlaneTiles(token[t], GroupsOf[kBlock[t]]) \in SUBSET (Decoded \X Groups)
  BY <1>1, PlaneTilesType, GroupsOfType
<1>3. SlabTiles(token[t]) \in SUBSET Cell
  BY <1>1, SlabTilesType
<1>4. ConsumedMeta(t) \in SUBSET (Decoded \X Groups)
  BY <1>1, <1>2 DEF ConsumedMeta
<1> QED BY <1>1, <1>3, <1>4
        DEF Consumed, EagerConsumed, FoldConsumed, TwoPlaneConsumed, Fragments

(* The cursors of one thread, as integers.                                 *)
LEMMA CursorTypes ==
  ASSUME TypeOK, NEW t \in Threads
  PROVE  /\ pc[t] \in Location
         /\ kPipe[t] \in 0 .. Stages - 1
         /\ kBlock[t] \in Block /\ kBlock[t] \in Nat
         /\ tileIter[t] \in Tile /\ tileIter[t] \in Nat
         /\ tileCount[t] \in -(Stages - 1) .. Tiles /\ tileCount[t] \in Int
         /\ readStage[t] \in Stage /\ readStage[t] \in Nat
         /\ writeStage[t] \in Stage /\ writeStage[t] \in Nat
         /\ token[t] \in Stage
         /\ issued[t] \in Nat
         /\ Iteration(t) \in Int
<1>1. /\ pc[t] \in Location /\ kPipe[t] \in 0 .. Stages - 1 /\ kBlock[t] \in Block
      /\ tileIter[t] \in Tile /\ tileCount[t] \in -(Stages - 1) .. Tiles
  BY DEF TypeOK
<1>2. /\ readStage[t] \in Stage /\ writeStage[t] \in Stage /\ token[t] \in Stage
      /\ issued[t] \in Nat
  BY DEF TypeOK
<1>3. kBlock[t] \in Nat /\ tileIter[t] \in Nat
  BY <1>1, Sizes DEF Block, Tile
<1>4. readStage[t] \in Nat /\ writeStage[t] \in Nat
  BY <1>2, Sizes DEF Stage
<1>5. tileCount[t] \in Int /\ Iteration(t) \in Int
  BY <1>1, Sizes DEF Iteration
<1> QED BY <1>1, <1>2, <1>3, <1>4, <1>5

(* The initial state is in type.                                           *)
THEOREM TypeInit == Init => TypeOK
<1> SUFFICES ASSUME Init PROVE TypeOK
  OBVIOUS
<1>1. 0 \in Block /\ 0 \in Tile /\ 0 \in Stage /\ Stages - 1 \in Stage /\ NoTile \in Cell
      /\ NoTile \in Decoded /\ 0 \in 0 .. TilesPerUnit - 1
      /\ 0 \in 0 .. Stages - 1 /\ Tiles \in -(Stages - 1) .. Tiles
  BY Sizes DEF Block, Tile, Stage, Cell, Decoded
<1> QED BY <1>1 DEF Init, TypeOK, Location
(* Every step keeps the cursors, the stages and the histories in type.     *)
THEOREM TypeStep ==
  ASSUME TypeOK, \A t \in Threads : LocationInv(t) /\ CursorInv(t), [Next]_vars
  PROVE  TypeOK'
<1> USE DEF cursor, copies, memory, regs
<1>1. ASSUME NEW t \in Threads, PrologueCopy(t) PROVE TypeOK'
  <2>1. kPipe[t] \in 0 .. Stages - 2 /\ tileCount[t] = Tiles - kPipe[t]
        /\ tileIter[t] = (IF kPipe[t] < Tiles THEN kPipe[t] ELSE Tiles - 1)
    BY <1>1, CursorTypes, Sizes DEF PrologueCopy, LocationInv, CursorInv
  <2>2. kPipe[t] \in Stage /\ tileIter[t] \in Tile
    BY <2>1, CursorTypes, Sizes DEF Stage
  <2>3. /\ issued' \in [Threads -> Nat] /\ pending' \in [Threads -> SUBSET Group]
        /\ unitPos' \in [Threads -> [Stage -> 0 .. TilesPerUnit - 1]]
    BY <1>1, <2>2, IssueType DEF PrologueCopy
  <2>4. /\ kPipe[t] + 1 \in 0 .. Stages - 1
        /\ tileCount[t] - 1 \in -(Stages - 1) .. Tiles
        /\ NextTile(tileIter[t], tileCount[t] - 1 > 0) \in Tile
    BY <2>1, Sizes DEF NextTile, Tile
  <2>5. /\ kPipe' \in [Threads -> 0 .. Stages - 1]
        /\ tileCount' \in [Threads -> -(Stages - 1) .. Tiles]
        /\ tileIter' \in [Threads -> Tile]
    BY <1>1, <2>4 DEF PrologueCopy, TypeOK
  <2>6. pc' \in [Threads -> Location]
    BY <1>1 DEF PrologueCopy, TypeOK, Location
  <2> QED BY <1>1, <2>3, <2>5, <2>6 DEF PrologueCopy, TypeOK
<1>2. ASSUME NEW t \in Threads, WaitAndPublish(t) PROVE TypeOK'
  <2>1. pc' \in [Threads -> Location]
    BY <1>2 DEF WaitAndPublish, TypeOK, Location, SyncPoint
  <2>2. planes' \in [Stage -> [Columns -> [Groups -> Decoded]]]
    <3> DEFINE s == readStage[t]
               decoded == [c \in Columns |-> [g \in Groups |->
                             IF <<c, g>> \in Decodes(t) THEN DecodedTile(t, s, c)
                             ELSE planes[s][c][g]]]
    <3>1. s \in Stage
      BY CursorTypes
    <3> HIDE DEF s
    <3>4. \A c \in Columns : DecodedTile(t, s, c) \in Decoded
      BY <3>1, UnitType
    <3>2. decoded \in [Columns -> [Groups -> Decoded]]
      BY <3>1, <3>4 DEF TypeOK
    <3>3. planes' = IF Packed THEN [planes EXCEPT ![s] = decoded] ELSE planes
      BY <1>2 DEF WaitAndPublish, Publish, s
    <3> HIDE DEF decoded
    <3> QED BY <3>1, <3>2, <3>3 DEF TypeOK
  <2> QED BY <1>2, <2>1, <2>2 DEF WaitAndPublish, TypeOK
<1>3. ASSUME NEW t \in Threads, PrepareFirst(t) PROVE TypeOK'
  <2>1. 0 \in Block
    BY Sizes DEF Block
  <2>2. pc' \in [Threads -> Location]
    BY <1>3 DEF PrepareFirst, TypeOK, Location, BlockStart
  <2> QED BY <1>3, <2>1, <2>2, PrepareType DEF PrepareFirst, TypeOK
<1>4. ASSUME NEW t \in Threads, Advance(t)
      PROVE  readStage' \in [Threads -> Stage] /\ writeStage' \in [Threads -> Stage]
  <2>1. /\ readStage[t] \in Stage
        /\ (IF readStage[t] + 1 = Stages THEN 0 ELSE readStage[t] + 1) \in Stage
    BY CursorTypes, Sizes DEF Stage
  <2>2. readStage \in [Threads -> Stage] /\ writeStage \in [Threads -> Stage]
    BY DEF TypeOK
  <2>3. CASE AdvancesAfter(kBlock[t])
    BY <1>4, <2>1, <2>2, <2>3 DEF Advance
  <2>4. CASE ~AdvancesAfter(kBlock[t])
    BY <1>4, <2>2, <2>4 DEF Advance
  <2> QED BY <2>3, <2>4
<1>5. ASSUME NEW t \in Threads, PrepareNext(t) PROVE TypeOK'
  <2>1. ((kBlock[t] + 1) % KBlocks) \in Block
    BY CursorTypes, Sizes, ModDecompose DEF Block
  <2>2. pc' \in [Threads -> Location]
    <3>1. pc \in [Threads -> Location] /\ "prefetch" \in Location /\ "consume" \in Location
      BY DEF TypeOK, Location
    <3>2. CASE kBlock[t] = 0
      BY <1>5, <3>1, <3>2 DEF PrepareNext
    <3>3. CASE kBlock[t] # 0
      BY <1>5, <3>1, <3>3 DEF PrepareNext
    <3> QED BY <3>2, <3>3
  <2>3. readStage' \in [Threads -> Stage] /\ writeStage' \in [Threads -> Stage]
    BY <1>5, <1>4 DEF PrepareNext, TypeOK
  <2>4. token' \in [Threads -> Stage]
    BY <1>5 DEF PrepareNext, TypeOK
  <2>5. Prepare(t, (kBlock[t] + 1) % KBlocks)
    BY <1>5 DEF PrepareNext
  <2> QED BY <1>5, <2>1, <2>2, <2>3, <2>4, <2>5, PrepareType DEF PrepareNext, TypeOK
<1>6. ASSUME NEW t \in Threads, Prefetch(t) PROVE TypeOK'
  <2>1. writeStage[t] \in Stage /\ tileIter[t] \in Tile
    BY CursorTypes
  <2>2. /\ issued' \in [Threads -> Nat] /\ pending' \in [Threads -> SUBSET Group]
        /\ unitPos' \in [Threads -> [Stage -> 0 .. TilesPerUnit - 1]]
    BY <1>6, <2>1, IssueType DEF Prefetch
  <2>3. readStage' \in [Threads -> Stage] /\ writeStage' \in [Threads -> Stage]
    BY <1>6, <1>4 DEF Prefetch
  <2>4. NextTile(tileIter[t], tileCount[t] > 1) \in Tile
    <3>1. /\ issued[t] = Stages - 1 + Iteration(t)
          /\ tileIter[t] = (IF issued[t] < Tiles THEN issued[t] ELSE Tiles - 1)
      <4>1. pc[t] = "prefetch"
        BY <1>6 DEF Prefetch
      <4>2. kBlock[t] = 0
        BY <4>1 DEF LocationInv
      <4>3. ~Prefetched(t)
        BY <4>1, <4>2 DEF Prefetched
      <4> QED BY <4>1, <4>3, CursorTypes, Sizes DEF CursorInv, Iteration
    <3> QED BY <3>1, CursorTypes, Sizes DEF NextTile, Tile, Iteration
  <2>5. tileIter' \in [Threads -> Tile]
    BY <1>6, <2>4 DEF Prefetch, TypeOK
  <2>6. pc' \in [Threads -> Location]
    BY <1>6 DEF Prefetch, TypeOK, Location
  <2> QED BY <1>6, <2>2, <2>3, <2>5, <2>6 DEF Prefetch, TypeOK
<1>7. ASSUME NEW t \in Threads, Consume(t) PROVE TypeOK'
  <2>1. /\ kBlock[t] < KBlocks - 1 => kBlock[t] + 1 \in Block
        /\ 0 \in Block
    BY CursorTypes, Sizes DEF Block
  <2>2. tileCount[t] - 1 \in -(Stages - 1) .. Tiles
    <3>1. Iteration(t) \in Tile
      BY <1>7 DEF Consume, LocationInv, MainLoop
    <3> QED BY <3>1, CursorTypes, Sizes DEF Iteration, Tile
  <2>6. kBlock \in [Threads -> Block] /\ tileCount \in [Threads -> -(Stages - 1) .. Tiles]
    BY DEF TypeOK
  <2>3. kBlock' \in [Threads -> Block] /\ tileCount' \in [Threads -> -(Stages - 1) .. Tiles]
    <3>1. CASE kBlock[t] < KBlocks - 1
      BY <1>7, <2>1, <2>6, <3>1 DEF Consume
    <3>2. CASE ~(kBlock[t] < KBlocks - 1)
      BY <1>7, <2>1, <2>2, <2>6, <3>2 DEF Consume
    <3> QED BY <3>1, <3>2
  <2>4. pc' \in [Threads -> Location]
    BY <1>7 DEF Consume, TypeOK, Location, BlockStart
  <2>5. acc' \in [Threads -> Seq(Fragments)]
    <3>1. acc[t] \in Seq(Fragments) /\ Consumed(t) \in Fragments
      BY ConsumedType DEF TypeOK
    <3>2. Append(acc[t], Consumed(t)) \in Seq(Fragments)
      BY <3>1
    <3> QED BY <1>7, <3>2 DEF Consume, TypeOK
  <2> QED BY <1>7, <2>3, <2>4, <2>5 DEF Consume, TypeOK
<1>8. ASSUME NEW t \in Threads, Drain(t) PROVE TypeOK'
  <2>1. pc' \in [Threads -> Location]
    BY <1>8 DEF Drain, TypeOK, Location, SyncPoint
  <2> QED BY <1>8, <2>1 DEF Drain, TypeOK
<1>9. ASSUME NEW t \in Threads, Land(t) PROVE TypeOK'
  <2>1. PICK g \in pending[t] :
          /\ pending' = [pending EXCEPT ![t] = @ \ {g}]
          /\ smem' = [smem EXCEPT ![g.stage][t] = g.tile]
          /\ raw' = [raw EXCEPT ![g.stage][ColumnOf(t)] = UnitOf(g.tile)]
    BY <1>9 DEF Land
  <2>2. g \in Group
    BY DEF TypeOK
  <2>3. g.stage \in Stage /\ g.tile \in Cell /\ UnitOf(g.tile) \in Cell
        /\ ColumnOf(t) \in Columns
    BY <2>2, ColumnType, UnitType DEF Group, Cell
  <2>4. /\ smem' \in [Stage -> [Threads -> Cell]]
        /\ raw' \in [Stage -> [Columns -> Cell]]
        /\ pending' \in [Threads -> SUBSET Group]
    BY <2>1, <2>3 DEF TypeOK
  <2> QED BY <1>9, <2>4 DEF Land, TypeOK
<1>10. CASE Barrier
  <2>1. pc' \in [Threads -> Location]
    BY <1>10 DEF Barrier, AfterSync, SyncPoint, Location
  <2> QED BY <1>10, <2>1 DEF Barrier, TypeOK
<1>11. CASE UNCHANGED vars
  BY <1>11 DEF vars, TypeOK
<1> QED BY <1>1, <1>2, <1>3, <1>5, <1>6, <1>7, <1>8, <1>9, <1>10, <1>11
        DEF Next, Step, Terminated
-----------------------------------------------------------------------------
(* Locations, cursors and rounds of the thread that moves.                 *)

SameCursor(t) ==
  /\ pc'[t] = pc[t] /\ kPipe'[t] = kPipe[t] /\ kBlock'[t] = kBlock[t]
  /\ tileIter'[t] = tileIter[t] /\ tileCount'[t] = tileCount[t]
  /\ readStage'[t] = readStage[t] /\ writeStage'[t] = writeStage[t]
  /\ token'[t] = token[t] /\ issued'[t] = issued[t] /\ unitPos'[t] = unitPos[t]

(* What is known of a thread that has not moved is still known.            *)
LEMMA CursorFrame ==
  ASSUME NEW t \in Threads, SameCursor(t), LocationInv(t), CursorInv(t)
  PROVE  LocationInv(t)' /\ CursorInv(t)' /\ Rounds(t)' = Rounds(t)
BY DEF SameCursor, LocationInv, CursorInv, Rounds, ReadPos, Advanced, Prefetched,
       PastSync, Iteration

(* Where the read position stands relative to the round.                   *)
LEMMA ReadPosRounds ==
  ASSUME TypeOK, NEW t \in Threads, LocationInv(t)
  PROVE  /\ Rounds(t) \in Nat /\ ReadPos(t) \in Nat
         /\ pc[t] \in {"primeWait", "primeSync", "wait", "sync"} => ReadPos(t) = Rounds(t)
         /\ pc[t] \in {"prime", "prepare"} => Rounds(t) >= 1 /\ ReadPos(t) = Rounds(t) - 1
         /\ pc[t] \in {"prefetch", "consume"} => Rounds(t) >= 1
BY CursorTypes, Sizes
   DEF LocationInv, Rounds, ReadPos, Advanced, AdvancesAfter, PastSync, Primed,
       Early, Late, MainLoop, Location, SyncPoint, Tile, Block

(* PrologueCopy keeps its thread at its location, cursors and round.       *)
LEMMA CursorPrologueCopy ==
  ASSUME TypeOK, NEW t \in Threads, LocationInv(t), CursorInv(t), PrologueCopy(t)
  PROVE  LocationInv(t)' /\ CursorInv(t)' /\ Rounds(t)' = Rounds(t)
<1> USE DEF cursor, copies, memory, regs
<1>1. /\ pc[t] = "prologue" /\ kBlock[t] = 0
      /\ kPipe[t] \in 0 .. Stages - 2 /\ tileCount[t] = Tiles - kPipe[t]
      /\ issued[t] = kPipe[t]
      /\ tileIter[t] = (IF issued[t] < Tiles THEN issued[t] ELSE Tiles - 1)
      /\ readStage[t] = (0 % Stages) /\ writeStage[t] = ((0 + Stages - 1) % Stages)
  BY CursorTypes, Sizes DEF PrologueCopy, LocationInv, CursorInv, ReadPos, Early
<1>2. /\ issued'[t] = issued[t] + 1 /\ kPipe'[t] = kPipe[t] + 1
      /\ tileCount'[t] = tileCount[t] - 1
      /\ tileIter'[t] = (IF tileCount[t] - 1 > 0 THEN tileIter[t] + 1 ELSE tileIter[t])
      /\ pc'[t] = IF kPipe[t] + 1 < Stages - 1 THEN "prologue"
                  ELSE IF KBlocks > 1 THEN "primeWait" ELSE "wait"
      /\ kBlock'[t] = kBlock[t] /\ readStage'[t] = readStage[t]
      /\ writeStage'[t] = writeStage[t]
  <2>1. /\ issued'[t] = issued[t] + 1 /\ kPipe'[t] = kPipe[t] + 1
        /\ tileCount'[t] = tileCount[t] - 1
    BY DEF PrologueCopy, Issue, TypeOK
  <2>2. tileIter'[t] = (IF tileCount[t] - 1 > 0 THEN tileIter[t] + 1 ELSE tileIter[t])
    BY DEF PrologueCopy, NextTile, TypeOK
  <2>3. pc'[t] = IF kPipe[t] + 1 < Stages - 1 THEN "prologue"
                 ELSE IF KBlocks > 1 THEN "primeWait" ELSE "wait"
    BY DEF PrologueCopy, TypeOK
  <2>4. /\ kBlock'[t] = kBlock[t] /\ readStage'[t] = readStage[t]
        /\ writeStage'[t] = writeStage[t]
    BY DEF PrologueCopy
  <2> QED BY <2>1, <2>2, <2>3, <2>4
<1>3. tileIter'[t] = (IF issued'[t] < Tiles THEN issued'[t] ELSE Tiles - 1)
  BY <1>1, <1>2, Sizes
<1>4. pc'[t] # "prologue" => Iteration(t)' = 0 /\ kPipe'[t] = Stages - 1
  <2>1. SUFFICES ASSUME pc'[t] # "prologue"
                 PROVE  Iteration(t)' = 0 /\ kPipe'[t] = Stages - 1
    OBVIOUS
  <2>2. kPipe[t] = Stages - 2
    BY <1>1, <1>2, <2>1, Sizes
  <2>3. tileCount'[t] = Tiles - (Stages - 2) - 1
    BY <1>1, <1>2, <2>2
  <2> QED BY <1>2, <2>2, <2>3, Sizes DEF Iteration
<1>5. LocationInv(t)'
  BY <1>1, <1>2, <1>4, Sizes DEF LocationInv, Early, Late, MainLoop, Tile
<1>6. ReadPos(t)' = 0 /\ Rounds(t)' = 0 /\ Rounds(t) = 0
  BY <1>1, <1>2, <1>4, Sizes
     DEF ReadPos, Advanced, Rounds, PastSync, Primed, Early, MainLoop
<1>7. CursorInv(t)'
  BY <1>1, <1>2, <1>3, <1>4, <1>6, Sizes DEF CursorInv, Prefetched, MainLoop
<1> QED BY <1>5, <1>6, <1>7

(* WaitAndPublish keeps its thread at its location, cursors and round.     *)
LEMMA CursorWaitAndPublish ==
  ASSUME TypeOK, NEW t \in Threads, LocationInv(t), CursorInv(t), WaitAndPublish(t)
  PROVE  LocationInv(t)' /\ CursorInv(t)' /\ Rounds(t)' = Rounds(t)
<1> USE DEF cursor, copies, memory, regs
<1>1. /\ pc[t] \in {"primeWait", "wait"}
      /\ pc'[t] = IF pc[t] = "primeWait" THEN "primeSync" ELSE "sync"
      /\ kPipe'[t] = kPipe[t] /\ kBlock'[t] = kBlock[t]
      /\ tileIter'[t] = tileIter[t] /\ tileCount'[t] = tileCount[t]
      /\ readStage'[t] = readStage[t] /\ writeStage'[t] = writeStage[t]
      /\ issued'[t] = issued[t]
  BY DEF WaitAndPublish, TypeOK
<1>2. Iteration(t)' = Iteration(t)
  BY <1>1 DEF Iteration
<1>3. LocationInv(t)'
  BY <1>1, <1>2 DEF LocationInv, Early, Late, MainLoop
<1>4. ReadPos(t)' = ReadPos(t) /\ Rounds(t)' = Rounds(t) /\ (Prefetched(t)' <=> Prefetched(t))
  BY <1>1, <1>2 DEF ReadPos, Advanced, Rounds, PastSync, Prefetched, Early, MainLoop
<1>5. CursorInv(t)'
  BY <1>1, <1>2, <1>4 DEF CursorInv
<1> QED BY <1>3, <1>4, <1>5

(* PrepareFirst keeps its thread at its location, cursors and round.       *)
LEMMA CursorPrepareFirst ==
  ASSUME TypeOK, NEW t \in Threads, LocationInv(t), CursorInv(t), PrepareFirst(t)
  PROVE  LocationInv(t)' /\ CursorInv(t)' /\ Rounds(t)' = Rounds(t)
<1> USE DEF cursor, copies, memory, regs
<1>1. /\ pc[t] = "prime" /\ KBlocks > 1 /\ Iteration(t) = 0 /\ kBlock[t] = 0
  BY DEF PrepareFirst, LocationInv, Early
<1>2. /\ pc'[t] = "prepare"
      /\ kPipe'[t] = kPipe[t] /\ kBlock'[t] = kBlock[t]
      /\ tileIter'[t] = tileIter[t] /\ tileCount'[t] = tileCount[t]
      /\ readStage'[t] = readStage[t] /\ writeStage'[t] = writeStage[t]
      /\ issued'[t] = issued[t]
  BY <1>1, Sizes DEF PrepareFirst, BlockStart, TypeOK
<1>3. Iteration(t)' = 0
  BY <1>1, <1>2 DEF Iteration
<1>4. LocationInv(t)'
  BY <1>1, <1>2, <1>3, Sizes DEF LocationInv, Early, Late, MainLoop, Tile
<1>5. /\ ReadPos(t)' = 0 /\ ReadPos(t) = 0 /\ Rounds(t)' = 1 /\ Rounds(t) = 1
      /\ ~Prefetched(t) /\ ~Prefetched(t)'
  BY <1>1, <1>2, <1>3, Sizes
     DEF ReadPos, Advanced, Rounds, PastSync, Primed, Prefetched, Early, MainLoop
<1>6. CursorInv(t)'
  BY <1>1, <1>2, <1>3, <1>5 DEF CursorInv
<1> QED BY <1>4, <1>5, <1>6

(* The two roles a stage swaps when the ring advances.                     *)
LEMMA AdvanceWraps ==
  ASSUME TypeOK, NEW t \in Threads, Advance(t), NEW p \in Nat,
         readStage[t] = (p % Stages), writeStage[t] = ((p + Stages - 1) % Stages)
  PROVE  LET q == IF AdvancesAfter(kBlock[t]) THEN p + 1 ELSE p
         IN  /\ readStage'[t] = (q % Stages)
             /\ writeStage'[t] = ((q + Stages - 1) % Stages)
<1>1. CASE AdvancesAfter(kBlock[t])
  <2>1. /\ writeStage'[t] = readStage[t]
        /\ readStage'[t] = IF readStage[t] + 1 = Stages THEN 0 ELSE readStage[t] + 1
    BY <1>1 DEF Advance, TypeOK
  <2>2. readStage'[t] = ((p + 1) % Stages)
    <3>1. ((p + 1) % Stages) = IF (p % Stages) + 1 = Stages THEN 0 ELSE (p % Stages) + 1
      BY Sizes, ModSucc
    <3> QED BY <2>1, <3>1
  <2>3. ((p + 1 + Stages - 1) % Stages) = (p % Stages)
    <3>1. p + 1 + Stages - 1 = p + Stages
      BY Sizes
    <3> QED BY <3>1, Sizes, ModPeriod
  <2> QED BY <1>1, <2>1, <2>2, <2>3
<1>2. CASE ~AdvancesAfter(kBlock[t])
  BY <1>2 DEF Advance
<1> QED BY <1>1, <1>2

(* PrepareNext captures the token of the round before the ring advances.   *)
LEMMA CursorPrepareNext ==
  ASSUME TypeOK, NEW t \in Threads, LocationInv(t), CursorInv(t), PrepareNext(t)
  PROVE  LocationInv(t)' /\ CursorInv(t)' /\ Rounds(t)' = Rounds(t)
<1> USE DEF cursor, copies, memory, regs
<1>1. /\ pc[t] = "prepare" /\ kPipe[t] = Stages - 1 /\ Iteration(t) \in Tile
      /\ kBlock[t] \in 0 .. KBlocks - 1
  BY CursorTypes DEF PrepareNext, LocationInv, MainLoop, Block
<1>2. /\ pc'[t] = IF kBlock[t] = 0 THEN "prefetch" ELSE "consume"
      /\ kPipe'[t] = kPipe[t] /\ kBlock'[t] = kBlock[t]
      /\ tileIter'[t] = tileIter[t] /\ tileCount'[t] = tileCount[t]
      /\ token'[t] = readStage[t] /\ issued'[t] = issued[t]
  BY DEF PrepareNext, TypeOK
<1>3. Iteration(t)' = Iteration(t)
  BY <1>2 DEF Iteration
<1>4. LocationInv(t)'
  BY <1>1, <1>2, <1>3 DEF LocationInv, Early, Late, MainLoop
<1>5. Rounds(t)' = Rounds(t) /\ (Prefetched(t)' <=> Prefetched(t))
  BY <1>1, <1>2, <1>3, Sizes DEF Rounds, PastSync, Prefetched, MainLoop
<1>6. token'[t] = StageOf(Rounds(t))
  <2>1. ReadPos(t) = Rounds(t) - 1 /\ readStage[t] = (ReadPos(t) % Stages)
    BY <1>1, ReadPosRounds DEF CursorInv
  <2> QED BY <2>1, <1>2 DEF StageOf
<1>7. /\ readStage'[t] = (ReadPos(t)' % Stages)
      /\ writeStage'[t] = ((ReadPos(t)' + Stages - 1) % Stages)
  <2>1. CASE kBlock[t] = 0
    <3>1. ReadPos(t)' = ReadPos(t)
      BY <2>1, <1>1, <1>2, <1>3 DEF ReadPos, Advanced, Early, MainLoop
    <3>2. readStage'[t] = readStage[t] /\ writeStage'[t] = writeStage[t]
      BY <2>1 DEF PrepareNext
    <3> QED BY <3>1, <3>2 DEF CursorInv
  <2>2. CASE kBlock[t] # 0
    <3>1. ReadPos(t)' = IF AdvancesAfter(kBlock[t]) THEN ReadPos(t) + 1 ELSE ReadPos(t)
      BY <2>2, <1>1, <1>2, <1>3, Sizes
         DEF ReadPos, Advanced, AdvancesAfter, Early, MainLoop, Tile
    <3>2. Advance(t)
      BY <2>2 DEF PrepareNext
    <3> QED BY <3>1, <3>2, ReadPosRounds, AdvanceWraps DEF CursorInv
  <2> QED BY <2>1, <2>2
<1>8. CursorInv(t)'
  BY <1>1, <1>2, <1>3, <1>5, <1>6, <1>7 DEF CursorInv
<1> QED BY <1>4, <1>5, <1>8

(* Prefetch takes the next tile and keeps its thread in its round.         *)
LEMMA CursorPrefetch ==
  ASSUME TypeOK, NEW t \in Threads, LocationInv(t), CursorInv(t), Prefetch(t)
  PROVE  LocationInv(t)' /\ CursorInv(t)' /\ Rounds(t)' = Rounds(t)
<1> USE DEF cursor, copies, memory, regs
<1>1. /\ pc[t] = "prefetch" /\ kPipe[t] = Stages - 1 /\ Iteration(t) \in Tile
      /\ kBlock[t] = 0
  BY DEF Prefetch, LocationInv, MainLoop
<1>2. /\ pc'[t] = "consume"
      /\ kPipe'[t] = kPipe[t] /\ kBlock'[t] = kBlock[t]
      /\ tileCount'[t] = tileCount[t] /\ token'[t] = token[t]
      /\ tileIter'[t] = (IF tileCount[t] > 1 THEN tileIter[t] + 1 ELSE tileIter[t])
      /\ issued'[t] = issued[t] + 1
      /\ Advance(t)
  BY DEF Prefetch, Issue, NextTile, TypeOK
<1>3. Iteration(t)' = Iteration(t)
  BY <1>2 DEF Iteration
<1>4. LocationInv(t)'
  BY <1>1, <1>2, <1>3 DEF LocationInv, Early, Late, MainLoop
<1>5. Rounds(t)' = Rounds(t) /\ ~Prefetched(t) /\ Prefetched(t)'
  BY <1>1, <1>2, <1>3, Sizes DEF Rounds, PastSync, Prefetched, MainLoop
<1>6. issued[t] = Stages - 1 + Iteration(t)
      /\ tileIter[t] = (IF issued[t] < Tiles THEN issued[t] ELSE Tiles - 1)
  BY <1>1, <1>5, CursorTypes, Sizes DEF CursorInv
<1>7. tileIter'[t] = (IF issued'[t] < Tiles THEN issued'[t] ELSE Tiles - 1)
  BY <1>2, <1>6, CursorTypes, Sizes DEF Iteration
<1>8. /\ readStage'[t] = (ReadPos(t)' % Stages)
      /\ writeStage'[t] = ((ReadPos(t)' + Stages - 1) % Stages)
  <2>1. ReadPos(t)' = IF AdvancesAfter(kBlock[t]) THEN ReadPos(t) + 1 ELSE ReadPos(t)
    BY <1>1, <1>2, <1>3, Sizes
       DEF ReadPos, Advanced, AdvancesAfter, Early, MainLoop, Tile
  <2> QED BY <2>1, <1>2, ReadPosRounds, AdvanceWraps DEF CursorInv
<1>9. CursorInv(t)'
  BY <1>1, <1>2, <1>3, <1>5, <1>6, <1>7, <1>8, Sizes DEF CursorInv, Tile
<1> QED BY <1>4, <1>5, <1>9

(* Consume ends an iteration without changing the round.                   *)
LEMMA CursorConsume ==
  ASSUME TypeOK, NEW t \in Threads, LocationInv(t), CursorInv(t), Consume(t)
  PROVE  LocationInv(t)' /\ CursorInv(t)' /\ Rounds(t)' = Rounds(t)
<1> USE DEF cursor, copies, memory, regs
<1>1. /\ pc[t] = "consume" /\ kPipe[t] = Stages - 1 /\ Iteration(t) \in Tile
      /\ kBlock[t] \in 0 .. KBlocks - 1
      /\ issued[t] = Stages - 1 + Iteration(t) + 1
  BY CursorTypes, Sizes
     DEF Consume, LocationInv, CursorInv, Prefetched, MainLoop, Block, Tile
<1>2. /\ kPipe'[t] = kPipe[t] /\ tileIter'[t] = tileIter[t] /\ issued'[t] = issued[t]
      /\ readStage'[t] = readStage[t] /\ writeStage'[t] = writeStage[t]
  BY DEF Consume, TypeOK
<1>3. CASE kBlock[t] < KBlocks - 1
  <2>1. /\ kBlock'[t] = kBlock[t] + 1 /\ tileCount'[t] = tileCount[t]
        /\ pc'[t] = IF kBlock[t] + 1 = KBlocks - 1 THEN "wait" ELSE "prepare"
    BY <1>3 DEF Consume, BlockStart, TypeOK
  <2>2. Iteration(t)' = Iteration(t)
    BY <2>1 DEF Iteration
  <2>3. LocationInv(t)'
    BY <1>1, <1>2, <2>1, <2>2, Sizes DEF LocationInv, Early, Late, MainLoop
  <2>4. Rounds(t)' = Rounds(t) /\ Prefetched(t)'
    BY <1>1, <1>3, <2>1, <2>2, Sizes DEF Rounds, PastSync, Prefetched, MainLoop
  <2>5. ReadPos(t)' = ReadPos(t)
    BY <1>1, <1>3, <2>1, <2>2, Sizes
       DEF ReadPos, Advanced, AdvancesAfter, Early, MainLoop
  <2>6. CursorInv(t)'
    BY <1>1, <1>2, <2>1, <2>2, <2>4, <2>5 DEF CursorInv
  <2> QED BY <2>3, <2>4, <2>6
<1>4. CASE kBlock[t] = KBlocks - 1
  <2>1. /\ kBlock'[t] = 0 /\ tileCount'[t] = tileCount[t] - 1
        /\ pc'[t] = IF tileCount[t] - 1 > -(Stages - 1)
                    THEN (IF KBlocks = 1 THEN "wait" ELSE "prepare") ELSE "drain"
    BY <1>4, Sizes DEF Consume, BlockStart, LoopContinues, TypeOK
  <2>2. Iteration(t)' = Iteration(t) + 1
    BY <2>1, CursorTypes, Sizes DEF Iteration
  <2>3. (tileCount[t] - 1 > -(Stages - 1)) <=> (Iteration(t) + 1 < Tiles)
    BY CursorTypes, Sizes DEF Iteration
  <2>4. LocationInv(t)'
    BY <1>1, <1>2, <2>1, <2>2, <2>3, Sizes DEF LocationInv, Early, Late, MainLoop, Tile
  <2>5. Rounds(t)' = Rounds(t) /\ ~Prefetched(t)'
    BY <1>1, <1>4, <2>1, <2>2, Sizes
       DEF Rounds, PastSync, Primed, Prefetched, MainLoop, Tile
  <2>6. ReadPos(t)' = ReadPos(t)
    <3>1. Advanced(t)
      BY <1>1, <1>4, Sizes DEF Advanced, AdvancesAfter, MainLoop
    <3>2. ReadPos(t) = Iteration(t) + 1
      BY <3>1, <1>1 DEF ReadPos, Early
    <3>3. pc'[t] \in {"wait", "prepare", "drain"} /\ ~Advanced(t)'
      BY <2>1, Sizes DEF Advanced, MainLoop
    <3>4. ReadPos(t)' = Iteration(t)'
      BY <3>3, <2>2, <1>1 DEF ReadPos, Early, Tile
    <3> QED BY <3>2, <3>4, <2>2
  <2>7. CursorInv(t)'
    BY <1>1, <1>2, <2>1, <2>2, <2>5, <2>6, Sizes DEF CursorInv, Tile
  <2> QED BY <2>4, <2>5, <2>7
<1> QED BY <1>1, <1>3, <1>4, Sizes

(* Drain keeps its thread at its location, cursors and round.              *)
LEMMA CursorDrain ==
  ASSUME TypeOK, NEW t \in Threads, LocationInv(t), CursorInv(t), Drain(t)
  PROVE  LocationInv(t)' /\ CursorInv(t)' /\ Rounds(t)' = Rounds(t)
<1> USE DEF cursor, copies, memory, regs
<1>1. /\ pc[t] = "drain" /\ pc'[t] = "drainSync"
      /\ kPipe'[t] = kPipe[t] /\ kBlock'[t] = kBlock[t]
      /\ tileIter'[t] = tileIter[t] /\ tileCount'[t] = tileCount[t]
      /\ readStage'[t] = readStage[t] /\ writeStage'[t] = writeStage[t]
      /\ issued'[t] = issued[t]
  BY DEF Drain, TypeOK
<1>2. Iteration(t)' = Iteration(t)
  BY <1>1 DEF Iteration
<1>3. LocationInv(t)'
  BY <1>1, <1>2 DEF LocationInv, Early, Late, MainLoop
<1>4. ReadPos(t)' = ReadPos(t) /\ Rounds(t)' = Rounds(t) /\ (Prefetched(t)' <=> Prefetched(t))
  BY <1>1, <1>2 DEF ReadPos, Advanced, Rounds, PastSync, Prefetched, Early, MainLoop
<1>5. CursorInv(t)'
  BY <1>1, <1>2, <1>4 DEF CursorInv
<1> QED BY <1>3, <1>4, <1>5

(* The barrier starts the next round for every thread at once.             *)
LEMMA CursorBarrier ==
  ASSUME TypeOK, NEW t \in Threads, LocationInv(t), CursorInv(t), Barrier
  PROVE  LocationInv(t)' /\ CursorInv(t)' /\ Rounds(t)' = Rounds(t) + 1
<1> USE DEF cursor, copies, memory, regs
<1>1. /\ pc[t] \in SyncPoint /\ pc'[t] = AfterSync(pc[t])
      /\ kPipe'[t] = kPipe[t] /\ kBlock'[t] = kBlock[t]
      /\ tileIter'[t] = tileIter[t] /\ tileCount'[t] = tileCount[t]
      /\ readStage'[t] = readStage[t] /\ writeStage'[t] = writeStage[t]
      /\ issued'[t] = issued[t]
  BY DEF Barrier
<1>2. Iteration(t)' = Iteration(t)
  BY <1>1 DEF Iteration
<1>3. LocationInv(t)'
  BY <1>1, <1>2 DEF LocationInv, Early, Late, MainLoop, SyncPoint, AfterSync
<1>4. ReadPos(t)' = ReadPos(t) /\ (Prefetched(t)' <=> Prefetched(t))
  BY <1>1, <1>2, Sizes
     DEF ReadPos, Advanced, Prefetched, Early, MainLoop, SyncPoint, AfterSync, LocationInv
<1>5. Rounds(t)' = Rounds(t) + 1
  BY <1>1, <1>2, CursorTypes, Sizes
     DEF Rounds, PastSync, Primed, SyncPoint, AfterSync, LocationInv, Early, MainLoop
<1>6. CursorInv(t)'
  BY <1>1, <1>2, <1>4 DEF CursorInv, SyncPoint, AfterSync
<1> QED BY <1>3, <1>5, <1>6
-----------------------------------------------------------------------------
(* Groups in flight, landed slabs and decoded planes.                      *)

(* Group numbers map to stages of the ring and to tiles.                   *)
LEMMA StageOfType ==
  ASSUME NEW n \in Nat \ {0}
  PROVE  StageOf(n) \in Stage /\ TileOf(n) \in Tile
<1>1. n - 1 \in Nat
  OBVIOUS
<1>2. ((n - 1) % Stages) \in 0 .. Stages - 1
  BY <1>1, Sizes, ModDecompose
<1> QED BY <1>2, Sizes DEF StageOf, TileOf, Stage, Tile

(* Fewer than Stages groups apart: different stages.                       *)
LEMMA StageOfDistinct ==
  ASSUME NEW m \in Nat \ {0}, NEW n \in Nat \ {0}, m # n, m < n + Stages, n < m + Stages
  PROVE  StageOf(m) # StageOf(n)
<1> DEFINE x == m - 1
           y == n - 1
<1>1. x \in Nat /\ y \in Nat /\ x # y /\ x < y + Stages /\ y < x + Stages
  BY Sizes
<1> HIDE DEF x, y
<1>2. (x % Stages) # (y % Stages)
  <2>1. CASE x < y
    BY <1>1, <2>1, Sizes, ModDistinct
  <2>2. CASE y < x
    BY <1>1, <2>2, Sizes, ModDistinct
  <2> QED BY <1>1, <2>1, <2>2
<1> QED BY <1>2 DEF StageOf, x, y

(* How many groups a thread has issued relative to its round, and where    *)
(* the next one goes.                                                      *)
LEMMA IssuedRounds ==
  ASSUME TypeOK, NEW t \in Threads, LocationInv(t), CursorInv(t)
  PROVE  /\ Rounds(t) \in Nat
         /\ pc[t] \in {"primeWait", "wait"} => issued[t] = Rounds(t) + Stages - 1
         /\ pc[t] \in {"prologue", "prefetch"} => issued[t] + 1 <= Rounds(t) + Stages - 1
         /\ pc[t] = "prologue" => kPipe[t] = StageOf(issued[t] + 1)
         /\ pc[t] = "prefetch" => writeStage[t] = StageOf(issued[t] + 1)
         /\ tileIter[t] = TileOf(issued[t] + 1)
<1>1. Rounds(t) \in Nat
  BY ReadPosRounds
<1>2. pc[t] \in {"primeWait", "wait"} => issued[t] = Rounds(t) + Stages - 1
  BY CursorTypes, Sizes
     DEF LocationInv, CursorInv, Prefetched, Rounds, PastSync, Primed, MainLoop, Block
<1>3. pc[t] = "prologue" => /\ issued[t] + 1 <= Rounds(t) + Stages - 1
                            /\ kPipe[t] = StageOf(issued[t] + 1)
  <2>1. SUFFICES ASSUME pc[t] = "prologue"
                 PROVE  /\ issued[t] + 1 <= Rounds(t) + Stages - 1
                        /\ kPipe[t] = StageOf(issued[t] + 1)
    OBVIOUS
  <2>2. issued[t] = kPipe[t] /\ kPipe[t] \in 0 .. Stages - 2 /\ Rounds(t) = 0
    BY <2>1, CursorTypes, Sizes DEF LocationInv, CursorInv, Rounds
  <2>3. kPipe[t] \in 0 .. Stages - 1 /\ issued[t] + 1 - 1 = kPipe[t]
    BY <2>2, Sizes
  <2>4. (kPipe[t] % Stages) = kPipe[t]
    BY <2>3, Sizes, ModSmall
  <2> QED BY <2>2, <2>3, <2>4, Sizes DEF StageOf
<1>4. pc[t] = "prefetch" => /\ issued[t] + 1 <= Rounds(t) + Stages - 1
                            /\ writeStage[t] = StageOf(issued[t] + 1)
  <2>1. SUFFICES ASSUME pc[t] = "prefetch"
                 PROVE  /\ issued[t] + 1 <= Rounds(t) + Stages - 1
                        /\ writeStage[t] = StageOf(issued[t] + 1)
    OBVIOUS
  <2>2. kBlock[t] = 0 /\ Iteration(t) \in Nat
    BY <2>1, CursorTypes, Sizes DEF LocationInv, MainLoop, Tile
  <2>3. issued[t] = Stages - 1 + Iteration(t)
    BY <2>1, <2>2, Sizes DEF CursorInv, Prefetched
  <2>4. ReadPos(t) = Iteration(t) /\ Rounds(t) >= Iteration(t) + 1
    BY <2>1, <2>2, Sizes DEF ReadPos, Advanced, Rounds, PastSync, Primed, Early, MainLoop
  <2>5. issued[t] + 1 - 1 = ReadPos(t) + Stages - 1
    BY <2>2, <2>3, <2>4, Sizes
  <2>6. writeStage[t] = ((ReadPos(t) + Stages - 1) % Stages)
    BY DEF CursorInv
  <2> QED BY <1>1, <2>2, <2>3, <2>4, <2>5, <2>6, Sizes DEF StageOf
<1>5. tileIter[t] = TileOf(issued[t] + 1)
  BY CursorTypes, Sizes DEF CursorInv, TileOf
<1> QED BY <1>1, <1>2, <1>3, <1>4, <1>5

(* A newly issued group continues the numbering and aims at a stage that   *)
(* is not the one of the round.                                            *)
LEMMA IssueStep ==
  ASSUME TypeOK, NEW t \in Threads, LocationInv(t), CursorInv(t), GroupInv(t), LandedInv(t),
         pc[t] \in {"prologue", "prefetch"},
         pc'[t] \in {"prologue", "primeWait", "wait", "consume"},
         Rounds(t)' = Rounds(t), UNCHANGED memory,
         Issue(t, StageOf(issued[t] + 1), TileOf(issued[t] + 1))
  PROVE  GroupInv(t)' /\ LandedInv(t)'
<1> DEFINE next == [seq   |-> issued[t] + 1,
                    stage |-> StageOf(issued[t] + 1),
                    tile  |-> TileOf(issued[t] + 1)]
<1>1. /\ issued[t] \in Nat /\ issued'[t] = issued[t] + 1
      /\ pending'[t] = pending[t] \cup {next}
  BY CursorTypes DEF Issue, TypeOK
<1>0. \A s \in Stage : unitPos'[t][s] = IF s = StageOf(issued[t] + 1)
                                        THEN TileOf(issued[t] + 1) % TilesPerUnit
                                        ELSE unitPos[t][s]
  BY DEF Issue, TypeOK
<1>2. Rounds(t) \in Nat /\ issued[t] + 1 <= Rounds(t) + Stages - 1
  BY IssuedRounds
<1>3. LandedRounds(t) = Rounds(t) /\ LandedRounds(t)' = Rounds(t)
  BY <1>2 DEF LandedRounds
<1>4. Rounds(t) <= issued[t]
  BY <1>2, CursorTypes, Sizes
     DEF LocationInv, CursorInv, Rounds, PastSync, Primed, Prefetched, MainLoop
<1>5. \A g \in pending[t] : g.seq \in Nat
  BY DEF TypeOK, Group
<1>6. GroupInv(t)'
  <2>1. \A g \in pending'[t] :
          /\ g.seq > Rounds(t) /\ g.seq <= issued'[t]
          /\ g.stage = StageOf(g.seq) /\ g.tile = TileOf(g.seq)
    BY <1>1, <1>2, <1>3, <1>4, <1>5 DEF GroupInv
  <2> QED BY <2>1, <1>1, <1>2, <1>3 DEF GroupInv
<1>7. LandedInv(t)'
  <2>1. next \in pending'[t] /\ next.seq = issued[t] + 1
        /\ \A g \in pending[t] : g \in pending'[t]
    BY <1>1
  <2> HIDE DEF next
  <2>2. ASSUME NEW n \in 1 .. issued'[t], n >= Rounds(t)',
               \A g \in pending'[t] : g.seq # n
        PROVE  /\ smem[StageOf(n)][t] = TileOf(n)
               /\ raw[StageOf(n)][ColumnOf(t)] = UnitOf(TileOf(n))
    <3>1. n \in 1 .. issued[t] /\ \A g \in pending[t] : g.seq # n
      BY <2>1, <2>2, <1>1
    <3> QED BY <2>2, <3>1 DEF LandedInv
  <2>3. smem' = smem /\ raw' = raw
    BY DEF memory
  <2>4. ASSUME NEW n \in 1 .. issued'[t], n >= Rounds(t)'
        PROVE  unitPos'[t][StageOf(n)] = TileOf(n) % TilesPerUnit
    <3>1. n \in Nat \ {0} /\ issued[t] + 1 \in Nat \ {0} /\ StageOf(n) \in Stage
      BY <1>1, StageOfType
    <3>2. CASE n = issued[t] + 1
      BY <3>1, <3>2, <1>0
    <3>3. CASE n # issued[t] + 1
      <4>1. n \in 1 .. issued[t] /\ n >= Rounds(t) /\ issued[t] + 1 < n + Stages
            /\ n < issued[t] + 1 + Stages
        BY <3>1, <3>3, <2>4, <1>1, <1>2, Sizes
      <4>2. StageOf(n) # StageOf(issued[t] + 1)
        BY <4>1, <3>1, <3>3, StageOfDistinct
      <4> QED BY <4>1, <4>2, <3>1, <1>0 DEF LandedInv
    <3> QED BY <3>2, <3>3
  <2> QED BY <2>2, <2>3, <2>4 DEF LandedInv
<1> QED BY <1>6, <1>7

(* What a thread knows of the memory and of its groups survives any step   *)
(* that leaves them, its round and its place before the barrier alone.     *)
LEMMA GroupFrame ==
  ASSUME NEW t \in Threads, GroupInv(t), Rounds(t)' = Rounds(t),
         issued'[t] = issued[t], pending'[t] = pending[t],
         pc'[t] \in {"primeSync", "sync"} <=> pc[t] \in {"primeSync", "sync"},
         pc'[t] \in {"drainSync", "done"} => pc[t] \in {"drainSync", "done"}
  PROVE  GroupInv(t)'
BY DEF GroupInv, LandedRounds

(* Landed slabs stay landed while memory and groups do not change.         *)
LEMMA LandedFrame ==
  ASSUME NEW t \in Threads, LandedInv(t), Rounds(t)' = Rounds(t),
         issued'[t] = issued[t], pending'[t] = pending[t], unitPos'[t] = unitPos[t],
         smem' = smem, raw' = raw
  PROVE  LandedInv(t)'
BY DEF LandedInv

(* Decoded planes stay decoded while no thread decodes.                    *)
LEMMA PlanesFrame ==
  ASSUME NEW t \in Threads, PlanesInv(t), Rounds(t)' = Rounds(t), planes' = planes,
         pc'[t] # "done" => pc[t] # "done",
         pc'[t] \in {"primeSync", "sync"} => pc[t] \in {"primeSync", "sync"}
  PROVE  PlanesInv(t)'
BY DEF PlanesInv
(* All that is known of one thread.                                        *)
ThreadInv(t) == LocationInv(t) /\ CursorInv(t) /\ GroupInv(t) /\ LandedInv(t) /\ PlanesInv(t)

(* The wait covers the next round's group of the calling thread, so its    *)
(* own unit is in place when it decodes; the decode touches no other bytes.*)
LEMMA PublishStep ==
  ASSUME TypeOK, NEW t \in Threads, ThreadInv(t), WaitAndPublish(t),
         Rounds(t)' = Rounds(t),
         NEW u \in Threads, PlanesInv(u), Rounds(u) = Rounds(t), Rounds(u)' = Rounds(u)
  PROVE  GroupInv(t)' /\ PlanesInv(u)'
<1> USE DEF cursor, copies, memory, regs
<1> DEFINE R == Rounds(t)
<1>1. /\ pc[t] \in {"primeWait", "wait"} /\ pc'[t] \in {"primeSync", "sync"}
      /\ u # t => pc'[u] = pc[u]
      /\ issued' = issued /\ pending' = pending /\ raw' = raw
  BY DEF WaitAndPublish, TypeOK
<1>2. /\ R \in Nat /\ issued[t] = R + Stages - 1
      /\ readStage[t] = StageOf(R + 1)
  <2>1. R \in Nat /\ ReadPos(t) = R /\ issued[t] = R + Stages - 1
    BY <1>1, ReadPosRounds, IssuedRounds DEF ThreadInv
  <2>2. R + 1 - 1 = R
    BY <2>1
  <2>3. readStage[t] = (ReadPos(t) % Stages)
    BY DEF ThreadInv, CursorInv
  <2> QED BY <2>1, <2>2, <2>3 DEF StageOf
<1> HIDE DEF R
<1>3. \A g \in pending[t] : g.seq > R + 1 /\ g.seq \in Nat
  <2>1. \A g \in pending[t] : g.seq > issued[t] - (Stages - 2)
    BY DEF WaitAndPublish, LandedUpTo, WaitDepth
  <2> QED BY <2>1, <1>2, Sizes DEF TypeOK, Group
<1>4. R + 1 \in Nat \ {0} /\ R + 1 \in 1 .. issued[t]
  BY <1>2, Sizes
<1>5. DecodedTile(t, StageOf(R + 1), ColumnOf(t)) = TileOf(R + 1)
  <2>0. TileOf(R + 1) \in Tile
    BY <1>4, StageOfType
  <2>1. R + 1 >= Rounds(t) /\ \A g \in pending[t] : g.seq # R + 1
    BY <1>2, <1>3 DEF R
  <2>2. /\ raw[StageOf(R + 1)][ColumnOf(t)] = UnitOf(TileOf(R + 1))
        /\ unitPos[t][StageOf(R + 1)] = TileOf(R + 1) % TilesPerUnit
    BY <2>1, <1>4 DEF ThreadInv, LandedInv
  <2>3. UnitOf(TileOf(R + 1)) # NoTile
    BY <2>0, UnitType, Sizes DEF Tile
  <2> QED BY <2>0, <2>2, <2>3, UnitDecode DEF DecodedTile
<1>6. GroupInv(t)'
  <2>1. LandedRounds(t)' = R + 1
    BY <1>1 DEF LandedRounds, R
  <2> QED BY <2>1, <1>1, <1>3 DEF ThreadInv, GroupInv, R
<1>7. PlanesInv(u)'
  <2>1. CASE ~Packed
    BY <2>1 DEF PlanesInv
  <2>2. CASE Packed
    <3>1. StageOf(R + 1) \in Stage
      BY <1>4, StageOfType
    <3>2. ASSUME NEW c \in Columns, NEW g \in Groups
          PROVE  planes'[StageOf(R + 1)][c][g] =
                   IF <<c, g>> \in Decodes(t) THEN DecodedTile(t, StageOf(R + 1), c)
                                              ELSE planes[StageOf(R + 1)][c][g]
      BY <2>2, <3>1, <1>2 DEF WaitAndPublish, Publish, TypeOK
    <3>3. \A s \in Stage : s # StageOf(R + 1) => planes'[s] = planes[s]
      BY <2>2, <1>2 DEF WaitAndPublish, Publish, TypeOK
    <3>4. ASSUME NEW c \in Columns, NEW g \in Groups, <<c, g>> \in Decodes(t)
          PROVE  planes'[StageOf(R + 1)][c][g] = TileOf(R + 1)
      BY <3>2, <3>4, <1>5, DecodeOwnership
    <3>5. ASSUME NEW c \in Columns, NEW g \in Groups,
                 planes[StageOf(R + 1)][c][g] = TileOf(R + 1)
          PROVE  planes'[StageOf(R + 1)][c][g] = TileOf(R + 1)
      BY <3>2, <3>4, <3>5
    <3>6. Rounds(u)' = R /\ Rounds(u) = R
      BY DEF R
    <3>7. pc'[u] # "done" /\ R >= 1 =>
            \A c \in Columns, g \in Groups : planes'[StageOf(R)][c][g] = TileOf(R)
      <4>1. SUFFICES ASSUME pc'[u] # "done", R >= 1
                     PROVE  \A c \in Columns, g \in Groups :
                              planes'[StageOf(R)][c][g] = TileOf(R)
        OBVIOUS
      <4>2. R \in Nat \ {0} /\ StageOf(R) \in Stage
        BY <4>1, <1>2, StageOfType
      <4>3. StageOf(R) # StageOf(R + 1)
        BY <4>2, <1>4, Sizes, StageOfDistinct
      <4>4. pc[u] # "done"
        BY <4>1, <1>1
      <4> QED BY <4>1, <4>2, <4>3, <4>4, <3>3, <3>6, <2>2 DEF PlanesInv
    <3>8. pc'[u] \in {"primeSync", "sync"} =>
            \A c \in Columns, g \in Groups : <<c, g>> \in Decodes(u) =>
              planes'[StageOf(R + 1)][c][g] = TileOf(R + 1)
      <4>1. CASE u = t
        BY <4>1, <3>4
      <4>2. CASE u # t
        <5>1. pc'[u] = pc[u]
          BY <4>2, <1>1
        <5>2. pc[u] \in {"primeSync", "sync"} =>
                \A c \in Columns, g \in Groups : <<c, g>> \in Decodes(u) =>
                  planes[StageOf(R + 1)][c][g] = TileOf(R + 1)
          BY <2>2, <3>6 DEF PlanesInv
        <5> QED BY <5>1, <5>2, <3>5
      <4> QED BY <4>1, <4>2
    <3> QED BY <3>6, <3>7, <3>8 DEF PlanesInv
  <2> QED BY <2>1, <2>2
<1> QED BY <1>6, <1>7

(* A copy that lands overwrites no slab or unit of the current round.      *)
LEMMA LandStep ==
  ASSUME TypeOK, NEW t \in Threads, ThreadInv(t), Land(t), Rounds(t)' = Rounds(t),
         NEW u \in Threads, ThreadInv(u), Rounds(u) = Rounds(t), Rounds(u)' = Rounds(u)
  PROVE  GroupInv(u)' /\ LandedInv(u)' /\ PlanesInv(u)'
<1> USE DEF cursor, copies, memory, regs
<1> DEFINE R == Rounds(t)
<1>1. PICK g \in pending[t] :
        /\ pending' = [pending EXCEPT ![t] = @ \ {g}]
        /\ smem' = [smem EXCEPT ![g.stage][t] = g.tile]
        /\ raw' = [raw EXCEPT ![g.stage][ColumnOf(t)] = UnitOf(g.tile)]
  BY DEF Land
<1>2. issued' = issued /\ unitPos' = unitPos /\ pc' = pc /\ planes' = planes
  BY DEF Land
<1>3. R \in Nat /\ R = Rounds(u)
  BY IssuedRounds DEF ThreadInv
<1>4. g.seq \in Nat /\ g.seq > R /\ g.seq <= R + Stages - 1
      /\ g.stage = StageOf(g.seq) /\ g.tile = TileOf(g.seq)
  <2>0. g.seq \in Nat
    BY DEF TypeOK, Group
  <2>1. g.seq \in Nat /\ LandedRounds(t) >= R /\ LandedRounds(t) \in Nat
    BY <2>0, <1>3 DEF LandedRounds
  <2>2. g.seq > LandedRounds(t) /\ g.seq <= issued[t] /\ issued[t] <= R + Stages - 1
        /\ g.stage = StageOf(g.seq) /\ g.tile = TileOf(g.seq)
    BY DEF ThreadInv, GroupInv
  <2> QED BY <2>1, <2>2, <1>3, CursorTypes, Sizes
<1> HIDE DEF R
<1>5. g.stage \in Stage /\ ColumnOf(t) \in Columns /\ ColumnOf(u) \in Columns
      /\ g.seq \in Nat \ {0}
  BY <1>3, <1>4, StageOfType, ColumnType
<1>6. GroupInv(u)'
  <2>1. pending'[u] \subseteq pending[u]
    BY <1>1 DEF TypeOK
  <2>2. LandedRounds(u)' = LandedRounds(u)
    BY <1>2 DEF LandedRounds
  <2> QED BY <2>1, <2>2, <1>2 DEF ThreadInv, GroupInv
<1>7. PlanesInv(u)'
  BY <1>2, PlanesFrame DEF ThreadInv
<1>8. ASSUME NEW n \in 1 .. issued[u], n >= R, \A h \in pending'[u] : h.seq # n
      PROVE  /\ smem'[StageOf(n)][u] = TileOf(n)
             /\ raw'[StageOf(n)][ColumnOf(u)] = UnitOf(TileOf(n))
  <2>1. n \in Nat \ {0} /\ n <= R + Stages - 1
    <3>1. issued[u] <= R + Stages - 1
      BY <1>3 DEF ThreadInv, GroupInv
    <3> QED BY <3>1, <1>3, CursorTypes, Sizes
  <2>2. StageOf(n) \in Stage
    BY <2>1, StageOfType
  <2>3. n # g.seq => StageOf(n) # g.stage
    BY <2>1, <1>3, <1>4, <1>5, <1>8, Sizes, StageOfDistinct
  <2>4. (u # t \/ n # g.seq) => \A h \in pending[u] : h.seq # n
    BY <1>1, <1>8 DEF TypeOK
  <2>5. (u # t \/ n # g.seq) => /\ smem[StageOf(n)][u] = TileOf(n)
                                /\ raw[StageOf(n)][ColumnOf(u)] = UnitOf(TileOf(n))
    BY <2>4, <1>3, <1>8 DEF ThreadInv, LandedInv
  <2>6. smem'[StageOf(n)][u] = TileOf(n)
    <3>1. smem'[StageOf(n)][u] = IF StageOf(n) = g.stage /\ u = t THEN g.tile
                                 ELSE smem[StageOf(n)][u]
      BY <1>1, <1>5, <2>2 DEF TypeOK
    <3> QED BY <3>1, <2>3, <2>5, <1>4
  <2>7. raw'[StageOf(n)][ColumnOf(u)] = UnitOf(TileOf(n))
    <3>1. raw'[StageOf(n)][ColumnOf(u)] =
            IF StageOf(n) = g.stage /\ ColumnOf(u) = ColumnOf(t) THEN UnitOf(g.tile)
            ELSE raw[StageOf(n)][ColumnOf(u)]
      BY <1>1, <1>5, <2>2 DEF TypeOK
    <3> QED BY <3>1, <2>3, <2>5, <1>4
  <2> QED BY <2>6, <2>7
<1>9. LandedInv(u)'
  <2>1. \A n \in 1 .. issued[u] : n >= R =>
          unitPos[u][StageOf(n)] = TileOf(n) % TilesPerUnit
    BY <1>3 DEF ThreadInv, LandedInv
  <2> QED BY <2>1, <1>2, <1>3, <1>8 DEF LandedInv
<1> QED BY <1>6, <1>7, <1>9
(* When the barrier releases, every unit of the next round is decoded: its *)
(* owners have all published, since threads of one round stand at the same *)
(* one of the three barriers or have all left the loop.                    *)
LEMMA BarrierStep ==
  ASSUME RingInv, Barrier, NEW t \in Threads, Rounds(t)' = Rounds(t) + 1
  PROVE  GroupInv(t)' /\ LandedInv(t)' /\ PlanesInv(t)'
<1> USE DEF cursor, copies, memory, regs
<1> DEFINE R == Rounds(t)
<1>1. TypeOK /\ \A u \in Threads : ThreadInv(u) /\ Rounds(u) = R
  BY DEF RingInv, RoundsAgree, ThreadInv
<1>2. /\ \A u \in Threads : pc[u] \in {"primeSync", "sync", "drainSync"}
      /\ pc'[t] = IF pc[t] = "primeSync" THEN "prime"
                  ELSE IF pc[t] = "sync" THEN "prepare" ELSE "done"
      /\ issued' = issued /\ pending' = pending /\ unitPos' = unitPos
      /\ smem' = smem /\ raw' = raw /\ planes' = planes
  BY DEF Barrier, SyncPoint, AfterSync
<1>3. R \in Nat /\ issued[t] \in Nat
  BY <1>1, IssuedRounds, CursorTypes DEF ThreadInv
<1>4. GroupInv(t)'
  <2>1. LandedRounds(t)' = R + 1 /\ (pc[t] # "drainSync" => LandedRounds(t) = R + 1)
        /\ (pc[t] = "drainSync" => pending[t] = {})
    <3>1. Rounds(t)' = R + 1 /\ Rounds(t) = R
      OBVIOUS
    <3>2. pc'[t] \notin {"primeSync", "sync"}
      BY <1>2
    <3>3. LandedRounds(t)' = R + 1 + 0
      BY <3>1, <3>2 DEF LandedRounds
    <3>4. pc[t] \in {"primeSync", "sync", "drainSync"}
      BY <1>2
    <3> HIDE DEF R
    <3>5. pc[t] # "drainSync" => LandedRounds(t) = R + 1
      BY <3>1, <3>4 DEF LandedRounds
    <3>6. pc[t] = "drainSync" => pending[t] = {}
      BY <1>1 DEF ThreadInv, GroupInv
    <3> QED BY <3>3, <3>5, <3>6, <1>3
  <2>2. GroupInv(t) /\ Rounds(t)' = R + 1
    BY <1>1 DEF ThreadInv
  <2>3. issued[t] <= R + 1 + Stages - 1
    BY <2>2, <1>3, Sizes DEF GroupInv
  <2>4. pc'[t] \in {"drainSync", "done"} => pending[t] = {}
    BY <1>2, <2>1
  <2> QED BY <2>1, <2>2, <2>3, <2>4, <1>2 DEF GroupInv
<1>5. LandedInv(t)'
  <2>1. ASSUME NEW n \in 1 .. issued[t], n >= R + 1
        PROVE  /\ unitPos[t][StageOf(n)] = TileOf(n) % TilesPerUnit
               /\ (\A g \in pending[t] : g.seq # n) =>
                    /\ smem[StageOf(n)][t] = TileOf(n)
                    /\ raw[StageOf(n)][ColumnOf(t)] = UnitOf(TileOf(n))
    <3>1. n >= R
      BY <2>1, <1>3
    <3> QED BY <3>1, <2>1, <1>1 DEF ThreadInv, LandedInv
  <2> QED BY <2>1, <1>2 DEF LandedInv
<1>6. PlanesInv(t)'
  <2>1. SUFFICES ASSUME Packed, pc[t] # "drainSync", NEW c \in Columns, NEW g \in Groups
                 PROVE  planes[StageOf(R + 1)][c][g] = TileOf(R + 1)
    BY <1>2 DEF PlanesInv
  <2>2. PICK u \in Threads : <<c, g>> \in Decodes(u)
    BY DecodeOwnership
  <2>3. pc[u] # "drainSync"
    <3>1. pc[t] \in {"primeSync", "sync"} => R < Tiles + Primed
      BY <1>1, <2>1, Sizes
         DEF ThreadInv, LocationInv, MainLoop, Rounds, PastSync, Primed, Tile
    <3>2. pc[u] = "drainSync" => Rounds(u) = Tiles + Primed
      BY <1>1, Sizes DEF ThreadInv, LocationInv, Late, Rounds, PastSync, Primed
    <3>3. Tiles + Primed \in Nat
      BY Sizes DEF Primed
    <3> QED BY <3>1, <3>2, <3>3, <2>1, <1>1, <1>2, <1>3
  <2>4. pc[u] \in {"primeSync", "sync"} /\ Rounds(u) = R
    BY <2>3, <1>1, <1>2
  <2> QED BY <2>1, <2>2, <2>4, <1>1 DEF ThreadInv, PlanesInv
<1> QED BY <1>4, <1>5, <1>6

-----------------------------------------------------------------------------
(* The inductive invariant.                                                *)

(* The ring starts in RingInv: no thread has issued, waited or decoded.    *)
THEOREM RingInit == Init => RingInv
<1> SUFFICES ASSUME Init PROVE RingInv
  OBVIOUS
<1>1. TypeOK
  BY TypeInit
<1>2. ASSUME NEW t \in Threads
      PROVE  /\ pc[t] = "prologue" /\ kPipe[t] = 0 /\ kBlock[t] = 0 /\ tileIter[t] = 0
             /\ tileCount[t] = Tiles /\ readStage[t] = 0 /\ writeStage[t] = Stages - 1
             /\ issued[t] = 0 /\ pending[t] = {}
  BY DEF Init
<1>3. ASSUME NEW t \in Threads
      PROVE  Rounds(t) = 0 /\ ReadPos(t) = 0 /\ LandedRounds(t) = 0
  BY <1>2 DEF Rounds, ReadPos, LandedRounds, Early
<1>4. ASSUME NEW t \in Threads PROVE LocationInv(t)
  BY <1>2, Sizes DEF LocationInv, Early, Late, MainLoop
<1>5. ASSUME NEW t \in Threads PROVE CursorInv(t)
  <2>1. (0 % Stages) = 0
    BY Sizes, ModSmall
  <2>2. ((Stages - 1) % Stages) = Stages - 1
    <3>1. Stages - 1 \in 0 .. Stages - 1
      BY Sizes
    <3> QED BY <3>1, Sizes, ModSmall
  <2>3. 0 + Stages - 1 = Stages - 1
    BY Sizes
  <2> QED BY <1>2, <1>3, <2>1, <2>2, <2>3, Sizes DEF CursorInv
<1>6. ASSUME NEW t \in Threads PROVE GroupInv(t) /\ LandedInv(t)
  BY <1>2, <1>3, Sizes DEF GroupInv, LandedInv
<1>7. ASSUME NEW t \in Threads PROVE PlanesInv(t)
  BY <1>2, <1>3 DEF PlanesInv
<1>8. RoundsAgree
  BY <1>3 DEF RoundsAgree
<1> QED BY <1>1, <1>4, <1>5, <1>6, <1>7, <1>8 DEF RingInv

(* A step of thread t leaves the cursors and groups of the others alone.   *)
LEMMA OtherThreads ==
  ASSUME TypeOK, NEW t \in Threads, Step(t) \/ Land(t), NEW u \in Threads, u # t
  PROVE  SameCursor(u) /\ pending'[u] = pending[u]
<1> USE DEF SameCursor, cursor, copies, memory, regs
<1>1. CASE PrologueCopy(t)
  BY <1>1 DEF TypeOK, PrologueCopy, Issue
<1>2. CASE WaitAndPublish(t)
  BY <1>2 DEF TypeOK, WaitAndPublish
<1>3. CASE PrepareFirst(t)
  BY <1>3 DEF TypeOK, PrepareFirst
<1>4. ASSUME Advance(t) \/ UNCHANGED <<readStage, writeStage>>
      PROVE  readStage'[u] = readStage[u] /\ writeStage'[u] = writeStage[u]
  BY <1>4 DEF TypeOK, Advance
<1>5. CASE PrepareNext(t)
  <2>1. readStage'[u] = readStage[u] /\ writeStage'[u] = writeStage[u]
    BY <1>4, <1>5 DEF PrepareNext
  <2> QED BY <1>5, <2>1 DEF TypeOK, PrepareNext
<1>6. CASE Prefetch(t)
  <2>1. readStage'[u] = readStage[u] /\ writeStage'[u] = writeStage[u]
    BY <1>4, <1>6 DEF Prefetch
  <2> QED BY <1>6, <2>1 DEF TypeOK, Prefetch, Issue
<1>7. CASE Consume(t)
  <2>1. /\ pc \in [Threads -> Location] /\ kBlock \in [Threads -> Block]
        /\ tileCount \in [Threads -> -(Stages - 1) .. Tiles]
    BY DEF TypeOK
  <2>2. kBlock'[u] = kBlock[u] /\ tileCount'[u] = tileCount[u] /\ pc'[u] = pc[u]
    <3>1. CASE kBlock[t] < KBlocks - 1
      BY <1>7, <2>1, <3>1 DEF Consume
    <3>2. CASE ~(kBlock[t] < KBlocks - 1)
      BY <1>7, <2>1, <3>2 DEF Consume
    <3> QED BY <3>1, <3>2
  <2>3. UNCHANGED <<kPipe, tileIter, readStage, writeStage, token, copies>>
    BY <1>7 DEF Consume
  <2> QED BY <2>2, <2>3
<1>8. CASE Drain(t)
  BY <1>8 DEF TypeOK, Drain
<1>9. CASE Land(t)
  BY <1>9 DEF TypeOK, Land
<1> QED BY <1>1, <1>2, <1>3, <1>5, <1>6, <1>7, <1>8, <1>9 DEF Step

(* A step of one thread, given what it does to that thread's own groups    *)
(* and to everybody's slabs and planes.                                    *)
LEMMA ThreadStep ==
  ASSUME RingInv, TypeOK', NEW t \in Threads, Step(t) \/ Land(t),
         LocationInv(t)' /\ CursorInv(t)' /\ Rounds(t)' = Rounds(t),
         GroupInv(t)' /\ LandedInv(t)',
         \A u \in Threads : PlanesInv(u)',
         \A u \in Threads : u # t => LandedInv(u)'
  PROVE  RingInv'
<1>1. TypeOK /\ \A u \in Threads : ThreadInv(u) /\ Rounds(u) = Rounds(t)
  BY DEF RingInv, RoundsAgree, ThreadInv
<1>2. ASSUME NEW u \in Threads, u # t
      PROVE  LocationInv(u)' /\ CursorInv(u)' /\ Rounds(u)' = Rounds(u) /\ GroupInv(u)'
  <2>1. SameCursor(u) /\ pending'[u] = pending[u]
    BY <1>1, <1>2, OtherThreads
  <2>2. LocationInv(u)' /\ CursorInv(u)' /\ Rounds(u)' = Rounds(u)
    BY <2>1, <1>1, CursorFrame DEF ThreadInv
  <2>3. GroupInv(u)'
    BY <2>1, <2>2, <1>1, GroupFrame DEF SameCursor, ThreadInv
  <2> QED BY <2>2, <2>3
<1>3. \A u \in Threads : Rounds(u)' = Rounds(t)
  BY <1>1, <1>2
<1>4. RoundsAgree'
  BY <1>3 DEF RoundsAgree
<1> QED BY <1>2, <1>4 DEF RingInv
(* No step breaks the ring: whichever thread moves, whenever a copy lands  *)
(* and whenever the barrier releases, RingInv is re-established.           *)
THEOREM RingStep == RingInv /\ [Next]_vars => RingInv'
<1> SUFFICES ASSUME RingInv, [Next]_vars PROVE RingInv'
  OBVIOUS
<1> USE DEF cursor, copies, memory, regs
<1>1. TypeOK /\ \A u \in Threads : ThreadInv(u)
  BY DEF RingInv, ThreadInv
<1>2. \A u, w \in Threads : Rounds(u) = Rounds(w)
  BY DEF RingInv, RoundsAgree
<1>3. TypeOK'
  BY <1>1, TypeStep DEF ThreadInv
<1>4. ASSUME NEW t \in Threads, Step(t) \/ Land(t), NEW u \in Threads, u # t
      PROVE  SameCursor(u) /\ pending'[u] = pending[u] /\ Rounds(u)' = Rounds(u)
  BY <1>1, <1>4, OtherThreads, CursorFrame DEF ThreadInv
<1>5. ASSUME NEW t \in Threads, Step(t), UNCHANGED memory,
             LocationInv(t)' /\ CursorInv(t)' /\ Rounds(t)' = Rounds(t),
             GroupInv(t)' /\ LandedInv(t)', PlanesInv(t)'
      PROVE  RingInv'
  <2>1. ASSUME NEW u \in Threads, u # t PROVE PlanesInv(u)' /\ LandedInv(u)'
    <3>1. SameCursor(u) /\ pending'[u] = pending[u] /\ Rounds(u)' = Rounds(u)
      BY <1>4, <1>5, <2>1
    <3> QED BY <3>1, <1>1, <1>5, LandedFrame, PlanesFrame DEF SameCursor, ThreadInv
  <2> QED BY <2>1, <1>3, <1>5, ThreadStep
<1>6. ASSUME NEW t \in Threads, PrologueCopy(t) PROVE RingInv'
  <2>1. LocationInv(t)' /\ CursorInv(t)' /\ Rounds(t)' = Rounds(t)
    BY <1>1, <1>6, CursorPrologueCopy DEF ThreadInv
  <2>2. /\ pc[t] = "prologue" /\ pc'[t] \in {"prologue", "primeWait", "wait"}
        /\ UNCHANGED memory
    BY <1>1, <1>6 DEF PrologueCopy, TypeOK
  <2>3. Issue(t, StageOf(issued[t] + 1), TileOf(issued[t] + 1))
    BY <1>1, <1>6, <2>2, IssuedRounds DEF PrologueCopy, ThreadInv
  <2>4. GroupInv(t)' /\ LandedInv(t)'
    BY <1>1, <2>1, <2>2, <2>3, IssueStep DEF ThreadInv
  <2>5. PlanesInv(t)'
    BY <1>1, <2>1, <2>2, PlanesFrame DEF ThreadInv
  <2> QED BY <1>5, <1>6, <2>1, <2>2, <2>4, <2>5 DEF Step
<1>7. ASSUME NEW t \in Threads, WaitAndPublish(t) PROVE RingInv'
  <2>1. LocationInv(t)' /\ CursorInv(t)' /\ Rounds(t)' = Rounds(t)
    BY <1>1, <1>7, CursorWaitAndPublish DEF ThreadInv
  <2>2. /\ issued' = issued /\ pending' = pending /\ unitPos' = unitPos
        /\ smem' = smem /\ raw' = raw
    BY <1>7 DEF WaitAndPublish
  <2>3. \A u \in Threads : Rounds(u)' = Rounds(u)
    BY <1>4, <1>7, <2>1 DEF Step
  <2>4. GroupInv(t)' /\ \A u \in Threads : PlanesInv(u)'
    BY <1>1, <1>2, <1>7, <2>3, PublishStep DEF ThreadInv
  <2>5. \A u \in Threads : LandedInv(u)'
    BY <1>1, <2>2, <2>3, LandedFrame DEF ThreadInv
  <2> QED BY <1>3, <1>7, <2>1, <2>4, <2>5, ThreadStep DEF Step
<1>8. ASSUME NEW t \in Threads, Step(t), UNCHANGED memory,
             LocationInv(t)' /\ CursorInv(t)' /\ Rounds(t)' = Rounds(t),
             issued'[t] = issued[t], pending'[t] = pending[t], unitPos'[t] = unitPos[t],
             pc[t] \in {"prime", "prepare", "consume"},
             pc'[t] \in {"prepare", "wait", "prefetch", "consume", "drain"}
      PROVE  RingInv'
  <2>1. GroupInv(t)' /\ LandedInv(t)' /\ PlanesInv(t)'
    BY <1>1, <1>8, GroupFrame, LandedFrame, PlanesFrame DEF ThreadInv
  <2> QED BY <1>5, <1>8, <2>1
<1>9. ASSUME NEW t \in Threads, PrepareFirst(t) PROVE RingInv'
  <2>1. LocationInv(t)' /\ CursorInv(t)' /\ Rounds(t)' = Rounds(t)
    BY <1>1, <1>9, CursorPrepareFirst DEF ThreadInv
  <2>2. /\ UNCHANGED memory /\ issued'[t] = issued[t] /\ pending'[t] = pending[t]
        /\ unitPos'[t] = unitPos[t]
        /\ pc[t] = "prime" /\ pc'[t] \in {"prepare", "wait"}
    BY <1>1, <1>9 DEF PrepareFirst, BlockStart, TypeOK
  <2> QED BY <1>8, <1>9, <2>1, <2>2 DEF Step
<1>10. ASSUME NEW t \in Threads, PrepareNext(t) PROVE RingInv'
  <2>1. LocationInv(t)' /\ CursorInv(t)' /\ Rounds(t)' = Rounds(t)
    BY <1>1, <1>10, CursorPrepareNext DEF ThreadInv
  <2>2. /\ UNCHANGED memory /\ issued'[t] = issued[t] /\ pending'[t] = pending[t]
        /\ unitPos'[t] = unitPos[t]
        /\ pc[t] = "prepare" /\ pc'[t] \in {"prefetch", "consume"}
    BY <1>1, <1>10 DEF PrepareNext, TypeOK
  <2> QED BY <1>8, <1>10, <2>1, <2>2 DEF Step
<1>11. ASSUME NEW t \in Threads, Prefetch(t) PROVE RingInv'
  <2>1. LocationInv(t)' /\ CursorInv(t)' /\ Rounds(t)' = Rounds(t)
    BY <1>1, <1>11, CursorPrefetch DEF ThreadInv
  <2>2. pc[t] = "prefetch" /\ pc'[t] = "consume" /\ UNCHANGED memory
    BY <1>1, <1>11 DEF Prefetch, TypeOK
  <2>3. Issue(t, StageOf(issued[t] + 1), TileOf(issued[t] + 1))
    BY <1>1, <1>11, <2>2, IssuedRounds DEF Prefetch, ThreadInv
  <2>4. GroupInv(t)' /\ LandedInv(t)'
    BY <1>1, <2>1, <2>2, <2>3, IssueStep DEF ThreadInv
  <2>5. PlanesInv(t)'
    BY <1>1, <2>1, <2>2, PlanesFrame DEF ThreadInv
  <2> QED BY <1>5, <1>11, <2>1, <2>2, <2>4, <2>5 DEF Step
<1>12. ASSUME NEW t \in Threads, Consume(t) PROVE RingInv'
  <2>1. LocationInv(t)' /\ CursorInv(t)' /\ Rounds(t)' = Rounds(t)
    BY <1>1, <1>12, CursorConsume DEF ThreadInv
  <2>2. /\ UNCHANGED memory /\ issued'[t] = issued[t] /\ pending'[t] = pending[t]
        /\ unitPos'[t] = unitPos[t]
        /\ pc[t] = "consume" /\ pc'[t] \in {"prepare", "wait", "drain"}
    BY <1>1, <1>12 DEF Consume, BlockStart, TypeOK
  <2> QED BY <1>8, <1>12, <2>1, <2>2 DEF Step
<1>13. ASSUME NEW t \in Threads, Drain(t) PROVE RingInv'
  <2>1. LocationInv(t)' /\ CursorInv(t)' /\ Rounds(t)' = Rounds(t)
    BY <1>1, <1>13, CursorDrain DEF ThreadInv
  <2>2. /\ UNCHANGED memory /\ issued' = issued /\ pending' = pending /\ unitPos' = unitPos
        /\ pc[t] = "drain" /\ pc'[t] = "drainSync"
    BY <1>1, <1>13 DEF Drain, TypeOK
  <2>3. pending[t] = {}
    <3>1. ASSUME NEW g \in pending[t] PROVE FALSE
      <4>1. g.seq > issued[t] - 0
        BY <1>13 DEF Drain, Drained, LandedUpTo
      <4>2. g.seq <= issued[t]
        BY <1>1 DEF ThreadInv, GroupInv
      <4>3. g.seq \in Nat /\ issued[t] \in Nat
        BY <1>1 DEF TypeOK, Group
      <4> QED BY <4>1, <4>2, <4>3
    <3> QED BY <3>1
  <2>4. GroupInv(t)'
    BY <1>1, <2>1, <2>2, <2>3 DEF ThreadInv, GroupInv
  <2>5. LandedInv(t)' /\ PlanesInv(t)'
    BY <1>1, <2>1, <2>2, LandedFrame, PlanesFrame DEF ThreadInv
  <2> QED BY <1>5, <1>13, <2>1, <2>2, <2>4, <2>5 DEF Step
<1>14. ASSUME NEW t \in Threads, Land(t) PROVE RingInv'
  <2>1. SameCursor(t)
    BY <1>14 DEF Land, SameCursor
  <2>2. LocationInv(t)' /\ CursorInv(t)' /\ Rounds(t)' = Rounds(t)
    BY <1>1, <2>1, CursorFrame DEF ThreadInv
  <2>3. \A u \in Threads : Rounds(u)' = Rounds(u)
    BY <1>4, <1>14, <2>2
  <2>4. \A u \in Threads : GroupInv(u)' /\ LandedInv(u)' /\ PlanesInv(u)'
    BY <1>1, <1>2, <1>14, <2>3, LandStep
  <2> QED BY <1>3, <1>14, <2>2, <2>4, ThreadStep
<1>15. CASE Barrier
  <2>1. ASSUME NEW u \in Threads
        PROVE  /\ LocationInv(u)' /\ CursorInv(u)' /\ Rounds(u)' = Rounds(u) + 1
               /\ GroupInv(u)' /\ LandedInv(u)' /\ PlanesInv(u)'
    <3>1. LocationInv(u)' /\ CursorInv(u)' /\ Rounds(u)' = Rounds(u) + 1
      BY <1>1, <1>15, CursorBarrier DEF ThreadInv
    <3> QED BY <3>1, <1>15, BarrierStep
  <2>2. RoundsAgree'
    BY <2>1, <1>2 DEF RoundsAgree
  <2> QED BY <2>1, <2>2, <1>3 DEF RingInv
<1>16. CASE UNCHANGED vars
  <2>1. ASSUME NEW u \in Threads
        PROVE  /\ SameCursor(u) /\ pending'[u] = pending[u]
               /\ smem' = smem /\ raw' = raw /\ planes' = planes
    BY <1>16 DEF vars, SameCursor
  <2>2. ASSUME NEW u \in Threads
        PROVE  /\ LocationInv(u)' /\ CursorInv(u)' /\ Rounds(u)' = Rounds(u)
               /\ GroupInv(u)' /\ LandedInv(u)' /\ PlanesInv(u)'
    <3>1. LocationInv(u)' /\ CursorInv(u)' /\ Rounds(u)' = Rounds(u)
      BY <2>1, <1>1, CursorFrame DEF ThreadInv
    <3> QED BY <3>1, <2>1, <1>1, GroupFrame, LandedFrame, PlanesFrame
            DEF ThreadInv, SameCursor
  <2>3. RoundsAgree'
    BY <2>2, <1>2 DEF RoundsAgree
  <2> QED BY <2>2, <2>3, <1>3 DEF RingInv
<1> QED BY <1>6, <1>7, <1>9, <1>10, <1>11, <1>12, <1>13, <1>14, <1>15, <1>16
        DEF Next, Step, Terminated

(* The invariant holds in every reachable state.                           *)
THEOREM RingCorrect == Spec => []RingInv
BY RingInit, RingStep, PTL DEF Spec
-----------------------------------------------------------------------------
(* What the invariant gives.                                               *)

(* While some thread is reading, every slab and unit of the round's stage  *)
(* holds the round's tile, and no copy is aimed at that stage.             *)
LEMMA RoundStageReady ==
  ASSUME RingInv, NEW t \in Threads, pc[t] \in {"prime", "prepare", "prefetch", "consume"}
  PROVE  /\ Rounds(t) \in Nat \ {0}
         /\ pc[t] \in {"prime", "prepare"} => readStage[t] = StageOf(Rounds(t))
         /\ pc[t] = "consume" => token[t] = StageOf(Rounds(t))
         /\ \A u \in Threads : /\ smem[StageOf(Rounds(t))][u] = TileOf(Rounds(t))
                               /\ raw[StageOf(Rounds(t))][ColumnOf(u)] =
                                    UnitOf(TileOf(Rounds(t)))
                               /\ \A g \in pending[u] : g.stage # StageOf(Rounds(t))
<1> DEFINE R == Rounds(t)
<1>1. TypeOK /\ \A u \in Threads : ThreadInv(u) /\ Rounds(u) = R
  BY DEF RingInv, RoundsAgree, ThreadInv
<1>2. R \in Nat \ {0} /\ (pc[t] \in {"prime", "prepare"} => ReadPos(t) = R - 1)
  BY <1>1, ReadPosRounds DEF ThreadInv
<1>3. pc[t] \in {"prime", "prepare"} => readStage[t] = StageOf(R)
  BY <1>1, <1>2 DEF ThreadInv, CursorInv, StageOf
<1>4. pc[t] = "consume" => token[t] = StageOf(R)
  BY <1>1 DEF ThreadInv, CursorInv
<1>5. R <= Tiles + Primed /\ Tiles + Primed \in Nat
  <2>1. pc[t] = "prime" => R = 1 /\ Primed = 1
    BY <1>1 DEF Rounds, ThreadInv, LocationInv, Primed
  <2>2. pc[t] \in MainLoop => Iteration(t) \in Tile /\ R <= Iteration(t) + Primed + 1
    BY <1>1, Sizes DEF Rounds, ThreadInv, LocationInv, MainLoop, Primed, Tile
  <2>3. Primed \in {0, 1} /\ (Tiles + Primed \in Nat)
    BY Sizes DEF Primed
  <2> HIDE DEF R
  <2>4. CASE pc[t] = "prime"
    BY <2>1, <2>3, <2>4, Sizes
  <2>5. CASE pc[t] \in MainLoop
    BY <2>2, <2>3, <2>5, <1>2, Sizes DEF Tile
  <2> QED BY <2>4, <2>5, <2>3 DEF MainLoop
<1>6. ASSUME NEW u \in Threads PROVE R <= issued[u] /\ pc[u] # "done"
  <2>1. Rounds(u) = R /\ LocationInv(u) /\ CursorInv(u)
    BY <1>1 DEF ThreadInv
  <2>2. pc[u] # "done"
    <3>1. pc[u] = "done" => Rounds(u) = Tiles + Primed + 1
      BY <2>1, Sizes DEF LocationInv, Late, Rounds, PastSync, Primed
    <3> HIDE DEF R
    <3> QED BY <3>1, <2>1, <1>2, <1>5
  <2>3. pc[u] # "prologue"
    BY <2>1, <1>2 DEF Rounds
  <2>4. Rounds(u) <= issued[u]
    BY <2>1, <2>2, <2>3, <1>1, CursorTypes, Sizes
       DEF LocationInv, CursorInv, Rounds, PastSync, Primed, Prefetched, MainLoop, Late,
           Location, SyncPoint, Tile
  <2> QED BY <2>1, <2>2, <2>4
<1> HIDE DEF R
<1>7. ASSUME NEW u \in Threads
      PROVE  /\ smem[StageOf(R)][u] = TileOf(R)
             /\ raw[StageOf(R)][ColumnOf(u)] = UnitOf(TileOf(R))
             /\ \A g \in pending[u] : g.stage # StageOf(R)
  <2>1. \A g \in pending[u] : /\ g.seq \in Nat /\ g.seq > R /\ g.seq <= R + Stages - 1
                              /\ g.stage = StageOf(g.seq)
    <3>1. LandedRounds(u) >= R /\ LandedRounds(u) \in Nat
      BY <1>1, <1>2 DEF LandedRounds
    <3>2. \A g \in pending[u] : g.seq \in Nat
      BY <1>1 DEF TypeOK, Group
    <3>3. issued[u] \in Nat /\ issued[u] <= R + Stages - 1
      BY <1>1, CursorTypes DEF ThreadInv, GroupInv
    <3>4. \A g \in pending[u] : /\ g.seq > LandedRounds(u) /\ g.seq <= issued[u]
                                /\ g.stage = StageOf(g.seq)
      BY <1>1 DEF ThreadInv, GroupInv
    <3> QED BY <3>1, <3>2, <3>3, <3>4, <1>2, Sizes
  <2>2. \A g \in pending[u] : g.stage # StageOf(R)
    BY <2>1, <1>2, Sizes, StageOfDistinct
  <2>3. R \in 1 .. issued[u] /\ R >= Rounds(u) /\ \A g \in pending[u] : g.seq # R
    BY <2>1, <1>1, <1>2, <1>6, CursorTypes
  <2> QED BY <2>2, <2>3, <1>1 DEF ThreadInv, LandedInv
<1> QED BY <1>2, <1>3, <1>4, <1>7 DEF R

(* Every cursor of every thread stays in range, for ever.                  *)
THEOREM TypeCorrect == Spec => []TypeOK
<1>1. RingInv => TypeOK
  BY DEF RingInv
<1> QED BY <1>1, RingCorrect, PTL

(* No thread, however far ahead of the others, has a copy in flight into a *)
(* stage that another thread is about to read.                             *)
THEOREM CopiesAvoidReaders == Spec => []NoCopyIntoStageBeingRead
<1>1. RingInv => NoCopyIntoStageBeingRead
  <2> SUFFICES ASSUME RingInv, NEW t \in Threads, NEW s \in Stage, ReadsStage(t, s)
               PROVE  \A u \in Threads : \A g \in pending[u] : g.stage # s
    BY DEF NoCopyIntoStageBeingRead
  <2>1. pc[t] \in {"prime", "prepare", "consume"}
    BY DEF ReadsStage
  <2>2. s = StageOf(Rounds(t))
    BY <2>1, RoundStageReady DEF ReadsStage
  <2> QED BY <2>1, <2>2, RoundStageReady
<1> QED BY <1>1, RingCorrect, PTL

(* While some thread is reading, the stage of the round holds codes and    *)
(* metadata of the round's tile only.                                      *)
LEMMA RoundStageHolds ==
  ASSUME RingInv, NEW t \in Threads, pc[t] \in {"prime", "prepare", "prefetch", "consume"}
  PROVE  /\ TileOf(Rounds(t)) \in Tile
         /\ SlabTiles(StageOf(Rounds(t))) = {TileOf(Rounds(t))}
         /\ PlaneTiles(StageOf(Rounds(t)), Groups) = {TileOf(Rounds(t))} \X Groups
<1> DEFINE R == Rounds(t)
           T == TileOf(R)
<1>1. /\ R \in Nat \ {0}
      /\ T \in Tile
      /\ \A u \in Threads : /\ smem[StageOf(R)][u] = T
                            /\ raw[StageOf(R)][ColumnOf(u)] = UnitOf(T)
  BY RoundStageReady, StageOfType
<1>2. TypeOK /\ ThreadInv(t)
  BY DEF RingInv, ThreadInv
<1> HIDE DEF R, T
<1>3. 0 \in Threads /\ 0 \in Columns
  BY Sizes DEF Threads, Columns
<1>4. SlabTiles(StageOf(R)) = {T}
  BY <1>1, <1>3 DEF SlabTiles
<1>5. PlaneTiles(StageOf(R), Groups) = {T} \X Groups
  <2>1. CASE Packed
    <3>1. \A c \in Columns, g \in Groups : planes[StageOf(R)][c][g] = T
      BY <2>1, <1>1, <1>2 DEF ThreadInv, PlanesInv, R, T
    <3> QED BY <2>1, <3>1, <1>3 DEF PlaneTiles
  <2>2. CASE ~Packed
    <3>1. ASSUME NEW c \in Columns PROVE raw[StageOf(R)][c] = T
      <4>1. c \in Threads /\ c \in 0 .. NumColumns - 1
        BY Sizes DEF Columns, Threads
      <4>2. ColumnOf(c) = c
        BY <4>1, Sizes, ModSmall DEF ColumnOf
      <4>3. UnitOf(T) = T
        BY <2>2, <1>1, UnitDecode, PipelineAssumption DEF PipelineAssumption
      <4> QED BY <4>1, <4>2, <4>3, <1>1
    <3> QED BY <2>2, <3>1, <1>3 DEF PlaneTiles
  <2> QED BY <2>1, <2>2
<1> QED BY <1>1, <1>4, <1>5 DEF R, T

(* While the ring invariant holds, a prepare reads its own tile.           *)
LEMMA StageComplete == RingInv => StageHoldsItsTile
<1> SUFFICES ASSUME RingInv, NEW t \in Threads, pc[t] \in {"prime", "prepare"}
             PROVE  /\ SlabTiles(readStage[t]) = {PreparedTile(t)}
                    /\ PlaneTiles(readStage[t], Groups) = {PreparedTile(t)} \X Groups
  BY DEF StageHoldsItsTile
<1> DEFINE R == Rounds(t)
<1>1. /\ R \in Nat \ {0} /\ readStage[t] = StageOf(R)
      /\ SlabTiles(StageOf(R)) = {TileOf(R)}
      /\ PlaneTiles(StageOf(R), Groups) = {TileOf(R)} \X Groups
  BY RoundStageReady, RoundStageHolds
<1>2. TypeOK
  BY DEF RingInv
<1>3. TileOf(R) = PreparedTile(t)
  <2>1. PreparedTile(t) = IF R - 1 < Tiles THEN R - 1 ELSE Tiles - 1
    <3>1. CASE pc[t] = "prime"
      BY <3>1 DEF PreparedTile, Rounds
    <3>2. CASE pc[t] = "prepare"
      <4>1. R = Iteration(t) + Primed + (IF kBlock[t] = KBlocks - 1 THEN 1 ELSE 0)
        BY <3>2 DEF Rounds, PastSync
      <4>2. kBlock[t] \in 0 .. KBlocks - 1 /\ Iteration(t) \in Int
        BY <1>2, CursorTypes DEF Block
      <4> HIDE DEF R
      <4> QED BY <4>1, <4>2, <3>2, Sizes DEF PreparedTile, Primed
    <3> QED BY <3>1, <3>2
  <2> HIDE DEF R
  <2> QED BY <2>1, <1>1, Sizes DEF TileOf
<1> QED BY <1>1, <1>3

(* What a token names when its thread consumes.                            *)
LEMMA TokenStageHolds ==
  ASSUME RingInv, NEW t \in Threads, pc[t] = "consume"
  PROVE  /\ SlabTiles(token[t]) = {TileOf(Rounds(t))}
         /\ PlaneTiles(token[t], Groups) = {TileOf(Rounds(t))} \X Groups
BY RoundStageReady, RoundStageHolds

(* A thread that prepares a delivery finds all slabs and all scale planes  *)
(* of its read stage filled with the tile it is at, whoever filled them.   *)
THEOREM PreparedStageComplete == Spec => []StageHoldsItsTile
BY StageComplete, RingCorrect, PTL

(* When any thread has left the mainloop, no copy of any thread is left.   *)
THEOREM ExitDrained == Spec => []NothingInFlightAtExit
<1>1. RingInv => NothingInFlightAtExit
  <2> SUFFICES ASSUME RingInv, NEW t \in Threads, pc[t] = "done", NEW u \in Threads
               PROVE  pending[u] = {}
    BY DEF NothingInFlightAtExit
  <2>1. TypeOK /\ ThreadInv(t) /\ ThreadInv(u) /\ Rounds(t) = Rounds(u)
    BY DEF RingInv, RoundsAgree, ThreadInv
  <2>2. Rounds(u) = Tiles + Primed + 1
    BY <2>1, Sizes DEF ThreadInv, LocationInv, Late, Rounds, PastSync, Primed
  <2>3. pc[u] = "done"
    BY <2>1, <2>2, CursorTypes, Sizes
       DEF ThreadInv, LocationInv, Late, MainLoop, Location, SyncPoint, Rounds, PastSync,
           Primed, Tile
  <2> QED BY <2>1, <2>3 DEF ThreadInv, GroupInv
<1> QED BY <1>1, RingCorrect, PTL

(* With one delivery step per tile the token of a chunked consume names a  *)
(* stage that holds the tile being accumulated (with more it need not: the *)
(* ring has already advanced when the last step's token is captured).      *)
THEOREM TokenCorrectForOneDelivery == Spec => [](KBlocks = 1 => TokenNamesConsumedTile)
<1>1. RingInv => (KBlocks = 1 => TokenNamesConsumedTile)
  <2> SUFFICES ASSUME KBlocks = 1, RingInv, NEW t \in Threads, pc[t] = "consume"
               PROVE  SlabTiles(token[t]) = {Iteration(t)}
    BY DEF TokenNamesConsumedTile
  <2>1. TypeOK /\ LocationInv(t)
    BY DEF RingInv
  <2>2. /\ token[t] = StageOf(Rounds(t))
        /\ \A u \in Threads : smem[StageOf(Rounds(t))][u] = TileOf(Rounds(t))
    BY RoundStageReady
  <2>3. Iteration(t) \in Tile /\ Rounds(t) = Iteration(t) + 1
    BY <2>1, CursorTypes, Sizes DEF LocationInv, MainLoop, Rounds, PastSync, Primed, Block
  <2>4. TileOf(Rounds(t)) = Iteration(t)
    BY <2>3, Sizes DEF TileOf, Tile
  <2>5. 0 \in Threads
    BY Sizes DEF Threads
  <2> QED BY <2>2, <2>4, <2>5 DEF SlabTiles
<1> QED BY <1>1, RingCorrect, PTL
-----------------------------------------------------------------------------
(* What the registers and the accumulator hold.                            *)

(* The delivery step after k, computed the way the driver wraps it.        *)
LEMMA NextBlock ==
  ASSUME NEW k \in Block
  PROVE  /\ ((k + 1) % KBlocks) = IF k = KBlocks - 1 THEN 0 ELSE k + 1
         /\ ((k + 1) % KBlocks) \in Block
<1> DEFINE m == k % KBlocks
           n == (k + 1) % KBlocks
<1>1. k \in 0 .. KBlocks - 1 /\ k \in Nat
  BY Sizes DEF Block
<1>2. m = k
  BY <1>1, Sizes, ModSmall
<1>3. n = IF m + 1 = KBlocks THEN 0 ELSE m + 1
  BY <1>1, Sizes, ModSucc
<1> HIDE DEF m, n
<1>4. n = (IF k = KBlocks - 1 THEN 0 ELSE k + 1) /\ n \in Block
  BY <1>1, <1>2, <1>3, Sizes DEF Block
<1> QED BY <1>4 DEF n

(* A delivery step that does not start a scale group is in the group of    *)
(* the step before it, and step 0 starts one.                              *)
LEMMA SameGroup ==
  /\ StartsGroup(0)
  /\ \A k \in Block : Coarse /\ k + 1 \in Block /\ ~StartsGroup(k + 1) =>
                        GroupsOf[k + 1] = GroupsOf[k]
<1> DEFINE S == StepsPerGroup
<1>1. S \in Nat \ {0}
  BY GroupsOfType
<1>2. StartsGroup(0)
  <2>1. 0 \in 0 .. S - 1
    BY <1>1
  <2> HIDE DEF S
  <2>2. (0 % S) = 0
    BY <1>1, <2>1, ModSmall
  <2> QED BY <2>2 DEF StartsGroup, S
<1>3. ASSUME NEW k \in Block, Coarse, k + 1 \in Block, ~StartsGroup(k + 1)
      PROVE  GroupsOf[k + 1] = GroupsOf[k]
  <2> DEFINE q == k \div S
             r == k % S
  <2> HIDE DEF S
  <2>1. k \in Nat
    BY Sizes DEF Block
  <2>2. r \in 0 .. S - 1 /\ q \in Nat /\ k = S * q + r
    BY <1>1, <2>1, ModDecompose
  <2>3. ((k + 1) % S) = IF r + 1 = S THEN 0 ELSE r + 1
    BY <1>1, <2>1, ModSucc
  <2>4. ((k + 1) % S) # 0
    BY <1>3 DEF StartsGroup, S
  <2> HIDE DEF q, r
  <2>5. r + 1 \in 0 .. S - 1 /\ k + 1 = S * q + (r + 1)
    BY <1>1, <2>1, <2>2, <2>3, <2>4
  <2>6. ((k + 1) \div S) = q
    BY <1>1, <2>2, <2>5, DivUnique
  <2> QED BY <2>6, <1>3 DEF GroupsOf, S, q
<1> QED BY <1>2, <1>3

(* When all the metadata of a stage is of one tile, so is that of some of  *)
(* its groups.                                                             *)
LEMMA PlaneTilesOf ==
  ASSUME NEW s \in Stage, NEW i, NEW gs \in SUBSET Groups,
         PlaneTiles(s, Groups) = {i} \X Groups
  PROVE  PlaneTiles(s, gs) = {i} \X gs
<1>1. 0 \in Columns
  BY Sizes DEF Columns
<1>2. CASE Packed
  <2>1. \A c \in Columns, g \in Groups : <<planes[s][c][g], g>> \in {i} \X Groups
    BY <1>2 DEF PlaneTiles
  <2>2. \A c \in Columns, g \in Groups : planes[s][c][g] = i
    BY <2>1
  <2> QED BY <1>1, <1>2, <2>2 DEF PlaneTiles
<1>3. CASE ~Packed
  <2>1. \A c \in Columns, g \in Groups : <<raw[s][c], g>> \in {i} \X Groups
    BY <1>3 DEF PlaneTiles
  <2>2. \A c \in Columns, g \in Groups : raw[s][c] = i
    BY <2>1
  <2> QED BY <1>1, <1>3, <2>2 DEF PlaneTiles
<1> QED BY <1>2, <1>3

(* Prepare loads the delivery of the tile the thread is at, as long as the *)
(* scale fragment it may keep is of that tile and group.                   *)
LEMMA PrepareDelivers ==
  ASSUME RingInv, NEW t \in Threads, NEW k \in Block, Prepare(t, k),
         pc[t] \in {"prime", "prepare"}, NEW i, i = PreparedTile(t),
         Coarse /\ ~StartsGroup(k) => scaleReg[t] = {i} \X GroupsOf[k]
  PROVE  /\ Delivered(t, k, i)'
         /\ \A j \in Block : j # k => frag'[t][j] = frag[t][j]
         /\ Coarse => scaleReg'[t] = {i} \X GroupsOf[k]
<1> DEFINE s == readStage[t]
           reloaded == IF Coarse /\ StartsGroup(k) THEN PlaneTiles(s, GroupsOf[k])
                                                   ELSE scaleReg[t]
<1>1. TypeOK /\ StageHoldsItsTile
  BY StageComplete DEF RingInv
<1>2. s \in Stage /\ GroupsOf[k] \in SUBSET Groups
  BY <1>1, GroupsOfType DEF TypeOK
<1>3. SlabTiles(s) = {i} /\ PlaneTiles(s, Groups) = {i} \X Groups
  BY <1>1 DEF StageHoldsItsTile
<1>4. PlaneTiles(s, GroupsOf[k]) = {i} \X GroupsOf[k]
  BY <1>2, <1>3, PlaneTilesOf
<1>5. Coarse => reloaded = {i} \X GroupsOf[k]
  BY <1>4
<1>6. scaleReg' = [scaleReg EXCEPT ![t] = reloaded]
  BY DEF Prepare
<1>7. frag' = [frag EXCEPT ![t][k] =
         [data |-> SlabTiles(s),
          meta |-> IF Provider # "eager" THEN {}
                   ELSE IF Coarse THEN reloaded ELSE PlaneTiles(s, GroupsOf[k])]]
  BY DEF Prepare
<1> HIDE DEF reloaded, s
<1>8. scaleReg'[t] = reloaded
  BY <1>1, <1>6 DEF TypeOK
<1>9. frag'[t][k] = [data |-> {i}, meta |-> IF Provider # "eager" THEN {} ELSE {i} \X GroupsOf[k]]
  <2>1. (IF Coarse THEN reloaded ELSE PlaneTiles(s, GroupsOf[k])) = {i} \X GroupsOf[k]
    BY <1>4, <1>5
  <2> QED BY <1>1, <1>3, <1>7, <2>1 DEF TypeOK
<1>10. \A j \in Block : j # k => frag'[t][j] = frag[t][j]
  BY <1>1, <1>7 DEF TypeOK
<1> QED BY <1>5, <1>8, <1>9, <1>10 DEF Delivered

(* What is known of the registers of a thread that has not moved is still  *)
(* known.                                                                  *)
LEMMA DeliveryFrame ==
  ASSUME NEW t \in Threads, SameCursor(t), DeliveryInv(t),
         frag'[t] = frag[t], scaleReg'[t] = scaleReg[t], acc'[t] = acc[t]
  PROVE  DeliveryInv(t)'
BY DEF SameCursor, DeliveryInv, Delivered, Holding, LatestStep, LatestTile, Iteration

(* The prologue, the publish, the prefetch, the drain and the barrier load *)
(* nothing and consume nothing.                                            *)
LEMMA DeliveryQuiet ==
  ASSUME RingInv, NEW t \in Threads, DeliveryInv(t),
         PrologueCopy(t) \/ WaitAndPublish(t) \/ Prefetch(t) \/ Drain(t) \/ Barrier
  PROVE  DeliveryInv(t)' /\ UNCHANGED acc
<1> USE DEF cursor, copies, memory, regs
<1>1. /\ TypeOK /\ LocationInv(t)
      /\ kBlock[t] \in 0 .. KBlocks - 1 /\ Iteration(t) \in Int /\ tileCount[t] \in Int
  BY CursorTypes DEF RingInv, Block
<1>2. UNCHANGED <<kBlock, frag, scaleReg, acc>>
  BY DEF PrologueCopy, WaitAndPublish, Prefetch, Drain, Barrier
<1>3. CASE PrologueCopy(t)
  <2>1. /\ pc[t] = "prologue" /\ kBlock[t] = 0 /\ tileCount[t] = Tiles - kPipe[t]
        /\ tileCount'[t] = tileCount[t] - 1
        /\ pc'[t] = IF kPipe[t] + 1 < Stages - 1 THEN "prologue"
                    ELSE IF KBlocks > 1 THEN "primeWait" ELSE "wait"
        /\ kPipe[t] \in 0 .. Stages - 1 /\ kPipe[t] < Stages - 1
    BY <1>1, <1>3 DEF PrologueCopy, TypeOK, LocationInv, Early
  <2>2. Len(acc[t]) = 0
    BY <2>1 DEF DeliveryInv, Early
  <2>3. pc'[t] = "wait" => Iteration(t)' = 0 /\ ~(KBlocks > 1)
    BY <2>1, Sizes DEF Iteration
  <2>4. Len(acc[t])' = IF pc'[t] \in Early THEN 0 ELSE Iteration(t)' * KBlocks + kBlock'[t]
    BY <1>2, <2>1, <2>2, <2>3, Sizes DEF Early
  <2>5. ~Holding(t)'
    BY <2>1, <2>3 DEF Holding, MainLoop
  <2> QED BY <1>2, <2>4, <2>5 DEF DeliveryInv
<1>4. CASE WaitAndPublish(t) \/ Drain(t) \/ Barrier
  <2>1. /\ tileCount' = tileCount
        /\ pc[t] \in Early <=> pc'[t] \in Early
        /\ pc[t] \in MainLoop <=> pc'[t] \in MainLoop
        /\ pc[t] \notin {"prefetch", "consume"} /\ pc'[t] \notin {"prefetch", "consume"}
    BY <1>1, <1>4 DEF WaitAndPublish, Drain, Barrier, TypeOK, Early, MainLoop, SyncPoint, AfterSync
  <2> QED BY <1>2, <2>1 DEF DeliveryInv, Delivered, Holding, LatestStep, LatestTile, Iteration
<1>5. CASE Prefetch(t)
  <2>1. pc[t] = "prefetch" /\ pc'[t] = "consume" /\ tileCount' = tileCount
    BY <1>1, <1>5 DEF Prefetch, TypeOK
  <2> QED BY <1>2, <2>1
          DEF DeliveryInv, Delivered, Holding, LatestStep, LatestTile, Iteration, Early, MainLoop
<1> QED BY <1>2, <1>3, <1>4, <1>5

(* The first delivery of tile 0 is loaded before the loop.                 *)
LEMMA DeliveryPrepareFirst ==
  ASSUME RingInv, NEW t \in Threads, DeliveryInv(t), PrepareFirst(t)
  PROVE  DeliveryInv(t)' /\ UNCHANGED acc
<1> USE DEF cursor, copies, memory, regs
<1>1. /\ TypeOK /\ LocationInv(t)
      /\ pc[t] = "prime" /\ KBlocks > 1 /\ kBlock[t] = 0 /\ Iteration(t) = 0
      /\ UNCHANGED <<kBlock, tileCount, acc>>
  BY DEF RingInv, PrepareFirst, LocationInv, Early
<1>2. 0 \in Block /\ 0 \in Tile /\ PreparedTile(t) = 0
  BY <1>1, Sizes DEF Block, Tile, PreparedTile
<1>3. Delivered(t, 0, 0)' /\ (Coarse => scaleReg'[t] = {0} \X GroupsOf[0])
  BY <1>1, <1>2, SameGroup, PrepareDelivers DEF PrepareFirst
<1>4. pc'[t] = "prepare"
  BY <1>1, Sizes DEF PrepareFirst, BlockStart, TypeOK
<1>5. kBlock'[t] = 0 /\ Iteration(t)' = 0 /\ LatestStep(t)' = 0 /\ LatestTile(t)' = 0
  BY <1>1, <1>4, Sizes DEF Iteration, LatestStep, LatestTile
<1>6. Len(acc[t]) = 0 /\ 0 * KBlocks + 0 = 0
  BY <1>1, Sizes DEF DeliveryInv, Early
<1> QED BY <1>1, <1>3, <1>4, <1>5, <1>6 DEF DeliveryInv, Early

(* PrepareNext loads the delivery after the one about to be consumed and   *)
(* leaves that one alone.                                                  *)
LEMMA DeliveryPrepareNext ==
  ASSUME RingInv, NEW t \in Threads, DeliveryInv(t), PrepareNext(t)
  PROVE  DeliveryInv(t)' /\ UNCHANGED acc
<1> USE DEF cursor, copies, memory, regs
<1>1. /\ TypeOK /\ LocationInv(t) /\ pc[t] = "prepare"
      /\ Prepare(t, (kBlock[t] + 1) % KBlocks)
      /\ UNCHANGED <<kBlock, tileCount, acc>>
      /\ pc'[t] \in {"prefetch", "consume"}
  BY DEF RingInv, PrepareNext, TypeOK
<1>2. PICK k \in Block : k = kBlock[t] /\ k \in 0 .. KBlocks - 1
  BY <1>1, CursorTypes DEF Block
<1>3. PICK n \in Block : /\ n = (k + 1) % KBlocks
                        /\ n = IF k = KBlocks - 1 THEN 0 ELSE k + 1
  BY NextBlock
<1>4. Iteration(t) \in 0 .. Tiles - 1
  BY <1>1 DEF LocationInv, MainLoop, Tile
<1>5. Holding(t) <=> KBlocks > 1
  BY <1>1 DEF Holding, MainLoop
<1>6. PICK i \in Tile :
        /\ i = PreparedTile(t)
        /\ i = IF KBlocks > 1 /\ k = KBlocks - 1 /\ Iteration(t) + 1 < Tiles
               THEN Iteration(t) + 1 ELSE Iteration(t)
  BY <1>1, <1>2, <1>4, Sizes DEF PreparedTile, Tile
<1>7. Coarse /\ ~StartsGroup(n) => scaleReg[t] = {i} \X GroupsOf[n]
  <2> SUFFICES ASSUME Coarse, ~StartsGroup(n) PROVE scaleReg[t] = {i} \X GroupsOf[n]
    OBVIOUS
  <2>1. n = k + 1 /\ k # KBlocks - 1 /\ KBlocks > 1
    BY <1>2, <1>3, SameGroup, Sizes
  <2>2. GroupsOf[n] = GroupsOf[k] /\ i = Iteration(t)
    BY <1>2, <1>3, <1>6, <2>1, SameGroup
  <2>3. LatestStep(t) = k /\ LatestTile(t) = Iteration(t)
    BY <1>1, <1>2, <1>4, Sizes DEF LatestStep, LatestTile
  <2> QED BY <1>2, <1>5, <2>1, <2>2, <2>3 DEF DeliveryInv
<1>8. /\ Delivered(t, n, i)'
      /\ \A b \in Block : b # n => frag'[t][b] = frag[t][b]
      /\ Coarse => scaleReg'[t] = {i} \X GroupsOf[n]
  <2>1. Prepare(t, n)
    BY <1>1, <1>2, <1>3 DEF Prepare
  <2> QED BY <1>1, <1>6, <1>7, <2>1, PrepareDelivers
<1>9. LatestStep(t)' = n /\ LatestTile(t)' = i /\ Iteration(t)' = Iteration(t)
  BY <1>1, <1>2, <1>3, <1>6, <1>4, Sizes DEF LatestStep, LatestTile, Iteration
<1>10. Delivered(t, k, Iteration(t))'
  <2>1. CASE n = k
    <3>1. i = Iteration(t)
      BY <1>2, <1>3, <1>6, <2>1, Sizes
    <3> QED BY <1>8, <1>9, <2>1, <3>1 DEF Delivered
  <2>2. CASE n # k
    <3>1. KBlocks > 1
      BY <1>2, <1>3, <2>2, Sizes
    <3>2. Delivered(t, k, Iteration(t)) /\ frag'[t][k] = frag[t][k]
      BY <1>2, <1>5, <1>8, <2>2, <3>1 DEF DeliveryInv
    <3> QED BY <1>1, <1>9, <3>2 DEF Delivered
  <2> QED BY <2>1, <2>2
<1>11. Len(acc[t])' = IF pc'[t] \in Early THEN 0 ELSE Iteration(t)' * KBlocks + kBlock'[t]
  BY <1>1, <1>9 DEF DeliveryInv, Early
<1> QED BY <1>1, <1>2, <1>8, <1>9, <1>10, <1>11 DEF DeliveryInv

(* Consuming a delivery makes the one prepared after it the current one.   *)
LEMMA DeliveryConsume ==
  ASSUME RingInv, NEW t \in Threads, DeliveryInv(t), Consume(t)
  PROVE  DeliveryInv(t)'
<1> USE DEF cursor, copies, memory, regs
<1>1. /\ TypeOK /\ LocationInv(t) /\ pc[t] = "consume"
      /\ acc' = [acc EXCEPT ![t] = Append(@, Consumed(t))]
      /\ UNCHANGED <<frag, scaleReg>>
  BY DEF RingInv, Consume
<1>2. PICK k \in Block : k = kBlock[t] /\ k \in 0 .. KBlocks - 1
  BY <1>1, CursorTypes DEF Block
<1>3. PICK i \in Tile : i = Iteration(t) /\ i \in 0 .. Tiles - 1
  BY <1>1 DEF LocationInv, MainLoop, Tile
<1>4. Len(acc[t]) = i * KBlocks + k /\ Len(acc'[t]) = Len(acc[t]) + 1
  <2>1. acc[t] \in Seq(Fragments) /\ Consumed(t) \in Fragments
    BY <1>1, ConsumedType DEF TypeOK
  <2>2. Len(Append(acc[t], Consumed(t))) = Len(acc[t]) + 1
    BY <2>1
  <2> QED BY <1>1, <1>2, <1>3, <2>2 DEF DeliveryInv, Early, TypeOK
<1>5. /\ LatestStep(t) = (k + 1) % KBlocks
      /\ LatestTile(t) = IF KBlocks > 1 /\ k = KBlocks - 1 /\ i + 1 < Tiles THEN i + 1 ELSE i
  BY <1>1, <1>2, <1>3, Sizes DEF LatestStep, LatestTile
<1>6. /\ Delivered(t, LatestStep(t), LatestTile(t))
      /\ Coarse => scaleReg[t] = {LatestTile(t)} \X GroupsOf[LatestStep(t)]
  BY <1>1 DEF DeliveryInv, Holding
<1>7. CASE k < KBlocks - 1
  <2>1. /\ kBlock'[t] = k + 1 /\ tileCount' = tileCount
        /\ pc'[t] \in {"wait", "prepare"}
    BY <1>1, <1>2, <1>7 DEF Consume, TypeOK, BlockStart
  <2>2. LatestStep(t) = k + 1 /\ LatestTile(t) = i /\ KBlocks > 1
    BY <1>2, <1>3, <1>5, <1>7, NextBlock, Sizes
  <2>3. Iteration(t)' = i /\ LatestStep(t)' = k + 1 /\ LatestTile(t)' = i
    BY <1>1, <1>3, <2>1, Sizes DEF Iteration, LatestStep, LatestTile
  <2>4. Delivered(t, k + 1, i)' /\ (Coarse => scaleReg'[t] = {i} \X GroupsOf[k + 1])
    BY <1>1, <1>6, <2>2 DEF Delivered
  <2>5. Len(acc'[t]) = i * KBlocks + (k + 1)
    <3>1. i * KBlocks \in Nat
      BY <1>3, Sizes
    <3> QED BY <1>2, <1>4, <3>1
  <2> QED BY <2>1, <2>3, <2>4, <2>5 DEF DeliveryInv, Early
<1>8. CASE ~(k < KBlocks - 1)
  <2>1. /\ kBlock'[t] = 0 /\ tileCount'[t] = tileCount[t] - 1
        /\ pc'[t] = IF LoopContinues(tileCount[t] - 1) THEN BlockStart(0) ELSE "drain"
        /\ k = KBlocks - 1
    <3>1. ~(kBlock[t] < KBlocks - 1) /\ k = KBlocks - 1
      BY <1>2, <1>8, Sizes
    <3> QED BY <1>1, <3>1 DEF Consume, TypeOK
  <2>2. Iteration(t)' = i + 1 /\ (pc'[t] # "drain" <=> i + 1 < Tiles)
    BY <1>1, <1>3, <2>1, CursorTypes, Sizes DEF Iteration, LoopContinues, BlockStart
  <2>3. Len(acc'[t]) = (i + 1) * KBlocks + 0
    <3>1. i * KBlocks \in Nat /\ (i + 1) * KBlocks = i * KBlocks + KBlocks
      BY <1>3, Sizes
    <3> QED BY <1>2, <1>4, <2>1, <3>1, Sizes
  <2>4. pc'[t] \in {"wait", "prepare", "drain"}
        /\ (Holding(t)' => KBlocks > 1 /\ pc'[t] \in {"wait", "prepare"})
    BY <2>1 DEF BlockStart, Holding, MainLoop
  <2>5. ASSUME Holding(t)'
        PROVE  /\ LatestStep(t)' = 0 /\ LatestTile(t)' = i + 1
               /\ Delivered(t, 0, i + 1)'
               /\ (Coarse => scaleReg'[t] = {i + 1} \X GroupsOf[0])
    <3>1. LatestStep(t)' = 0 /\ LatestTile(t)' = i + 1
      BY <1>3, <2>1, <2>2, <2>4, <2>5, Sizes DEF LatestStep, LatestTile
    <3>2. LatestStep(t) = 0 /\ LatestTile(t) = i + 1
      BY <1>2, <1>5, <2>1, <2>2, <2>4, <2>5, NextBlock
    <3> QED BY <1>1, <1>6, <3>1, <3>2 DEF Delivered
  <2> QED BY <2>1, <2>2, <2>3, <2>4, <2>5 DEF DeliveryInv, Early
<1> QED BY <1>7, <1>8

(* Every step of any thread keeps the registers and the accumulator of all *)
(* threads tied to the ring.                                               *)
LEMMA DeliveryStep ==
  ASSUME PipelineInv, [Next]_vars
  PROVE  \A u \in Threads : DeliveryInv(u)'
<1> USE DEF cursor, copies, memory, regs
<1> TAKE u \in Threads
<1>1. RingInv /\ TypeOK /\ DeliveryInv(u)
  BY DEF PipelineInv, RingInv
<1>2. ASSUME NEW t \in Threads, t # u, Step(t) PROVE DeliveryInv(u)'
  <2>1. SameCursor(u)
    BY <1>1, <1>2, OtherThreads
  <2>2. frag'[u] = frag[u] /\ scaleReg'[u] = scaleReg[u] /\ acc'[u] = acc[u]
    BY SMTT(30), <1>1, <1>2 DEF TypeOK, Step, PrologueCopy, WaitAndPublish, PrepareFirst, PrepareNext,
                      Prepare, Prefetch, Consume, Drain
  <2> QED BY <1>1, <2>1, <2>2, DeliveryFrame
<1>3. ASSUME Step(u) PROVE DeliveryInv(u)'
  BY <1>1, <1>3, DeliveryQuiet, DeliveryPrepareFirst, DeliveryPrepareNext, DeliveryConsume
     DEF Step
<1>4. ASSUME NEW t \in Threads, Land(t) PROVE DeliveryInv(u)'
  <2>1. SameCursor(u) /\ UNCHANGED <<frag, scaleReg, acc>>
    BY <1>4 DEF Land, SameCursor
  <2> QED BY <1>1, <2>1, DeliveryFrame
<1>5. CASE Barrier
  BY <1>1, <1>5, DeliveryQuiet
<1>6. CASE UNCHANGED vars
  <2>1. SameCursor(u) /\ UNCHANGED <<frag, scaleReg, acc>>
    BY <1>6 DEF vars, SameCursor
  <2> QED BY <1>1, <2>1, DeliveryFrame
<1> QED BY <1>2, <1>3, <1>4, <1>5, <1>6 DEF Next, Terminated

(* The ring, the registers and the accumulator agree in every reachable    *)
(* state.                                                                  *)
THEOREM PipelineCorrect == Spec => []PipelineInv
<1>1. Init => PipelineInv
  <2> SUFFICES ASSUME Init PROVE PipelineInv
    OBVIOUS
  <2>1. \A t \in Threads : DeliveryInv(t)
    BY DEF Init, DeliveryInv, Early, Holding, MainLoop
  <2> QED BY <2>1, RingInit DEF PipelineInv
<1>2. PipelineInv /\ [Next]_vars => PipelineInv'
  BY DeliveryStep, RingStep DEF PipelineInv
<1> QED BY <1>1, <1>2, PTL DEF Spec

-----------------------------------------------------------------------------
(* The refinement of TileAccumulate.                                       *)

(* What a thread issues to the MMA is the next fragment it owes: an eager  *)
(* provider by what prepare loaded, a chunked one also by what it rereads  *)
(* through its token, which names the right stage only when a tile is one  *)
(* delivery.                                                               *)
LEMMA ConsumedFragment ==
  ASSUME Provider = "twoPlaneChunk" => KBlocks = 1,
         RingInv, NEW t \in Threads, DeliveryInv(t), pc[t] = "consume"
  PROVE  /\ Len(acc[t]) < Tiles * KBlocks
         /\ Consumed(t) = Abs!Fragment(Len(acc[t]))
<1> DEFINE k == kBlock[t]
           i == Iteration(t)
<1>1. /\ TypeOK /\ LocationInv(t)
      /\ k \in Block /\ k \in 0 .. KBlocks - 1 /\ i \in Tile /\ i \in 0 .. Tiles - 1
  BY CursorTypes DEF RingInv, LocationInv, MainLoop, Block, Tile
<1>2. Len(acc[t]) = i * KBlocks + k
  BY DEF DeliveryInv, Early
<1>3. Delivered(t, k, i)
  BY DEF DeliveryInv, Holding
<1>4. KBlocks = 1 /\ Coarse => scaleReg[t] = {i} \X GroupsOf[k]
  <2> SUFFICES ASSUME KBlocks = 1, Coarse PROVE scaleReg[t] = {i} \X GroupsOf[k]
    OBVIOUS
  <2>1. LatestStep(t) = k /\ LatestTile(t) = i
    BY <1>1, NextBlock, Sizes DEF LatestStep, LatestTile
  <2> QED BY <2>1 DEF DeliveryInv, Holding
<1>5. KBlocks = 1 => /\ SlabTiles(token[t]) = {i}
                     /\ PlaneTiles(token[t], GroupsOf[k]) = {i} \X GroupsOf[k]
  <2> SUFFICES ASSUME KBlocks = 1
               PROVE  /\ SlabTiles(token[t]) = {i}
                      /\ PlaneTiles(token[t], GroupsOf[k]) = {i} \X GroupsOf[k]
    OBVIOUS
  <2>1. /\ SlabTiles(token[t]) = {TileOf(Rounds(t))}
        /\ PlaneTiles(token[t], Groups) = {TileOf(Rounds(t))} \X Groups
    BY TokenStageHolds
  <2>2. TileOf(Rounds(t)) = i
    <3>1. Rounds(t) = i + 1
      BY <1>1, Sizes DEF Rounds, PastSync, Primed
    <3> QED BY <1>1, <3>1, Sizes DEF TileOf
  <2>3. token[t] \in Stage /\ GroupsOf[k] \in SUBSET Groups
    BY <1>1, GroupsOfType DEF TypeOK
  <2> QED BY <2>1, <2>2, <2>3, PlaneTilesOf
<1> HIDE DEF i, k
<1>6. Len(acc[t]) < Tiles * KBlocks
  <2>1. PICK d \in Nat : Tiles = i + 1 + d
    <3>1. Tiles - i - 1 \in Nat /\ Tiles = i + 1 + (Tiles - i - 1)
      BY <1>1, Sizes
    <3> QED BY <3>1
  <2>2. Tiles * KBlocks = i * KBlocks + KBlocks + d * KBlocks
        /\ i * KBlocks \in Nat /\ d * KBlocks \in Nat
    BY <1>1, <2>1, Sizes
  <2> QED BY <1>1, <1>2, <2>2, Sizes
<1>7. /\ (Len(acc[t]) \div KBlocks) = i
      /\ (Len(acc[t]) % KBlocks) = k
  <2>1. Len(acc[t]) = KBlocks * i + k /\ i \in Int
    BY <1>1, <1>2, Sizes
  <2>2. ((KBlocks * i + k) \div KBlocks) = i /\ ((KBlocks * i + k) % KBlocks) = k
    BY <1>1, <2>1, Sizes, DivUnique, ModUnique
  <2> QED BY <2>1, <2>2, Zenon
<1>8. Abs!Fragment(Len(acc[t])) = [k |-> k, data |-> {i}, meta |-> {i} \X GroupsOf[k]]
  BY <1>7 DEF Abs!Fragment
<1>9. Consumed(t) = [k |-> k, data |-> {i}, meta |-> {i} \X GroupsOf[k]]
  <2>1. CASE Provider = "eager"
    BY <1>3, <2>1 DEF Consumed, EagerConsumed, Delivered, k
  <2>2. ASSUME Provider # "eager"
        PROVE  KBlocks = 1 /\ ConsumedMeta(t) = {i} \X GroupsOf[k]
    <3>1. KBlocks = 1
      BY <2>2, PipelineAssumption DEF PipelineAssumption, Providers
    <3> QED BY <1>4, <1>5, <3>1 DEF ConsumedMeta, k
  <2>3. CASE Provider = "foldChunk"
    <3>1. frag[t][k].data = {i}
      BY <1>3, <2>3 DEF Delivered
    <3> QED BY <2>2, <2>3, <3>1 DEF Consumed, FoldConsumed, k
  <2>4. CASE Provider = "twoPlaneChunk"
    <3>1. frag[t][k].data \cup SlabTiles(token[t]) = {i}
      BY <1>3, <1>5, <2>2, <2>4 DEF Delivered
    <3> QED BY <2>2, <2>4, <3>1 DEF Consumed, TwoPlaneConsumed, k
  <2> QED BY <2>1, <2>3, <2>4, PipelineAssumption DEF PipelineAssumption, Providers
<1> QED BY <1>6, <1>8, <1>9

(* The ring implements the tile accumulator: a consume is one accumulation *)
(* of the fragment that is next, every other step is a stutter. The        *)
(* two-plane provider, whose consume rereads shared memory, needs tiles of *)
(* one delivery: its token is captured after the ring has moved on.        *)
THEOREM PipelineImplements ==
  ASSUME Provider = "twoPlaneChunk" => KBlocks = 1
  PROVE  Spec => Implements
<1>1. Init => Abs!Init
  BY DEF Init, Abs!Init
<1>2. PipelineInv /\ [Next]_vars => [Abs!Next]_acc
  <2> SUFFICES ASSUME PipelineInv, [Next]_vars PROVE [Abs!Next]_acc
    OBVIOUS
  <2> USE DEF cursor, copies, memory, regs
  <2>1. RingInv /\ TypeOK
    BY DEF PipelineInv, RingInv
  <2>2. ASSUME NEW t \in Threads, Consume(t) PROVE Abs!Next
    <3>1. DeliveryInv(t) /\ pc[t] = "consume"
      BY <2>2 DEF PipelineInv, Consume
    <3>2. Len(acc[t]) < Tiles * KBlocks /\ Consumed(t) = Abs!Fragment(Len(acc[t]))
      BY <2>1, <3>1, ConsumedFragment
    <3>3. acc' = [acc EXCEPT ![t] = Append(@, Abs!Fragment(Len(@)))]
      BY <2>2, <3>2 DEF Consume
    <3>4. Abs!Accumulate(t)
      BY <3>2, <3>3 DEF Abs!Accumulate
    <3> QED BY <3>4 DEF Abs!Next
  <2>3. ASSUME NEW t \in Threads, Step(t), ~Consume(t) PROVE UNCHANGED acc
    BY <2>3 DEF Step, PrologueCopy, WaitAndPublish, PrepareFirst, PrepareNext, Prefetch, Drain
  <2>4. ASSUME NEW t \in Threads, Land(t) PROVE UNCHANGED acc
    BY <2>4 DEF Land
  <2>5. CASE Barrier \/ UNCHANGED vars
    BY <2>5 DEF Barrier, vars
  <2> QED BY <2>2, <2>3, <2>4, <2>5 DEF Next, Terminated
<1> QED BY <1>1, <1>2, PipelineCorrect, PTL DEF Spec, Implements, Abs!Spec
=============================================================================
