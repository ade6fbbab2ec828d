------------------------ MODULE GroupedScheduleProofs ------------------------
(***************************************************************************)
(* GroupInv is an invariant of GroupedSchedule, for any number of experts, *)
(* any row counts, tile sizes, splits and residency, and what follows from *)
(* it: the search finds the tile, and no output is stored twice.           *)
(***************************************************************************)
EXTENDS GroupedSchedule, ProofArithmetic, FiniteSetTheorems

-----------------------------------------------------------------------------
(* The helpers.                                                            *)

(* Rounding up gives a natural number, positive for a positive one.        *)
LEMMA CeilDivType ==
  ASSUME NEW a \in Nat, NEW S \in Nat \ {0}
  PROVE  CeilDiv(a, S) \in Nat /\ (a > 0 => CeilDiv(a, S) >= 1)
BY RoundUpType DEF RoundUp, CeilDiv

(* A tile below the rounded quotient begins inside, and the others beyond. *)
LEMMA CeilDivCovers ==
  ASSUME NEW a \in Nat, NEW S \in Nat \ {0}, NEW m \in Int
  PROVE  m < CeilDiv(a, S) <=> m * S < a
BY RoundUpCovers DEF RoundUp, CeilDiv

(* Rounding up keeps the order.                                            *)
LEMMA CeilDivMono ==
  ASSUME NEW a \in Nat, NEW c \in Nat, NEW S \in Nat \ {0}, a <= c
  PROVE  CeilDiv(a, S) <= CeilDiv(c, S)
BY RoundUpMono DEF RoundUp, CeilDiv

(* Before the launch there is no block.                                    *)
LEMMA NoBlocks ==
  ASSUME grid = NoGrid
  PROVE  Block = {}
<1>1. 0 .. NoGrid.x - 1 = {}
  BY DEF NoGrid
<1> QED BY <1>1 DEF Block, BlocksOf

(* M-tiles of an expert with rows are a natural number.                    *)
LEMMA MTilesType ==
  ASSUME ScheduleAssumption, NEW e \in Expert, rows[e] \in Nat
  PROVE  MTiles(e) \in Nat
  BY CeilDivType DEF ScheduleAssumption, MTiles

(* The largest expert has the most M-tiles.                                *)
LEMMA MaxMTilesType ==
  ASSUME ScheduleAssumption, NEW top \in Expert,
         \A e \in Expert : rows[e] \in Nat /\ rows[e] <= rows[top]
  PROVE  MaxMTiles \in Nat /\ \A e \in Expert : MTiles(e) <= MaxMTiles
<1> DEFINE S == {MTiles(e) : e \in Expert}
<1>1. \A e \in Expert : MTiles(e) \in Nat
  BY MTilesType
<1>2. \A e \in Expert : MTiles(e) <= MTiles(top)
  <2> TAKE e \in Expert
  <2> QED BY CeilDivMono DEF MTiles, ScheduleAssumption
<1>3. MTiles(top) \in S
  OBVIOUS
<1> DEFINE Above(m) == \A e \in Expert : MTiles(e) <= m
<1>4. \E m \in S : Above(m)
  BY <1>2, <1>3
<1> HIDE DEF Above
<1>5. (CHOOSE m \in S : Above(m)) \in S /\ Above(CHOOSE m \in S : Above(m))
  BY <1>4
<1>6. MaxMTiles = CHOOSE m \in S : Above(m)
  BY DEF MaxMTiles, Above
<1>7. MaxMTiles \in Nat
  BY <1>1, <1>5, <1>6
<1>8. Above(MaxMTiles)
  BY <1>5, <1>6
<1> QED BY <1>7, <1>8 DEF Above

(* Past the gathering loop of either route every count is natural, the     *)
(* device's bound is positive, and the decode hint is a natural number.    *)
LEMMA HintType ==
  ASSUME ScheduleAssumption, GroupInv, pc \in {"launch", "prefix", "grid", "launched"}
  PROVE  /\ \A e \in Expert : rows[e] \in Nat /\ MTiles(e) \in Nat
         /\ Hint \in Nat
         /\ deviceOnly => Hint >= 1
         /\ 0 \in Expert
         /\ ~deviceOnly => MaxMTiles \in Nat /\ \A e \in Expert : MTiles(e) <= MaxMTiles
<1>1. \A e \in Expert : rows[e] \in Nat
  BY DEF GroupInv, OffsetsAreSums, Gathered
<1>2. \A e \in Expert : MTiles(e) \in Nat
  BY <1>1, MTilesType
<1>3. 0 \in Expert
  BY DEF ScheduleAssumption, Expert
<1>4. ~deviceOnly => MaxMTiles \in Nat /\ \A e \in Expert : MTiles(e) <= MaxMTiles
  <2> HAVE ~deviceOnly
  <2>1. PICK top \in Expert : rows[top] = maxRows
    BY DEF GroupInv, MaxRowsIsMax, Gathered
  <2>2. \A e \in Expert : rows[e] <= rows[top]
    BY <2>1 DEF GroupInv, MaxRowsIsMax, Gathered
  <2> QED BY <1>1, <2>2, MaxMTilesType
<1>5. deviceOnly => CeilDiv(maxRows, TileM) \in Nat /\ CeilDiv(maxRows, TileM) >= 1
  <2>1. maxRows \in Nat /\ TileM \in Nat \ {0}
    BY DEF ScheduleAssumption, GroupInv, TypeOK
  <2> QED BY <2>1, CeilDivType DEF GroupInv, Routes
<1> QED BY <1>1, <1>2, <1>3, <1>4, <1>5 DEF Hint

(* A state with the same host, request and prefix, and no fewer shapes.    *)
LEMMA HintFrozen ==
  ASSUME UNCHANGED <<rows, deviceOnly, force3d, maxRows>>
  PROVE  Hint' = Hint
<1>1. \A e \in Expert : MTiles(e)' = MTiles(e)
  BY DEF MTiles
<1>2. Uniform' = Uniform
  BY DEF Uniform, MTiles
<1>3. MaxMTiles' = MaxMTiles
  BY DEF MaxMTiles, MTiles
<1> QED BY <1>2, <1>3 DEF Hint, MTiles

-----------------------------------------------------------------------------
(* The host.                                                               *)

(* A request begins with nothing built.                                    *)
LEMMA InitHolds ==
  ASSUME ScheduleAssumption, Init
  PROVE  GroupInv
<1>1. grid = NoGrid /\ Block = {} /\ BlocksOf(NoGrid) = {}
  BY NoBlocks DEF Init, Block
<1>2. 0 \in 0 .. NumExperts /\ Zeros(NumExperts) \in [0 .. NumExperts -> Nat]
      /\ \A i \in 0 .. NumExperts : Zeros(NumExperts)[i] = 0
  BY DEF Zeros, ScheduleAssumption
<1>3. deviceOnly => DeviceContract
  BY DEF Init
<1>4. \A e \in Expert : e \in 0 .. NumExperts /\ e + 1 \in 0 .. NumExperts /\ e < e + 1
  BY DEF Expert, ScheduleAssumption
<1>5. offsets \in [0 .. NumExperts -> Nat] /\ maxRows \in Nat
  BY <1>2 DEF Init, DeviceContract, ScheduleAssumption
<1>6. TypeOK
  <2>1. rows \in [Expert -> Int] /\ totalRows \in Nat /\ splitk \in Nat \ {0}
    <3>1. rows \in [Expert -> RowChoices] /\ RowChoices \subseteq Int
      BY DEF Init, ScheduleAssumption
    <3>2. rows \in [Expert -> Int]
      BY <3>1
    <3>3. totalRows \in Nat /\ splitk \in Nat \ {0}
      BY DEF Init, ScheduleAssumption
    <3> QED BY <3>2, <3>3
  <2>2. shapes \in [Expert -> Nat \cup {Unset}] /\ block \in [Block -> BlockState]
    BY <1>1 DEF Init
  <2>3. grid \in [x : Nat, y : Nat, z : Nat]
    BY <1>1 DEF NoGrid
  <2> QED BY <1>2, <1>5, <2>1, <2>2, <2>3 DEF Init, TypeOK
<1>7. Routes
  BY DEF Init, Routes, DeviceContract, Classified, ScheduleAssumption
<1>8. OffsetsAreSums
  <2>1. CASE deviceOnly
    <3>1. \A e \in Expert : rows[e] = offsets[e + 1] - offsets[e] /\ offsets[e] <= offsets[e + 1]
      BY <1>3, <1>4, <2>1 DEF DeviceContract
    <3>2. \A e \in Expert : offsets[e] \in Nat /\ offsets[e + 1] \in Nat
      BY <1>4, <1>5
    <3>3. \A e \in Expert : rows[e] \in Nat /\ offsets[e + 1] = offsets[e] + rows[e]
      BY <3>1, <3>2
    <3>4. \A i, j \in 0 .. NumExperts : i <= j => offsets[i] <= offsets[j]
      BY <1>3, <1>5, <2>1 DEF DeviceContract
    <3> QED BY <1>3, <2>1, <3>3, <3>4 DEF DeviceContract, OffsetsAreSums
  <2>2. CASE ~deviceOnly
    BY <1>2, <2>2 DEF Init, OffsetsAreSums, Gathered, Expert
  <2> QED BY <2>1, <2>2
<1>9. MaxRowsIsMax
  BY DEF Init, MaxRowsIsMax, Gathered, Expert
<1>10. ShapesAreRows
  BY DEF Init, ShapesAreRows
<1>11. PrefixIsSum /\ GridFitsDecode
  BY <1>2 DEF Init, PrefixIsSum, GridFitsDecode, Classified
<1> QED BY <1>1, <1>6, <1>7, <1>8, <1>9, <1>10, <1>11 DEF GroupInv

(* One expert's count is added, or refused.                                *)
LEMMA GatherRowsStep ==
  ASSUME ScheduleAssumption, GroupInv, GatherRows
  PROVE  GroupInv'
<1>0. TypeOK /\ pc = "gather" /\ cursor \in Expert /\ ~deviceOnly
  <2>1. TypeOK /\ pc = "gather" /\ cursor < NumExperts /\ ~deviceOnly
    BY DEF GroupInv, GatherRows, Routes
  <2>2. cursor \in 0 .. NumExperts /\ NumExperts \in Nat
    BY <2>1 DEF TypeOK, ScheduleAssumption
  <2>3. cursor \in Expert
    BY <2>1, <2>2 DEF Expert
  <2> QED BY <2>1, <2>3
<1>1. grid' = NoGrid /\ grid = NoGrid /\ Block = {} /\ Block' = {}
  BY <1>0, NoBlocks DEF GroupInv, GridFitsDecode, GatherRows, Block
<1>2. cursor \in 0 .. NumExperts /\ cursor + 1 \in 0 .. NumExperts /\ cursor + 1 # 0
  BY <1>0 DEF Expert, ScheduleAssumption
<1>3. CASE rows[cursor] < 0
  BY <1>0, <1>1, <1>3 DEF GroupInv, GatherRows, RefuseWith, request, device, TypeOK, Routes,
     Classified, OffsetsAreSums, MaxRowsIsMax, ShapesAreRows, PrefixIsSum, GridFitsDecode
<1>4. CASE ~(rows[cursor] < 0)
  <2>1. rows[cursor] \in Nat /\ offsets[cursor] \in Nat /\ maxRows \in Nat
    BY <1>0, <1>2, <1>4 DEF TypeOK
  <2>2. /\ pc' = "gather" /\ cursor' = cursor + 1
        /\ offsets' = [offsets EXCEPT ![cursor + 1] = offsets[cursor] + rows[cursor]]
        /\ maxRows' = IF rows[cursor] > maxRows THEN rows[cursor] ELSE maxRows
        /\ UNCHANGED <<request, mtilesUniform, total, grid, device>>
    BY <1>0, <1>4 DEF GatherRows
  <2>3. offsets' \in [0 .. NumExperts -> Nat] /\ maxRows' \in Nat
    <3>1. offsets[cursor] + rows[cursor] \in Nat
      BY <2>1
    <3>2. offsets' \in [0 .. NumExperts -> Nat]
      BY <1>0, <2>2, <3>1 DEF TypeOK
    <3>3. maxRows' \in Nat
      BY <2>1, <2>2
    <3> QED BY <3>2, <3>3
  <2>4. TypeOK'
    BY <1>0, <1>1, <1>2, <2>2, <2>3 DEF TypeOK, request, device
  <2>5. Routes'
    BY <1>0, <2>2 DEF Routes, Classified, request
  <2>6. /\ offsets'[cursor + 1] = offsets[cursor] + rows[cursor]
        /\ \A i \in 0 .. NumExperts : i <= cursor => offsets'[i] = offsets[i]
    BY <1>0, <1>2, <2>2 DEF TypeOK
  <2>7. OffsetsAreSums'
    <3>1. offsets'[0] = 0
      BY <1>0, <1>2, <2>6 DEF GroupInv, OffsetsAreSums
    <3>2. ASSUME NEW e \in Expert, e < cursor + 1
          PROVE  rows[e] \in Nat /\ offsets'[e + 1] = offsets'[e] + rows[e]
      <4>1. CASE e = cursor
        BY <1>2, <2>1, <2>6, <4>1
      <4>2. CASE e < cursor
        <5>1. e \in 0 .. NumExperts /\ e + 1 \in 0 .. NumExperts /\ e <= cursor /\ e + 1 <= cursor
          BY <1>0, <4>2 DEF Expert, ScheduleAssumption
        <5>2. rows[e] \in Nat /\ offsets[e + 1] = offsets[e] + rows[e]
          BY <1>0, <4>2 DEF GroupInv, OffsetsAreSums, Gathered
        <5>3. offsets'[e] = offsets[e] /\ offsets'[e + 1] = offsets[e + 1]
          BY <2>6, <4>2, <5>1
        <5> QED BY <5>2, <5>3
      <4> QED BY <1>0, <3>2, <4>1, <4>2 DEF Expert, ScheduleAssumption
    <3>3. ASSUME NEW i \in 0 .. NumExperts, NEW j \in 0 .. NumExperts, i <= j, j <= cursor + 1
          PROVE  offsets'[i] <= offsets'[j]
      <4>1. CASE j <= cursor
        <5>1. offsets[i] <= offsets[j] /\ i <= cursor
          BY <1>0, <3>3, <4>1 DEF GroupInv, OffsetsAreSums, Expert, ScheduleAssumption
        <5> QED BY <2>6, <4>1, <5>1
      <4>2. CASE j = cursor + 1
        <5>1. CASE i <= cursor
          <6>1. offsets[i] <= offsets[cursor] /\ offsets[i] \in Nat
            BY <1>0, <1>2, <5>1 DEF GroupInv, OffsetsAreSums, TypeOK
          <6>2. offsets'[i] = offsets[i]
            BY <2>6, <5>1
          <6> QED BY <2>1, <2>6, <4>2, <6>1, <6>2
        <5>2. CASE i = cursor + 1
          <6>1. offsets'[cursor + 1] \in Nat
            BY <2>1, <2>6
          <6> QED BY <4>2, <5>2, <6>1
        <5> QED BY <1>2, <3>3, <4>2, <5>1, <5>2
      <4> QED BY <1>2, <3>3, <4>1, <4>2
    <3> QED BY <2>2, <3>1, <3>2, <3>3 DEF OffsetsAreSums, Gathered, request
  <2>8. MaxRowsIsMax'
    <3>1. /\ \A e \in Expert : e < cursor => rows[e] <= maxRows
          /\ (\E e \in Expert : e < cursor /\ rows[e] = maxRows) \/ maxRows = 0
      BY <1>0 DEF GroupInv, MaxRowsIsMax, Gathered
    <3>2. ASSUME NEW e \in Expert, e < cursor + 1
          PROVE  rows[e] <= maxRows'
      <4>1. CASE e = cursor
        BY <2>1, <2>2, <4>1
      <4>2. CASE e < cursor
        <5>1. rows[e] <= maxRows /\ rows[e] \in Int
          BY <1>0, <3>1, <4>2 DEF TypeOK
        <5> QED BY <2>1, <2>2, <5>1
      <4> QED BY <1>0, <3>2, <4>1, <4>2 DEF Expert, ScheduleAssumption
    <3>3. (\E e \in Expert : e < cursor + 1 /\ rows[e] = maxRows') \/ maxRows' = 0
      <4>1. CASE rows[cursor] > maxRows
        <5>1. maxRows' = rows[cursor] /\ cursor < cursor + 1
          BY <1>2, <2>2, <4>1
        <5> QED BY <1>0, <5>1
      <4>2. CASE ~(rows[cursor] > maxRows)
        <5>1. maxRows' = maxRows
          BY <2>2, <4>2
        <5>2. \A e \in Expert : e < cursor => e < cursor + 1
          BY <1>0 DEF Expert, ScheduleAssumption
        <5> QED BY <3>1, <5>1, <5>2
      <4> QED BY <4>1, <4>2
    <3> QED BY <2>2, <3>2, <3>3 DEF MaxRowsIsMax, Gathered, request
  <2>9. ShapesAreRows' /\ PrefixIsSum' /\ GridFitsDecode'
    BY <1>0, <1>1, <2>2 DEF GroupInv, ShapesAreRows, PrefixIsSum, GridFitsDecode, Classified,
       request, device
  <2> QED BY <1>1, <2>4, <2>5, <2>7, <2>8, <2>9 DEF GroupInv
<1> QED BY <1>3, <1>4

(* All counts are in: the shapes are theirs, or the call is refused.       *)
LEMMA GatherDoneStep ==
  ASSUME ScheduleAssumption, GroupInv, GatherDone
  PROVE  GroupInv'
<1>0. TypeOK /\ pc = "gather" /\ cursor = NumExperts /\ ~deviceOnly
  BY DEF GroupInv, TypeOK, GatherDone, Routes
<1>1. grid' = NoGrid /\ grid = NoGrid /\ Block = {} /\ Block' = {}
  BY <1>0, NoBlocks DEF GroupInv, GridFitsDecode, GatherDone, Block
<1>2. UNCHANGED <<request, cursor, offsets, maxRows, mtilesUniform, total, grid, prefix, block>>
  BY DEF GatherDone
<1>3. CASE offsets[NumExperts] # totalRows \/ maxRows <= 0
  BY SMTT(30), <1>0, <1>1, <1>2, <1>3 DEF GroupInv, GatherDone, RefuseWith, request, TypeOK, Routes,
     Classified, OffsetsAreSums, MaxRowsIsMax, ShapesAreRows, PrefixIsSum, GridFitsDecode
<1>4. CASE ~(offsets[NumExperts] # totalRows \/ maxRows <= 0)
  <2>1. pc' = "launch" /\ shapes' = rows /\ maxRows # 0
    BY <1>0, <1>4 DEF GatherDone, TypeOK
  <2>2. \A e \in Expert : e < NumExperts /\ rows[e] \in Nat
    BY <1>0 DEF GroupInv, OffsetsAreSums, Gathered, Expert, ScheduleAssumption
  <2>3. shapes' \in [Expert -> Nat \cup {Unset}]
    BY <1>0, <2>1, <2>2 DEF TypeOK
  <2>4. TypeOK'
    BY <1>0, <1>1, <1>2, <2>1, <2>3 DEF TypeOK, request
  <2>5. Routes'
    BY <1>0, <1>2, <2>1 DEF Routes, Classified, request
  <2>6. OffsetsAreSums' /\ MaxRowsIsMax'
    BY <1>0, <1>2, <2>1, <2>2 DEF GroupInv, OffsetsAreSums, MaxRowsIsMax, Gathered, request, TypeOK
  <2>7. ShapesAreRows' /\ PrefixIsSum' /\ GridFitsDecode'
    BY <1>0, <1>1, <1>2, <2>1 DEF GroupInv, ShapesAreRows, PrefixIsSum, GridFitsDecode,
       Classified, request
  <2> QED BY <1>1, <2>4, <2>5, <2>6, <2>7 DEF GroupInv
<1> QED BY <1>3, <1>4

(* The device route goes straight to its launch, and any launch may be     *)
(* refused.                                                                *)
LEMMA EnqueueStep ==
  ASSUME ScheduleAssumption, GroupInv, EnqueueMetadata \/ LaunchRefused
  PROVE  GroupInv'
<1>0. TypeOK /\ pc \in {"metadata", "launch"} /\ pc' \in {"launch", "refused"}
      /\ (pc = "metadata" => deviceOnly /\ pc' = "launch")
      /\ (pc = "launch" => pc' = "refused")
  BY DEF GroupInv, TypeOK, EnqueueMetadata, LaunchRefused, RefuseWith, Routes
<1>1. UNCHANGED <<request, cursor, offsets, maxRows, mtilesUniform, total, grid, device>>
  BY DEF EnqueueMetadata, LaunchRefused
<1>2. grid' = NoGrid /\ grid = NoGrid /\ Block = {} /\ Block' = {}
  BY <1>0, <1>1, NoBlocks DEF GroupInv, GridFitsDecode, Block
<1>3. TypeOK'
  BY <1>0, <1>1, <1>2 DEF TypeOK, request, device
<1>4. Routes' /\ PrefixIsSum' /\ GridFitsDecode'
  BY <1>0, <1>1, <1>2 DEF GroupInv, Routes, PrefixIsSum, GridFitsDecode, Classified, request, device
<1>5. OffsetsAreSums' /\ MaxRowsIsMax' /\ ShapesAreRows'
  BY <1>0, <1>1 DEF GroupInv, OffsetsAreSums, MaxRowsIsMax, ShapesAreRows, Gathered, request, device
<1> QED BY <1>2, <1>3, <1>4, <1>5 DEF GroupInv

(* The decode hint is decided.                                             *)
LEMMA ClassifyStep ==
  ASSUME ScheduleAssumption, GroupInv, Classify
  PROVE  GroupInv'
<1>0. TypeOK /\ pc = "launch" /\ pc' \in {"prefix", "grid"} /\ SplitDivides
  BY DEF GroupInv, TypeOK, Classify
<1>1. UNCHANGED <<request, offsets, maxRows, total, grid, device>>
  BY DEF Classify
<1>2. grid' = NoGrid /\ grid = NoGrid /\ Block = {} /\ Block' = {}
  BY <1>0, <1>1, NoBlocks DEF GroupInv, GridFitsDecode, Block
<1>3. mtilesUniform' = Hint /\ cursor' = 0 /\ Hint \in Nat /\ (deviceOnly => Hint >= 1)
  BY <1>0, HintType DEF Classify
<1>4. (pc' = "prefix" <=> mtilesUniform' = 0 /\ ~deviceOnly)
  BY DEF Classify
<1>5. TypeOK'
  BY SMTT(30), <1>0, <1>1, <1>2, <1>3 DEF TypeOK, request, device, ScheduleAssumption
<1>6. Routes'
  <2>1. Hint' = Hint
    BY <1>1, HintFrozen DEF request
  <2>2. SplitDivides'
    BY <1>0, <1>1 DEF SplitDivides, request
  <2> QED BY <1>0, <1>1, <1>3, <1>4, <2>1, <2>2 DEF GroupInv, Routes, Flat, request
<1>7. OffsetsAreSums' /\ MaxRowsIsMax' /\ ShapesAreRows'
  BY <1>0, <1>1 DEF GroupInv, OffsetsAreSums, MaxRowsIsMax, ShapesAreRows, Gathered, request, device
<1>8. PrefixIsSum'
  <2>1. prefix'[0] = 0 /\ total' = 0
    BY <1>0, <1>1 DEF GroupInv, PrefixIsSum, device
  <2>2. pc' = "grid" => ~(mtilesUniform' = 0)
    BY <1>0, <1>3, <1>4
  <2>3. \A e \in Expert : ~(e < 0)
    BY DEF Expert
  <2> QED BY <1>0, <1>3, <2>1, <2>2, <2>3 DEF PrefixIsSum, Flat, Summed, Classified
<1>9. GridFitsDecode'
  BY <1>0, <1>2 DEF GridFitsDecode
<1> QED BY <1>2, <1>5, <1>6, <1>7, <1>8, <1>9 DEF GroupInv

(* One expert's M-tiles enter the prefix.                                  *)
LEMMA PrefixEntryStep ==
  ASSUME ScheduleAssumption, GroupInv, PrefixStep
  PROVE  GroupInv'
<1>0. TypeOK /\ pc = "prefix" /\ pc' = "prefix" /\ cursor \in Expert /\ ~deviceOnly /\ Flat
  <2>1. TypeOK /\ pc = "prefix" /\ cursor < NumExperts /\ ~deviceOnly /\ Flat /\ pc' = pc
    BY DEF GroupInv, PrefixStep, Routes
  <2>2. cursor \in 0 .. NumExperts /\ NumExperts \in Nat
    BY <2>1 DEF TypeOK, ScheduleAssumption
  <2>3. cursor \in Expert
    BY <2>1, <2>2 DEF Expert
  <2> QED BY <2>1, <2>3
<1>1. UNCHANGED <<request, offsets, maxRows, mtilesUniform, total, grid, shapes, block>>
  BY DEF PrefixStep
<1>2. grid' = NoGrid /\ grid = NoGrid /\ Block = {} /\ Block' = {}
  BY <1>0, <1>1, NoBlocks DEF GroupInv, GridFitsDecode, Block
<1>3. /\ cursor' = cursor + 1
      /\ prefix' = [prefix EXCEPT ![cursor + 1] = prefix[cursor] + MTiles(cursor)]
  BY DEF PrefixStep
<1>4. cursor \in 0 .. NumExperts /\ cursor + 1 \in 0 .. NumExperts /\ cursor + 1 # 0
  BY <1>0 DEF Expert, ScheduleAssumption
<1>5. MTiles(cursor) \in Nat /\ prefix[cursor] \in Nat
  BY <1>0, <1>4, HintType DEF TypeOK
<1>6. prefix' \in [0 .. NumExperts -> Nat]
  <2>1. prefix[cursor] + MTiles(cursor) \in Nat
    BY <1>5
  <2> QED BY <1>0, <1>3, <2>1 DEF TypeOK
<1>7. TypeOK'
  BY <1>0, <1>1, <1>2, <1>3, <1>4, <1>6 DEF TypeOK, request
<1>8. Routes'
  <2>1. Hint' = Hint
    BY <1>1, HintFrozen DEF request
  <2> QED BY <1>0, <1>1, <2>1 DEF GroupInv, Routes, Flat, Classified, SplitDivides, request
<1>9. OffsetsAreSums' /\ MaxRowsIsMax' /\ ShapesAreRows'
  BY <1>0, <1>1 DEF GroupInv, OffsetsAreSums, MaxRowsIsMax, ShapesAreRows, Gathered, request
<1>10. PrefixIsSum'
  <2>1. /\ prefix'[cursor + 1] = prefix[cursor] + MTiles(cursor)
        /\ \A i \in 0 .. NumExperts : i <= cursor => prefix'[i] = prefix[i]
    BY <1>0, <1>3, <1>4 DEF TypeOK
  <2>2. prefix'[0] = 0 /\ total' = 0
    BY <1>0, <1>1, <1>4, <2>1 DEF GroupInv, PrefixIsSum
  <2>3. ASSUME NEW e \in Expert, e < cursor + 1
        PROVE  prefix'[e + 1] = prefix'[e] + MTiles(e)
    <3>1. e \in 0 .. NumExperts /\ e + 1 \in 0 .. NumExperts
      BY DEF Expert, ScheduleAssumption
    <3>2. CASE e = cursor
      BY <1>4, <2>1, <3>2
    <3>3. CASE e < cursor
      <4>1. prefix[e + 1] = prefix[e] + MTiles(e)
        BY <1>0, <3>3 DEF GroupInv, PrefixIsSum, Summed, Classified
      <4>2. e <= cursor /\ e + 1 <= cursor
        BY <1>4, <3>1, <3>3
      <4> QED BY <2>1, <3>1, <4>1, <4>2
    <3> QED BY <1>4, <2>3, <3>1, <3>2, <3>3
  <2>4. \A e \in Expert : MTiles(e)' = MTiles(e)
    BY <1>1 DEF MTiles, request
  <2> QED BY <1>0, <1>3, <2>2, <2>3, <2>4 DEF PrefixIsSum, Summed
<1>11. GridFitsDecode'
  BY <1>0, <1>2 DEF GridFitsDecode
<1> QED BY <1>2, <1>7, <1>8, <1>9, <1>10, <1>11 DEF GroupInv

(* The prefix is complete.                                                 *)
LEMMA PrefixDoneStep ==
  ASSUME ScheduleAssumption, GroupInv, PrefixDone
  PROVE  GroupInv'
<1>0. TypeOK /\ pc = "prefix" /\ pc' = "grid" /\ cursor = NumExperts /\ cursor' = 0 /\ Flat
  BY DEF GroupInv, PrefixDone, Routes
<1>1. UNCHANGED <<request, offsets, maxRows, mtilesUniform, total, grid, device>>
  BY DEF PrefixDone
<1>2. grid' = NoGrid /\ grid = NoGrid /\ Block = {} /\ Block' = {}
  BY <1>0, <1>1, NoBlocks DEF GroupInv, GridFitsDecode, Block
<1>3. TypeOK'
  BY SMTT(30), <1>0, <1>1, <1>2 DEF TypeOK, request, device, ScheduleAssumption
<1>4. Routes'
  <2>1. Hint' = Hint
    BY <1>1, HintFrozen DEF request
  <2> QED BY <1>0, <1>1, <2>1 DEF GroupInv, Routes, Flat, Classified, SplitDivides, request
<1>5. OffsetsAreSums' /\ MaxRowsIsMax' /\ ShapesAreRows'
  BY <1>0, <1>1 DEF GroupInv, OffsetsAreSums, MaxRowsIsMax, ShapesAreRows, Gathered, request, device
<1>6. PrefixIsSum'
  <2>1. \A e \in Expert : prefix[e + 1] = prefix[e] + MTiles(e)
    <3> TAKE e \in Expert
    <3>1. e < NumExperts
      BY DEF Expert, ScheduleAssumption
    <3> QED BY <1>0, <3>1 DEF GroupInv, PrefixIsSum, Summed, Classified
  <2>2. prefix[0] = 0 /\ total = 0
    BY <1>0 DEF GroupInv, PrefixIsSum
  <2>3. \A e \in Expert : MTiles(e)' = MTiles(e)
    BY <1>1 DEF MTiles, request
  <2> QED BY <1>0, <1>1, <2>1, <2>2, <2>3 DEF PrefixIsSum, device
<1>7. GridFitsDecode'
  BY <1>0, <1>2 DEF GridFitsDecode
<1> QED BY <1>2, <1>3, <1>4, <1>5, <1>6, <1>7 DEF GroupInv

(* get_grid_shape counts one expert's M-tiles.                             *)
LEMMA CountTilesStep ==
  ASSUME ScheduleAssumption, GroupInv, CountTiles
  PROVE  GroupInv'
<1>0. TypeOK /\ pc = "grid" /\ pc' = "grid" /\ Flat /\ cursor \in Expert
  <2>1. TypeOK /\ pc = "grid" /\ cursor < NumExperts /\ Flat /\ pc' = pc
    BY DEF GroupInv, CountTiles, Flat
  <2>2. cursor \in 0 .. NumExperts /\ NumExperts \in Nat
    BY <2>1 DEF TypeOK, ScheduleAssumption
  <2>3. cursor \in Expert
    BY <2>1, <2>2 DEF Expert
  <2> QED BY <2>1, <2>3
<1>1. UNCHANGED <<request, offsets, maxRows, mtilesUniform, grid, device>>
  BY DEF CountTiles
<1>2. grid' = NoGrid /\ grid = NoGrid /\ Block = {} /\ Block' = {}
  BY <1>0, <1>1, NoBlocks DEF GroupInv, GridFitsDecode, Block
<1>3. cursor' = cursor + 1 /\ total' = total + MTiles(cursor)
  BY DEF CountTiles
<1>4. cursor \in 0 .. NumExperts /\ cursor + 1 \in 0 .. NumExperts
  BY <1>0 DEF Expert, ScheduleAssumption
<1>5. total' \in Nat
  <2>1. MTiles(cursor) \in Nat
    BY <1>0, HintType
  <2> QED BY <1>0, <1>3, <2>1 DEF TypeOK
<1>6. TypeOK'
  BY <1>0, <1>1, <1>2, <1>3, <1>4, <1>5 DEF TypeOK, request, device
<1>7. Routes'
  <2>1. Hint' = Hint
    BY <1>1, HintFrozen DEF request
  <2> QED BY <1>0, <1>1, <2>1 DEF GroupInv, Routes, Flat, Classified, SplitDivides, request
<1>8. OffsetsAreSums' /\ MaxRowsIsMax' /\ ShapesAreRows'
  BY <1>0, <1>1 DEF GroupInv, OffsetsAreSums, MaxRowsIsMax, ShapesAreRows, Gathered, request, device
<1>9. PrefixIsSum'
  <2>1. \A e \in Expert : prefix[e + 1] = prefix[e] + MTiles(e)
    BY <1>0 DEF GroupInv, PrefixIsSum, Summed, Classified
  <2>2. prefix[0] = 0 /\ total = prefix[cursor]
    BY <1>0 DEF GroupInv, PrefixIsSum
  <2>3. total' = prefix[cursor + 1]
    BY <1>0, <1>3, <2>1, <2>2
  <2>4. \A e \in Expert : MTiles(e)' = MTiles(e)
    BY <1>1 DEF MTiles, request
  <2> QED BY <1>0, <1>1, <1>3, <2>1, <2>2, <2>3, <2>4 DEF PrefixIsSum, device
<1>10. GridFitsDecode'
  BY <1>0, <1>2 DEF GridFitsDecode
<1> QED BY <1>2, <1>6, <1>7, <1>8, <1>9, <1>10 DEF GroupInv

(* The grid is launched: a flat one is as long as the prefix.              *)
LEMMA LaunchStep ==
  ASSUME ScheduleAssumption, GroupInv, Launch
  PROVE  GroupInv'
<1>0. TypeOK /\ pc = "grid" /\ pc' = "launched" /\ (~Flat \/ cursor = NumExperts)
  <2>1. mtilesUniform > 0 => ~Flat
    BY DEF Flat
  <2> QED BY <2>1 DEF GroupInv, Launch
<1>1. UNCHANGED <<request, cursor, offsets, maxRows, mtilesUniform, total, shapes, prefix>>
  BY DEF Launch
<1>2. /\ grid' = GridShape
      /\ block' = [b \in BlocksOf(GridShape) |-> [pc |-> "ready", lo |-> 0, hi |-> NumExperts]]
  BY DEF Launch
<1>3. Block' = BlocksOf(GridShape)
  BY <1>2 DEF Block
<1>4. \A e \in Expert : MTiles(e)' = MTiles(e)
  BY <1>1 DEF MTiles, request
<1>5. NTiles \in Nat
  BY CeilDivType DEF NTiles, ScheduleAssumption
<1>6. /\ \A e \in Expert : MTiles(e) \in Nat
      /\ 0 \in Expert
      /\ ~deviceOnly => MaxMTiles \in Nat
      /\ deviceOnly => mtilesUniform >= 1
      /\ mtilesUniform = Hint
  BY <1>0, HintType DEF GroupInv, Routes, Classified
<1>7. NumExperts * splitk \in Nat /\ splitk \in Nat
  BY <1>0 DEF TypeOK, ScheduleAssumption
<1>8. GridShape \in [x : Nat, y : Nat, z : Nat]
  <2>1. mtilesUniform \in Nat /\ total \in Nat
    BY <1>0 DEF TypeOK
  <2>2. CASE mtilesUniform > 0
    BY <1>5, <1>7, <2>1, <2>2 DEF GridShape
  <2>3. CASE ~(mtilesUniform > 0)
    BY <1>5, <1>6, <1>7, <2>1, <2>3 DEF GridShape
  <2> QED BY <2>2, <2>3
<1>9. TypeOK'
  <2>1. [pc |-> "ready", lo |-> 0, hi |-> NumExperts] \in BlockState
    BY <1>6 DEF BlockState, ScheduleAssumption
  <2>2. block' \in [Block' -> BlockState]
    BY <1>2, <1>3, <2>1
  <2> QED BY <1>0, <1>1, <1>2, <1>8, <2>2 DEF TypeOK, request, device, BlockState
<1>10. Routes'
  <2>1. Hint' = Hint
    BY <1>1, HintFrozen DEF request
  <2> QED BY <1>0, <1>1, <2>1 DEF GroupInv, Routes, Flat, Classified, SplitDivides, request
<1>11. OffsetsAreSums' /\ MaxRowsIsMax' /\ ShapesAreRows'
  BY <1>0, <1>1 DEF GroupInv, OffsetsAreSums, MaxRowsIsMax, ShapesAreRows, Gathered, request
<1>12. PrefixIsSum'
  <2>1. Flat => \A e \in Expert : prefix[e + 1] = prefix[e] + MTiles(e)
    BY <1>0 DEF GroupInv, PrefixIsSum, Summed, Classified
  <2>2. prefix[0] = 0
    BY DEF GroupInv, PrefixIsSum
  <2> QED BY <1>0, <1>1, <1>4, <2>1, <2>2 DEF PrefixIsSum, Flat
<1>13. GridFitsDecode'
  <2>1. GridShape.y = NTiles
    BY DEF GridShape
  <2>2. mtilesUniform \in Nat
    BY <1>0 DEF TypeOK
  <2>3. ~Flat => GridShape.z = NumExperts * splitk
    BY <2>2 DEF GridShape, Flat
  <2>4. CASE Flat
    <3>1. ~deviceOnly /\ ~(mtilesUniform > 0) /\ Hint = 0
      BY <1>6, <2>4 DEF Flat
    <3>2. GridShape.x = 0 \/ (GridShape.x = prefix[NumExperts] /\ GridShape.z = splitk)
      <4>1. CASE Uniform \/ force3d
        <5> DEFINE x == IF Uniform THEN MTiles(0) ELSE MaxMTiles
        <5>1. GridShape = [x |-> x, y |-> NTiles, z |-> NumExperts * splitk]
          BY <3>1, <4>1 DEF GridShape
        <5>2. x = 0
          BY <3>1, <4>1 DEF Hint
        <5> QED BY <5>1, <5>2
      <4>2. CASE ~(Uniform \/ force3d)
        <5>1. total = prefix[NumExperts]
          BY <1>0, <2>4 DEF GroupInv, PrefixIsSum
        <5>2. GridShape = [x |-> total, y |-> NTiles, z |-> splitk]
          BY <3>1, <4>2 DEF GridShape
        <5> QED BY <5>1, <5>2
      <4> QED BY <4>1, <4>2
    <3> QED BY <1>0, <1>1, <1>2, <2>1, <2>4, <3>2 DEF GridFitsDecode, Flat, NTiles, request
  <2>5. CASE ~Flat
    BY <1>0, <1>1, <1>2, <2>1, <2>3, <2>5 DEF GridFitsDecode, Flat, NTiles, request
  <2> QED BY <2>4, <2>5
<1>14. \A b \in Block' : BlockInv(b)'
  BY <1>2, <1>3 DEF BlockInv
<1> QED BY <1>9, <1>10, <1>11, <1>12, <1>13, <1>14 DEF GroupInv

-----------------------------------------------------------------------------
(* The device.                                                             *)

(* One thread of the metadata kernel writes its expert's shape: no block   *)
(* has started yet.                                                        *)
LEMMA MetadataStep ==
  ASSUME ScheduleAssumption, GroupInv, NEW e \in Expert, Metadata(e)
  PROVE  GroupInv'
<1>0. TypeOK /\ deviceOnly /\ shapes[e] = Unset
  BY DEF GroupInv, Metadata
<1>1. UNCHANGED <<request, host, prefix, block>> /\ Block' = Block
  BY DEF Metadata, host, Block
<1>2. offsets[e + 1] - offsets[e] = rows[e] /\ rows[e] \in Nat
  <2>1. rows[e] \in Nat /\ offsets[e + 1] = offsets[e] + rows[e]
    BY <1>0 DEF GroupInv, OffsetsAreSums, Gathered, Routes
  <2>2. e \in 0 .. NumExperts
    BY DEF Expert, ScheduleAssumption
  <2>3. offsets[e] \in Nat
    BY <1>0, <2>2 DEF TypeOK
  <2> QED BY <2>1, <2>3
<1>3. shapes' = [shapes EXCEPT ![e] = rows[e]]
  BY <1>2 DEF Metadata
<1>4. TypeOK'
  <2>1. shapes' \in [Expert -> Nat \cup {Unset}]
    BY <1>0, <1>2, <1>3 DEF TypeOK
  <2> QED BY <1>0, <1>1, <2>1 DEF TypeOK, request, host
<1>5. Routes'
  <2>1. Hint' = Hint
    BY <1>1, HintFrozen DEF request, host
  <2> QED BY <1>1, <2>1 DEF GroupInv, Routes, Flat, Classified, SplitDivides, request, host
<1>6. OffsetsAreSums' /\ MaxRowsIsMax'
  BY <1>1 DEF GroupInv, OffsetsAreSums, MaxRowsIsMax, Gathered, request, host
<1>7. ShapesAreRows'
  <2>1. \A d \in Expert : shapes'[d] \in {Unset, rows[d]}
    BY <1>0, <1>3 DEF GroupInv, ShapesAreRows, TypeOK
  <2> QED BY <1>0, <1>1, <2>1 DEF ShapesAreRows, request, host
<1>8. PrefixIsSum'
  <2>1. \A d \in Expert : MTiles(d)' = MTiles(d)
    BY <1>1 DEF MTiles, request
  <2> QED BY <1>1, <2>1 DEF GroupInv, PrefixIsSum, Flat, Summed, Classified, host
<1>9. GridFitsDecode'
  BY <1>1 DEF GroupInv, GridFitsDecode, NTiles, Flat, request, host
<1>10. ASSUME NEW b \in Block
       PROVE  BlockInv(b)'
  <2>1. block[b].pc = "ready"
    BY <1>0 DEF GroupInv, BlockInv
  <2> QED BY <1>1, <2>1 DEF GroupInv, BlockInv, host
<1> QED BY <1>1, <1>4, <1>5, <1>6, <1>7, <1>8, <1>9, <1>10 DEF GroupInv

(* A step of one block leaves the host, the shapes and the other blocks    *)
(* alone.                                                                  *)
LEMMA BlockFrame ==
  ASSUME ScheduleAssumption, GroupInv, NEW b \in Block, NEW r \in BlockState,
         UNCHANGED <<request, host, shapes, prefix>>, block' = [block EXCEPT ![b] = r], BlockInv(b)'
  PROVE  GroupInv'
<1>1. Block' = Block
  BY DEF Block, host
<1>2. block \in [Block -> BlockState] /\ block' \in [Block -> BlockState]
  BY DEF GroupInv, TypeOK
<1>3. TypeOK'
  BY <1>1, <1>2 DEF GroupInv, TypeOK, request, host
<1>4. Routes'
  <2>1. Hint' = Hint
    BY HintFrozen DEF request, host
  <2> QED BY <2>1 DEF GroupInv, Routes, Flat, Classified, SplitDivides, request, host
<1>5. OffsetsAreSums' /\ MaxRowsIsMax' /\ ShapesAreRows'
  BY DEF GroupInv, OffsetsAreSums, MaxRowsIsMax, ShapesAreRows, Gathered, request, host
<1>6. PrefixIsSum'
  <2>1. \A d \in Expert : MTiles(d)' = MTiles(d)
    BY DEF MTiles, request
  <2> QED BY <2>1 DEF GroupInv, PrefixIsSum, Flat, Summed, Classified, host
<1>7. GridFitsDecode'
  BY DEF GroupInv, GridFitsDecode, NTiles, Flat, request, host
<1>8. ASSUME NEW c \in Block, c # b
      PROVE  BlockInv(c)'
  <2>1. block'[c] = block[c]
    BY <1>2, <1>8
  <2> QED BY <2>1 DEF GroupInv, BlockInv, Flat, Idle, ExpertOf, ExpertOfZ, MTileOf, request, host
<1> QED BY <1>1, <1>3, <1>4, <1>5, <1>6, <1>7, <1>8 DEF GroupInv

(* What is known of a block: its coordinates lie in the grid.              *)
LEMMA BlockCoordinates ==
  ASSUME GroupInv, NEW b \in Block
  PROVE  /\ pc = "launched"
         /\ b[1] \in 0 .. grid.x - 1 /\ b[2] \in 0 .. grid.y - 1 /\ b[3] \in 0 .. grid.z - 1
         /\ b = <<b[1], b[2], b[3]>>
         /\ grid.x \in Nat /\ grid.y \in Nat /\ grid.z \in Nat
         /\ block[b] \in BlockState
<1>1. pc = "launched"
  <2>1. CASE pc # "launched"
    BY <2>1, NoBlocks DEF GroupInv, GridFitsDecode
  <2> QED BY <2>1
<1>2. grid.x \in Nat /\ grid.y \in Nat /\ grid.z \in Nat /\ block[b] \in BlockState
  BY DEF GroupInv, TypeOK
<1>3. b \in (0 .. grid.x - 1) \X (0 .. grid.y - 1) \X (0 .. grid.z - 1)
  BY DEF Block, BlocksOf
<1> QED BY <1>1, <1>2, <1>3

(* A block starts: it will search the whole prefix, or blockIdx.z names    *)
(* its expert.                                                             *)
LEMMA StartStep ==
  ASSUME ScheduleAssumption, GroupInv, NEW b \in Block, StartBlock(b)
  PROVE  GroupInv'
<1>0. TypeOK /\ pc = "launched" /\ block[b].pc = "ready" /\ StreamReady
  BY DEF GroupInv, StartBlock
<1>1. UNCHANGED <<request, host, shapes, prefix>>
  BY DEF StartBlock
<1>2. block[b] \in BlockState /\ block[b].lo = 0 /\ block[b].hi = NumExperts
  BY <1>0, BlockCoordinates DEF GroupInv, BlockInv
<1>3. block' = [block EXCEPT ![b] = block'[b]] /\ block'[b] =
        IF Flat THEN [block[b] EXCEPT !.pc = "search"]
                ELSE [block[b] EXCEPT !.pc = "tile", !.lo = ExpertOfZ(b)]
  BY <1>0 DEF StartBlock, TypeOK
<1>4. \A e \in Expert : shapes[e] # Unset
  <2>1. CASE deviceOnly
    BY <1>0, <2>1 DEF StreamReady
  <2>2. CASE ~deviceOnly
    <3>1. \A e \in Expert : shapes[e] = rows[e] /\ rows[e] \in Nat
      BY <1>0, <2>2, HintType DEF GroupInv, ShapesAreRows
    <3> QED BY <3>1 DEF Unset
  <2> QED BY <2>1, <2>2
<1>5. CASE Flat
  <2>1. block'[b] = [pc |-> "search", lo |-> 0, hi |-> NumExperts]
    BY <1>2, <1>3, <1>5 DEF BlockState
  <2>2. block'[b] \in BlockState
    BY <2>1 DEF BlockState, Expert, ScheduleAssumption
  <2>3. prefix[0] <= b[1] /\ b[1] < prefix[NumExperts]
    <3>1. b[1] \in 0 .. grid.x - 1 /\ grid.x \in Nat
      BY BlockCoordinates
    <3>2. grid.x = prefix[NumExperts]
      BY <1>0, <1>5, <3>1 DEF GroupInv, GridFitsDecode
    <3> QED BY <3>1, <3>2 DEF GroupInv, PrefixIsSum
  <2>4. BlockInv(b)'
    BY <1>1, <1>4, <1>5, <2>1, <2>3 DEF BlockInv, Flat, host, ScheduleAssumption
  <2> QED BY <1>1, <1>3, <2>2, <2>4, BlockFrame
<1>6. CASE ~Flat
  <2>1. block'[b] = [pc |-> "tile", lo |-> ExpertOfZ(b), hi |-> NumExperts]
    BY <1>2, <1>3, <1>6 DEF BlockState
  <2>2. ExpertOfZ(b) \in Expert
    <3>1. b[3] \in 0 .. NumExperts * splitk - 1
      BY <1>0, <1>6, BlockCoordinates DEF GroupInv, GridFitsDecode
    <3>2. NumExperts \in Nat /\ splitk \in Nat \ {0}
      BY <1>0 DEF TypeOK, ScheduleAssumption
    <3> QED BY <3>1, <3>2, Unpack DEF ExpertOfZ, Expert
  <2>3. block'[b] \in BlockState
    BY <2>1, <2>2 DEF BlockState, ScheduleAssumption
  <2>4. BlockInv(b)'
    BY <1>1, <1>4, <1>6, <2>1 DEF BlockInv, Flat, ExpertOfZ, request, host
  <2> QED BY <1>1, <1>3, <2>3, <2>4, BlockFrame
<1> QED BY <1>5, <1>6

(* One step of the search halves the bracket around the flat index.        *)
LEMMA SearchHolds ==
  ASSUME ScheduleAssumption, GroupInv, NEW b \in Block, SearchStep(b)
  PROVE  GroupInv'
<1> DEFINE lo == block[b].lo
           hi == block[b].hi
           mid == (lo + hi) \div 2
<1>0. TypeOK /\ block[b].pc = "search" /\ UNCHANGED <<request, host, shapes, prefix>>
  BY DEF GroupInv, SearchStep
<1>1. block[b] \in BlockState
  BY <1>0 DEF TypeOK
<1>2. lo \in Expert /\ hi \in 1 .. NumExperts
  BY <1>1 DEF BlockState
<1>3. lo \in Int /\ hi \in Int /\ lo \in 0 .. NumExperts /\ hi \in 0 .. NumExperts
  BY <1>2 DEF Expert, ScheduleAssumption
<1>4. /\ \A e \in Expert : shapes[e] # Unset
      /\ Flat /\ lo < hi /\ prefix[lo] <= b[1] /\ b[1] < prefix[hi]
  BY <1>0 DEF GroupInv, BlockInv
<1>5. block' = [block EXCEPT ![b] = block'[b]] /\ block'[b] =
        IF Narrowing(lo, hi)
        THEN IF AtOrBefore(prefix[mid], b[1]) THEN [block[b] EXCEPT !.lo = mid]
                                              ELSE [block[b] EXCEPT !.hi = mid]
        ELSE [block[b] EXCEPT !.pc = "tile"]
  BY <1>0 DEF SearchStep, TypeOK
<1>6. block[b] = [pc |-> "search", lo |-> lo, hi |-> hi]
  BY <1>0, <1>1 DEF BlockState
<1>7. Flat'
  BY <1>0, <1>4 DEF Flat, host
<1>8. b[1] \in Int /\ prefix \in [0 .. NumExperts -> Nat]
  <2>1. b[1] \in 0 .. grid.x - 1 /\ grid.x \in Nat
    BY BlockCoordinates
  <2> QED BY <1>0, <2>1 DEF TypeOK
<1> HIDE DEF lo, hi
<1>9. CASE Narrowing(lo, hi)
  <2>1. lo + 1 < hi
    BY <1>9 DEF Narrowing
  <2>2. mid \in Int /\ lo < mid /\ mid < hi
    BY <1>3, <2>1
  <2> HIDE DEF mid
  <2>3. mid \in Expert /\ mid \in 1 .. NumExperts /\ mid \in 0 .. NumExperts
    BY <1>2, <1>3, <2>2 DEF Expert, ScheduleAssumption
  <2>4. prefix[mid] \in Nat
    BY <1>8, <2>3
  <2>5. CASE prefix[mid] <= b[1]
    <3>1. block'[b] = [pc |-> "search", lo |-> mid, hi |-> hi]
      BY <1>5, <1>6, <1>9, <2>5 DEF AtOrBefore
    <3>2. block'[b] \in BlockState
      BY <1>2, <2>3, <3>1 DEF BlockState
    <3>3. BlockInv(b)'
      BY <1>0, <1>4, <1>7, <2>2, <2>5, <3>1 DEF BlockInv
    <3> QED BY <1>0, <1>5, <3>2, <3>3, BlockFrame
  <2>6. CASE ~(prefix[mid] <= b[1])
    <3>1. block'[b] = [pc |-> "search", lo |-> lo, hi |-> mid]
      BY <1>5, <1>6, <1>9, <2>6 DEF AtOrBefore
    <3>2. block'[b] \in BlockState
      BY <1>2, <2>3, <3>1 DEF BlockState
    <3>3. b[1] < prefix[mid]
      BY <1>8, <2>4, <2>6
    <3>4. BlockInv(b)'
      BY <1>0, <1>4, <1>7, <2>2, <3>1, <3>3 DEF BlockInv
    <3> QED BY <1>0, <1>5, <3>2, <3>4, BlockFrame
  <2> QED BY <2>5, <2>6
<1>10. CASE ~Narrowing(lo, hi)
  <2>1. hi = lo + 1
    BY <1>3, <1>4, <1>10 DEF Narrowing
  <2>2. block'[b] = [pc |-> "tile", lo |-> lo, hi |-> hi]
    BY <1>5, <1>6, <1>10
  <2>3. block'[b] \in BlockState
    BY <1>2, <2>2 DEF BlockState
  <2>4. BlockInv(b)'
    BY <1>0, <1>4, <1>7, <2>1, <2>2 DEF BlockInv
  <2> QED BY <1>0, <1>5, <2>3, <2>4, BlockFrame
<1> QED BY <1>9, <1>10

(* A block with its tile returns early or stores it.                       *)
LEMMA FinishStep ==
  ASSUME ScheduleAssumption, GroupInv, NEW b \in Block, FinishBlock(b)
  PROVE  GroupInv'
<1>0. TypeOK /\ block[b].pc = "tile" /\ UNCHANGED <<request, host, shapes, prefix>>
  BY DEF GroupInv, FinishBlock
<1>1. block[b] \in BlockState
  BY <1>0 DEF TypeOK
<1> DEFINE end == IF Idle(b) THEN "idle" ELSE "stored"
<1>2. block' = [block EXCEPT ![b] = block'[b]] /\ block'[b] = [block[b] EXCEPT !.pc = end]
  BY <1>0 DEF FinishBlock, TypeOK
<1>3. block'[b] = [pc |-> end, lo |-> block[b].lo, hi |-> block[b].hi]
  BY <1>1, <1>2 DEF BlockState
<1>4. end \in {"idle", "stored"} /\ (end = "stored" => ~Idle(b)) /\ (end = "idle" => Idle(b))
  OBVIOUS
<1> HIDE DEF end
<1>5. block'[b] \in BlockState
  BY <1>1, <1>3, <1>4 DEF BlockState
<1>6. block'[b].lo = block[b].lo /\ block'[b].hi = block[b].hi /\ block'[b].pc = end
  BY <1>3
<1>7. Idle(b)' <=> Idle(b)
  BY <1>0, <1>6 DEF Idle, ExpertOf, MTileOf, Flat, host
<1>8. BlockInv(b)'
  BY <1>0, <1>4, <1>6, <1>7 DEF GroupInv, BlockInv, Flat, ExpertOfZ, request, host
<1> QED BY <1>0, <1>2, <1>5, <1>8, BlockFrame

(* A call that is over, and a step that changes nothing.                   *)
LEMMA StutterStep ==
  ASSUME GroupInv, UNCHANGED vars
  PROVE  GroupInv'
<1>1. UNCHANGED <<request, host, device>> /\ Block' = Block
  BY DEF vars, host, Block
<1>2. TypeOK'
  BY <1>1 DEF GroupInv, TypeOK, request, host, device
<1>3. Routes'
  <2>1. Hint' = Hint
    BY <1>1, HintFrozen DEF request, host
  <2> QED BY <1>1, <2>1 DEF GroupInv, Routes, Flat, Classified, SplitDivides, request, host
<1>4. OffsetsAreSums' /\ MaxRowsIsMax' /\ ShapesAreRows'
  BY <1>1 DEF GroupInv, OffsetsAreSums, MaxRowsIsMax, ShapesAreRows, Gathered, request, host, device
<1>5. PrefixIsSum'
  <2>1. \A d \in Expert : MTiles(d)' = MTiles(d)
    BY <1>1 DEF MTiles, request
  <2> QED BY <1>1, <2>1 DEF GroupInv, PrefixIsSum, Flat, Summed, Classified, host, device
<1>6. GridFitsDecode'
  BY <1>1 DEF GroupInv, GridFitsDecode, NTiles, Flat, request, host, device
<1>7. ASSUME NEW b \in Block
      PROVE  BlockInv(b)'
  BY <1>1 DEF GroupInv, BlockInv, Flat, Idle, ExpertOf, ExpertOfZ, MTileOf, request, host, device
<1> QED BY <1>1, <1>2, <1>3, <1>4, <1>5, <1>6, <1>7 DEF GroupInv

-----------------------------------------------------------------------------
(* The theorems.                                                           *)

(* Whatever the rows, the split and the route, and however the blocks      *)
(* interleave: offsets and prefix are running sums, the grid is as long as *)
(* the prefix, and every block keeps its bracket or its place in blockIdx. *)
THEOREM GroupInvariant == Spec => []GroupInv
<1>1. Init => GroupInv
  BY InitHolds, ScheduleAssumption
<1>2. GroupInv /\ [Next]_vars => GroupInv'
  <2> SUFFICES ASSUME GroupInv, [Next]_vars PROVE GroupInv'
    OBVIOUS
  <2> USE ScheduleAssumption
  <2>1. CASE HostStep
    BY <2>1, GatherRowsStep, GatherDoneStep, EnqueueStep, ClassifyStep, PrefixEntryStep,
       PrefixDoneStep, CountTilesStep, LaunchStep DEF HostStep
  <2>2. CASE \E e \in Expert : Metadata(e)
    BY <2>2, MetadataStep
  <2>3. CASE \E b \in Block : BlockStep(b)
    BY <2>3, StartStep, SearchHolds, FinishStep DEF BlockStep
  <2>4. CASE Terminated \/ UNCHANGED vars
    BY <2>4, StutterStep DEF Terminated
  <2> QED BY <2>1, <2>2, <2>3, <2>4 DEF Next
<1> QED BY <1>1, <1>2, PTL DEF Spec

(* No search leaves the prefix array, no decode leaves the experts.        *)
THEOREM GroupTyped == Spec => []TypeOK
<1>1. GroupInv => TypeOK
  BY DEF GroupInv
<1> QED BY <1>1, GroupInvariant, PTL

(* Every step of a block's binary search keeps its flat index between the  *)
(* two prefix entries it has narrowed to.                                  *)
THEOREM SearchFindsTile == Spec => []SearchBracketsTile
<1>1. GroupInv => SearchBracketsTile
  BY DEF GroupInv, BlockInv, SearchBracketsTile
<1> QED BY <1>1, GroupInvariant, PTL

(* What a block that stores knows: its expert, its M-tile within it and    *)
(* its slice, and that together they are its place in the grid.            *)
LEMMA StoredBlock ==
  ASSUME ScheduleAssumption, GroupInv, NEW b \in Stored
  PROVE  /\ b \in Block /\ pc = "launched"
         /\ ExpertOf(b) \in Expert
         /\ shapes[ExpertOf(b)] \in Nat
         /\ offsets[ExpertOf(b) + 1] = offsets[ExpertOf(b)] + shapes[ExpertOf(b)]
         /\ MTileOf(b) \in Nat /\ MTileOf(b) * TileM < shapes[ExpertOf(b)]
         /\ SliceOf(b) \in 0 .. splitk - 1
         /\ b[1] \in Nat /\ b[2] \in Nat /\ b[3] \in Nat
         /\ Flat => b[1] = prefix[ExpertOf(b)] + MTileOf(b) /\ b[3] = SliceOf(b)
         /\ ~Flat => b[1] = MTileOf(b) /\ b[3] = splitk * ExpertOf(b) + SliceOf(b)
<1>1. b \in Block /\ block[b].pc = "stored" /\ TypeOK
  BY DEF Stored, GroupInv
<1>2. /\ pc = "launched" /\ block[b] \in BlockState
      /\ b[1] \in 0 .. grid.x - 1 /\ b[2] \in 0 .. grid.y - 1 /\ b[3] \in 0 .. grid.z - 1
      /\ grid.x \in Nat /\ grid.y \in Nat /\ grid.z \in Nat
  BY <1>1, BlockCoordinates
<1>3. b[1] \in Nat /\ b[2] \in Nat /\ b[3] \in Nat
  BY <1>2
<1>4. ExpertOf(b) \in Expert
  BY <1>2 DEF BlockState, ExpertOf
<1>5. /\ BlockInv(b)
      /\ \A e \in Expert : shapes[e] # Unset
  BY <1>1 DEF GroupInv, BlockInv
<1>6. shapes[ExpertOf(b)] = rows[ExpertOf(b)] /\ shapes[ExpertOf(b)] \in Nat
  <2>1. shapes[ExpertOf(b)] = rows[ExpertOf(b)]
    BY <1>2, <1>4, <1>5 DEF GroupInv, ShapesAreRows
  <2> QED BY <1>2, <1>4, <2>1, HintType
<1>7. offsets[ExpertOf(b) + 1] = offsets[ExpertOf(b)] + shapes[ExpertOf(b)]
  BY <1>2, <1>4, <1>6 DEF GroupInv, OffsetsAreSums, Gathered
<1>8. splitk \in Nat \ {0} /\ NumExperts \in Nat
  BY <1>1 DEF TypeOK, ScheduleAssumption
<1>9. ASSUME Flat
      PROVE  /\ MTileOf(b) \in Nat /\ SliceOf(b) \in 0 .. splitk - 1
             /\ b[1] = prefix[ExpertOf(b)] + MTileOf(b) /\ b[3] = SliceOf(b)
  <2>1. prefix[ExpertOf(b)] <= b[1] /\ prefix[ExpertOf(b)] \in Nat
    <3>1. ExpertOf(b) \in 0 .. NumExperts
      BY <1>4 DEF Expert, ScheduleAssumption
    <3> QED BY <1>1, <1>5, <1>9, <3>1 DEF BlockInv, ExpertOf, TypeOK
  <2>2. MTileOf(b) \in Nat /\ b[1] = prefix[ExpertOf(b)] + MTileOf(b)
    BY <1>3, <1>9, <2>1 DEF MTileOf
  <2>3. SliceOf(b) \in 0 .. splitk - 1 /\ b[3] = SliceOf(b)
    <3>1. grid.z = splitk
      BY <1>2, <1>9 DEF GroupInv, GridFitsDecode
    <3> QED BY <1>2, <1>9, <3>1 DEF SliceOf
  <2> QED BY <2>2, <2>3
<1>10. ASSUME ~Flat
       PROVE  /\ MTileOf(b) \in Nat /\ SliceOf(b) \in 0 .. splitk - 1
              /\ b[1] = MTileOf(b) /\ b[3] = splitk * ExpertOf(b) + SliceOf(b)
  <2>1. MTileOf(b) \in Nat /\ b[1] = MTileOf(b)
    BY <1>3, <1>10 DEF MTileOf
  <2>2. b[3] \in 0 .. NumExperts * splitk - 1
    BY <1>2, <1>10 DEF GroupInv, GridFitsDecode
  <2>3. (b[3] % splitk) \in 0 .. splitk - 1 /\ b[3] = splitk * (b[3] \div splitk) + (b[3] % splitk)
    BY <1>8, <2>2, Unpack
  <2>4. ExpertOf(b) = b[3] \div splitk /\ SliceOf(b) = b[3] % splitk
    BY <1>1, <1>5, <1>10 DEF BlockInv, ExpertOf, ExpertOfZ, SliceOf
  <2> QED BY <2>1, <2>3, <2>4
<1>11. MTileOf(b) * TileM < shapes[ExpertOf(b)]
  <2>1. MTileOf(b) \in Nat /\ MTileOf(b) * TileM \in Int
    BY <1>9, <1>10 DEF ScheduleAssumption
  <2>2. ~(MTileOf(b) * TileM >= shapes[ExpertOf(b)])
    BY <1>1, <1>5 DEF BlockInv, Idle
  <2> QED BY <1>6, <2>1, <2>2
<1> QED BY <1>1, <1>2, <1>3, <1>4, <1>6, <1>7, <1>9, <1>10, <1>11

(* A slice never walks past the last K-tile: the split divides them.       *)
THEOREM SlicesEndInK == Spec => []SlicesStayInK
<1>1. GroupInv => SlicesStayInK
  <2> SUFFICES ASSUME GroupInv, NEW b \in Stored,
                      NEW i \in 0 .. CeilDiv(KTiles, splitk) - 1
               PROVE  SliceOf(b) + i * splitk \in 0 .. KTiles - 1
    BY DEF SlicesStayInK, KTilesOf
  <2>1. SliceOf(b) \in 0 .. splitk - 1 /\ pc = "launched"
    BY StoredBlock, ScheduleAssumption
  <2>2. splitk \in Nat \ {0} /\ KTiles \in Nat
    BY ScheduleAssumption DEF ScheduleAssumption, GroupInv, TypeOK
  <2>3. CeilDiv(KTiles, splitk) \in Nat
    BY <2>2, CeilDivType
  <2>4. i \in Int /\ i < CeilDiv(KTiles, splitk) /\ i \in Nat
    BY <2>3
  <2> DEFINE q == KTiles \div splitk
  <2>5. q \in Nat /\ KTiles = splitk * q
    <3>1. (KTiles % splitk) = 0
      BY <2>1 DEF GroupInv, Routes, Classified, SplitDivides
    <3> QED BY <2>2, <3>1, ModDecompose
  <2> HIDE DEF q
  <2>6. i * splitk < KTiles /\ i * splitk = splitk * i
    BY <2>2, <2>4, CeilDivCovers
  <2>7. i < q
    <3>1. q <= i => splitk * q <= splitk * i
      BY <2>2, <2>4, <2>5, TimesMono
    <3>2. splitk * i \in Int /\ splitk * q \in Int
      BY <2>2, <2>4, <2>5
    <3> QED BY <2>4, <2>5, <2>6, <3>1, <3>2
  <2>8. splitk * i + splitk <= splitk * q
    BY <2>2, <2>4, <2>5, <2>7, TimesMono
  <2>9. splitk * i \in Nat
    BY <2>2, <2>4
  <2> QED BY <2>1, <2>2, <2>5, <2>6, <2>8, <2>9
<1> QED BY <1>1, GroupInvariant, PTL

(* A block stores into the plane and the rows of the expert whose weights  *)
(* it used, and has at least one row to store.                             *)
THEOREM StoresStayInExpert == Spec => []StoresOwnExpertRows
<1>1. GroupInv => StoresOwnExpertRows
  <2> SUFFICES ASSUME GroupInv, NEW b \in Stored
               PROVE  /\ PlaneOf(b) % NumExperts = ExpertOf(b)
                      /\ RowsOf(b) # {}
                      /\ \A r \in RowsOf(b) :
                           offsets[ExpertOf(b)] <= r /\ r < offsets[ExpertOf(b) + 1]
    BY DEF StoresOwnExpertRows
  <2> DEFINE e == ExpertOf(b)
             m == MTileOf(b)
  <2>1. /\ e \in Expert /\ shapes[e] \in Nat /\ offsets[e + 1] = offsets[e] + shapes[e]
        /\ m \in Nat /\ m * TileM < shapes[e] /\ SliceOf(b) \in 0 .. splitk - 1
    BY StoredBlock, ScheduleAssumption
  <2>2. TileM \in Nat \ {0} /\ NumExperts \in Nat \ {0} /\ SliceOf(b) \in Nat
    BY <2>1, ScheduleAssumption DEF ScheduleAssumption, GroupInv, TypeOK
  <2>3. PlaneOf(b) % NumExperts = e
    <3>1. e \in 0 .. NumExperts - 1
      BY <2>1 DEF Expert
    <3> QED BY <2>2, <3>1, PackUnpack DEF PlaneOf
  <2>4. offsets[e] \in Nat
    <3>1. e \in 0 .. NumExperts
      BY <2>1, <2>2 DEF Expert
    <3> QED BY <3>1 DEF GroupInv, TypeOK
  <2>5. RowsOf(b) = {offsets[e] + r : r \in {q \in 0 .. shapes[e] - 1 : q \div TileM = m}}
    BY DEF RowsOf
  <2> HIDE DEF e, m
  <2>6. RowsOf(b) # {}
    <3>1. m * TileM = TileM * m + 0 /\ 0 \in 0 .. TileM - 1 /\ m * TileM \in Nat
      BY <2>1, <2>2
    <3>2. (m * TileM) \div TileM = m
      BY <2>1, <2>2, <3>1, DivUnique
    <3>3. m * TileM \in 0 .. shapes[e] - 1
      BY <2>1, <3>1
    <3>4. offsets[e] + m * TileM \in RowsOf(b)
      BY <2>5, <3>2, <3>3
    <3> QED BY <3>4
  <2>7. ASSUME NEW r \in RowsOf(b)
        PROVE  offsets[e] <= r /\ r < offsets[e + 1]
    <3>1. PICK q \in 0 .. shapes[e] - 1 : r = offsets[e] + q
      BY <2>5, <2>7
    <3> QED BY <2>1, <2>4, <3>1
  <2> QED BY <2>3, <2>6, <2>7 DEF e
<1> QED BY <1>1, GroupInvariant, PTL

(* Two blocks that store a row have the same expert and M-tile.            *)
LEMMA SameRow ==
  ASSUME ScheduleAssumption, GroupInv, NEW b \in Stored, NEW c \in Stored,
         NEW r \in RowsOf(b), r \in RowsOf(c)
  PROVE  ExpertOf(b) = ExpertOf(c) /\ MTileOf(b) = MTileOf(c)
<1> DEFINE d == ExpertOf(b)
           e == ExpertOf(c)
<1>1. /\ pc = "launched" /\ d \in Expert /\ shapes[d] \in Nat
      /\ offsets[d + 1] = offsets[d] + shapes[d]
  BY StoredBlock
<1>2. e \in Expert /\ shapes[e] \in Nat /\ offsets[e + 1] = offsets[e] + shapes[e]
  BY StoredBlock
<1>3. PICK p \in 0 .. shapes[d] - 1 : r = offsets[d] + p /\ p \div TileM = MTileOf(b)
  BY DEF RowsOf
<1>4. PICK q \in 0 .. shapes[e] - 1 : r = offsets[e] + q /\ q \div TileM = MTileOf(c)
  BY DEF RowsOf
<1> HIDE DEF d, e
<1>5. d \in 0 .. NumExperts /\ e \in 0 .. NumExperts /\ d + 1 \in 0 .. NumExperts
      /\ e + 1 \in 0 .. NumExperts /\ d \in 0 .. NumExperts - 1 /\ e \in 0 .. NumExperts - 1
  BY <1>1, <1>2 DEF Expert, ScheduleAssumption
<1>6. offsets \in [0 .. NumExperts -> Nat]
  BY DEF GroupInv, TypeOK
<1>7. p \in Nat /\ q \in Nat /\ p < shapes[d] /\ q < shapes[e]
  BY <1>1, <1>2
<1>8. offsets[d] \in Nat /\ offsets[e] \in Nat
  BY <1>5, <1>6
<1>9. d = e
  <2>1. \A i, j \in 0 .. NumExperts : i <= j => offsets[i] <= offsets[j]
    BY <1>1 DEF GroupInv, OffsetsAreSums
  <2>2. d < e => offsets[d + 1] <= offsets[e]
    BY <1>5, <2>1
  <2>3. e < d => offsets[e + 1] <= offsets[d]
    BY <1>5, <2>1
  <2>4. offsets[d] + p = offsets[e] + q
    BY <1>3, <1>4
  <2>5. ~(d < e) /\ ~(e < d)
    BY <1>1, <1>2, <1>7, <1>8, <2>2, <2>3, <2>4
  <2> QED BY <1>5, <2>5
<1>10. p = q
  <2>1. offsets[d] + p = offsets[d] + q
    BY <1>3, <1>4, <1>9
  <2>2. \A n, x, y \in Nat : n + x = n + y => x = y
    OBVIOUS
  <2> QED BY <1>7, <1>8, <2>1, <2>2
<1> QED BY <1>3, <1>4, <1>9, <1>10 DEF d, e

(* An expert, an M-tile, a column tile and a slice name one block.         *)
LEMMA SamePlace ==
  ASSUME ScheduleAssumption, GroupInv, NEW b \in Stored, NEW c \in Stored,
         ExpertOf(b) = ExpertOf(c), MTileOf(b) = MTileOf(c), SliceOf(b) = SliceOf(c), b[2] = c[2]
  PROVE  b = c
<1>1. /\ b \in Block
      /\ Flat => b[1] = prefix[ExpertOf(b)] + MTileOf(b) /\ b[3] = SliceOf(b)
      /\ ~Flat => b[1] = MTileOf(b) /\ b[3] = splitk * ExpertOf(b) + SliceOf(b)
  BY StoredBlock
<1>2. /\ c \in Block
      /\ Flat => c[1] = prefix[ExpertOf(c)] + MTileOf(c) /\ c[3] = SliceOf(c)
      /\ ~Flat => c[1] = MTileOf(c) /\ c[3] = splitk * ExpertOf(c) + SliceOf(c)
  BY StoredBlock
<1>3. b[1] = c[1] /\ b[3] = c[3]
  BY <1>1, <1>2
<1>4. b = <<b[1], b[2], b[3]>> /\ c = <<c[1], c[2], c[3]>>
  BY <1>1, <1>2, BlockCoordinates
<1> QED BY <1>3, <1>4

(* No element of any partial output is stored by two blocks: rows in       *)
(* common mean a common expert and M-tile, and these with the slice name   *)
(* one block of either grid.                                               *)
THEOREM OutputsStoredOnce == Spec => []NoOutputStoredTwice
<1>1. GroupInv => NoOutputStoredTwice
  <2> SUFFICES ASSUME GroupInv, NEW b \in Stored, NEW c \in Stored,
                      NEW cell \in CellsOf(b), cell \in CellsOf(c)
               PROVE  b = c
    BY DEF NoOutputStoredTwice
  <2>1. PICK r \in RowsOf(b) : cell = <<r, b[2], PlaneOf(b) \div NumExperts>>
    BY DEF CellsOf
  <2>2. PICK s \in RowsOf(c) : cell = <<s, c[2], PlaneOf(c) \div NumExperts>>
    BY DEF CellsOf
  <2>3. r = s /\ b[2] = c[2] /\ PlaneOf(b) \div NumExperts = PlaneOf(c) \div NumExperts
    BY <2>1, <2>2
  <2>4. ExpertOf(b) = ExpertOf(c) /\ MTileOf(b) = MTileOf(c)
    BY <2>3, SameRow, ScheduleAssumption
  <2>5. ASSUME NEW x \in Stored PROVE PlaneOf(x) \div NumExperts = SliceOf(x)
    <3>1. NumExperts \in Nat \ {0} /\ splitk \in Nat \ {0}
      BY ScheduleAssumption DEF ScheduleAssumption, GroupInv, TypeOK
    <3>2. ExpertOf(x) \in 0 .. NumExperts - 1 /\ SliceOf(x) \in 0 .. splitk - 1
      BY StoredBlock, ScheduleAssumption DEF Expert
    <3>3. SliceOf(x) \in Nat
      BY <3>1, <3>2
    <3> QED BY <3>1, <3>2, <3>3, PackUnpack DEF PlaneOf
  <2>6. SliceOf(b) = SliceOf(c)
    BY <2>3, <2>5
  <2> QED BY <2>3, <2>4, <2>6, SamePlace, ScheduleAssumption
<1> QED BY <1>1, GroupInvariant, PTL

(* The flat grid launches no block that exits early.                       *)
THEOREM FlatGridIsExact == Spec => []FlatGridHasNoIdleBlock
<1>1. GroupInv => FlatGridHasNoIdleBlock
  <2> SUFFICES ASSUME GroupInv, Flat, NEW b \in Block, block[b].pc = "idle"
               PROVE  FALSE
    BY DEF FlatGridHasNoIdleBlock
  <2> DEFINE e == ExpertOf(b)
  <2>1. /\ pc = "launched" /\ block[b] \in BlockState
        /\ b[1] \in 0 .. grid.x - 1 /\ b[2] \in 0 .. grid.y - 1
        /\ grid.x \in Nat /\ grid.y \in Nat
    BY BlockCoordinates
  <2>2. /\ prefix[e] <= b[1] /\ b[1] < prefix[e + 1] /\ Idle(b)
        /\ \A x \in Expert : shapes[x] # Unset
    BY DEF GroupInv, BlockInv, ExpertOf
  <2>3. e \in Expert
    BY <2>1 DEF BlockState, ExpertOf
  <2>4. prefix[e + 1] = prefix[e] + MTiles(e)
    BY <2>1, <2>3 DEF GroupInv, PrefixIsSum, Summed, Classified
  <2>5. rows[e] \in Nat /\ MTiles(e) \in Nat /\ shapes[e] = rows[e]
    BY <2>1, <2>2, <2>3, HintType, ScheduleAssumption DEF GroupInv, ShapesAreRows
  <2>6. prefix[e] \in Nat
    <3>1. e \in 0 .. NumExperts
      BY <2>3, ScheduleAssumption DEF Expert, ScheduleAssumption
    <3> QED BY <3>1 DEF GroupInv, TypeOK
  <2>7. MTileOf(b) \in Int /\ MTileOf(b) < MTiles(e)
    <3>1. MTileOf(b) = b[1] - prefix[e]
      BY DEF MTileOf
    <3> HIDE DEF e
    <3> QED BY <2>1, <2>2, <2>4, <2>5, <2>6, <3>1
  <2>8. MTileOf(b) * TileM < shapes[e]
    <3>1. TileM \in Nat \ {0}
      BY ScheduleAssumption DEF ScheduleAssumption
    <3>2. MTiles(e) = CeilDiv(rows[e], TileM)
      BY DEF MTiles
    <3> HIDE DEF e
    <3> QED BY <2>5, <2>7, <3>1, <3>2, CeilDivCovers
  <2>9. b[2] * TileN < N
    <3>1. b[2] \in Int /\ b[2] < NTiles
      BY <2>1 DEF GroupInv, GridFitsDecode
    <3>2. TileN \in Nat \ {0} /\ N \in Nat
      BY ScheduleAssumption DEF ScheduleAssumption
    <3> QED BY <3>1, <3>2, CeilDivCovers DEF NTiles
  <2>10. MTileOf(b) * TileM \in Int /\ b[2] * TileN \in Int /\ N \in Nat
    BY <2>1, <2>7, ScheduleAssumption DEF ScheduleAssumption
  <2> QED BY <2>2, <2>3, <2>5, <2>8, <2>9, <2>10 DEF Idle
<1> QED BY <1>1, GroupInvariant, PTL
-----------------------------------------------------------------------------
(* The drained grid.                                                       *)

(* What the host has found of the request when it launches, and what the   *)
(* grid has of the shapes: as many M-tiles as the prefix counts, or as the *)
(* longest expert has.                                                     *)
RequestMet ==
  /\ deviceOnly => \A e \in Expert : rows[e] <= maxRows
  /\ deviceOnly \/ pc \notin {"gather", "refused"} =>
       offsets[NumExperts] = totalRows /\ maxRows >= 1
  /\ pc = "launched" =>
       IF Flat THEN grid.x = prefix[NumExperts] /\ grid.z = splitk ELSE grid.x = mtilesUniform

(* A flat grid is launched for ragged experts only: one of them has rows.  *)
LEMMA FlatIsRagged ==
  ASSUME ScheduleAssumption, GroupInv, RequestMet, pc = "grid", Flat
  PROVE  ~(Uniform \/ force3d)
<1>1. Hint = 0 /\ ~deviceOnly
  BY HintType DEF GroupInv, Routes, Classified, Flat
<1>2. PICK top \in Expert : rows[top] = maxRows
  BY <1>1 DEF GroupInv, MaxRowsIsMax, Gathered
<1>3. rows[top] \in Nat /\ rows[top] >= 1
  BY <1>2, HintType DEF RequestMet
<1>4. MTiles(top) >= 1 /\ \A e \in Expert : MTiles(e) \in Nat
  BY <1>3, HintType, CeilDivType DEF MTiles, ScheduleAssumption
<1>5. ~Uniform
  BY <1>1, <1>4, HintType DEF Hint, Uniform
<1>6. ~force3d
  <2> SUFFICES ASSUME MaxMTiles = 0 PROVE FALSE
    BY <1>1, <1>5 DEF Hint
  <2> QED BY <1>1, <1>4, HintType
<1> QED BY <1>5, <1>6

(* RequestMet holds of every request that is not refused.                  *)
LEMMA RequestInitially ==
  ASSUME ScheduleAssumption, Init
  PROVE  RequestMet
BY DEF Init, DeviceContract, RequestMet

(* ... and every step of the host keeps it, the others do not touch it.    *)
LEMMA RequestStep ==
  ASSUME ScheduleAssumption, GroupInv, RequestMet, [Next]_vars
  PROVE  RequestMet'
<1>1. CASE GatherRows \/ GatherDone
  <2>1. ~deviceOnly /\ pc = "gather" /\ UNCHANGED request /\ maxRows \in Nat
    BY <1>1 DEF GroupInv, TypeOK, Routes, GatherRows, GatherDone
  <2>2. pc' \in {"gather", "refused"} \/ (pc' = "launch" /\ offsets'[NumExperts] = totalRows
                                             /\ maxRows' >= 1)
    BY <1>1, <2>1 DEF GatherRows, GatherDone, RefuseWith
  <2> QED BY <2>1, <2>2 DEF RequestMet, request
<1>2. CASE EnqueueMetadata \/ LaunchRefused \/ Classify \/ PrefixStep \/ PrefixDone \/ CountTiles
  <2>1. UNCHANGED <<request, offsets, maxRows>> /\ pc # "gather" /\ pc' # "launched"
        /\ (pc = "refused" => pc' = "refused" \/ deviceOnly)
    BY <1>2 DEF GroupInv, Routes, EnqueueMetadata, LaunchRefused, RefuseWith, Classify, PrefixStep,
       PrefixDone, CountTiles
  <2> QED BY <2>1 DEF RequestMet, request
<1>3. CASE Launch
  <2>1. /\ UNCHANGED <<request, offsets, maxRows, mtilesUniform, total, prefix, cursor>>
        /\ pc = "grid" /\ grid' = GridShape /\ (mtilesUniform > 0 \/ cursor = NumExperts)
    BY <1>3 DEF Launch
  <2>2. IF Flat THEN GridShape.x = prefix[NumExperts] /\ GridShape.z = splitk
        ELSE GridShape.x = mtilesUniform
    <3>1. CASE Flat
      <4>1. ~(Uniform \/ force3d)
        BY <2>1, <3>1, FlatIsRagged
      <4>2. total = prefix[NumExperts]
        BY <2>1, <3>1 DEF GroupInv, PrefixIsSum, Flat
      <4>3. GridShape = [x |-> total, y |-> NTiles, z |-> splitk]
        BY <3>1, <4>1 DEF GridShape, Flat
      <4> QED BY <3>1, <4>2, <4>3
    <3>2. CASE ~Flat
      <4>1. mtilesUniform > 0
        BY <3>2 DEF GroupInv, TypeOK, Flat
      <4> QED BY <3>2, <4>1 DEF GridShape
    <3> QED BY <3>1, <3>2
  <2> QED BY <2>1, <2>2 DEF RequestMet, request, Flat
<1>4. CASE \/ \E e \in Expert : Metadata(e)
           \/ \E b \in Block : BlockStep(b)
           \/ UNCHANGED vars
  <2>1. UNCHANGED <<request, host, prefix>>
    BY <1>4 DEF Metadata, BlockStep, StartBlock, SearchStep, FinishBlock, vars, device
  <2> QED BY <2>1 DEF RequestMet, request, host, Flat
<1> QED BY <1>1, <1>2, <1>3, <1>4 DEF Next, HostStep, Terminated

(* Every row of the output belongs to an expert.                           *)
LEMMA RowHasExpert ==
  ASSUME ScheduleAssumption, GroupInv, RequestMet, pc = "launched", NEW r \in 0 .. totalRows - 1
  PROVE  \E e \in Expert : \E p \in Nat : p < rows[e] /\ r = offsets[e] + p
<1>1. /\ NumExperts \in Nat /\ offsets \in [0 .. NumExperts -> Int] /\ r \in Int
      /\ offsets \in [0 .. NumExperts -> Nat] /\ totalRows \in Nat
  BY DEF ScheduleAssumption, GroupInv, TypeOK
<1>2. offsets[0] = 0 /\ offsets[NumExperts] = totalRows
  BY DEF GroupInv, OffsetsAreSums, RequestMet
<1>3. PICK e \in 0 .. NumExperts - 1 : offsets[e] <= r /\ r < offsets[e + 1]
  <2>1. offsets[0] <= r /\ r < offsets[NumExperts]
    BY <1>1, <1>2
  <2> QED BY <1>1, <2>1, Passes
<1>4. e \in Expert /\ e \in 0 .. NumExperts
  BY <1>1 DEF Expert
<1>5. rows[e] \in Nat /\ offsets[e + 1] = offsets[e] + rows[e]
  BY <1>4 DEF GroupInv, OffsetsAreSums, Gathered
<1>6. r - offsets[e] \in Nat /\ r - offsets[e] < rows[e] /\ r = offsets[e] + (r - offsets[e])
  BY <1>1, <1>3, <1>4, <1>5
<1> QED BY <1>4, <1>6

(* The K-tiles of a slice are the ones congruent to it.                    *)
LEMMA KTilesAreCongruent ==
  ASSUME ScheduleAssumption, GroupInv, NEW b \in Stored, NEW k \in 0 .. KTiles - 1
  PROVE  k \in KTilesOf(b) <=> (k % splitk) = SliceOf(b)
<1> DEFINE s == SliceOf(b)
<1>1. splitk \in Nat \ {0} /\ KTiles \in Nat /\ k \in Nat /\ k < KTiles
  BY DEF ScheduleAssumption, GroupInv, TypeOK
<1>2. s \in 0 .. splitk - 1
  BY StoredBlock
<1>3. CeilDiv(KTiles, splitk) \in Nat
  BY <1>1, CeilDivType
<1>4. KTilesOf(b) = {s + i * splitk : i \in 0 .. CeilDiv(KTiles, splitk) - 1}
  BY DEF KTilesOf
<1> HIDE DEF s
<1>5. ASSUME k \in KTilesOf(b) PROVE (k % splitk) = s
  <2>1. PICK i \in 0 .. CeilDiv(KTiles, splitk) - 1 : k = s + i * splitk
    BY <1>4, <1>5
  <2>2. i \in Int /\ k = splitk * i + s
    BY <1>1, <1>2, <1>3, <2>1
  <2> QED BY <1>1, <1>2, <2>2, ModUnique
<1>6. ASSUME (k % splitk) = s PROVE k \in KTilesOf(b)
  <2> DEFINE i == k \div splitk
  <2>1. i \in Nat /\ k = splitk * i + s
    BY <1>1, <1>6, ModDecompose
  <2> HIDE DEF i
  <2>2. i * splitk = splitk * i /\ splitk * i \in Nat
    BY <1>1, <2>1
  <2>3. i * splitk < KTiles
    BY <1>1, <1>2, <2>1, <2>2
  <2>4. i \in 0 .. CeilDiv(KTiles, splitk) - 1
    BY <1>1, <1>3, <2>1, <2>3, CeilDivCovers
  <2>5. k = s + i * splitk
    BY <1>1, <1>2, <2>1, <2>2
  <2> QED BY <1>4, <2>4, <2>5
<1> QED BY <1>5, <1>6 DEF s

(* The M-tiles of an expert are below the hint of a 3D grid.               *)
LEMMA HintCoversExperts ==
  ASSUME ScheduleAssumption, GroupInv, RequestMet, pc = "launched", ~Flat, NEW e \in Expert
  PROVE  MTiles(e) <= mtilesUniform
<1>1. mtilesUniform = Hint /\ Hint # 0 /\ rows[e] \in Nat /\ MTiles(e) \in Nat
  BY HintType DEF GroupInv, Routes, Classified, Flat
<1>2. CASE deviceOnly
  <2>1. rows[e] <= maxRows /\ maxRows \in Nat /\ TileM \in Nat \ {0}
    BY <1>2 DEF RequestMet, GroupInv, TypeOK, ScheduleAssumption
  <2> QED BY <1>1, <1>2, <2>1, CeilDivMono DEF Hint, MTiles
<1>3. CASE ~deviceOnly /\ Uniform
  BY <1>1, <1>3 DEF Hint, Uniform
<1>4. CASE ~deviceOnly /\ ~Uniform
  BY <1>1, <1>4, HintType DEF Hint
<1> QED BY <1>2, <1>3, <1>4

(* A block that has decoded an expert, an M-tile and a column tile the     *)
(* problem has is not idle when it ends.                                   *)
LEMMA RealTileIsStored ==
  ASSUME ScheduleAssumption, GroupInv, Finished, NEW b \in Block, ExpertOf(b) \in Expert,
         MTileOf(b) \in Nat, MTileOf(b) < MTiles(ExpertOf(b)), b[2] < NTiles
  PROVE  b \in Stored
<1> DEFINE e == ExpertOf(b)
<1>1. pc = "launched" /\ block[b].pc \in {"idle", "stored"} /\ BlockInv(b)
  BY DEF Finished, GroupInv
<1>2. \A x \in Expert : shapes[x] # Unset
  BY <1>1 DEF BlockInv
<1>3. shapes[e] = rows[e] /\ rows[e] \in Nat
  BY <1>1, <1>2, HintType DEF GroupInv, ShapesAreRows
<1>4. TileM \in Nat \ {0} /\ TileN \in Nat \ {0} /\ N \in Nat /\ b[2] \in Int
  BY BlockCoordinates DEF ScheduleAssumption
<1>5. MTileOf(b) * TileM < shapes[e]
  <2>1. MTiles(e) = CeilDiv(rows[e], TileM)
    BY DEF MTiles
  <2> HIDE DEF e
  <2> QED BY <1>3, <1>4, <2>1, CeilDivCovers DEF e
<1>6. b[2] * TileN < N
  BY <1>4, CeilDivCovers DEF NTiles
<1>7. ~Idle(b)
  <2>1. MTileOf(b) * TileM \in Int /\ b[2] * TileN \in Int
    BY <1>4
  <2> QED BY <1>3, <1>4, <1>5, <1>6, <2>1 DEF Idle
<1> QED BY <1>1, <1>7 DEF BlockInv, Stored

(* Every tile of the problem has been stored, in either kind of grid.      *)
LEMMA EveryTileStored ==
  ASSUME ScheduleAssumption, GroupInv, RequestMet, Finished, NEW e \in Expert,
         NEW m \in 0 .. MTiles(e) - 1, NEW c \in 0 .. NTiles - 1, NEW s \in 0 .. splitk - 1
  PROVE  \E b \in Stored :
           ExpertOf(b) = e /\ MTileOf(b) = m /\ SliceOf(b) = s /\ b[2] = c
<1>1. pc = "launched"
  BY DEF Finished
<1>2. /\ NumExperts \in Nat \ {0} /\ splitk \in Nat \ {0} /\ NTiles \in Nat
      /\ MTiles(e) \in Nat /\ m \in Nat /\ m < MTiles(e) /\ s \in Nat /\ c < NTiles
      /\ grid \in [x : Nat, y : Nat, z : Nat] /\ prefix \in [0 .. NumExperts -> Nat]
      /\ e \in 0 .. NumExperts - 1 /\ e \in 0 .. NumExperts /\ e + 1 \in 0 .. NumExperts
  <2>1. NumExperts \in Nat \ {0} /\ splitk \in Nat \ {0} /\ prefix \in [0 .. NumExperts -> Nat]
        /\ grid \in [x : Nat, y : Nat, z : Nat]
    BY DEF ScheduleAssumption, GroupInv, TypeOK
  <2>2. NTiles \in Nat
    BY CeilDivType DEF ScheduleAssumption, NTiles
  <2>3. MTiles(e) \in Nat
    BY <1>1, HintType
  <2> QED BY <2>1, <2>2, <2>3 DEF Expert
<1>3. grid.y = NTiles
  BY <1>1 DEF GroupInv, GridFitsDecode
<1>4. \A x, y, z \in Nat : x < grid.x /\ y < grid.y /\ z < grid.z => <<x, y, z>> \in Block
  <2> SUFFICES ASSUME NEW x \in Nat, NEW y \in Nat, NEW z \in Nat,
                      x < grid.x, y < grid.y, z < grid.z
               PROVE  <<x, y, z>> \in Block
    OBVIOUS
  <2>1. grid.x \in Nat /\ grid.y \in Nat /\ grid.z \in Nat
    BY <1>2
  <2>2. x \in 0 .. grid.x - 1 /\ y \in 0 .. grid.y - 1 /\ z \in 0 .. grid.z - 1
    BY <2>1
  <2> QED BY <2>2 DEF Block, BlocksOf
<1>5. CASE Flat
  <2> DEFINE b == <<prefix[e] + m, c, s>>
  <2>1. \A x \in Expert : prefix[x + 1] = prefix[x] + MTiles(x) /\ MTiles(x) \in Nat
    BY <1>1, <1>5, HintType DEF GroupInv, PrefixIsSum, Classified, Summed
  <2>2. \A i \in 0 .. NumExperts - 1 : prefix[i] <= prefix[i + 1]
    <3> TAKE i \in 0 .. NumExperts - 1
    <3>1. i \in Expert /\ i \in 0 .. NumExperts
      BY <1>2 DEF Expert
    <3>2. prefix[i] \in Nat
      BY <1>2, <3>1
    <3> QED BY <2>1, <3>1, <3>2
  <2>3. \A j \in 0 .. NumExperts : \A i \in 0 .. j : prefix[i] <= prefix[j]
    <3>1. NumExperts \in Nat /\ prefix \in [0 .. NumExperts -> Int]
      BY <1>2
    <3> QED BY <2>2, <3>1, Climbs
  <2>4. prefix[e + 1] <= grid.x /\ grid.z = splitk
    <3>1. grid.x = prefix[NumExperts] /\ grid.z = splitk
      BY <1>1, <1>5 DEF RequestMet
    <3>2. prefix[e + 1] <= prefix[NumExperts]
      BY <1>2, <2>3
    <3> QED BY <3>1, <3>2
  <2>5. prefix[e] + m \in Nat /\ prefix[e] + m < prefix[e + 1] /\ prefix[e + 1] \in Nat
    BY SMTT(30), <1>2, <2>1
  <2>6. b \in Block /\ b[1] = prefix[e] + m /\ b[2] = c /\ b[3] = s
    <3>1. grid.x \in Nat /\ prefix[e] + m < grid.x /\ c \in Nat /\ s < grid.z
      BY <1>2, <2>4, <2>5
    <3> QED BY <1>2, <1>3, <1>4, <2>5, <3>1
  <2> HIDE DEF b
  <2>7. /\ block[b] \in BlockState /\ block[b].pc \in {"idle", "stored"} /\ BlockInv(b)
    BY <2>6, BlockCoordinates DEF Finished, GroupInv
  <2> DEFINE lo == block[b].lo
  <2>8. lo \in Expert /\ prefix[lo] <= prefix[e] + m /\ prefix[e] + m < prefix[lo + 1]
    BY <1>5, <2>6, <2>7 DEF BlockInv, BlockState
  <2> HIDE DEF lo
  <2>9. lo = e
    <3>1. lo \in 0 .. NumExperts /\ lo + 1 \in 0 .. NumExperts /\ lo \in Int
      BY <1>2, <2>8 DEF Expert
    <3>2. prefix[lo] \in Nat /\ prefix[lo + 1] \in Nat
      BY <1>2, <3>1
    <3>3. e < lo => prefix[e + 1] <= prefix[lo]
      BY <1>2, <2>3, <3>1
    <3>4. lo < e => prefix[lo + 1] <= prefix[e]
      BY <1>2, <2>3, <3>1
    <3>5. prefix[e] \in Nat
      BY <1>2
    <3>6. ~(e < lo)
      BY <2>5, <2>8, <3>2, <3>3
    <3>7. ~(lo < e)
      <4>1. m \in Nat /\ prefix[e] + m < prefix[lo + 1]
        BY <1>2, <2>8
      <4> HIDE DEF lo
      <4> QED BY <3>2, <3>4, <3>5, <4>1
    <3> QED BY <1>2, <3>1, <3>6, <3>7
  <2>10. ExpertOf(b) = e /\ MTileOf(b) = m /\ SliceOf(b) = s
    <3>1. ExpertOf(b) = e
      BY <2>9 DEF ExpertOf, lo
    <3>2. prefix[e] \in Nat /\ (prefix[e] + m) - prefix[e] = m
      BY <1>2
    <3> QED BY <1>5, <2>6, <3>1, <3>2 DEF MTileOf, SliceOf
  <2>11. b \in Stored
    BY <1>2, <2>6, <2>10, RealTileIsStored
  <2> QED BY <2>6, <2>10, <2>11
<1>6. CASE ~Flat
  <2> DEFINE b == <<m, c, splitk * e + s>>
  <2>1. m < grid.x /\ grid.z = NumExperts * splitk
    <3>1. grid.x = mtilesUniform /\ MTiles(e) <= mtilesUniform /\ mtilesUniform \in Nat
      BY <1>1, <1>6, HintCoversExperts DEF RequestMet, GroupInv, TypeOK
    <3>2. grid.z = NumExperts * splitk
      BY <1>1, <1>6 DEF GroupInv, GridFitsDecode
    <3> QED BY <1>2, <3>1, <3>2
  <2>2. splitk * e + s \in Nat /\ splitk * e + s < NumExperts * splitk
    <3>1. splitk * e + splitk <= splitk * NumExperts
      BY <1>2, TimesMono
    <3>2. splitk * NumExperts = NumExperts * splitk /\ splitk * e \in Nat
      BY <1>2
    <3>3. NumExperts * splitk \in Nat /\ s < splitk /\ s \in Nat /\ splitk \in Nat
      BY <1>2
    <3>4. \A x, y, z, w \in Nat : x + z <= y /\ w < z => x + w \in Nat /\ x + w < y
      OBVIOUS
    <3> QED BY <3>1, <3>2, <3>3, <3>4
  <2>3. b \in Block /\ b[1] = m /\ b[2] = c /\ b[3] = splitk * e + s
    <3>1. c \in Nat
      BY <1>2
    <3> QED BY <1>2, <1>3, <1>4, <2>1, <2>2, <3>1
  <2>4. b[3] \div splitk = e /\ (b[3] % splitk) = s
    <3>1. e \in Int /\ s \in 0 .. splitk - 1
      BY <1>2
    <3>2. (splitk * e + s) \div splitk = e /\ ((splitk * e + s) % splitk) = s
      BY <1>2, <3>1, DivUnique, ModUnique
    <3> QED BY <2>3, <3>2
  <2> HIDE DEF b
  <2>5. block[b].pc \in {"idle", "stored"} /\ BlockInv(b)
    BY <2>3 DEF Finished, GroupInv
  <2>6. ExpertOf(b) = e /\ MTileOf(b) = m /\ SliceOf(b) = s
    BY <1>6, <2>3, <2>4, <2>5 DEF BlockInv, ExpertOf, ExpertOfZ, MTileOf, SliceOf
  <2>7. b \in Stored
    BY <1>2, <2>3, <2>6, RealTileIsStored
  <2> QED BY <2>3, <2>6, <2>7
<1> QED BY <1>5, <1>6

(* The block that stores a row, column tile and K-tile exists, and is the  *)
(* only one.                                                               *)
LEMMA OneBlockPerPart ==
  ASSUME ScheduleAssumption, GroupInv, RequestMet, Finished, NEW r \in 0 .. totalRows - 1,
         NEW c \in 0 .. NTiles - 1, NEW k \in 0 .. KTiles - 1
  PROVE  \E b \in Stored :
           {d \in Stored : r \in RowsOf(d) /\ d[2] = c /\ k \in KTilesOf(d)} = {b}
<1>1. pc = "launched" /\ splitk \in Nat \ {0} /\ TileM \in Nat \ {0} /\ KTiles \in Nat
  BY DEF Finished, ScheduleAssumption, GroupInv, TypeOK
<1>2. PICK e \in Expert, p \in Nat : p < rows[e] /\ r = offsets[e] + p
  BY <1>1, RowHasExpert
<1> DEFINE m == p \div TileM
           s == k % splitk
<1>3. s \in 0 .. splitk - 1
  BY <1>1, ModDecompose
<1>4. m \in 0 .. MTiles(e) - 1
  <2>1. m \in Nat /\ p = TileM * m + (p % TileM) /\ (p % TileM) \in 0 .. TileM - 1
    BY <1>1, ModDecompose
  <2>2. MTiles(e) = CeilDiv(rows[e], TileM) /\ MTiles(e) \in Nat /\ rows[e] \in Nat
    BY <1>1, HintType DEF MTiles
  <2> HIDE DEF m
  <2>3. m * TileM = TileM * m /\ m * TileM \in Nat
    BY <1>1, <2>1
  <2>4. m * TileM < rows[e]
    BY <1>1, <1>2, <2>1, <2>2, <2>3
  <2>5. m < MTiles(e)
    BY <1>1, <2>1, <2>2, <2>4, CeilDivCovers
  <2> QED BY <2>1, <2>2, <2>5
<1> HIDE DEF m, s
<1>5. PICK b \in Stored : ExpertOf(b) = e /\ MTileOf(b) = m /\ SliceOf(b) = s /\ b[2] = c
  BY <1>3, <1>4, EveryTileStored
<1>6. k \in KTilesOf(b)
  BY <1>5, KTilesAreCongruent DEF s
<1>7. r \in RowsOf(b)
  <2>1. shapes[e] = rows[e] /\ rows[e] \in Nat
    <3>1. block[b].pc = "stored" /\ BlockInv(b)
      BY <1>5 DEF Stored, GroupInv
    <3>2. shapes[e] # Unset
      BY <3>1 DEF BlockInv
    <3> QED BY <1>1, <3>2, HintType DEF GroupInv, ShapesAreRows
  <2>2. p \in 0 .. shapes[e] - 1
    BY <1>2, <2>1
  <2> QED BY <1>2, <1>5, <2>2 DEF RowsOf, m
<1>8. ASSUME NEW d \in Stored, r \in RowsOf(d), d[2] = c, k \in KTilesOf(d)
      PROVE  d = b
  <2>1. ExpertOf(d) = ExpertOf(b) /\ MTileOf(d) = MTileOf(b)
    BY <1>7, <1>8, SameRow
  <2>2. SliceOf(d) = SliceOf(b)
    BY <1>5, <1>8, KTilesAreCongruent DEF s
  <2> QED BY <1>5, <1>8, <2>1, <2>2, SamePlace
<1> QED BY <1>5, <1>6, <1>7, <1>8

(* When the grid has drained, every element of every row has all of its    *)
(* K-tiles, each one once: the tile of the element, in the slice the       *)
(* K-tile is congruent to, is one block's and no other's.                  *)
THEOREM OutputsAreComplete == Spec => []EveryOutputComplete
<1> USE ScheduleAssumption
<1>1. GroupInv /\ RequestMet => EveryOutputComplete
  <2> SUFFICES ASSUME GroupInv, RequestMet, Finished, NEW r \in 0 .. totalRows - 1,
                      NEW n \in 0 .. N - 1, NEW k \in 0 .. KTiles - 1
               PROVE  Cardinality({b \in Stored : /\ r \in RowsOf(b) /\ b[2] = n \div TileN
                                                  /\ k \in KTilesOf(b)}) = 1
    BY DEF EveryOutputComplete
  <2> DEFINE c == n \div TileN
  <2>1. c \in 0 .. NTiles - 1
    <3>1. TileN \in Nat \ {0} /\ N \in Nat /\ n \in Nat /\ n < N
      BY DEF ScheduleAssumption
    <3>2. c \in Nat /\ n = TileN * c + (n % TileN) /\ (n % TileN) \in 0 .. TileN - 1
      BY <3>1, ModDecompose
    <3> HIDE DEF c
    <3>3. c * TileN = TileN * c /\ c * TileN \in Nat
      BY <3>1, <3>2
    <3>4. c < NTiles /\ NTiles \in Nat
      BY <3>1, <3>2, <3>3, CeilDivCovers, CeilDivType DEF NTiles
    <3> QED BY <3>2, <3>4
  <2> HIDE DEF c
  <2>2. PICK b \in Stored :
          {d \in Stored : r \in RowsOf(d) /\ d[2] = c /\ k \in KTilesOf(d)} = {b}
    BY <2>1, OneBlockPerPart
  <2> QED BY <2>2, FS_Singleton DEF c
<1>2. Init => RequestMet
  BY RequestInitially
<1>3. GroupInv /\ RequestMet /\ [Next]_vars => RequestMet'
  BY RequestStep
<1> QED BY <1>1, <1>2, <1>3, GroupInvariant, PTL DEF Spec
=============================================================================
