--------------------------- MODULE GroupedSchedule ---------------------------
(***************************************************************************)
(* One grouped (MoE) GEMM call: how ragged per-expert row counts become a  *)
(* grid, and how every block of that grid finds its expert, its M-tile and *)
(* its K-slice again.                                                      *)
(*                                                                         *)
(* The host route (grouped) knows the row counts: it builds the offsets    *)
(* and the M-tile prefix in loops, one expert per step, and launches a     *)
(* flat grid, or a 3D one when the experts are uniform. The device-only    *)
(* route (grouped_device) knows an upper bound only: a metadata kernel     *)
(* derives the shapes on the stream ahead of the GEMM, whose 3D grid is    *)
(* trimmed by every block. Blocks run in any order and interleave.         *)
(***************************************************************************)
EXTENDS Integers, FiniteSets

CONSTANTS
  NumExperts,  \* L: problem_shape.groups()
  RowChoices,  \* the per-expert row counts a caller may pass
  MaxTotal,    \* bound on the total_rows a caller may pass
  MaxBound,    \* bound on the max_rows a device-only caller may pass
  TileM,       \* size<0>(TileShape)
  TileN,       \* size<1>(TileShape)
  N,           \* output columns, the same for all experts
  KTiles,      \* number of K-tiles of the problem
  MaxSplit,    \* bound on splitk
  MaxResident  \* blocks the device keeps resident at a time

ASSUME ScheduleAssumption ==
  /\ NumExperts \in Nat \ {0}
  /\ RowChoices \subseteq Int
  /\ MaxTotal \in Nat /\ MaxBound \in Nat
  /\ TileM \in Nat \ {0} /\ TileN \in Nat \ {0} /\ N \in Nat \ {0}
  /\ KTiles \in Nat \ {0}
  /\ MaxSplit \in Nat \ {0}
  /\ MaxResident \in Nat \ {0}

Expert == 0 .. NumExperts - 1
Unset  == -1                        \* device memory no kernel has written yet

VARIABLES
  \* the request
  rows,       \* rows_per_expert; the device route has only its offsets
  totalRows,  \* total_rows
  splitk,     \* K slices per output tile
  force3d,    \* MOEG_FORCE3D is set
  deviceOnly, \* shapes_host == nullptr
  \* the host
  pc,         \* where the host is
  cursor,     \* e of the loop the host is in
  offsets,    \* first row of every expert; offsets[experts] is the row count
  maxRows,    \* max_rows
  mtilesUniform, \* args.mtiles_uniform
  total,      \* total_m_tiles of get_grid_shape
  grid,       \* the launched grid [x, y, z]
  \* the device
  shapes,     \* shapes[e]: M of expert e in the device-resident problem shape
  prefix,     \* pfx: the M-tile prefix in the workspace
  block       \* block[b]: what block b of the grid is doing

request == <<rows, totalRows, splitk, force3d, deviceOnly>>
host    == <<pc, cursor, offsets, maxRows, mtilesUniform, total, grid>>
device  == <<shapes, prefix, block>>
vars    == <<request, host, device>>

FloorDiv(a, b) == a \div b      \* mutant: the ragged last tile is forgotten
CeilDiv(a, b) == (a + b - 1) \div b

(* M-tiles of an expert, from the host copy of its shape.                  *)
MTiles(e) == CeilDiv(rows[e], TileM)
Uniform == \A e \in Expert : MTiles(e) = MTiles(0)
MaxMTiles == CHOOSE m \in {MTiles(e) : e \in Expert} : \A e \in Expert : MTiles(e) <= m
NTiles == CeilDiv(N, TileN)

NoGrid == [x |-> 0, y |-> 0, z |-> 0]
BlocksOf(g) == (0 .. g.x - 1) \X (0 .. g.y - 1) \X (0 .. g.z - 1)
Block == BlocksOf(grid)

Zeros(n) == [i \in 0 .. n |-> 0]
-----------------------------------------------------------------------------
(* A device-only caller owns the offsets and promises that they are        *)
(* cumulative and that max_rows bounds every expert.                       *)
DeviceContract ==
  /\ offsets \in [0 .. NumExperts -> 0 .. MaxTotal]
  /\ offsets[0] = 0 /\ offsets[NumExperts] = totalRows
  /\ \A i, j \in 0 .. NumExperts : i < j => offsets[i] <= offsets[j]
  /\ \A e \in Expert : rows[e] = offsets[e + 1] - offsets[e]
  /\ maxRows \in 1 .. MaxBound
  /\ \A e \in Expert : rows[e] <= maxRows

Init ==
  /\ rows \in [Expert -> RowChoices]
  /\ totalRows \in 1 .. MaxTotal
  /\ splitk \in 1 .. MaxSplit
  /\ force3d \in BOOLEAN
  /\ deviceOnly \in BOOLEAN
  /\ IF deviceOnly THEN DeviceContract
                   ELSE offsets = Zeros(NumExperts) /\ maxRows = 0
  /\ pc = IF deviceOnly THEN "metadata" ELSE "gather"
  /\ cursor = 0
  /\ mtilesUniform = 0
  /\ total = 0
  /\ grid = NoGrid
  /\ shapes = [e \in Expert |-> Unset]
  /\ prefix = Zeros(NumExperts)
  /\ block = [b \in BlocksOf(NoGrid) |-> [pc |-> "ready", lo |-> 0, hi |-> NumExperts]]
-----------------------------------------------------------------------------
(* The host.                                                               *)

RefuseWith == pc' = "refused"

(* grouped: offsets, sum and the maximum in one loop; a negative count or  *)
(* a sum that is not total_rows is refused (36).                           *)
GatherRows ==
  /\ pc = "gather" /\ cursor < NumExperts
  /\ IF rows[cursor] < 0
     THEN RefuseWith /\ UNCHANGED <<cursor, offsets, maxRows>>
     ELSE /\ offsets' = [offsets EXCEPT ![cursor + 1] = offsets[cursor] + rows[cursor]]
          /\ maxRows' = IF rows[cursor] > maxRows THEN rows[cursor] ELSE maxRows
          /\ cursor' = cursor + 1
          /\ UNCHANGED pc
  /\ UNCHANGED <<request, mtilesUniform, total, grid, device>>

GatherDone ==
  /\ pc = "gather" /\ cursor = NumExperts
  /\ IF offsets[NumExperts] # totalRows \/ maxRows <= 0
     THEN RefuseWith /\ UNCHANGED shapes
     ELSE pc' = "launch" /\ shapes' = rows
  /\ UNCHANGED <<request, cursor, offsets, maxRows, mtilesUniform, total, grid,
                 prefix, block>>

(* grouped_device only enqueues the metadata kernel ahead of the GEMM.     *)
EnqueueMetadata ==
  /\ pc = "metadata"
  /\ pc' = "launch"
  /\ UNCHANGED <<request, cursor, offsets, maxRows, mtilesUniform, total, grid, device>>

(* launch refuses a split that does not divide the K-tiles, and anything   *)
(* its compiled type, the workspace or initialize turns down.              *)
AcceptsAnySplit == TRUE      \* mutant: leave the indivisible tail to the mainloop
SplitDivides == KTiles % splitk = 0

LaunchRefused ==
  /\ pc = "launch"
  /\ RefuseWith
  /\ UNCHANGED <<request, cursor, offsets, maxRows, mtilesUniform, total, grid, device>>

(* The decode hint: how many M-tiles a 3D grid gives every expert, 0 for a *)
(* flat grid. The ragged host route then writes the prefix.                *)
Hint ==
  IF deviceOnly THEN CeilDiv(maxRows, TileM)
  ELSE IF Uniform THEN MTiles(0)
  ELSE IF force3d THEN MaxMTiles ELSE 0

Classify ==
  /\ pc = "launch" /\ SplitDivides
  /\ mtilesUniform' = Hint
  /\ pc' = IF mtilesUniform' = 0 /\ ~deviceOnly THEN "prefix" ELSE "grid"
  /\ cursor' = 0
  /\ UNCHANGED <<request, offsets, maxRows, total, grid, device>>

PrefixStep ==
  /\ pc = "prefix" /\ cursor < NumExperts
  /\ prefix' = [prefix EXCEPT ![cursor + 1] = prefix[cursor] + MTiles(cursor)]
  /\ cursor' = cursor + 1
  /\ UNCHANGED <<request, pc, offsets, maxRows, mtilesUniform, total, grid, shapes, block>>

PrefixDone ==
  /\ pc = "prefix" /\ cursor = NumExperts
  /\ pc' = "grid"
  /\ cursor' = 0
  /\ UNCHANGED <<request, offsets, maxRows, mtilesUniform, total, grid, device>>

(* get_grid_shape. Its loop only runs for a flat decode.                   *)
CountTiles ==
  /\ pc = "grid" /\ mtilesUniform = 0 /\ cursor < NumExperts
  /\ total' = total + MTiles(cursor)
  /\ cursor' = cursor + 1
  /\ UNCHANGED <<request, pc, offsets, maxRows, mtilesUniform, grid, device>>

GridShape ==
  IF mtilesUniform > 0 THEN [x |-> mtilesUniform, y |-> NTiles, z |-> NumExperts * splitk]
  ELSE IF Uniform \/ force3d
  THEN [x |-> IF Uniform THEN MTiles(0) ELSE MaxMTiles, y |-> NTiles,
        z |-> NumExperts * splitk]
  ELSE [x |-> total, y |-> NTiles, z |-> splitk]

Launch ==
  /\ pc = "grid" /\ (mtilesUniform > 0 \/ cursor = NumExperts)
  /\ grid' = GridShape
  /\ block' = [b \in BlocksOf(GridShape) |-> [pc |-> "ready", lo |-> 0, hi |-> NumExperts]]
  /\ pc' = "launched"
  /\ UNCHANGED <<request, cursor, offsets, maxRows, mtilesUniform, total, shapes, prefix>>
-----------------------------------------------------------------------------
(* The device. A stream starts a kernel when the one before it has ended.  *)

(* Thread e of the metadata kernel.                                        *)
Metadata(e) ==
  /\ deviceOnly /\ pc # "metadata" /\ shapes[e] = Unset
  /\ shapes' = [shapes EXCEPT ![e] = offsets[e + 1] - offsets[e]]
  /\ UNCHANGED <<request, host, prefix, block>>

OtherStream == TRUE      \* mutant: the GEMM does not wait for the metadata kernel
StreamReady == deviceOnly => \A e \in Expert : shapes[e] # Unset

Flat == mtilesUniform = 0
Running(b) == block[b].pc \in {"search", "tile"}

(* blockIdx of a 3D grid names expert and slice; a flat one has to search. *)
WholeZ(b) == b[3]        \* mutant: z is taken for the expert or the slice alone
ExpertOfZ(b) == b[3] \div splitk

StartBlock(b) ==
  /\ pc = "launched" /\ block[b].pc = "ready" /\ StreamReady
  /\ Cardinality({c \in Block : Running(c)}) < MaxResident
  /\ block' = [block EXCEPT ![b] =
       IF Flat THEN [@ EXCEPT !.pc = "search"]
               ELSE [@ EXCEPT !.pc = "tile", !.lo = ExpertOfZ(b)]]
  /\ UNCHANGED <<request, host, shapes, prefix>>

NonEmpty(lo, hi) == lo < hi          \* mutant: the loop test of an exact search
Narrowing(lo, hi) == lo + 1 < hi
BeforeTile(p, flat) == p < flat      \* mutant: a tile boundary goes to the expert below
AtOrBefore(p, flat) == p <= flat

SearchStep(b) ==
  LET lo  == block[b].lo
      hi  == block[b].hi
      mid == (lo + hi) \div 2
  IN  /\ pc = "launched" /\ block[b].pc = "search"
      /\ block' = [block EXCEPT ![b] =
           IF Narrowing(lo, hi)
           THEN IF AtOrBefore(prefix[mid], b[1]) THEN [@ EXCEPT !.lo = mid]
                                                 ELSE [@ EXCEPT !.hi = mid]
           ELSE [@ EXCEPT !.pc = "tile"]]
      /\ UNCHANGED <<request, host, shapes, prefix>>

ExpertOf(b) == block[b].lo
MTileOf(b) == IF Flat THEN b[1] - prefix[ExpertOf(b)] ELSE b[1]
SliceOf(b) == IF Flat THEN b[3] ELSE b[3] % splitk

NeverIdle(b) == FALSE      \* mutant: no early return past the expert's last row
Idle(b) ==
  \/ ExpertOf(b) \notin Expert
  \/ MTileOf(b) * TileM >= shapes[ExpertOf(b)]
  \/ b[2] * TileN >= N

(* Mainloop and epilogue of a block with a tile of its own.                *)
FinishBlock(b) ==
  /\ pc = "launched" /\ block[b].pc = "tile"
  /\ block' = [block EXCEPT ![b].pc = IF Idle(b) THEN "idle" ELSE "stored"]
  /\ UNCHANGED <<request, host, shapes, prefix>>

(* The K-tiles the strided iterator of a slice visits, and the plane of D  *)
(* the epilogue is pointed at.                                             *)
KTilesOf(b) == {SliceOf(b) + i * splitk : i \in 0 .. CeilDiv(KTiles, splitk) - 1}
PlaneByExpert(b) == ExpertOf(b) * splitk + SliceOf(b)   \* mutant: the grid's packing
PlaneOf(b) == ExpertOf(b) + SliceOf(b) * NumExperts
-----------------------------------------------------------------------------
Finished ==
  /\ pc = "launched"
  /\ \A b \in Block : block[b].pc \in {"idle", "stored"}

Terminated ==
  /\ pc = "refused" \/ Finished
  /\ UNCHANGED vars

HostStep ==
  \/ GatherRows \/ GatherDone \/ EnqueueMetadata \/ LaunchRefused \/ Classify
  \/ PrefixStep \/ PrefixDone \/ CountTiles \/ Launch

BlockStep(b) == StartBlock(b) \/ SearchStep(b) \/ FinishBlock(b)

Next ==
  \/ HostStep
  \/ \E e \in Expert : Metadata(e)
  \/ \E b \in Block : BlockStep(b)
  \/ Terminated

Spec == Init /\ [][Next]_vars

(* The host runs on, an enqueued kernel runs, and the hardware dispatches  *)
(* every block of a grid and keeps a resident one going.                   *)
Fairness ==
  /\ WF_vars(HostStep)
  /\ \A e \in Expert : WF_vars(Metadata(e))
  /\ WF_vars(\E b \in Block : BlockStep(b))

FairSpec == Spec /\ Fairness
-----------------------------------------------------------------------------
(* Properties.                                                             *)

BlockState == [pc : {"ready", "search", "tile", "idle", "stored"},
               lo : Expert, hi : 1 .. NumExperts]

(* No search leaves the prefix array, no decode leaves the experts.        *)
TypeOK ==
  /\ rows \in [Expert -> Int] /\ totalRows \in Nat /\ splitk \in Nat \ {0}
  /\ force3d \in BOOLEAN /\ deviceOnly \in BOOLEAN
  /\ pc \in {"gather", "metadata", "launch", "prefix", "grid", "launched", "refused"}
  /\ cursor \in 0 .. NumExperts
  /\ offsets \in [0 .. NumExperts -> Nat]
  /\ maxRows \in Nat /\ mtilesUniform \in Nat /\ total \in Nat
  /\ grid \in [x : Nat, y : Nat, z : Nat]
  /\ shapes \in [Expert -> Nat \cup {Unset}]
  /\ prefix \in [0 .. NumExperts -> Nat]
  /\ block \in [Block -> BlockState]

(* Every step of a block's binary search keeps its flat index between the  *)
(* two prefix entries it has narrowed to, empty experts and the last       *)
(* expert included: the search ends at the one expert that has the tile.   *)
SearchBracketsTile ==
  \A b \in Block : Flat /\ block[b].pc # "ready" =>
    prefix[block[b].lo] <= b[1] /\ b[1] < prefix[block[b].hi]

Stored == {b \in Block : block[b].pc = "stored"}

(* The rows of the concatenated output a block's tile covers.              *)
RowsOf(b) ==
  {offsets[ExpertOf(b)] + r :
     r \in {q \in 0 .. shapes[ExpertOf(b)] - 1 : q \div TileM = MTileOf(b)}}

(* What a block stores: output rows of one column tile in one K-slice.     *)
CellsOf(b) == {<<r, b[2], PlaneOf(b) \div NumExperts>> : r \in RowsOf(b)}

(* No element of any partial output is stored by two blocks: the flat and  *)
(* the 3D decode of (expert, M-tile, slice) are one to one.                *)
NoOutputStoredTwice ==
  \A b, c \in Stored : b # c => CellsOf(b) \cap CellsOf(c) = {}

(* A block stores into the D plane of the expert whose weights it used,    *)
(* and only into that expert's rows: a ragged neighbour is never touched.  *)
StoresOwnExpertRows ==
  \A b \in Stored :
    /\ PlaneOf(b) % NumExperts = ExpertOf(b)
    /\ RowsOf(b) # {}
    /\ \A r \in RowsOf(b) : offsets[ExpertOf(b)] <= r /\ r < offsets[ExpertOf(b) + 1]

(* When the grid has drained, every element of every row has exactly the   *)
(* K-tiles 0 .. KTiles-1 accumulated over its slices, each one once.       *)
EveryOutputComplete ==
  Finished =>
    \A r \in 0 .. totalRows - 1, n \in 0 .. N - 1, k \in 0 .. KTiles - 1 :
      Cardinality({b \in Stored : /\ r \in RowsOf(b) /\ b[2] = n \div TileN
                                  /\ k \in KTilesOf(b)}) = 1

(* A slice never walks past the last K-tile: the host refuses a split that *)
(* does not divide them, since the kernel's count is a ceil.               *)
SlicesStayInK ==
  \A b \in Stored : KTilesOf(b) \subseteq 0 .. KTiles - 1

(* "Every block maps to a REAL tile of some expert -> no idle blocks": the *)
(* flat grid launches no block that exits early.                           *)
FlatGridHasNoIdleBlock ==
  Flat => \A b \in Block : block[b].pc # "idle"

(* A call is refused or all of its blocks end.                             *)
CallEnds == <>(pc = "refused" \/ Finished)
-----------------------------------------------------------------------------
(* The inductive invariant behind them: what the host's loops have built   *)
(* so far, and what every block has derived from it.                       *)

Gathered(e) == pc = "gather" => e < cursor
Summed(e)   == pc = "prefix" => e < cursor
Classified  == pc \in {"prefix", "grid", "launched"}

Routes ==
  /\ deviceOnly => pc \notin {"gather", "prefix"} /\ maxRows >= 1
  /\ ~deviceOnly => pc # "metadata"
  /\ Classified => mtilesUniform = Hint /\ SplitDivides
  /\ pc = "prefix" => Flat

(* The offsets are the running sum of counts that are not negative, and    *)
(* the maximum is one of the counts.                                       *)
OffsetsAreSums ==
  deviceOnly \/ pc # "refused" =>
    /\ offsets[0] = 0
    /\ \A e \in Expert :
         Gathered(e) => rows[e] \in Nat /\ offsets[e + 1] = offsets[e] + rows[e]
    /\ \A i, j \in 0 .. NumExperts :
         i <= j /\ (pc = "gather" => j <= cursor) => offsets[i] <= offsets[j]

MaxRowsIsMax ==
  ~deviceOnly /\ pc # "refused" =>
    /\ \A e \in Expert : Gathered(e) => rows[e] <= maxRows
    /\ \/ \E e \in Expert : Gathered(e) /\ rows[e] = maxRows
       \/ pc = "gather" /\ maxRows = 0

ShapesAreRows ==
  /\ deviceOnly \/ pc # "refused" => \A e \in Expert : shapes[e] \in {Unset, rows[e]}
  /\ ~deviceOnly /\ pc \notin {"gather", "refused"} => shapes = rows

(* The prefix is the running sum of M-tiles, and the grid as long as it.   *)
PrefixIsSum ==
  /\ prefix[0] = 0
  /\ pc \in {"gather", "metadata", "launch", "prefix"} => total = 0
  /\ Classified /\ Flat => \A e \in Expert :
       Summed(e) => prefix[e + 1] = prefix[e] + MTiles(e)
  /\ pc = "grid" /\ Flat => total = prefix[cursor]

GridFitsDecode ==
  IF pc # "launched" THEN grid = NoGrid
  ELSE /\ grid.y = NTiles
       /\ Flat => grid.x = 0 \/ (grid.x = prefix[NumExperts] /\ grid.z = splitk)
       /\ ~Flat => grid.z = NumExperts * splitk

BlockInv(b) ==
  IF block[b].pc = "ready" THEN block[b].lo = 0 /\ block[b].hi = NumExperts
  ELSE /\ \A e \in Expert : shapes[e] # Unset
       /\ IF Flat THEN /\ block[b].lo < block[b].hi
                       /\ prefix[block[b].lo] <= b[1] /\ b[1] < prefix[block[b].hi]
                       /\ block[b].pc # "search" => block[b].hi = block[b].lo + 1
                  ELSE block[b].pc # "search" /\ block[b].lo = ExpertOfZ(b)
       /\ block[b].pc = "stored" => ~Idle(b)
       /\ block[b].pc = "idle" => Idle(b)

GroupInv ==
  /\ TypeOK
  /\ Routes
  /\ OffsetsAreSums
  /\ MaxRowsIsMax
  /\ ShapesAreRows
  /\ PrefixIsSum
  /\ GridFitsDecode
  /\ \A b \in Block : BlockInv(b)
=============================================================================
