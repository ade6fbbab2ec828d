--------------------------- MODULE XplaneArtifact ---------------------------
(***************************************************************************)
(* The dense artifact: native code planes [N, K] are placed where the      *)
(* tensor-core kernel's delivery wants them, and taken back. The place is  *)
(* not written down but composed: the register a code is delivered in, the *)
(* fp16 the converter makes of it there, and the element of B the fragment *)
(* has at that fp16. The high plane's place is composed with the low one's *)
(* pairing. A reader off the tensor cores addresses the same bytes by a    *)
(* permutation of coordinate bits. A plane's content is symbolic: pairs of *)
(* an address and the code <<n, k>> put there. The thirty-two lanes are    *)
(* eight rows of four; a lane's row is the same in the register, the       *)
(* fragment and the address, and one of the eight is followed.             *)
(***************************************************************************)
EXTENDS KQuantLayout, CodeConverter

CONSTANTS
  TileReqs,   \* calls: [q, tile, n, k, high], tile 0 for the fixed entries
  LaneRow     \* bound: the row of lanes that is followed

ASSUME LaneRowAssumption == LaneRow \in 0 .. 7

VARIABLES
  tileReq,    \* the call; high: are there pointers to the high plane
  tilePc,     \* "call", "low", "high", "placed", "low back", "high back", "returned"
  tileRc,     \* the returned code
  placedAt,   \* plane -> pairs of an address and a code
  taken       \* plane -> the codes the inverse puts back

xplaneVars == <<tileReq, tilePc, tileRc, placedAt, taken>>
-----------------------------------------------------------------------------
(* The producer's geometry: two warps in N, wide enough to deliver every   *)
(* fold.                                                                   *)
PlaneFold(f, p, tile) == FoldFor(Quant[f][p], tile)
MaxFold(f, tile) ==
  LET folds == {PlaneFold(f, p, tile) : p \in Planes(f)}
  IN  CHOOSE m \in folds : \A x \in folds : x <= m
WarpN(f, tile) == IF MaxFold(f, tile) > 2 THEN 16 * MaxFold(f, tile) ELSE 32
TileN(f, tile) == 2 * WarpN(f, tile)
Deliveries(f, p, tile) == (PlaneFold(f, p, tile) * tile * Quant[f][p]) \div 256
Instances(f, p, tile) == TileN(f, tile) \div (32 * PlaneFold(f, p, tile))

(* The swizzled load gives register v of a lane word (v%2, column) of row  *)
(* (v/2, lane row) of its cube; the fragment's fp16s are eight to an atom, *)
(* the atoms along K first.                                                *)
Columns4 == 0 .. 3
Slot(inst, dl, warp, v, column, j) ==
  [row |-> 32 * inst + 16 * warp + 8 * (v \div 2) + LaneRow, dl |-> dl,
   word |-> 4 * (v % 2) + column, code |-> j]
FragmentElement(tile, warp, column, flat) ==
  LET value == flat % 8
      atom == flat \div 8
      atoms == tile \div 16
  IN  <<16 * (2 * (atom \div atoms) + warp) + 8 * (value \div 4) + LaneRow,
        16 * (atom % atoms) + 2 * column + (value % 2) + 8 * ((value \div 2) % 2)>>

(* plane_map, and tile_map_hi: the pairing is the converter's.             *)
LowElement(f, tile, inst, dl, warp, v, column, j) ==
  LET bits == Quant[f].low
  IN  FragmentElement(tile, warp, column,
        (inst * Deliveries(f, "low", tile) + dl) * Outputs(bits) + EmitIndex(bits, j, v))

PlaneMap(f, tile) ==
  {<<Slot(inst, dl, warp, v, c, j), LowElement(f, tile, inst, dl, warp, v, c, j)>> :
     inst \in 0 .. Instances(f, "low", tile) - 1, dl \in 0 .. Deliveries(f, "low", tile) - 1,
     warp \in {0, 1}, v \in Vregs, c \in Columns4, j \in 0 .. CodesPerVreg(Quant[f].low) - 1}

CopySteps(f, tile) ==
  LET d == Deliveries(f, "low", tile) \div Deliveries(f, "high", tile) IN IF d = 0 THEN 1 ELSE d
TileMapHigh(f, tile) ==
  LET low == Quant[f].low
      high == Quant[f].high
      slots == Instances(f, "high", tile)
      steps == CopySteps(f, tile)
      Base(ii, kb) == HiBase(ii, kb, slots, steps)
  IN  {<<Slot(HiSlot(ii, slots), (kb \div steps) % Deliveries(f, "high", tile), warp,
              Base(ii, kb) + HiVreg(low, high, v), c, HiCode(low, high, t, v, half)),
         LowElement(f, tile, ii, kb % Deliveries(f, "low", tile), warp, v, c, LoCode(low, t, half))>> :
         ii \in 0 .. Instances(f, "low", tile) - 1, kb \in 0 .. steps - 1, warp \in {0, 1},
         v \in Vregs, c \in Columns4, t \in Pairs(low), half \in Halves}

MapOf(f, p, tile) == IF p = "low" THEN PlaneMap(f, tile) ELSE TileMapHigh(f, tile)

(* place_from_map: a slot of tile <<tn, ki>>. Unfolded, the tiles of 256   *)
(* along K share a row; folded, they are planes of N / fold rows.          *)
DestFlat(f, p, tile, n, tn, ki, s) ==
  8 * CodesPerVreg(Quant[f][p]) * s.dl + tile * (ki % (256 \div tile))
    + 256 * (s.row + TileN(f, tile) * tn + n * (ki \div (256 \div tile)))
DestFold(f, p, tile, n, tn, ki, s) ==
  LET fold == PlaneFold(f, p, tile)
      runs == Quant[f][p]
  IN  8 * CodesPerVreg(runs) * (ki % runs)
        + 256 * (s.row + (TileN(f, tile) \div fold) * tn + (n \div fold) * (ki \div runs))
Dest(f, p, tile, n, tn, ki, s) ==
  (IF PlaneFold(f, p, tile) > 1 THEN DestFold(f, p, tile, n, tn, ki, s)
   ELSE DestFlat(f, p, tile, n, tn, ki, s))
    + CodesPerVreg(Quant[f][p]) * s.word + s.code

PlacedPlane(f, p, tile, n, k) ==
  {<<Dest(f, p, tile, n, tn, ki, m[1]), <<tn * TileN(f, tile) + m[2][1], ki * tile + m[2][2]>>>> :
     tn \in 0 .. n \div TileN(f, tile) - 1, ki \in 0 .. k \div tile - 1, m \in MapOf(f, p, tile)}

(* A code is put with OR and read with the same walk.                      *)
Addresses(pairs) == {x[1] : x \in pairs}
Recovered(pairs) ==
  IF Cardinality(Addresses(pairs)) = Cardinality(pairs) THEN {x[2] : x \in pairs} ELSE {}
-----------------------------------------------------------------------------
ReqTile == IF tileReq.tile = 0 THEN FixedTile(tileReq.q) ELSE tileReq.tile
TwoPlanes == Quant[tileReq.q].high # 0

XplaneInit ==
  /\ tileReq \in TileReqs
  /\ tilePc = "call" /\ tileRc = 0
  /\ placedAt = [p \in {"low", "high"} |-> {}]
  /\ taken = [p \in {"low", "high"} |-> {}]

Return(rc) == tilePc' = "returned" /\ tileRc' = rc

(* The guards, in order; a refused call writes nothing.                    *)
TileDispatch ==
  /\ tilePc = "call"
  /\ IF tileReq.n <= 0 \/ tileReq.k <= 0 \/ tileReq.n % 256 # 0 \/ tileReq.k % 256 # 0 THEN Return(20)
     ELSE IF tileReq.tile # 0 /\ (~TileCase(tileReq.q, tileReq.tile) \/ tileReq.k % tileReq.tile # 0)
     THEN Return(23)
     ELSE tilePc' = "low" /\ UNCHANGED tileRc
  /\ UNCHANGED <<tileReq, placedAt, taken>>

Place(p) == placedAt' = [placedAt EXCEPT ![p] = PlacedPlane(tileReq.q, p, ReqTile, tileReq.n, tileReq.k)]
PlaceLow ==
  /\ tilePc = "low"
  /\ Place("low")
  /\ tilePc' = IF TwoPlanes THEN "high" ELSE "placed"
  /\ UNCHANGED <<tileReq, tileRc, taken>>

(* The high pointers are looked at when the low plane is already written.  *)
PlaceHigh ==
  /\ tilePc = "high"
  /\ IF tileReq.high THEN Place("high") /\ tilePc' = "placed" /\ UNCHANGED tileRc
                     ELSE Return(21) /\ UNCHANGED placedAt
  /\ UNCHANGED <<tileReq, taken>>

TakeBack(p) == taken' = [taken EXCEPT ![p] = Recovered(placedAt[p])]
RecoverLow ==
  /\ tilePc = "placed"
  /\ TakeBack("low")
  /\ IF TwoPlanes THEN tilePc' = "high back" /\ UNCHANGED tileRc ELSE Return(0)
  /\ UNCHANGED <<tileReq, placedAt>>
RecoverHigh ==
  /\ tilePc = "high back"
  /\ TakeBack("high") /\ Return(0)
  /\ UNCHANGED <<tileReq, placedAt>>

Returned == tilePc = "returned" /\ UNCHANGED xplaneVars

XplaneNext == TileDispatch \/ PlaceLow \/ PlaceHigh \/ RecoverLow \/ RecoverHigh \/ Returned
XplaneSpec == XplaneInit /\ [][XplaneNext]_xplaneVars
-----------------------------------------------------------------------------
(* The reader of the merged artifact: logical bit i, of n within 64 and k  *)
(* within the tile, becomes a physical bit. Bits not listed stay.          *)
BcTileK(f) == IF f = "Q6_K" THEN 128 ELSE 256
LowBitTo ==
  [f \in Formats |-> IF Quant[f].low = 2 THEN <<3, 4, 5, 0, 1, 2, 6>> ELSE <<2, 3, 4, 0, 1, 5, 6>>]
HighBitTo ==
  [Q3_K |-> <<4, 5, 6, 0, 1, 2, 3>>,
   Q5_K |-> <<4, 5, 6, 0, 1, 2, 7, 11, 8, 9, 10, 3>>,
   Q6_K |-> <<3, 4, 5, 0, 1, 2, 6>>]
(* Both halves of a relative address, by the lower seven logical bits and  *)
(* by the others.                                                          *)
RelativeTable ==
  LET To(f, p, i) ==
        LET t == IF p = "low" THEN LowBitTo[f] ELSE HighBitTo[f]
        IN  IF i < Len(t) THEN t[i + 1] ELSE i
      Moved(f, p, x, first) ==
        LET sum[i \in 0 .. 7] ==
              IF i = 0 THEN 0 ELSE sum[i - 1] + Bit(x, i - 1) * 2 ^ To(f, p, first + i - 1)
        IN  sum[7]
  IN  [f \in Formats |-> [p \in Planes(f) |-> [half \in {0, 7} |-> [x \in 0 .. 127 |-> Moved(f, p, x, half)]]]]
Relative(f, p, x) == RelativeTable[f][p][0][x % 128] + RelativeTable[f][p][7][x \div 128]

(* Q6_K's two tiles of a row of 256 open a bit for themselves.             *)
PhysicalCodeOneTile(f, p, n, k, cols) ==             \* mutant: no bit is opened for the second tile
  LET tile == BcTileK(f)
  IN  (k \div tile) * cols * tile + (n \div 64) * 64 * tile
        + Relative(f, p, (n % 64) * tile + (k % tile))
PhysicalCode(f, p, n, k, cols) ==
  LET tile == BcTileK(f)
      kt == k \div tile
      rel == Relative(f, p, (n % 64) * tile + (k % tile))
      at == (n \div 64) * 64 * 256
  IN  IF tile = 128
      THEN (kt \div 2) * cols * 256 + at + (rel % 128) + 2 * (rel - (rel % 128)) + 128 * (kt % 2)
      ELSE kt * cols * 256 + at + rel

(* q4_group reads 16 bytes for a group and permutes the activation: code   *)
(* p of them belongs to the group's element p%4 * 8 + p/4.                 *)
GroupOrder(p) == 8 * (p % 4) + p \div 4
GroupIsOneRun(n, g, cols) ==
  LET first == PhysicalCode("Q4_K", "low", n, 32 * g, cols)
  IN  /\ first % 8 = 0
      /\ \A p \in 0 .. 31 : PhysicalCode("Q4_K", "low", n, 32 * g + GroupOrder(p), cols) = first + p

BcReadsAll ==
  \A p \in Planes(tileReq.q) : \A x \in placedAt[p] :
    x[1] = PhysicalCode(tileReq.q, p, x[2][1], x[2][2], tileReq.n)
-----------------------------------------------------------------------------
Native(n, k) == {c \in 0 .. n - 1 : c % 8 = LaneRow} \X (0 .. k - 1)
Complete(pairs, n, k) ==
  /\ {x[2] : x \in pairs} = Native(n, k)
  /\ Cardinality(Addresses(pairs)) = Cardinality(pairs)
  /\ Cardinality(pairs) = Cardinality(Native(n, k))
  /\ Addresses(pairs) \subseteq 0 .. n * k - 1

(* Every tile the entries accept places each code of each plane once, and  *)
(* the inverse returns all of them; a tile they refuse has no geometry or  *)
(* a high plane that cannot hold every code. The bit permutations of the   *)
(* merged reader find every code exactly where a tile agrees with the      *)
(* fixed arrangement (xplane_offline.hpp 141-152, gguf_bc_vecdot.hpp 4-12, *)
(* ppu_dense_layout.cu 99-101).                                            *)
PlacedAsRead ==
  LET f == tileReq.q
      n == tileReq.n
      k == tileReq.k
  IN  /\ tilePc = "placed" =>
           /\ \A p \in Planes(f) : Complete(placedAt[p], n, k)
           /\ WarpN(f, ReqTile) <= 64
           /\ BcReadsAll <=> SameBytes(f, ReqTile, FixedTile(f))
           /\ f = "Q4_K" => \A g \in 0 .. k \div 32 - 1 : GroupIsOneRun(64 + LaneRow, g, n)
      /\ tilePc = "returned" /\ tileRc = 0 => \A p \in Planes(f) : taken[p] = Native(n, k)
      /\ tileRc = 23 /\ tileReq.tile \in {32, 64, 128, 256} /\ k % tileReq.tile = 0 =>
           \/ WarpN(f, tileReq.tile) > 64
           \/ TwoPlanes /\ ~Complete(PlacedPlane(f, "high", tileReq.tile, n, k), n, k)
      /\ tileRc \in {20, 23} => placedAt = [p \in {"low", "high"} |-> {}]
=============================================================================
