--------------------------- MODULE KQuantLayout ---------------------------
(***************************************************************************)
(* Where the bits of a GGUF K-quant superblock are: in the official block, *)
(* in the reordered metadata unit and in the K-pack code planes. An        *)
(* address is a bit number; a field is the sequence of the addresses of    *)
(* its bits, least significant first. The repository states the official   *)
(* block twice, as layouts (gguf_scale_layout.hpp) and as byte arithmetic  *)
(* (gguf_kpack.py). Both statements are here; the names of the second      *)
(* start with Ref.                                                         *)
(***************************************************************************)
EXTENDS Integers, Sequences

QK == 256                                    \* codes per superblock

(* One row per format: raw block bytes, plane widths, codes per group and  *)
(* groups, metadata widths, and the byte offsets of the block's parts      *)
(* (-1: none).                                                             *)
Quant ==
  [Q2_K |-> [raw |-> 84, low |-> 2, high |-> 0, group |-> 16, groups |-> 16,
             scaleBits |-> 4, minBits |-> 4, scaleOff |-> 0, dOff |-> 80,
             dminOff |-> 82, loOff |-> 16, hiOff |-> -1],
   Q3_K |-> [raw |-> 110, low |-> 2, high |-> 1, group |-> 16, groups |-> 16,
             scaleBits |-> 6, minBits |-> 0, scaleOff |-> 96, dOff |-> 108,
             dminOff |-> -1, loOff |-> 32, hiOff |-> 0],
   Q4_K |-> [raw |-> 144, low |-> 4, high |-> 0, group |-> 32, groups |-> 8,
             scaleBits |-> 6, minBits |-> 6, scaleOff |-> 4, dOff |-> 0,
             dminOff |-> 2, loOff |-> 16, hiOff |-> -1],
   Q5_K |-> [raw |-> 176, low |-> 4, high |-> 1, group |-> 32, groups |-> 8,
             scaleBits |-> 6, minBits |-> 6, scaleOff |-> 4, dOff |-> 0,
             dminOff |-> 2, loOff |-> 48, hiOff |-> 16],
   Q6_K |-> [raw |-> 210, low |-> 4, high |-> 2, group |-> 16, groups |-> 16,
             scaleBits |-> 8, minBits |-> 0, scaleOff |-> 192, dOff |-> 208,
             dminOff |-> -1, loOff |-> 0, hiOff |-> 128]]

Formats == DOMAIN Quant
HasMin(f) == Quant[f].minBits # 0
Fields(f) == IF HasMin(f) THEN {"scale", "min"} ELSE {"scale"}
Planes(f) == IF Quant[f].high = 0 THEN {"low"} ELSE {"low", "high"}
Groups(f) == 0 .. Quant[f].groups - 1
Codes == 0 .. QK - 1

At(byte, shift) == 8 * byte + shift
Field(at, width) == [b \in 1 .. width |-> at + b - 1]
BitsOf(field) == {field[b] : b \in DOMAIN field}
-----------------------------------------------------------------------------
(* The official block as layouts: a group, or a word of four codes, is     *)
(* split into the digits of the nested coordinate the layout is affine in. *)
ScaleFieldSwapped(f, g) ==   \* mutant: the strides of Q3_K's two quarter digits swapped
  LET s == Quant[f].scaleOff
      t == (g % 4)
      q == g \div 4
  IN  Field(At(s + t + 4 * (q % 2), 4 * (q \div 2)), 4)
        \o Field(At(s + 8 + t, 4 * (q % 2) + 2 * (q \div 2)), 2)
ScaleField(f, g) ==
  LET s == Quant[f].scaleOff
      t == (g % 4)
      q == g \div 4
  IN  IF f \in {"Q4_K", "Q5_K"}
      THEN Field(At(s + t + 8 * q, 0), 4) \o Field(At(s + t, 4 + 2 * q), 2)
      ELSE IF f = "Q3_K"
      THEN Field(At(s + t + 4 * (q % 2), 4 * (q \div 2)), 4)
             \o Field(At(s + 8 + t, 2 * (q % 2) + 4 * (q \div 2)), 2)
      ELSE Field(At(s + g, 0), Quant[f].scaleBits)

MinField(f, g) ==
  LET s == Quant[f].scaleOff
      t == (g % 4)
      h == g \div 4
  IN  IF f = "Q2_K" THEN Field(At(s + g, 4), 4)
      ELSE Field(At(s + 4 + t + 4 * h, 4 * h), 4) \o Field(At(s + 4 + t, 4 + 2 * h), 2)

MetaField(f, g, which) == IF which = "scale" THEN ScaleField(f, g) ELSE MinField(f, g)

LowCode(f, i) ==
  LET g == i \div Quant[f].group
      w == (i % Quant[f].group) \div 4
      at == Quant[f].loOff + 4 * w + (i % 4)
  IN  IF Quant[f].low = 2
      THEN Field(At(at + 16 * (g % 2) + 32 * (g \div 8), 2 * ((g \div 2) % 4)), 2)
      ELSE IF f = "Q6_K"
      THEN Field(At(at + 16 * (g % 2) + 32 * ((g \div 2) % 2) + 64 * (g \div 8),
                    4 * ((g \div 4) % 2)), 4)
      ELSE Field(At(at + 32 * (g \div 2), 4 * (g % 2)), 4)

HighCode(f, i) ==
  LET g == i \div Quant[f].group
      w == (i % Quant[f].group) \div 4
      at == Quant[f].hiOff + 4 * w + (i % 4)
  IN  IF f = "Q3_K"
      THEN Field(At(at + 16 * (g % 2), ((g \div 2) % 4) + 4 * (g \div 8)), 1)
      ELSE IF f = "Q5_K"
      THEN Field(At(at, (g % 2) + 2 * (g \div 2)), 1)
      ELSE Field(At(at + 16 * (g % 2) + 32 * (g \div 8),
                    2 * ((g \div 2) % 2) + 4 * ((g \div 4) % 2)), 2)

CodeField(f, i, plane) == IF plane = "low" THEN LowCode(f, i) ELSE HighCode(f, i)
-----------------------------------------------------------------------------
(* The official block as byte arithmetic.                                  *)
RefScaleField(f, g) ==
  LET p == Quant[f].scaleOff
  IN  IF f = "Q2_K" THEN Field(At(p + g, 0), 4)
      ELSE IF f = "Q3_K"
      THEN Field(At(p + (g % 8), 4 * (g \div 8)), 4) \o Field(At(p + 8 + (g % 4), 2 * (g \div 4)), 2)
      ELSE IF f = "Q6_K" THEN Field(At(p + g, 0), 8)
      ELSE Field(At(p + (g % 4) + 8 * (g \div 4), 0), 4)
             \o Field(At(p + (g % 4), 4 + 2 * (g \div 4)), 2)

RefMinField(f, g) ==
  LET p == Quant[f].scaleOff
  IN  IF f = "Q2_K" THEN Field(At(p + g, 4), 4)
      ELSE Field(At(p + 4 + (g % 4) + 4 * (g \div 4), 4 * (g \div 4)), 4)
             \o Field(At(p + 4 + (g % 4), 4 + 2 * (g \div 4)), 2)

RefMetaField(f, g, which) == IF which = "scale" THEN RefScaleField(f, g) ELSE RefMinField(f, g)

RefCodeField(f, i, plane) ==
  LET g == i \div Quant[f].group
      j == i % Quant[f].group
      p == (g % 2)
      q == (g \div 2) % 2
      n == (g \div 4) % 2
      h == g \div 8
      low == IF f \in {"Q2_K", "Q3_K"}
             THEN Field(At(Quant[f].loOff + j + 16 * p + 32 * h, 2 * ((g \div 2) % 4)), 2)
             ELSE IF f = "Q6_K" THEN Field(At(j + 16 * p + 32 * q + 64 * h, 4 * n), 4)
             ELSE Field(At(Quant[f].loOff + j + 32 * (g \div 2), 4 * p), 4)
      high == IF f = "Q3_K" THEN Field(At(j + 16 * p, ((g \div 2) % 4) + 4 * h), 1)
              ELSE IF f = "Q5_K" THEN Field(At(16 + j, g), 1)
              ELSE Field(At(128 + j + 16 * p + 32 * h, 2 * q + 4 * n), 2)
  IN  IF plane = "low" THEN low ELSE high
-----------------------------------------------------------------------------
(* The metadata unit: one or two superblocks of a column, each its header  *)
(* and then runs of groups, scales before mins within a run.               *)
HeaderBytes(f) == IF HasMin(f) THEN 4 ELSE 2
SbBytes(f) ==
  HeaderBytes(f) + (Quant[f].groups * (Quant[f].scaleBits + Quant[f].minBits)) \div 8
SbPerUnit(f) == IF SbBytes(f) % 4 = 0 THEN 1 ELSE 2
UnitBytes(f) == SbPerUnit(f) * SbBytes(f)
RunGroups(f) == IF HasMin(f) THEN Quant[f].groups \div 2 ELSE Quant[f].groups
RunBits(f) == RunGroups(f) * (Quant[f].scaleBits + Quant[f].minBits)
Width(f, which) == IF which = "scale" THEN Quant[f].scaleBits ELSE Quant[f].minBits

BitOfInterleaved(f, g, which) ==     \* mutant: mins not moved behind the run's scales
  8 * HeaderBytes(f) + (g % RunGroups(f)) * Width(f, which) + (g \div RunGroups(f)) * RunBits(f)
BitOf(f, g, which) ==
  8 * HeaderBytes(f)
    + (IF which = "min" THEN RunGroups(f) * Quant[f].scaleBits ELSE 0)
    + (g % RunGroups(f)) * Width(f, which) + (g \div RunGroups(f)) * RunBits(f)

UnitField(f, g, which) == Field(BitOf(f, g, which), Width(f, which))

(* The bytes code_of touches, and the 32-bit words code_from_words does:   *)
(* the second one only when the field straddles.                           *)
CodeOfBytesAlwaysTwo(f, g, which) ==             \* mutant: an unconditional second read
  {BitOf(f, g, which) \div 8, BitOf(f, g, which) \div 8 + 1}
CodeOfBytes(f, g, which) ==
  LET bit == BitOf(f, g, which)
  IN  {bit \div 8} \cup IF (bit % 8) + Width(f, which) > 8 THEN {bit \div 8 + 1} ELSE {}

WordsOfField(f, g, which, words) ==
  LET bit == BitOf(f, g, which)
      w == bit \div 32
  IN  {w} \cup IF bit % 32 > 32 - Width(f, which) /\ w + 1 < words THEN {w + 1} ELSE {}
-----------------------------------------------------------------------------
(* The tile arrangement of a dense artifact is chosen by ArtifactTileK. A  *)
(* delivery is 32 bytes: a plane too thin for one run per column folds.    *)
FoldFor(bits, tile) ==
  LET run == (tile * bits) \div 8 IN IF run >= 32 THEN 1 ELSE 32 \div run
(* scale_first_tile_k of the format registry, the fixed arrangement.       *)
FixedTile(f) ==
  CASE f = "Q4_K" -> 64 [] f \in {"Q2_K", "Q6_K"} -> 128 [] f \in {"Q3_K", "Q5_K"} -> 256
(* tile_dispatch: the rows that are instantiated.                          *)
TileCaseWithQ6(f, tile) ==                       \* mutant: TileK 256 for Q6_K too
  tile \in {32, 64, 128, 256} /\ (tile = 32 => f \notin {"Q3_K", "Q5_K"})
TileCase(f, tile) ==
  /\ tile \in {32, 64, 128, 256}
  /\ tile = 32 => f \notin {"Q3_K", "Q5_K"}
  /\ tile = 256 => f # "Q6_K"
(* Two tiles without a fold place every code alike.                        *)
TileFree(f, tile) == \A p \in Planes(f) : FoldFor(Quant[f][p], tile) = 1
SameBytes(f, x, y) == x = y \/ (TileFree(f, x) /\ TileFree(f, y))
-----------------------------------------------------------------------------
(* K-pack: a plane is a tensor of 16-bit words [K / Pack, N]; a word holds *)
(* Pack codes of one column that are eight apart in K.                     *)
Pack(bits) == 16 \div bits
PlacedGroup(k, pack) == (k \div (8 * pack)) * 8 + (k % 8)
PlacedSlot(k, pack) == (k % (8 * pack)) \div 8

WordsPerExpert(n, k, bits) == (k \div Pack(bits)) * n

PlacedAt(e, col, k, N, K, bits) ==
  LET word == e * WordsPerExpert(N, K, bits) + PlacedGroup(k, Pack(bits)) * N + col
  IN  16 * word + bits * PlacedSlot(k, Pack(bits))

(* Q5_K's one-bit high plane transposes three coordinate bits on the way.  *)
Bit(x, b) == (x \div (2 ^ b)) % 2
TransposedKeepsColumn(e, col, k, N, K) ==        \* mutant: column bit 3 stays in the column
  LET group == (k \div 256) * 16 + 8 * Bit(k, 6) + (k % 8)
      slot == 8 * Bit(col, 3) + ((k \div 8) % 8)
  IN  16 * (e * WordsPerExpert(N, K, 1) + group * N + col) + slot
TransposedAt(e, col, k, N, K) ==
  LET column == 16 * (col \div 16) + (col % 8) + 8 * Bit(k, 7)
      group == (k \div 256) * 16 + 8 * Bit(k, 6) + (k % 8)
      slot == 8 * Bit(col, 3) + ((k \div 8) % 8)
  IN  16 * (e * WordsPerExpert(N, K, 1) + group * N + column) + slot
=============================================================================
