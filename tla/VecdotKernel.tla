---------------------------- MODULE VecdotKernel ----------------------------
(***************************************************************************)
(* The kernels that multiply raw GGUF blocks (native), or a resident       *)
(* artifact (bc), by activations without unpacking them: a warp owns a few *)
(* output rows, a lane some groups of a row, and the lanes of a row are    *)
(* summed by a butterfly. A behaviour is one warp of one launch; its lanes *)
(* are in step. Numbers are symbolic: a lane's sum is the set of the group *)
(* products added into it, a butterfly counts how often each lane's sum is *)
(* in another's, and a code is the bits of the block it is made of.        *)
(***************************************************************************)
EXTENDS KQuantLayout, CodeConverter, SequencesExt

CONSTANTS
  Extents,      \* pairs of output rows and blocks per row
  RowOffsets    \* the grouped launches' row offsets, a tuple of experts + 1

ASSUME VecdotAssumption ==
  /\ Extents \subseteq (Nat \ {0}) \X (Nat \ {0})
  /\ RowOffsets \subseteq Seq(Nat)
  /\ \A o \in RowOffsets : \A e \in 1 .. Len(o) - 1 : o[1] = 0 /\ o[e] <= o[e + 1]

VARIABLES
  launch,   \* kernel, type, contract, rows, blocks per row, offsets; and the warp's grid coordinates
  pc,       \* "blocks", "sum", "store" or "stored"
  block,    \* the iteration of the loop over the row's blocks
  off,      \* the distance of the butterfly's next exchange
  acc,      \* lane -> the products it added into lane_acc
  share,    \* lane -> lane -> how often the second's products are in the first's lane_acc
  rowOut    \* row_out: address -> the share stored there

kernelVars == <<launch, pc, block, off, acc, share, rowOut>>

T == launch.type
Bc == launch.kernel = "bc"
(* Groups of 32 are taken in pairs, by the artifact's kernel for Q4_K only. *)
Wide == T = "Q4_K" \/ (T = "Q5_K" /\ ~Bc)
Lanes == 0 .. 31
-----------------------------------------------------------------------------
(* Launch.                                                                 *)
NativeRowsPerWarp(type, rows, blocks) ==
  CASE type \in {"Q2_K", "Q6_K"} -> 2
    [] type = "Q3_K" -> IF rows >= 65536 /\ blocks <= 8 THEN 4 ELSE 2
    [] type = "Q4_K" -> IF rows <= 2048 THEN 2 ELSE IF rows * blocks >= 786432 THEN 4 ELSE 8
    [] type = "Q5_K" -> IF rows <= 2048 /\ blocks >= 8 THEN 2 ELSE 8
BcRowsPerWarp(type, rows, blocks) ==
  IF type = "Q4_K" THEN IF rows <= 2048 THEN 4 ELSE 8 ELSE NativeRowsPerWarp(type, rows, blocks)
RowsPerWarp(kernel, type, rows, blocks) ==
  IF kernel = "bc" THEN BcRowsPerWarp(type, rows, blocks) ELSE NativeRowsPerWarp(type, rows, blocks)
Threads(kernel, type, perWarp) ==
  IF kernel = "bc" /\ type = "Q4_K" /\ perWarp = 4 THEN 128 ELSE 256

Ceil(a, b) == (a + b - 1) \div b
GridSize(rows, perWarp, threads) == Ceil(Ceil(rows, perWarp), threads \div 32)
LastWarp(rows, perWarp, threads) == GridSize(rows, perWarp, threads) * (threads \div 32) - 1

(* The entry of the artifact's kernel: whole tiles and whole units.        *)
BcAccepts(type, e) == e[1] % 256 = 0 /\ e[2] % SbPerUnit(type) = 0

(* grid.y is the widest expert's rows, grid.z the experts. Three warps are *)
(* watched: the first, the one of the last row and the last of the grid.   *)
Launches ==
  LET Watch(kernel, type, e) ==
        LET perWarp == RowsPerWarp(kernel, type, e[1], e[2])
        IN  {0, (e[1] - 1) \div perWarp, LastWarp(e[1], perWarp, Threads(kernel, type, perWarp))}
      Call(kernel, type, contract, e, o, w, route, expert) ==
        [kernel |-> kernel, type |-> type, contract |-> contract, rows |-> e[1], blocks |-> e[2],
         offsets |-> o, warp |-> w, route |-> route, expert |-> expert]
      Single(kernel, type, contract, e) ==
        {Call(kernel, type, contract, e, << >>, w, 0, 0) : w \in Watch(kernel, type, e)}
      Grouped(kernel, type, e, o) ==
        {Call(kernel, type, "grouped", e, o, w, route, expert) :
           w \in Watch(kernel, type, e), expert \in 0 .. Len(o) - 2,
           route \in 0 .. Max({o[i + 1] - o[i] : i \in 1 .. Len(o) - 1}) - 1}
      Calls(kernel, contracts, type, e) ==
        (UNION {Single(kernel, type, contract, e) : contract \in contracts})
          \cup (UNION {Grouped(kernel, type, e, o) : o \in RowOffsets})
  IN  (UNION {Calls("native", {"dense", "rows"}, type, e) : type \in Formats, e \in Extents})
      \cup (UNION {IF BcAccepts(type, e) THEN Calls("bc", {"dense"}, type, e) ELSE {} :
                     type \in Formats, e \in Extents})

PerWarp == RowsPerWarp(launch.kernel, T, launch.rows, launch.blocks)
LanesPerRow == 32 \div PerWarp
RowLane(lane) == lane % LanesPerRow
RowOf(lane) == launch.warp * PerWarp + lane \div LanesPerRow

Grouped == launch.contract = "grouped"
RouteBegin == IF Grouped THEN launch.offsets[launch.expert + 1] ELSE 0
RouteRows == IF Grouped THEN launch.offsets[launch.expert + 2] - RouteBegin ELSE 1
GatheredRow == RouteBegin + launch.route
Active(lane) == RowOf(lane) < launch.rows /\ launch.route < RouteRows

(* The three contracts: one activation for all rows, one for each gathered *)
(* row, or, native only, one for each row of the weight.                   *)
ActivationRowDense(lane) ==                  \* mutant: block rows take the dense contract
  IF Active(lane) /\ Grouped THEN GatheredRow ELSE 0
ActivationRow(lane) ==
  IF ~Active(lane) THEN 0
  ELSE IF Grouped THEN GatheredRow
  ELSE IF launch.contract = "rows" THEN RowOf(lane) ELSE 0

(* A lane takes both groups of a pair.                                     *)
OwnedGroups(lane) ==
  LET Stride(count) == {i \in 0 .. count - 1 : i % LanesPerRow = RowLane(lane)}
  IN  IF Wide THEN UNION {{2 * p, 2 * p + 1} : p \in Stride(Quant[T].groups \div 2)}
      ELSE Stride(Quant[T].groups)
OwnsHeader(lane) == RowLane(lane) < (IF Wide THEN Quant[T].groups \div 2 ELSE Quant[T].groups)

(* What a block adds to a lane: a group's product with its part of the     *)
(* activation. An inactive lane adds zero.                                 *)
Product(expert, row, b, g, x) == <<expert, row, b, g, x>>
Products(lane) ==
  IF ~Active(lane) THEN {}
  ELSE {Product(launch.expert, RowOf(lane), block, g, ActivationRow(lane)) : g \in OwnedGroups(lane)}
-----------------------------------------------------------------------------
VecdotInit ==
  /\ launch \in Launches
  /\ pc = "blocks" /\ block = 0
  /\ off = LanesPerRow \div 2
  /\ acc = [lane \in Lanes |-> {}]
  /\ share = [lane \in Lanes |-> [l \in Lanes |-> IF l = lane THEN 1 ELSE 0]]
  /\ rowOut = << >>

AccumulateBlock ==
  /\ pc = "blocks" /\ block < launch.blocks
  /\ acc' = [lane \in Lanes |-> acc[lane] \cup Products(lane)]
  /\ block' = block + 1
  /\ pc' = IF block' = launch.blocks THEN "sum" ELSE pc
  /\ UNCHANGED <<launch, off, share, rowOut>>

(* Every lane of the warp takes part, those of no row too.                 *)
Partner(lane) == IF (lane \div off) % 2 = 0 THEN lane + off ELSE lane - off
Exchange ==
  /\ pc = "sum" /\ off > 0
  /\ share' = [lane \in Lanes |-> [l \in Lanes |-> share[lane][l] + share[Partner(lane)][l]]]
  /\ off' = off \div 2
  /\ UNCHANGED <<launch, pc, block, acc, rowOut>>

Summed ==
  /\ pc = "sum" /\ off = 0
  /\ pc' = "store"
  /\ UNCHANGED <<launch, block, off, acc, share, rowOut>>

Store ==
  /\ pc = "store"
  /\ LET storing == {lane \in Lanes : Active(lane) /\ RowLane(lane) = 0}
         base == IF Grouped THEN GatheredRow * launch.rows ELSE 0
     IN  rowOut' = [a \in {base + RowOf(lane) : lane \in storing} |->
                      share[CHOOSE lane \in storing : base + RowOf(lane) = a]]
  /\ pc' = "stored"
  /\ UNCHANGED <<launch, block, off, acc, share>>

Retired == pc = "stored" /\ UNCHANGED kernelVars

VecdotNext == AccumulateBlock \/ Exchange \/ Summed \/ Store \/ Retired
VecdotSpec == VecdotInit /\ [][VecdotNext]_kernelVars
-----------------------------------------------------------------------------
(* Decoding four codes from one 32-bit word of a plane: the word begins at *)
(* byte_of(c), and code x is in its byte x at the shift of c.              *)
ByteOf(f, i, p) == CodeField(f, i, p)[1] \div 8
ShiftOf(f, i, p) == CodeField(f, i, p)[1] % 8
ExtractWord(f, byte, shift, p) ==
  [x \in 0 .. 3 |-> Field(8 * (byte + x) + shift, Quant[f][p])]

Code4(f, g, j, p) ==
  LET i == g * Quant[f].group + j IN ExtractWord(f, ByteOf(f, i, p), ShiftOf(f, i, p), p)

(* Both groups of a pair are read from the word of the first.              *)
Pair4(f, pair, j, p) ==
  LET First(g) == (2 * pair + g) * 32 + j
  IN  [g \in {0, 1} |-> ExtractWord(f, ByteOf(f, First(0), p), ShiftOf(f, First(g), p), p)]

(* Compact blocks leave odd ones two-byte aligned: the accesses of a load, *)
(* as pairs of an address and a width.                                     *)
Loads(at) ==
  IF at % 4 = 0 THEN {<<at, 4>>}
  ELSE IF at % 2 = 0 THEN {<<at, 2>>, <<at + 2, 2>>}
  ELSE {<<at + i, 1>> : i \in 0 .. 3}

(* The planes' bits are merged in the byte and the centre is the           *)
(* converter's bias; a scalar decode takes the sign of Q3_K's high bit     *)
(* inverted.                                                               *)
HighShift(f) == IF f = "Q3_K" THEN 2 ELSE 4
WordBias(f) == CASE f = "Q3_K" -> 4 [] f = "Q6_K" -> 32 [] OTHER -> 0
WordValue(f, lo, hi) == Byte4Value(WordBias(f), lo + hi * 2 ^ HighShift(f))
ScalarValue(f, lo, hi) ==
  CASE f = "Q3_K" -> lo - 4 * (1 - hi)
    [] f = "Q6_K" -> lo + 16 * hi - 32
    [] OTHER      -> lo + 16 * hi

(* The parts of a block as the traversals spell them, and the order they   *)
(* go in: a group's sums are applied when the next group begins.           *)
BlockParts ==
  [Q2_K |-> [lo |-> 16, hi |-> -1,  d |-> 80,  dmin |-> 82, scales |-> 0],
   Q3_K |-> [lo |-> 32, hi |-> 0,   d |-> 108, dmin |-> -1, scales |-> 96],
   Q4_K |-> [lo |-> 16, hi |-> -1,  d |-> 0,   dmin |-> 2,  scales |-> 4],
   Q5_K |-> [lo |-> 48, hi |-> 16,  d |-> 0,   dmin |-> 2,  scales |-> 4],
   Q6_K |-> [lo |-> 0,  hi |-> 128, d |-> 208, dmin |-> -1, scales |-> 192]]

SerialSums(f) ==
  LET Group(i) == i \div Quant[f].group
      begins == {i \in Codes : i = 0 \/ Group(i) # Group(i - 1)}
  IN  {[group |-> Group(b), codes |-> {i \in Codes : i >= b /\ \A c \in begins : c > b => i < c}] :
         b \in begins}
-----------------------------------------------------------------------------
(* The word decode, the paired decode and the scalar one give a code its   *)
(* official bits and number, no load leaves the block, and the traversal   *)
(* applies every group once.                                               *)
DecodesAsOfficial(f) ==
  LET group == Quant[f].group
      words == {4 * w : w \in 0 .. group \div 4 - 1}
      parts == BlockParts[f]
  IN  /\ \A p \in Planes(f), g \in Groups(f), j \in words :
           \A x \in 0 .. 3 : Code4(f, g, j, p)[x] = CodeField(f, g * group + j + x, p)
      /\ f \in {"Q4_K", "Q5_K"} =>
           \A p \in Planes(f), pair \in 0 .. 3, j \in words, g \in {0, 1}, x \in 0 .. 3 :
             Pair4(f, pair, j, p)[g][x] = CodeField(f, (2 * pair + g) * 32 + j + x, p)
      /\ \A p \in Planes(f), g \in Groups(f), j \in words, b \in {0, 1} :
           LET at == b * Quant[f].raw + ByteOf(f, g * group + j, p)
           IN  /\ \A a \in Loads(at) : a[1] % a[2] = 0
               /\ UNION {a[1] .. a[1] + a[2] - 1 : a \in Loads(at)} = at .. at + 3
               /\ at + 3 < (b + 1) * Quant[f].raw
      /\ \A lo \in 0 .. 2 ^ Quant[f].low - 1, hi \in 0 .. 2 ^ Quant[f].high - 1 :
           /\ lo + hi * 2 ^ HighShift(f) < 256
           /\ WordValue(f, lo, hi) = ScalarValue(f, lo, hi)
      /\ Byte4Source(FALSE) = <<0, 1, 2, 3>>
      /\ parts.lo = Quant[f].loOff /\ (Quant[f].high > 0 => parts.hi = Quant[f].hiOff)
      /\ parts.d = Quant[f].dOff /\ parts.dmin = Quant[f].dminOff /\ parts.scales = Quant[f].scaleOff
      /\ SerialSums(f) = {[group |-> g, codes |-> g * group .. g * group + group - 1] : g \in Groups(f)}

OfficialDecodes == {f \in Formats : DecodesAsOfficial(f)}

(* Every row of the launch is stored once, as the sum of each of its       *)
(* groups times the activation its contract names, each once, and a route  *)
(* or row past the end stores nothing; the codes are those of the official *)
(* block however they are read (gguf_vecdot.hpp 199-203, 639-646, 656-659, *)
(* gguf_bc_vecdot.hpp 152-227).                                            *)
EveryGroupSummedOnce ==
  pc = "stored" =>
    LET threads == Threads(launch.kernel, T, PerWarp)
        mine == {r \in launch.warp * PerWarp .. launch.warp * PerWarp + PerWarp - 1 : r < launch.rows}
        routed == ~Grouped \/ GatheredRow < launch.offsets[launch.expert + 2]
        X(r) == CASE launch.contract = "dense" -> 0
                  [] launch.contract = "rows" -> r
                  [] launch.contract = "grouped" -> GatheredRow
        Whole(r) == {Product(launch.expert, r, b, g, X(r)) :
                       b \in 0 .. launch.blocks - 1, g \in Groups(T)}
        base == IF Grouped THEN GatheredRow * launch.rows ELSE 0
    IN  /\ T \in OfficialDecodes
        /\ DOMAIN rowOut = IF routed THEN {base + r : r \in mine} ELSE {}
        /\ \A r \in mine : routed =>
             LET times == rowOut[base + r]
             IN  /\ \A p \in Whole(r) :
                      Cardinality({l \in Lanes : p \in acc[l]}) = 1
                 /\ \A l \in Lanes : acc[l] # {} => times[l] = IF acc[l] \subseteq Whole(r) THEN 1 ELSE 0
                 /\ Whole(r) \subseteq UNION {acc[l] : l \in {x \in Lanes : times[x] = 1}}
        /\ (threads \div 32) * GridSize(launch.rows, PerWarp, threads) * PerWarp >= launch.rows
        /\ \A lane \in Lanes : Active(lane) /\ OwnedGroups(lane) # {} => OwnsHeader(lane)
=============================================================================
