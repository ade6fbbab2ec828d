-------------------------- MODULE WeightPlacement --------------------------
(***************************************************************************)
(* The preprocessor that puts a packed row-major weight [experts, k, n]    *)
(* into a named arrangement, and the reader that undoes one of them. A     *)
(* weight is where each of its elements stands: where[x] is the place of   *)
(* the element whose row-major place was x, in elements. An action is one  *)
(* step of the chain; a step that throws ends it in "refused".             *)
(***************************************************************************)
EXTENDS CodeConverter

CONSTANTS
  Shapes,     \* the shapes requested, <<experts, k, n>>
  Arches,     \* compute capabilities named by a caller
  AiuBuilds,  \* the values of USE_AIU: a subset of BOOLEAN
  Watched     \* bound: the columns whose elements are followed

ASSUME PlacementAssumption ==
  /\ Shapes \subseteq (Nat \ {0}) \X (Nat \ {0}) \X (Nat \ {0})
  /\ Arches \subseteq Nat
  /\ AiuBuilds \subseteq BOOLEAN
  /\ Watched \subseteq Nat

VARIABLES
  rq,       \* the call: op, shape, type of the elements, layout name, flags, arch
  stage,    \* the step the chain is at
  where,    \* element -> place in the buffer
  steps,    \* the tokens of the steps taken, as they stand in a layout's name
  restored  \* element -> place it is read back to

placeVars == <<rq, stage, where, steps, restored>>
-----------------------------------------------------------------------------
(* The registry.                                                           *)
Layout(tokens, mma, aiu, bits, multiple) ==
  [tokens |-> tokens, mma |-> mma, aiu |-> aiu, bits |-> bits, multiple |-> multiple]
Registry ==
  [logical         |-> Layout(<<>>, FALSE, FALSE, 0, 0),
   mixed_gemm      |-> Layout(<<"mmarow32", "tr", "cl4", "cvtword", "bias">>, FALSE, FALSE, 4, 0),
   mixed_gemm_aiu  |-> Layout(<<"mmarow32", "tr", "cl4", "aiu256", "cvtword", "bias">>,
                              FALSE, TRUE, 4, 256),
   w4a8            |-> Layout(<<"mmarow32i", "tr", "cl4">>, TRUE, FALSE, 4, 0),
   mixed_gemm_int8 |-> Layout(<<"mmarow16", "tr", "cl2", "cvtword", "bias">>, FALSE, FALSE, 8, 0),
   mixed_gemm_int2 |-> Layout(<<"mmarow64", "tr", "cl8", "cvtword", "bias">>, FALSE, FALSE, 2, 0)]

(* The types an op takes: int8, packed int4, and any other is refused.     *)
TypeBits == [Int8 |-> 8, QUInt4x2 |-> 4]
KnownType(t) == t \in DOMAIN TypeBits

Experts == rq.shape[1]
Rows == rq.shape[2]
Cols == rq.shape[3]
BitsPerElt == TypeBits[rq.type]
EltsPerReg == 32 \div BitsPerElt
NumElts == Experts * Rows * Cols
MatrixOf(p) == p \div (Rows * Cols)
InMatrix(p) == p % (Rows * Cols)

Tile == 64                                          \* ThreadblockK of every pair
ColumnsInterleaved == ((128 * 8) \div BitsPerElt) \div Tile
KnownArch == rq.arch >= 70 /\ rq.arch < 90
-----------------------------------------------------------------------------
(* Where each step puts an element.                                        *)
RowsPerMma == 8 * (16 \div BitsPerElt)

TileReadRow(t) ==
  IF rq.mma THEN ((t % 8) \div 4) * 16 + (t \div 8) * 4 + (t % 4)
            ELSE 8 * ((t % EltsPerReg) \div 2) + (t % 2) + 2 * (t \div EltsPerReg)

Permuted ==
  LET writeRow == [r \in 0 .. RowsPerMma - 1 |->
                     CHOOSE t \in 0 .. RowsPerMma - 1 : TileReadRow(t) = r]
      Move(p) == LET row == p \div Cols
                 IN  (row - (row % RowsPerMma) + writeRow[row % RowsPerMma]) * Cols + (p % Cols)
  IN  [x \in DOMAIN where |-> MatrixOf(where[x]) * Rows * Cols + Move(InMatrix(where[x]))]

Transposed ==
  LET Move(p) == (p % Cols) * Rows + p \div Cols
  IN  [x \in DOMAIN where |-> MatrixOf(where[x]) * Rows * Cols + Move(InMatrix(where[x]))]

(* The interleaves move 32-bit words of a column-major buffer.             *)
MoveWords(To(_, _)) ==
  LET vecRows == Rows \div EltsPerReg
      Move(p) == LET word == p \div EltsPerReg
                 IN  To(word \div vecRows, word % vecRows) * EltsPerReg + (p % EltsPerReg)
  IN  [x \in DOMAIN where |-> MatrixOf(where[x]) * Rows * Cols + Move(InMatrix(where[x]))]

CachelineWord(col, vecRow) ==
  LET vecRows == Rows \div EltsPerReg
      perTile == Tile \div EltsPerReg
  IN  (col \div ColumnsInterleaved) * vecRows * ColumnsInterleaved
        + ColumnsInterleaved * (vecRow - (vecRow % perTile))
        + perTile * (col % ColumnsInterleaved) + (vecRow % perTile)

(* A write of the last matrix past its end is past the end of the buffer.  *)
WritesPastEnd ==
  LET vecRows == Rows \div EltsPerReg
  IN  \E col \in 0 .. Cols - 1, vecRow \in 0 .. vecRows - 1 :
        CachelineWord(col, vecRow) >= Cols * vecRows

AiuInterleaved ==
  LET perTile == 256 \div EltsPerReg
      To(col, vecRow) ==
        (vecRow \div perTile) * perTile * Cols + col * perTile + (vecRow % perTile)
  IN  MoveWords(To)

(* The order of the elements in a 32-bit word: int8s swap the two in the   *)
(* middle, int4s gather the even ones in the low half.                     *)
Int8Relayout(d) == CASE d = 1 -> 2 [] d = 2 -> 1 [] OTHER -> d
Int4Source(d) == IF d < 4 THEN 2 * d ELSE 2 * (d - 4) + 1
Relayout ==
  LET dest == [s \in 0 .. EltsPerReg - 1 |->
                 IF BitsPerElt = 8 THEN Int8Relayout(s)
                 ELSE CHOOSE d \in 0 .. 7 : Int4Source(d) = s]
  IN  [x \in DOMAIN where |-> where[x] - (where[x] % EltsPerReg) + dest[where[x] % EltsPerReg]]
-----------------------------------------------------------------------------
Calls ==
  LET Call(ops, types, names, mmas, aius, arches) ==
        [op : ops, shape : Shapes, type : types, name : names,
         mma : mmas, aiu : aius, arch : arches, useAiu : AiuBuilds]
      Types == DOMAIN TypeBits \cup {"other"}
  IN  Call({"layout"}, Types, DOMAIN Registry \cup {"unregistered"}, {FALSE}, {FALSE}, {80})
      \cup Call({"flags"}, Types, {"none"}, BOOLEAN, BOOLEAN, {80})
      \cup Call({"symmetric", "permute"}, Types, {"none"}, {FALSE}, {FALSE}, Arches)
      \cup Call({"transpose"}, Types, {"none"}, {FALSE}, {FALSE}, {80})

PlaceInit ==
  /\ rq \in Calls
  /\ stage = "call"
  /\ where = <<>> /\ steps = <<>> /\ restored = <<>>

RowMajor ==
  LET columns == {c \in Watched : c < Cols}
      followed == {r * Cols + c : r \in 0 .. Experts * Rows - 1, c \in columns}
  IN  [x \in followed |-> x]

Refuse ==
  /\ stage' = "refused"
  /\ UNCHANGED <<rq, where, steps, restored>>

Begin(s) ==
  /\ stage' = s
  /\ where' = RowMajor
  /\ UNCHANGED <<rq, steps, restored>>

Take(tokens, w, s) ==
  /\ stage' = s
  /\ where' = w
  /\ steps' = steps \o tokens
  /\ UNCHANGED <<rq, restored>>

(* The weight named "logical" is returned as it is, whatever its type.     *)
PreprocessToLayout ==
  /\ stage = "call" /\ rq.op = "layout"
  /\ IF rq.name \notin DOMAIN Registry THEN Refuse
     ELSE IF rq.name = "logical" THEN Begin("done")
     ELSE LET plan == Registry[rq.name]
          IN  IF \/ ~KnownType(rq.type)
                 \/ TypeBits[rq.type] # plan.bits
                 \/ plan.multiple > 0 /\ (Rows % plan.multiple # 0 \/ Cols % plan.multiple # 0)
              THEN Refuse
              ELSE /\ rq' = [rq EXCEPT !.mma = plan.mma, !.aiu = plan.aiu]
                   /\ stage' = "op"
                   /\ UNCHANGED <<where, steps, restored>>

(* An arrangement for the AIU that cannot be made is refused here: further *)
(* down it would be skipped.                                               *)
PreprocessOpUnchecked ==                            \* mutant: no refusal of its own
  /\ \/ stage = "op"
     \/ stage = "call" /\ rq.op = "flags"
  /\ IF ~KnownType(rq.type) THEN Refuse ELSE Begin("permute")
PreprocessOp ==
  /\ \/ stage = "op"
     \/ stage = "call" /\ rq.op = "flags"
  /\ IF \/ ~KnownType(rq.type)
        \/ rq.aiu /\ \/ ~rq.useAiu
                     \/ BitsPerElt # 4
                     \/ Rows % 256 # 0 \/ Cols % 256 # 0
     THEN Refuse
     ELSE Begin("permute")

(* Quantizing leaves the codes row-major, then prepares them.              *)
SymmetricQuantize ==
  /\ stage = "call" /\ rq.op = "symmetric"
  /\ IF ~KnownType(rq.type) THEN Refuse ELSE Begin("permute")

PermuteOp ==
  /\ stage = "call" /\ rq.op = "permute"
  /\ IF ~KnownType(rq.type) THEN Refuse ELSE Begin("permute")
TransposeOp ==
  /\ stage = "call" /\ rq.op = "transpose"
  /\ IF ~KnownType(rq.type) THEN Refuse ELSE Begin("transpose")
-----------------------------------------------------------------------------
RowToken ==
  IF BitsPerElt = 8 THEN "mmarow16" ELSE IF rq.mma THEN "mmarow32i" ELSE "mmarow32"

PermuteRows ==
  /\ stage = "permute"
  /\ IF \/ rq.op # "permute" /\ ~KnownArch
        \/ rq.arch < 75
        \/ Rows % RowsPerMma # 0
        \/ Cols % 8 # 0
        \/ rq.mma /\ RowsPerMma # 32
     THEN Refuse
     ELSE Take(<<RowToken>>, Permuted, IF rq.op = "permute" THEN "done" ELSE "transpose")

(* Rows and columns are to be whole vectors of 32 bytes.                   *)
SubbyteTranspose ==
  /\ stage = "transpose"
  /\ IF ((Rows * BitsPerElt) \div 8) % 32 # 0 \/ ((Cols * BitsPerElt) \div 8) % 32 # 0
     THEN Refuse
     ELSE Take(<<"tr">>, Transposed, IF rq.op = "transpose" THEN "done" ELSE "interleave")

(* The columns are checked against the tile of rows; nothing checks the    *)
(* rows, and a ragged last tile is written past the end of the buffer.     *)
InterleaveColumns ==
  /\ stage = "interleave"
  /\ IF Rows % EltsPerReg # 0 \/ Cols % Tile # 0 THEN Refuse
     ELSE Take(<<IF BitsPerElt = 8 THEN "cl2" ELSE "cl4">>, MoveWords(CachelineWord),
               IF WritesPastEnd THEN "overrun" ELSE "aiu")

AiuInterleave ==
  /\ stage = "aiu"
  /\ IF /\ rq.useAiu /\ rq.aiu /\ BitsPerElt = 4
        /\ Rows % 256 = 0 /\ Cols % 256 = 0
     THEN Take(<<"aiu256">>, AiuInterleaved, "bias")
     ELSE Take(<<>>, where, "bias")

(* The codes of an int8 MMA stay signed and in place.                      *)
AddBiasAndInterleave ==
  /\ stage = "bias"
  /\ IF rq.mma THEN Take(<<>>, where, "done")
     ELSE IF NumElts % EltsPerReg # 0 THEN Refuse
     ELSE Take(<<"cvtword", "bias">>, Relayout, "done")

(* Reading back a "mixed_gemm" weight of 4-bit codes, from the arrangement *)
(* alone: the steps in reverse.                                            *)
RestoreWordForward(p) == p - (p % 8) + Int4Source(Int4Source(p % 8))  \* mutant: the order applied twice
RestoreWord(p) == p - (p % 8) + Int4Source(p % 8)

RestoredPlaces ==
  LET vecRows == Rows \div 8
      From(n0, kr) == (n0 \div 4) * vecRows * 4
                        + 4 * ((kr \div 8) * 8) + 8 * (n0 % 4) + (kr % 8)
      to == [w \in 0 .. NumElts \div 8 - 1 |->
               LET group == w \div (4 * vecRows)
                   c == CHOOSE c \in (4 * group .. 4 * group + 3) \X (0 .. vecRows - 1) :
                          From(c[1], c[2]) = w
               IN  c[1] * vecRows + c[2]]
      Column(p) == to[p \div 8] * 8 + (p % 8)
      Transpose(p) == (p % Rows) * Cols + p \div Rows
      Read(w) == 8 * ((w % 8) \div 2) + (w % 2) + 2 * (w \div 8)
      Row(p) == LET row == p \div Cols
                IN  (row - (row % 32) + Read(row % 32)) * Cols + (p % Cols)
  IN  [x \in DOMAIN where |-> Row(Transpose(Column(RestoreWord(where[x]))))]

Restorable == rq.op = "layout" /\ rq.name = "mixed_gemm" /\ Experts = 1 /\ Rows % 256 = 0

Restore ==
  /\ stage = "done" /\ Restorable
  /\ restored' = RestoredPlaces
  /\ stage' = "restored"
  /\ UNCHANGED <<rq, where, steps>>

Placed ==
  /\ \/ stage \in {"refused", "overrun", "restored"}
     \/ stage = "done" /\ ~Restorable
  /\ UNCHANGED placeVars

PlaceNext ==
  \/ PreprocessToLayout \/ PreprocessOp \/ SymmetricQuantize \/ PermuteOp \/ TransposeOp
  \/ PermuteRows \/ SubbyteTranspose \/ InterleaveColumns \/ AiuInterleave
  \/ AddBiasAndInterleave \/ Restore \/ Placed

PlaceSpec == PlaceInit /\ [][PlaceNext]_placeVars
-----------------------------------------------------------------------------
(* What the comments say each token means, as a table or a picture.        *)
RowMap ==
  [mmarow16  |-> <<0, 1, 8, 9, 2, 3, 10, 11, 4, 5, 12, 13, 6, 7, 14, 15>>,
   mmarow32  |-> <<0, 1, 8, 9, 16, 17, 24, 25, 2, 3, 10, 11, 18, 19, 26, 27,
                   4, 5, 12, 13, 20, 21, 28, 29, 6, 7, 14, 15, 22, 23, 30, 31>>,
   mmarow32i |-> <<0, 1, 2, 3, 16, 17, 18, 19, 4, 5, 6, 7, 20, 21, 22, 23,
                   8, 9, 10, 11, 24, 25, 26, 27, 12, 13, 14, 15, 28, 29, 30, 31>>]
WordMap == [w \in {4, 8} |-> IF w = 4 THEN <<0, 2, 1, 3>> ELSE <<0, 2, 4, 6, 1, 3, 5, 7>>]

(* The element an arrangement holds at a place of a matrix of r rows and c *)
(* columns, by the place it had before the step.                           *)
Documented(token, p, r, c, perWord) ==
  CASE token \in DOMAIN RowMap ->
         LET height == Len(RowMap[token])
             row == p \div c
         IN  (row - (row % height) + RowMap[token][(row % height) + 1]) * c + (p % c)
    [] token = "tr" -> (p % r) * c + p \div r
    [] token \in {"cl2", "cl4"} ->        \* a line holds 64 rows of each of its columns
         LET wide == IF token = "cl2" THEN 2 ELSE 4
             in == p % (r * wide)
             line == in % (64 * wide)
         IN  ((p \div (r * wide)) * wide + line \div 64) * r + (in \div (64 * wide)) * 64 + (line % 64)
    [] token = "aiu256" ->                \* tiles of 256 rows, columns whole within a tile
         LET in == p % (256 * c)
         IN  (in \div 256) * r + (p \div (256 * c)) * 256 + (in % 256)
    [] token = "cvtword" -> p - (p % perWord) + WordMap[perWord][(p % perWord) + 1]
    [] token = "bias" -> p

(* A weight is never returned in an arrangement other than the one its     *)
(* name spells: the steps taken are the tokens of the name, and each place *)
(* holds the element that the documented meaning of the tokens puts there, *)
(* for every op that returns one (weight_layout.h 4-6,                     *)
(* weight_preprocess_ops.cpp 170-175). A write past the buffer needs int8  *)
(* rows that are no multiple of the tile.                                  *)
StoredAsNamed ==
  /\ stage = "done" =>
       /\ rq.op = "layout" => steps = Registry[rq.name].tokens
       /\ rq.aiu => \E i \in DOMAIN steps : steps[i] = "aiu256"
       /\ LET r == Rows
              c == Cols
              perWord == IF KnownType(rq.type) THEN EltsPerReg ELSE 1
              Origin(p) ==            \* the steps undone, the last of them first
                LET undone[i \in 0 .. Len(steps)] ==
                      IF i = 0 THEN p
                      ELSE Documented(steps[Len(steps) - i + 1], undone[i - 1], r, c, perWord)
                IN  undone[Len(steps)]
          IN  \A x \in DOMAIN where :
                where[x] \in 0 .. NumElts - 1
                  /\ MatrixOf(x) * r * c + Origin(InMatrix(where[x])) = x
  /\ stage = "overrun" => BitsPerElt = 8 /\ Rows % Tile # 0

(* The device's converter undoes the order of a word: its outputs are the  *)
(* elements one after the other, with the bias taken off again.            *)
ConverterUndoesWord ==
  IF BitsPerElt = 8
  THEN /\ \A s \in 0 .. 3 : Int8Relayout(s) = Byte4Source(TRUE)[s + 1]
       /\ \A x \in -128 .. 127 : Byte4Value(128, x + 128) = x
  ELSE \A t \in Pairs(4) :
         /\ \A half \in Halves : Int4Source(LoCode(4, t, half)) = 2 * t + half
         /\ \A x \in -8 .. 7 : Converted(4, CvtBias(4, 0, FALSE), t, x + 8) = x

(* Reading back a "mixed_gemm" weight gives each code its row-major place, *)
(* with the bias that makes it unsigned (restore_q4_mixed), and so does    *)
(* the device with every word it converts.                                 *)
RestoreIsInverse ==
  /\ stage = "restored" => restored = RowMajor /\ \E i \in DOMAIN steps : steps[i] = "bias"
  /\ stage = "done" /\ (\E i \in DOMAIN steps : steps[i] = "cvtword") => ConverterUndoesWord
=============================================================================
