---------------------------- MODULE LayoutsProofs ----------------------------
(***************************************************************************)
(* Proofs about the producers and readers of quantized data. First a warp  *)
(* of the vecdot kernels: for any extents and row offsets, every row it    *)
(* owns is the sum of each of its groups, once, read as the official block *)
(* says. Then a K-pack artifact: for any extents and expert count, nothing *)
(* prepared is spoiled, and what is recovered is what was prepared. Then a *)
(* weight in the arrangement that has a reader: for any shape, each        *)
(* element is read back to its row-major place. Then a weight in any       *)
(* arrangement: for any shape, each element is stored where the            *)
(* arrangement's name, read as its documentation draws it, says. Last the  *)
(* layout of an official block: its reader, its packer and the converters  *)
(* that take its codes state the same one, for every format.               *)
(***************************************************************************)
EXTENDS MCLayouts, ProofArithmetic, FiniteSetTheorems

-----------------------------------------------------------------------------
(* Decoding: the statements about one format.                              *)

(* The powers of two that occur.                                           *)
LEMMA SmallPowers ==
  2 ^ 0 = 1 /\ 2 ^ 1 = 2 /\ 2 ^ 2 = 4 /\ 2 ^ 3 = 8 /\ 2 ^ 4 = 16
BY SMT

(* The formats.                                                            *)
LEMMA FormatsAre == Formats = {"Q2_K", "Q3_K", "Q4_K", "Q5_K", "Q6_K"}
BY DEF Formats, Quant

(* Their numbers.                                                          *)
LEMMA Numbers ==
  ASSUME NEW f \in Formats
  PROVE  /\ Quant[f].group \in {16, 32} /\ Quant[f].groups \in {8, 16}
         /\ Quant[f].group * Quant[f].groups = 256
         /\ Quant[f].low \in {2, 4} /\ Quant[f].high \in {0, 1, 2}
         /\ Quant[f].loOff \in Nat /\ Quant[f].hiOff \in -1 .. 128 /\ Quant[f].raw \in Nat
BY DEF Formats, Quant

(* The planes of a format and their widths.                                *)
LEMMA WidthOf ==
  ASSUME NEW f \in Formats, NEW p \in Planes(f)
  PROVE  p \in {"low", "high"} /\ Quant[f][p] \in {1, 2, 4}
<1>1. Planes(f) = IF Quant[f].high = 0 THEN {"low"} ELSE {"low", "high"}
  BY DEF Planes
<1>2. Quant[f].low \in {2, 4} /\ Quant[f].high \in {0, 1, 2}
  BY Numbers
<1>3. Quant[f]["low"] = Quant[f].low /\ Quant[f]["high"] = Quant[f].high
  OBVIOUS
<1> QED BY <1>1, <1>2, <1>3

(* A code's field is where it begins and its width.                        *)
LEMMA FieldIs ==
  ASSUME NEW a \in Int, NEW width \in {1, 2, 4, 6, 8}
  PROVE  Field(a, width)[1] = a
BY DEF Field

(* A word of codes that one load takes: consecutive bytes of a block, at   *)
(* one shift.                                                              *)
WordAt(word, width, bytes) ==
  \E b \in Nat, c \in 0 .. 7 :
    b + 3 < bytes /\ \A x \in 0 .. 3 : word[x] = Field(8 * (b + x) + c, width)

(* The codes of a word differ in their last coordinate only.               *)
SameWord(i, x, D) ==
  /\ ((i + x) \div D) = i \div D
  /\ ((i + x) % D) \div 4 = (i % D) \div 4
  /\ ((i + x) % 4) = x

(* So they do.                                                             *)
LEMMA WordCoordinates ==
  ASSUME NEW D \in {16, 32}, NEW i \in Nat, (i % 4) = 0, NEW x \in 0 .. 3
  PROVE  SameWord(i, x, D)
BY SMTT(60) DEF SameWord

(* The groups of a superblock, and the words of a group.                   *)
LEMMA CodeCoordinates ==
  ASSUME NEW D \in {16, 32}, NEW i \in Codes
  PROVE  /\ i \in Nat /\ (i \div D) \in 0 .. (256 \div D) - 1
         /\ ((i % D) \div 4) \in 0 .. (D \div 4) - 1
<1>1. CASE D = 16
  BY <1>1 DEF Codes, QK
<1>2. CASE D = 32
  BY <1>2 DEF Codes, QK
<1> QED BY <1>1, <1>2

(* A word of low codes.                                                    *)
LEMMA LowOfWord ==
  ASSUME NEW f \in Formats, NEW i \in Codes, (i % 4) = 0
  PROVE  WordAt([x \in 0 .. 3 |-> LowCode(f, i + x)], Quant[f].low, Quant[f].raw)
<1> DEFINE D == Quant[f].group
           g == i \div D
           w == (i % D) \div 4
           o == Quant[f].loOff
           word == [x \in 0 .. 3 |-> LowCode(f, i + x)]
<1>1. D \in {16, 32} /\ o \in Nat /\ Quant[f].low \in {2, 4} /\ Quant[f].raw \in Nat /\ i \in Nat
  BY Numbers DEF Codes, QK
<1>2. g \in 0 .. 256 \div D - 1 /\ w \in 0 .. D \div 4 - 1
  BY <1>1, CodeCoordinates
<1>3. ASSUME NEW x \in 0 .. 3
      PROVE  /\ ((i + x) \div D) = g /\ ((i + x) % D) \div 4 = w /\ ((i + x) % 4) = x
  <2>1. SameWord(i, x, D)
    BY <1>1, WordCoordinates
  <2> QED BY <2>1 DEF SameWord
<1> HIDE DEF g, w, o
<1>4. CASE Quant[f].low = 2
  <2> DEFINE b == o + 4 * w + 16 * (g % 2) + 32 * (g \div 8)
             c == 2 * ((g \div 2) % 4)
  <2>1. o + 63 < Quant[f].raw /\ D = 16
    BY <1>4 DEF Formats, Quant, o
  <2>2. b \in Nat /\ c \in 0 .. 7 /\ b + 3 < Quant[f].raw
    BY <1>1, <1>2, <2>1
  <2>3. ASSUME NEW x \in 0 .. 3 PROVE word[x] = Field(8 * (b + x) + c, 2)
    <3>1. LowCode(f, i + x) = Field(8 * (o + 4 * w + x + 16 * (g % 2) + 32 * (g \div 8)) + c, 2)
      BY <1>3, <1>4 DEF LowCode, At, o
    <3>2. o + 4 * w + x + 16 * (g % 2) + 32 * (g \div 8) = b + x
      BY <1>1, <1>2, <2>1
    <3> QED BY <3>1, <3>2
  <2> QED BY <1>4, <2>2, <2>3 DEF WordAt
<1>5. CASE Quant[f].low = 4 /\ f = "Q6_K"
  <2> DEFINE b == o + 4 * w + 16 * (g % 2) + 32 * ((g \div 2) % 2) + 64 * (g \div 8)
             c == 4 * ((g \div 4) % 2)
  <2>1. o + 127 < Quant[f].raw /\ D = 16
    BY <1>5 DEF Formats, Quant, o
  <2>2. b \in Nat /\ c \in 0 .. 7 /\ b + 3 < Quant[f].raw
    BY <1>1, <1>2, <2>1
  <2>3. ASSUME NEW x \in 0 .. 3 PROVE word[x] = Field(8 * (b + x) + c, 4)
    <3>1. LowCode(f, i + x)
            = Field(8 * (o + 4 * w + x + 16 * (g % 2) + 32 * ((g \div 2) % 2) + 64 * (g \div 8)) + c, 4)
      BY <1>3, <1>5 DEF LowCode, At, o
    <3>2. o + 4 * w + x + 16 * (g % 2) + 32 * ((g \div 2) % 2) + 64 * (g \div 8) = b + x
      BY <1>1, <1>2, <2>1
    <3> QED BY <3>1, <3>2
  <2> QED BY <1>5, <2>2, <2>3 DEF WordAt
<1>6. CASE Quant[f].low = 4 /\ f # "Q6_K"
  <2> DEFINE b == o + 4 * w + 32 * (g \div 2)
             c == 4 * (g % 2)
  <2>1. o + 127 < Quant[f].raw /\ D = 32
    BY <1>6 DEF Formats, Quant, o
  <2>2. b \in Nat /\ c \in 0 .. 7 /\ b + 3 < Quant[f].raw
    BY <1>1, <1>2, <2>1
  <2>3. ASSUME NEW x \in 0 .. 3 PROVE word[x] = Field(8 * (b + x) + c, 4)
    <3>1. LowCode(f, i + x) = Field(8 * (o + 4 * w + x + 32 * (g \div 2)) + c, 4)
      BY <1>3, <1>6 DEF LowCode, At, o
    <3>2. o + 4 * w + x + 32 * (g \div 2) = b + x
      BY <1>1, <1>2, <2>1
    <3> QED BY <3>1, <3>2
  <2> QED BY <1>6, <2>2, <2>3 DEF WordAt
<1> QED BY <1>1, <1>4, <1>5, <1>6

(* A word of high ones.                                                    *)
LEMMA HighOfWord ==
  ASSUME NEW f \in Formats, Quant[f].high # 0, NEW i \in Codes, (i % 4) = 0
  PROVE  WordAt([x \in 0 .. 3 |-> HighCode(f, i + x)], Quant[f].high, Quant[f].raw)
<1> DEFINE D == Quant[f].group
           g == i \div D
           w == (i % D) \div 4
           o == Quant[f].hiOff
           word == [x \in 0 .. 3 |-> HighCode(f, i + x)]
<1>1. f \in {"Q3_K", "Q5_K", "Q6_K"} /\ o \in Nat /\ Quant[f].raw \in Nat
  BY DEF Formats, Quant
<1>0. D \in {16, 32} /\ i \in Nat
  BY Numbers DEF Codes, QK
<1>2. g \in 0 .. 256 \div D - 1 /\ w \in 0 .. D \div 4 - 1
  BY <1>0, CodeCoordinates
<1>3. ASSUME NEW x \in 0 .. 3
      PROVE  /\ ((i + x) \div D) = g /\ ((i + x) % D) \div 4 = w /\ ((i + x) % 4) = x
  <2>1. SameWord(i, x, D)
    BY <1>0, WordCoordinates
  <2> QED BY <2>1 DEF SameWord
<1> HIDE DEF g, w, o
<1>4. CASE f = "Q3_K"
  <2> DEFINE b == o + 4 * w + 16 * (g % 2)
             c == ((g \div 2) % 4) + 4 * (g \div 8)
  <2>1. o + 31 < Quant[f].raw /\ D = 16 /\ Quant[f].high = 1
    BY <1>4 DEF Quant, o
  <2>2. b \in Nat /\ c \in 0 .. 7 /\ b + 3 < Quant[f].raw
    BY <1>1, <1>2, <2>1
  <2>3. ASSUME NEW x \in 0 .. 3 PROVE word[x] = Field(8 * (b + x) + c, 1)
    <3>1. HighCode(f, i + x) = Field(8 * (o + 4 * w + x + 16 * (g % 2)) + c, 1)
      BY <1>3, <1>4 DEF HighCode, At, o
    <3>2. o + 4 * w + x + 16 * (g % 2) = b + x
      BY <1>1, <1>2, <2>1
    <3> QED BY <3>1, <3>2
  <2> QED BY <2>1, <2>2, <2>3 DEF WordAt
<1>5. CASE f = "Q5_K"
  <2> DEFINE b == o + 4 * w
             c == (g % 2) + 2 * (g \div 2)
  <2>1. o + 31 < Quant[f].raw /\ D = 32 /\ Quant[f].high = 1
    BY <1>5 DEF Quant, o
  <2>2. b \in Nat /\ c \in 0 .. 7 /\ b + 3 < Quant[f].raw
    BY <1>1, <1>2, <2>1
  <2>3. ASSUME NEW x \in 0 .. 3 PROVE word[x] = Field(8 * (b + x) + c, 1)
    <3>1. HighCode(f, i + x) = Field(8 * (o + 4 * w + x) + c, 1)
      BY <1>3, <1>5 DEF HighCode, At, o
    <3>2. o + 4 * w + x = b + x
      BY <1>1, <1>2, <2>1
    <3> QED BY <3>1, <3>2
  <2> QED BY <2>1, <2>2, <2>3 DEF WordAt
<1>6. CASE f = "Q6_K"
  <2> DEFINE b == o + 4 * w + 16 * (g % 2) + 32 * (g \div 8)
             c == 2 * ((g \div 2) % 2) + 4 * ((g \div 4) % 2)
  <2>1. o + 63 < Quant[f].raw /\ D = 16 /\ Quant[f].high = 2
    BY <1>6 DEF Quant, o
  <2>2. b \in Nat /\ c \in 0 .. 7 /\ b + 3 < Quant[f].raw
    BY <1>1, <1>2, <2>1
  <2>3. ASSUME NEW x \in 0 .. 3 PROVE word[x] = Field(8 * (b + x) + c, 2)
    <3>1. HighCode(f, i + x) = Field(8 * (o + 4 * w + x + 16 * (g % 2) + 32 * (g \div 8)) + c, 2)
      BY <1>3, <1>6 DEF HighCode, At, o
    <3>2. o + 4 * w + x + 16 * (g % 2) + 32 * (g \div 8) = b + x
      BY <1>1, <1>2, <2>1
    <3> QED BY <3>1, <3>2
  <2> QED BY <2>1, <2>2, <2>3 DEF WordAt
<1> QED BY <1>1, <1>4, <1>5, <1>6

(* A code of either plane, and the three after it in its word.             *)
LEMMA CodeOfWord ==
  ASSUME NEW f \in Formats, NEW p \in Planes(f), NEW i \in Codes, (i % 4) = 0
  PROVE  WordAt([x \in 0 .. 3 |-> CodeField(f, i + x, p)], Quant[f][p], Quant[f].raw)
<1>1. p = "low" \/ (p = "high" /\ Quant[f].high # 0)
  BY DEF Planes
<1>2. Quant[f]["low"] = Quant[f].low /\ Quant[f]["high"] = Quant[f].high
  OBVIOUS
<1>3. CASE p = "low"
  BY <1>2, <1>3, LowOfWord DEF CodeField
<1>4. CASE p = "high" /\ Quant[f].high # 0
  BY <1>2, <1>4, HighOfWord DEF CodeField
<1> QED BY <1>1, <1>3, <1>4

(* Where a word's first code says its byte and its shift are.              *)
LEMMA WordPlaced ==
  ASSUME NEW f \in Formats, NEW p \in Planes(f), NEW i \in Codes, (i % 4) = 0
  PROVE  /\ ByteOf(f, i, p) \in Nat /\ ByteOf(f, i, p) + 3 < Quant[f].raw
         /\ ShiftOf(f, i, p) \in 0 .. 7
         /\ CodeField(f, i, p) = Field(8 * ByteOf(f, i, p) + ShiftOf(f, i, p), Quant[f][p])
         /\ \A x \in 0 .. 3 :
              CodeField(f, i + x, p)
                = Field(8 * (ByteOf(f, i, p) + x) + ShiftOf(f, i, p), Quant[f][p])
<1>1. PICK b \in Nat, c \in 0 .. 7 :
        /\ b + 3 < Quant[f].raw
        /\ \A x \in 0 .. 3 : CodeField(f, i + x, p) = Field(8 * (b + x) + c, Quant[f][p])
  BY CodeOfWord DEF WordAt
<1>2. CodeField(f, i, p) = Field(8 * b + c, Quant[f][p])
  <2>1. i + 0 = i /\ 8 * (b + 0) + c = 8 * b + c
    BY DEF Codes
  <2> QED BY <1>1, <2>1
<1>3. CodeField(f, i, p)[1] = 8 * b + c
  BY <1>2, FieldIs, WidthOf
<1>4. ((8 * b + c) \div 8) = b /\ ((8 * b + c) % 8) = c
  OBVIOUS
<1>5. ByteOf(f, i, p) = b /\ ShiftOf(f, i, p) = c
  BY <1>3, <1>4 DEF ByteOf, ShiftOf
<1> QED BY <1>1, <1>2, <1>5

(* The decode of a word of four codes.                                     *)
LEMMA WordsAsOfficial ==
  ASSUME NEW f \in Formats, NEW p \in Planes(f), NEW g, NEW j,
         g * Quant[f].group + j \in Codes, ((g * Quant[f].group + j) % 4) = 0, NEW x \in 0 .. 3
  PROVE  Code4(f, g, j, p)[x] = CodeField(f, g * Quant[f].group + j + x, p)
<1> DEFINE i == g * Quant[f].group + j
<1>1. Code4(f, g, j, p)[x] = Field(8 * (ByteOf(f, i, p) + x) + ShiftOf(f, i, p), Quant[f][p])
  BY DEF Code4, ExtractWord
<1> HIDE DEF i
<1>2. i \in Codes /\ (i % 4) = 0
  BY DEF i
<1>3. CodeField(f, i + x, p) = Field(8 * (ByteOf(f, i, p) + x) + ShiftOf(f, i, p), Quant[f][p])
  BY <1>2, WordPlaced
<1> QED BY <1>1, <1>3 DEF i

(* The low code of a pair's formats.                                       *)
PairLow(f, i) ==
  Field(8 * (Quant[f].loOff + 4 * ((i % 32) \div 4) + (i % 4) + 32 * ((i \div 32) \div 2))
          + 4 * ((i \div 32) % 2), 4)

(* It is that.                                                             *)
LEMMA LowOfPair ==
  ASSUME NEW f \in {"Q4_K", "Q5_K"}, NEW i \in Nat
  PROVE  LowCode(f, i) = PairLow(f, i)
<1>1. Quant[f].group = 32 /\ Quant[f].low = 4 /\ f # "Q6_K"
  BY DEF Quant
<1> QED BY <1>1 DEF LowCode, At, PairLow

(* The high code of the pairs' format that has one.                        *)
PairHigh(i) ==
  Field(8 * (Quant["Q5_K"].hiOff + 4 * ((i % 32) \div 4) + (i % 4))
          + (((i \div 32) % 2) + 2 * ((i \div 32) \div 2)), 1)

(* It is that.                                                             *)
LEMMA HighOfPair ==
  ASSUME NEW i \in Nat
  PROVE  HighCode("Q5_K", i) = PairHigh(i)
<1>1. Quant["Q5_K"].group = 32
  BY DEF Quant
<1> QED BY <1>1 DEF HighCode, At, PairHigh

(* Both groups of a pair begin in the same byte.                           *)
PairBegins(f, p, pair, j, b) ==
  \A g \in {0, 1} : \E c \in 0 .. 7 : CodeField(f, (2 * pair + g) * 32 + j, p) = Field(8 * b + c, Quant[f][p])

(* They do.                                                                *)
LEMMA PairFields ==
  ASSUME NEW f \in {"Q4_K", "Q5_K"}, NEW p \in Planes(f), NEW pair \in 0 .. 3,
         NEW j \in 0 .. 31, (j % 4) = 0
  PROVE  \E b \in Int : PairBegins(f, p, pair, j, b)
<1> DEFINE w == j \div 4
           i(g) == (2 * pair + g) * 32 + j
<1>1. /\ Quant[f].group = 32 /\ Quant[f].low = 4 /\ Quant[f].loOff \in Int /\ Quant[f].hiOff \in Int
      /\ f # "Q6_K" /\ f # "Q3_K" /\ (Quant[f].high # 0 => f = "Q5_K" /\ Quant[f].high = 1)
  BY DEF Quant
<1>2. /\ Quant[f]["low"] = Quant[f].low /\ Quant[f]["high"] = Quant[f].high
      /\ p = "low" \/ (p = "high" /\ Quant[f].high # 0)
  BY DEF Planes
<1>3. ASSUME NEW g \in {0, 1}
      PROVE  /\ i(g) \div 32 = 2 * pair + g /\ (i(g) % 32) \div 4 = w /\ (i(g) % 4) = 0
             /\ ((2 * pair + g) \div 2) = pair /\ ((2 * pair + g) % 2) = g
  OBVIOUS
<1>4. w \in Nat
  OBVIOUS
<1> HIDE DEF w
<1>5. CASE p = "low"
  <2> DEFINE b == Quant[f].loOff + 4 * w + 32 * pair
  <2>1. b \in Int
    BY <1>1, <1>4
  <2>2. ASSUME NEW g \in {0, 1} PROVE CodeField(f, i(g), p) = Field(8 * b + 4 * g, Quant[f][p])
    <3>1. LowCode(f, i(g)) = Field(8 * (Quant[f].loOff + 4 * w + 0 + 32 * pair) + 4 * g, 4)
      <4>1. i(g) \in Nat
        OBVIOUS
      <4> HIDE DEF i
      <4>2. /\ (i(g) \div 32) = 2 * pair + g /\ ((i(g) % 32) \div 4) = w /\ (i(g) % 4) = 0
            /\ ((2 * pair + g) \div 2) = pair /\ ((2 * pair + g) % 2) = g
        BY <1>3
      <4>3. ((i(g) \div 32) \div 2) = pair /\ ((i(g) \div 32) % 2) = g
        BY <4>2
      <4>4. LowCode(f, i(g)) = PairLow(f, i(g))
        BY <4>1, LowOfPair
      <4>5. PairLow(f, i(g)) = Field(8 * (Quant[f].loOff + 4 * w + 0 + 32 * pair) + 4 * g, 4)
        BY <4>2, <4>3 DEF PairLow
      <4> QED BY <4>4, <4>5
    <3>2. Quant[f].loOff + 4 * w + 0 + 32 * pair = b
      BY <1>1, <1>4
    <3> QED BY <1>1, <1>2, <1>5, <3>1, <3>2 DEF CodeField
  <2>3. \A g \in {0, 1} : 4 * g \in 0 .. 7
    OBVIOUS
  <2> QED BY <2>1, <2>2, <2>3 DEF PairBegins
<1>6. CASE p = "high" /\ Quant[f].high # 0
  <2> DEFINE b == Quant[f].hiOff + 4 * w
  <2>1. b \in Int
    BY <1>1, <1>4
  <2>2. ASSUME NEW g \in {0, 1}
        PROVE  CodeField(f, i(g), p) = Field(8 * b + (g + 2 * pair), Quant[f][p])
    <3>1. HighCode(f, i(g)) = Field(8 * (Quant[f].hiOff + 4 * w + 0) + (g + 2 * pair), 1)
      <4>1. i(g) \in Nat
        OBVIOUS
      <4>2. f = "Q5_K"
        BY <1>1, <1>6
      <4> HIDE DEF i
      <4>3. /\ (i(g) \div 32) = 2 * pair + g /\ ((i(g) % 32) \div 4) = w /\ (i(g) % 4) = 0
            /\ ((2 * pair + g) \div 2) = pair /\ ((2 * pair + g) % 2) = g
        BY <1>3
      <4>4. ((i(g) \div 32) \div 2) = pair /\ ((i(g) \div 32) % 2) = g
        BY <4>3
      <4>5. HighCode(f, i(g)) = PairHigh(i(g))
        BY <4>1, <4>2, HighOfPair
      <4>6. PairHigh(i(g)) = Field(8 * (Quant[f].hiOff + 4 * w + 0) + (g + 2 * pair), 1)
        BY <4>2, <4>3, <4>4 DEF PairHigh
      <4> QED BY <4>5, <4>6
    <3>2. Quant[f].hiOff + 4 * w + 0 = b
      BY <1>1, <1>4
    <3> QED BY <1>1, <1>2, <1>6, <3>1, <3>2 DEF CodeField
  <2>3. \A g \in {0, 1} : g + 2 * pair \in 0 .. 7
    OBVIOUS
  <2> QED BY <2>1, <2>2, <2>3 DEF PairBegins
<1> QED BY <1>2, <1>5, <1>6

(* The paired decode: both groups of a pair begin in the same byte.        *)
PairRight(f, p, pair, j, g, x) ==
  Pair4(f, pair, j, p)[g][x] = CodeField(f, (2 * pair + g) * 32 + j + x, p)

(* Both groups' codes are read.                                            *)
LEMMA PairsAsOfficial ==
  ASSUME NEW f \in {"Q4_K", "Q5_K"}, NEW p \in Planes(f), NEW pair \in 0 .. 3,
         NEW j \in 0 .. 31, (j % 4) = 0, NEW g \in {0, 1}, NEW x \in 0 .. 3
  PROVE  PairRight(f, p, pair, j, g, x)
<1> DEFINE i(h) == (2 * pair + h) * 32 + j
<1>1. f \in Formats /\ p \in Planes(f)
  BY DEF Formats, Quant
<1>2. \A h \in {0, 1} : i(h) \in Codes /\ (i(h) % 4) = 0
  BY DEF Codes, QK
<1>3. Pair4(f, pair, j, p)[g][x] = Field(8 * (ByteOf(f, i(0), p) + x) + ShiftOf(f, i(g), p), Quant[f][p])
  BY DEF Pair4, ExtractWord
<1>0. PICK b \in Int : PairBegins(f, p, pair, j, b)
  BY PairFields
<1>4. \A h \in {0, 1} : \E c \in 0 .. 7 : CodeField(f, i(h), p) = Field(8 * b + c, Quant[f][p])
  BY <1>0 DEF PairBegins
<1> HIDE DEF i
<1>5. ASSUME NEW h \in {0, 1} PROVE ByteOf(f, i(h), p) = b
  <2>1. PICK c \in 0 .. 7 : CodeField(f, i(h), p) = Field(8 * b + c, Quant[f][p])
    BY <1>4
  <2>2. CodeField(f, i(h), p)[1] = 8 * b + c
    BY <1>1, <2>1, FieldIs, WidthOf
  <2>3. ((8 * b + c) \div 8) = b
    OBVIOUS
  <2> QED BY <2>2, <2>3 DEF ByteOf
<1>6. CodeField(f, i(g) + x, p) = Field(8 * (ByteOf(f, i(g), p) + x) + ShiftOf(f, i(g), p), Quant[f][p])
  BY <1>1, <1>2, WordPlaced
<1> QED BY <1>3, <1>5, <1>6 DEF i, PairRight

(* Merging the planes in a byte, or decoding the code alone.               *)
LEMMA ValuesAgree ==
  ASSUME NEW f \in Formats, NEW lo \in 0 .. 2 ^ Quant[f].low - 1, NEW hi \in 0 .. 2 ^ Quant[f].high - 1
  PROVE  /\ lo + hi * 2 ^ HighShift(f) < 256
         /\ WordValue(f, lo, hi) = ScalarValue(f, lo, hi)
<1>1. CASE f = "Q2_K"
  <2>1. Quant[f].low = 2 /\ Quant[f].high = 0 /\ HighShift(f) = 4 /\ WordBias(f) = 0
    BY <1>1 DEF Quant, HighShift, WordBias
  <2> QED BY <1>1, <2>1, SmallPowers DEF WordValue, ScalarValue, Byte4Value
<1>2. CASE f = "Q3_K"
  <2>1. Quant[f].low = 2 /\ Quant[f].high = 1 /\ HighShift(f) = 2 /\ WordBias(f) = 4
    BY <1>2 DEF Quant, HighShift, WordBias
  <2>2. lo \in 0 .. 3 /\ hi \in 0 .. 1
    BY <2>1, SmallPowers
  <2>3. 2 ^ HighShift(f) = 4
    BY <2>1, SmallPowers
  <2> QED BY <1>2, <2>1, <2>2, <2>3 DEF WordValue, ScalarValue, Byte4Value
<1>3. CASE f = "Q4_K"
  <2>1. Quant[f].low = 4 /\ Quant[f].high = 0 /\ HighShift(f) = 4 /\ WordBias(f) = 0
    BY <1>3 DEF Quant, HighShift, WordBias
  <2> QED BY <1>3, <2>1, SmallPowers DEF WordValue, ScalarValue, Byte4Value
<1>4. CASE f = "Q5_K"
  <2>1. Quant[f].low = 4 /\ Quant[f].high = 1 /\ HighShift(f) = 4 /\ WordBias(f) = 0
    BY <1>4 DEF Quant, HighShift, WordBias
  <2>2. lo \in 0 .. 15 /\ hi \in 0 .. 1
    BY <2>1, SmallPowers
  <2>3. 2 ^ HighShift(f) = 16
    BY <2>1, SmallPowers
  <2> QED BY <1>4, <2>1, <2>2, <2>3 DEF WordValue, ScalarValue, Byte4Value
<1>5. CASE f = "Q6_K"
  <2>1. Quant[f].low = 4 /\ Quant[f].high = 2 /\ HighShift(f) = 4 /\ WordBias(f) = 32
    BY <1>5 DEF Quant, HighShift, WordBias
  <2>2. lo \in 0 .. 15 /\ hi \in 0 .. 3
    BY <2>1, SmallPowers
  <2>3. 2 ^ HighShift(f) = 16
    BY <2>1, SmallPowers
  <2> QED BY <1>5, <2>1, <2>2, <2>3 DEF WordValue, ScalarValue, Byte4Value
<1> QED BY <1>1, <1>2, <1>3, <1>4, <1>5, FormatsAre

(* The loads of a word: aligned, and together the word.                    *)
LEMMA LoadsCover ==
  ASSUME NEW at \in Nat
  PROVE  /\ \A a \in Loads(at) : a[1] % a[2] = 0
         /\ UNION {a[1] .. a[1] + a[2] - 1 : a \in Loads(at)} = at .. at + 3
<1>1. CASE (at % 4) = 0
  BY <1>1 DEF Loads
<1>2. CASE (at % 4) # 0 /\ (at % 2) = 0
  BY <1>2 DEF Loads
<1>3. CASE (at % 2) # 0
  <2>1. Loads(at) = {<<at + i, 1>> : i \in 0 .. 3}
    BY <1>3 DEF Loads
  <2>2. \A i \in 0 .. 3 : ((at + i) % 1) = 0 /\ (at + i) .. (at + i) + 1 - 1 = {at + i}
    OBVIOUS
  <2>3. {at + i : i \in 0 .. 3} = at .. at + 3
    <3>1. \A y \in at .. at + 3 : y - at \in 0 .. 3 /\ at + (y - at) = y
      OBVIOUS
    <3> QED BY <3>1
  <2>4. \A i \in 0 .. 3 : <<at + i, 1>>[1] = at + i /\ <<at + i, 1>>[2] = 1
    OBVIOUS
  <2>5. \A a \in Loads(at) : a[1] % a[2] = 0
    BY <2>1, <2>2, <2>4
  <2>6. UNION {a[1] .. a[1] + a[2] - 1 : a \in Loads(at)} = UNION {{at + i} : i \in 0 .. 3}
    <3>1. \A a \in Loads(at) : \E i \in 0 .. 3 : a = <<at + i, 1>> /\ a[1] .. a[1] + a[2] - 1 = {at + i}
      BY <2>1, <2>2, <2>4
    <3>2. \A i \in 0 .. 3 : <<at + i, 1>> \in Loads(at)
      BY <2>1
    <3>3. \A i \in 0 .. 3 : LET a == <<at + i, 1>> IN a[1] .. a[1] + a[2] - 1 = {at + i}
      BY <2>2, <2>4
    <3> QED BY <3>1, <3>2, <3>3
  <2> QED BY <2>3, <2>5, <2>6
<1> QED BY <1>1, <1>2, <1>3

(* The parts of a block.                                                   *)
LEMMA PartsAgree ==
  ASSUME NEW f \in Formats
  PROVE  /\ BlockParts[f].lo = Quant[f].loOff /\ (Quant[f].high > 0 => BlockParts[f].hi = Quant[f].hiOff)
         /\ BlockParts[f].d = Quant[f].dOff /\ BlockParts[f].dmin = Quant[f].dminOff
         /\ BlockParts[f].scales = Quant[f].scaleOff
BY DEF Formats, Quant, BlockParts
(* The codes from one beginning to the next: a group ends where the next   *)
(* begins, or with the block.                                              *)
RunFrom(b, begins) == {i \in Codes : i >= b /\ \A c \in begins : c > b => i < c}

(* With the multiples of D for beginnings a run has D codes.               *)
LEMMA GroupEnds ==
  ASSUME NEW D \in {16, 32}, NEW S, \A i \in Codes : i \in S <=> (i % D) = 0, S \subseteq Codes,
         NEW b \in Codes, (b % D) = 0
  PROVE  RunFrom(b, S) = b .. b + D - 1
<1>1. b \in Nat /\ b + D <= 256
  BY DEF Codes, QK
<1>2. ASSUME NEW i \in Codes, i >= b, \A c \in S : c > b => i < c PROVE i \in b .. b + D - 1
  <2> SUFFICES i < b + D
    BY <1>1, <1>2 DEF Codes, QK
  <2>1. CASE b + D \in Codes
    <3>1. ((b + D) % D) = 0
      BY <1>1
    <3> QED BY <1>1, <1>2, <2>1, <3>1
  <2>2. CASE b + D \notin Codes
    BY <1>1, <2>2 DEF Codes, QK
  <2> QED BY <2>1, <2>2
<1>3. ASSUME NEW i \in b .. b + D - 1 PROVE i \in Codes /\ i >= b /\ \A c \in S : c > b => i < c
  <2>1. i \in Codes
    BY <1>1 DEF Codes, QK
  <2>2. ASSUME NEW c \in S, c > b PROVE i < c
    <3>1. c \in Codes /\ c \in Nat /\ (c % D) = 0
      BY DEF Codes, QK
    <3>2. c >= b + D
      BY <1>1, <2>2, <3>1
    <3> QED BY <1>1, <3>1, <3>2
  <2> QED BY <1>1, <2>1, <2>2
<1> QED BY <1>2, <1>3 DEF RunFrom

(* The traversal applies the sums of every group, once.                    *)
LEMMA SumsAreGroups ==
  ASSUME NEW f \in Formats
  PROVE  SerialSums(f) = {[group |-> g, codes |-> g * Quant[f].group .. g * Quant[f].group + Quant[f].group - 1]
                            : g \in Groups(f)}
<1> DEFINE D == Quant[f].group
           begins == {i \in Codes : i = 0 \/ i \div D # (i - 1) \div D}
           run(b) == RunFrom(b, begins)
<1>1. D \in {16, 32} /\ Quant[f].groups = 256 \div D
  BY DEF Formats, Quant
<1>2. SerialSums(f) = {[group |-> b \div D, codes |-> run(b)] : b \in begins}
  BY DEF SerialSums, RunFrom
<1> HIDE DEF D
<1>3. \A i \in Codes : i \in begins <=> (i % D) = 0
  BY <1>1 DEF Codes, QK
<1>4. begins \subseteq Codes
  OBVIOUS
<1> HIDE DEF begins
<1>5. ASSUME NEW b \in begins
      PROVE  run(b) = b .. b + D - 1 /\ (b \div D) \in Groups(f) /\ (b \div D) * D = b
  <2>1. b \in Codes /\ (b % D) = 0
    BY <1>3, <1>4
  <2>2. (b \div D) \in 0 .. (256 \div D) - 1
    BY <1>1, <2>1, CodeCoordinates
  <2>3. (b \div D) * D = b
    BY <1>1, <2>1 DEF Codes, QK
  <2>4. run(b) = b .. b + D - 1
    BY <1>1, <1>3, <1>4, <2>1, GroupEnds
  <2> QED BY <1>1, <2>2, <2>3, <2>4 DEF Groups
<1>6. ASSUME NEW g \in Groups(f) PROVE g * D \in begins /\ ((g * D) \div D) = g
  <2>1. g \in 0 .. (256 \div D) - 1
    BY <1>1 DEF Groups
  <2>2. g * D \in Codes /\ ((g * D) % D) = 0 /\ ((g * D) \div D) = g
    BY <1>1, <2>1 DEF Codes, QK
  <2> QED BY <1>3, <2>2
<1> HIDE DEF run
<1> QED BY <1>2, <1>5, <1>6 DEF D

(* Every format's blocks are decoded as the official block says.           *)
LEMMA AllDecodesOfficial == OfficialDecodes = Formats
<1> SUFFICES ASSUME NEW f \in Formats PROVE DecodesAsOfficial(f)
  BY DEF OfficialDecodes
<1> DEFINE D == Quant[f].group
           words == {4 * w : w \in 0 .. D \div 4 - 1}
<1>1. D \in {16, 32} /\ Quant[f].groups = 256 \div D /\ Quant[f].raw \in Nat
  BY DEF Formats, Quant
<1>2. ASSUME NEW g \in Groups(f), NEW j \in words
      PROVE  g * D + j \in Codes /\ ((g * D + j) % 4) = 0
  <2>1. g \in 0 .. (256 \div D) - 1
    BY <1>1 DEF Groups
  <2>2. PICK w \in 0 .. D \div 4 - 1 : j = 4 * w
    OBVIOUS
  <2> HIDE DEF D
  <2> QED BY <1>1, <2>1, <2>2 DEF Codes, QK
<1>3. \A p \in Planes(f), g \in Groups(f), j \in words, x \in 0 .. 3 :
        Code4(f, g, j, p)[x] = CodeField(f, g * D + j + x, p)
  BY <1>2, WordsAsOfficial
<1>4. f \in {"Q4_K", "Q5_K"} =>
        \A p \in Planes(f), pair \in 0 .. 3, j \in words, g \in {0, 1}, x \in 0 .. 3 :
          Pair4(f, pair, j, p)[g][x] = CodeField(f, (2 * pair + g) * 32 + j + x, p)
  <2>1. ASSUME NEW j \in words PROVE j \in 0 .. 31 /\ (j % 4) = 0
    <3>1. PICK w \in 0 .. D \div 4 - 1 : j = 4 * w
      OBVIOUS
    <3> HIDE DEF D
    <3> QED BY <1>1, <3>1
  <2> HIDE DEF words
  <2>2. ASSUME f \in {"Q4_K", "Q5_K"}, NEW p \in Planes(f), NEW pair \in 0 .. 3, NEW j \in words,
               NEW g \in {0, 1}, NEW x \in 0 .. 3
        PROVE  Pair4(f, pair, j, p)[g][x] = CodeField(f, (2 * pair + g) * 32 + j + x, p)
    <3>1. j \in 0 .. 31 /\ (j % 4) = 0
      BY <2>1
    <3>2. PairRight(f, p, pair, j, g, x)
      BY <2>2, <3>1, PairsAsOfficial
    <3> QED BY <3>2 DEF PairRight
  <2> QED BY <2>2
<1>5. ASSUME NEW p \in Planes(f), NEW g \in Groups(f), NEW j \in words, NEW b \in {0, 1}
      PROVE  LET at == b * Quant[f].raw + ByteOf(f, g * D + j, p)
             IN  /\ \A a \in Loads(at) : a[1] % a[2] = 0
                 /\ UNION {a[1] .. a[1] + a[2] - 1 : a \in Loads(at)} = at .. at + 3
                 /\ at + 3 < (b + 1) * Quant[f].raw
  <2>1. /\ ByteOf(f, g * D + j, p) \in Nat
        /\ ByteOf(f, g * D + j, p) + 3 < Quant[f].raw
    BY <1>2, WordPlaced
  <2> DEFINE at == b * Quant[f].raw + ByteOf(f, g * D + j, p)
  <2>2. at \in Nat /\ at + 3 < (b + 1) * Quant[f].raw
    <3> HIDE DEF D
    <3> QED BY <1>1, <2>1
  <2> HIDE DEF at
  <2>3. /\ \A a \in Loads(at) : a[1] % a[2] = 0
        /\ UNION {a[1] .. a[1] + a[2] - 1 : a \in Loads(at)} = at .. at + 3
    BY <2>2, LoadsCover
  <2> QED BY <2>2, <2>3 DEF at
<1>6. Byte4Source(FALSE) = <<0, 1, 2, 3>>
  BY DEF Byte4Source, Selectors
<1> QED BY <1>3, <1>4, <1>5, <1>6, ValuesAgree, PartsAgree, SumsAreGroups DEF DecodesAsOfficial
-----------------------------------------------------------------------------
(* The warp.                                                               *)

(* What is launched.                                                       *)
LaunchOK ==
  /\ T \in Formats /\ launch.contract \in {"dense", "rows", "grouped"}
  /\ launch.rows \in Nat \ {0} /\ launch.blocks \in Nat \ {0} /\ launch.warp \in Nat
  /\ launch.route \in Nat /\ (~Grouped => launch.route = 0)
  /\ Grouped => /\ launch.offsets[launch.expert + 1] \in Nat
                /\ launch.offsets[launch.expert + 2] \in Nat

(* Rows and lanes share a warp.                                            *)
LEMMA RowsPerWarpType ==
  ASSUME NEW kernel, NEW type \in Formats, NEW rows, NEW blocks
  PROVE  RowsPerWarp(kernel, type, rows, blocks) \in {2, 4, 8}
BY FormatsAre DEF RowsPerWarp, BcRowsPerWarp, NativeRowsPerWarp

(* The block sizes.                                                        *)
LEMMA ThreadsType ==
  ASSUME NEW kernel, NEW type, NEW perWarp
  PROVE  Threads(kernel, type, perWarp) \in {128, 256}
BY DEF Threads

(* Rounding up covers.                                                     *)
LEMMA CeilIs ==
  ASSUME NEW a \in Nat, NEW S \in Nat \ {0}
  PROVE  Ceil(a, S) \in Nat /\ Ceil(a, S) * S >= a
<1>1. Ceil(a, S) = RoundUp(a, S)
  BY DEF Ceil, RoundUp
<1>2. RoundUp(a, S) \in Nat
  BY RoundUpType
<1> HIDE DEF RoundUp
<1>3. ~(RoundUp(a, S) * S < a)
  BY <1>2, RoundUpCovers
<1>4. RoundUp(a, S) * S \in Nat
  BY <1>2
<1> QED BY <1>1, <1>2, <1>3, <1>4

(* The rows a grid has room for are enough.                                *)
GridRows(rows, perWarp, threads) == (threads \div 32) * GridSize(rows, perWarp, threads) * perWarp

(* There are at least as many as there are rows.                           *)
LEMMA GridCovers ==
  ASSUME NEW rows \in Nat \ {0}, NEW perWarp \in {2, 4, 8}, NEW threads \in {128, 256}
  PROVE  GridSize(rows, perWarp, threads) \in Nat \ {0} /\ GridRows(rows, perWarp, threads) >= rows
<1> DEFINE c == Ceil(rows, perWarp)
           d == Ceil(c, threads \div 32)
<1>1. c \in Nat /\ c * perWarp >= rows
  BY CeilIs
<1> HIDE DEF c
<1>2. (threads \div 32) \in {4, 8}
  OBVIOUS
<1>3. d \in Nat /\ d * (threads \div 32) >= c
  BY <1>1, <1>2, CeilIs
<1> HIDE DEF d
<1>4. (threads \div 32) * d * perWarp >= c * perWarp
  BY <1>1, <1>2, <1>3
<1>5. (threads \div 32) * d * perWarp \in Nat /\ c * perWarp \in Nat
  BY <1>1, <1>2, <1>3
<1>6. c # 0 /\ d # 0
  BY <1>1, <1>2, <1>3
<1> QED BY <1>1, <1>3, <1>4, <1>5, <1>6 DEF GridRows, GridSize, c, d

(* The last warp of the grid.                                              *)
LEMMA LastWarpType ==
  ASSUME NEW rows \in Nat \ {0}, NEW perWarp \in {2, 4, 8}, NEW threads \in {128, 256}
  PROVE  LastWarp(rows, perWarp, threads) \in Nat
<1> DEFINE grid == GridSize(rows, perWarp, threads)
<1>1. grid \in Nat \ {0}
  BY GridCovers
<1>2. (threads \div 32) \in {4, 8} /\ LastWarp(rows, perWarp, threads) = grid * (threads \div 32) - 1
  BY DEF LastWarp
<1> HIDE DEF grid
<1> QED BY <1>1, <1>2

(* A launch is what LaunchOK says.                                         *)
LEMMA LaunchFacts ==
  ASSUME launch \in Launches
  PROVE  LaunchOK
<1> DEFINE Watch(kernel, type, e) ==
             LET perWarp == RowsPerWarp(kernel, type, e[1], e[2])
             IN  {0, (e[1] - 1) \div perWarp, LastWarp(e[1], perWarp, Threads(kernel, type, perWarp))}
           Call(kernel, type, contract, e, o, w, route, expert) ==
             [kernel |-> kernel, type |-> type, contract |-> contract, rows |-> e[1], blocks |-> e[2],
              offsets |-> o, warp |-> w, route |-> route, expert |-> expert]
           Single(kernel, type, contract, e) ==
             {Call(kernel, type, contract, e, << >>, w, 0, 0) : w \in Watch(kernel, type, e)}
           Gathered(kernel, type, e, o) ==
             {Call(kernel, type, "grouped", e, o, w, route, expert) :
                w \in Watch(kernel, type, e), expert \in 0 .. Len(o) - 2,
                route \in 0 .. Max({o[i + 1] - o[i] : i \in 1 .. Len(o) - 1}) - 1}
           CallsOf(kernel, contracts, type, e) ==
             (UNION {Single(kernel, type, contract, e) : contract \in contracts})
               \cup (UNION {Gathered(kernel, type, e, o) : o \in RowOffsets})
<1>0. Launches
        = (UNION {CallsOf("native", {"dense", "rows"}, type, e) : type \in Formats, e \in Extents})
          \cup (UNION {IF BcAccepts(type, e) THEN CallsOf("bc", {"dense"}, type, e) ELSE {} :
                         type \in Formats, e \in Extents})
  BY DEF Launches
<1> HIDE DEF CallsOf
<1>7. PICK kernel \in {"native", "bc"}, contracts \in SUBSET {"dense", "rows"}, type \in Formats, e \in Extents :
        launch \in CallsOf(kernel, contracts, type, e)
  BY <1>0
<1> USE DEF CallsOf
<1> HIDE DEF Single, Gathered
<1>8. \/ \E contract \in {"dense", "rows"} : launch \in Single(kernel, type, contract, e)
      \/ \E o \in RowOffsets : launch \in Gathered(kernel, type, e, o)
  BY <1>7
<1> HIDE DEF CallsOf
<1> USE DEF Single, Gathered
<1>2. e[1] \in Nat \ {0} /\ e[2] \in Nat \ {0}
  BY VecdotAssumption DEF VecdotAssumption
<1>3. Watch(kernel, type, e) \subseteq Nat
  <2> DEFINE perWarp == RowsPerWarp(kernel, type, e[1], e[2])
             threads == Threads(kernel, type, perWarp)
  <2>1. perWarp \in {2, 4, 8} /\ threads \in {128, 256}
    BY RowsPerWarpType, ThreadsType
  <2> HIDE DEF perWarp, threads
  <2>2. (e[1] - 1) \div perWarp \in Nat
    BY <1>2, <2>1
  <2>3. LastWarp(e[1], perWarp, threads) \in Nat
    <3> DEFINE rows == e[1]
    <3>1. rows \in Nat \ {0}
      BY <1>2
    <3> HIDE DEF rows
    <3>2. LastWarp(rows, perWarp, threads) \in Nat
      BY <3>1, <2>1, LastWarpType
    <3> QED BY <3>2 DEF rows
  <2> QED BY <2>2, <2>3 DEF perWarp, threads
<1> HIDE DEF Watch
<1>4. CASE \E contract \in {"dense", "rows"} : launch \in Single(kernel, type, contract, e)
  <2>1. PICK contract \in {"dense", "rows"}, w \in Nat :
          launch = Call(kernel, type, contract, e, << >>, w, 0, 0)
    BY <1>3, <1>4
  <2> QED BY <1>2, <2>1 DEF LaunchOK, T, Grouped
<1>5. CASE \E o \in RowOffsets : launch \in Gathered(kernel, type, e, o)
  <2>5. PICK o \in RowOffsets : launch \in Gathered(kernel, type, e, o)
    <3> HIDE DEF Gathered
    <3> QED BY <1>5
  <2> DEFINE widest == Max({o[i + 1] - o[i] : i \in 1 .. Len(o) - 1})
  <2>6. Gathered(kernel, type, e, o)
          = {Call(kernel, type, "grouped", e, o, w, route, expert) :
               w \in Watch(kernel, type, e), expert \in 0 .. Len(o) - 2, route \in 0 .. widest - 1}
    OBVIOUS
  <2> HIDE DEF Gathered
  <2>1. PICK w \in Nat, expert \in 0 .. Len(o) - 2,
             route \in 0 .. widest - 1 :
          launch = Call(kernel, type, "grouped", e, o, w, route, expert)
    <3> HIDE DEF widest, Call
    <3> QED BY <1>3, <2>5, <2>6
  <2>2. route \in Nat
    OBVIOUS
  <2>3. o \in Seq(Nat) /\ expert + 1 \in 1 .. Len(o) /\ expert + 2 \in 1 .. Len(o)
    BY VecdotAssumption DEF VecdotAssumption
  <2>4. o[expert + 1] \in Nat /\ o[expert + 2] \in Nat
    BY <2>3
  <2> QED BY <1>2, <2>1, <2>2, <2>4 DEF LaunchOK, T, Grouped
<1> HIDE DEF Single, Gathered
<1> QED BY <1>4, <1>5, <1>8

(* A warp's lanes are divided among its rows.                              *)
LEMMA WarpIsDivided ==
  ASSUME LaunchOK
  PROVE  /\ PerWarp \in {2, 4, 8} /\ LanesPerRow \in {4, 8, 16} /\ PerWarp * LanesPerRow = 32
         /\ launch.warp * PerWarp \in Nat
<1>1. PerWarp \in {2, 4, 8}
  BY RowsPerWarpType DEF LaunchOK, PerWarp
<1>2. launch.warp \in Nat
  BY DEF LaunchOK
<1> QED BY <1>1, <1>2 DEF LanesPerRow

(* A lane is a place in the warp's rows and one in its row's lanes.        *)
LEMMA LaneCoordinates ==
  ASSUME NEW L \in {4, 8, 16}, NEW lane \in 0 .. 31
  PROVE  (lane \div L) \in 0 .. (32 \div L) - 1 /\ (lane % L) \in 0 .. L - 1 /\ lane = L * (lane \div L) + (lane % L)
<1>1. CASE L = 4 BY <1>1
<1>2. CASE L = 8 BY <1>2
<1>3. CASE L = 16 BY <1>3
<1> QED BY <1>1, <1>2, <1>3

(* And every such pair of places is a lane.                                *)
LEMMA LaneOfPlaces ==
  ASSUME NEW P \in {2, 4, 8}, NEW L \in {4, 8, 16}, P * L = 32, NEW q \in 0 .. P - 1, NEW c \in 0 .. L - 1
  PROVE  /\ q * L + c \in 0 .. 31
         /\ ((q * L + c) \div L) = q /\ ((q * L + c) % L) = c
<1>1. CASE L = 4
  <2>1. P = 8 BY <1>1
  <2> QED BY <1>1, <2>1
<1>2. CASE L = 8
  <2>1. P = 4 BY <1>2
  <2> QED BY <1>2, <2>1
<1>3. CASE L = 16
  <2>1. P = 2 BY <1>3
  <2> QED BY <1>3, <2>1
<1> QED BY <1>1, <1>2, <1>3

(* One exchange of the butterfly: the partner is another lane of the row,  *)
(* and of the lanes half as far apart the two have one half each.          *)
PartnerAt(lane, o) == IF (lane \div o) % 2 = 0 THEN lane + o ELSE lane - o

Halfway(L, o, a, l) ==
  /\ PartnerAt(a, o) \in 0 .. 31
  /\ (PartnerAt(a, o) \div L) = (a \div L)
  /\ ~((a % (2 * o)) = (l % (2 * o)) /\ (PartnerAt(a, o) % (2 * o)) = (l % (2 * o)))
  /\ ((a % (2 * o)) = (l % (2 * o)) \/ (PartnerAt(a, o) % (2 * o)) = (l % (2 * o)))
       <=> (a % o) = (l % o)

(* By the lanes of a row and the distance, each a power of two.            *)
LEMMA PartnerIsHalfway ==
  ASSUME NEW L \in {4, 8, 16}, NEW o \in {1, 2, 4, 8}, 2 * o <= L, NEW a \in 0 .. 31, NEW l \in 0 .. 31
  PROVE  Halfway(L, o, a, l)
<1>1. CASE o = 1
  <2>1. CASE L = 4 BY <1>1, <2>1 DEF Halfway, PartnerAt
  <2>2. CASE L = 8 BY <1>1, <2>2 DEF Halfway, PartnerAt
  <2>3. CASE L = 16 BY <1>1, <2>3 DEF Halfway, PartnerAt
  <2> QED BY <2>1, <2>2, <2>3
<1>2. CASE o = 2
  <2>1. CASE L = 4 BY <1>2, <2>1 DEF Halfway, PartnerAt
  <2>2. CASE L = 8 BY <1>2, <2>2 DEF Halfway, PartnerAt
  <2>3. CASE L = 16 BY <1>2, <2>3 DEF Halfway, PartnerAt
  <2> QED BY <2>1, <2>2, <2>3
<1>3. CASE o = 4
  <2>1. L # 4 BY <1>3
  <2>2. CASE L = 8 BY <1>3, <2>2 DEF Halfway, PartnerAt
  <2>3. CASE L = 16 BY <1>3, <2>3 DEF Halfway, PartnerAt
  <2> QED BY <2>1, <2>2, <2>3
<1>4. CASE o = 8
  <2>1. L = 16 BY <1>4
  <2> QED BY <1>4, <2>1 DEF Halfway, PartnerAt
<1> QED BY <1>1, <1>2, <1>3, <1>4

(* The lanes whose sums are in a lane's: those of its row that are a       *)
(* multiple of this far away.                                              *)
Apart == IF off = 0 THEN 1 ELSE 2 * off
Reaches(a, l) == (a \div LanesPerRow) = (l \div LanesPerRow) /\ (a % Apart) = (l % Apart)

(* What a lane has added after so many blocks.                             *)
AddedUpTo(lane, count) ==
  IF Active(lane)
  THEN {Product(launch.expert, RowOf(lane), b, g, ActivationRow(lane)) :
          b \in 0 .. count - 1, g \in OwnedGroups(lane)}
  ELSE {}

(* The lanes that store, and where their row begins.                       *)
Storing == {lane \in Lanes : Active(lane) /\ RowLane(lane) = 0}
Base == IF Grouped THEN GatheredRow * launch.rows ELSE 0
RowsStored ==
  /\ DOMAIN rowOut = {Base + RowOf(lane) : lane \in Storing}
  /\ \A a \in DOMAIN rowOut : \E lane \in Storing : Base + RowOf(lane) = a /\ rowOut[a] = share[lane]

WarpInv ==
  /\ LaunchOK
  /\ pc \in {"blocks", "sum", "store", "stored"}
  /\ block \in 0 .. launch.blocks
  /\ off \in {0, 1, 2, 4, 8} /\ 2 * off <= LanesPerRow
  /\ pc # "blocks" => block = launch.blocks
  /\ pc \in {"store", "stored"} => off = 0
  /\ acc = [lane \in Lanes |-> AddedUpTo(lane, block)]
  /\ share = [a \in Lanes |-> [l \in Lanes |-> IF Reaches(a, l) THEN 1 ELSE 0]]
  /\ pc = "stored" => RowsStored

(* A block more adds its products.                                         *)
LEMMA OneBlockMore ==
  ASSUME NEW lane \in Lanes, block \in Nat
  PROVE  AddedUpTo(lane, block + 1) = AddedUpTo(lane, block) \cup Products(lane)
<1>1. 0 .. (block + 1) - 1 = (0 .. block - 1) \cup {block}
  OBVIOUS
<1>2. CASE ~Active(lane)
  BY <1>2 DEF AddedUpTo, Products
<1>3. CASE Active(lane)
  <2> DEFINE P(b, g) == Product(launch.expert, RowOf(lane), b, g, ActivationRow(lane))
             G == OwnedGroups(lane)
  <2>1. /\ AddedUpTo(lane, block + 1) = {P(b, g) : b \in 0 .. (block + 1) - 1, g \in G}
        /\ AddedUpTo(lane, block) = {P(b, g) : b \in 0 .. block - 1, g \in G}
        /\ Products(lane) = {P(block, g) : g \in G}
    BY <1>3 DEF AddedUpTo, Products
  <2> HIDE DEF P, G
  <2> QED BY <1>1, <2>1
<1> QED BY <1>2, <1>3

(* What a step that keeps the launch leaves alone.                         *)
LEMMA LaunchStands ==
  ASSUME launch' = launch
  PROVE  /\ LaunchOK' <=> LaunchOK
         /\ LanesPerRow' = LanesPerRow
         /\ Storing' = Storing /\ Base' = Base
         /\ \A lane \in Lanes : /\ RowOf(lane)' = RowOf(lane)
                                /\ AddedUpTo(lane, block)' = AddedUpTo(lane, block')
<1>1. T' = T /\ LanesPerRow' = LanesPerRow /\ Grouped' = Grouped /\ GatheredRow' = GatheredRow /\ RouteRows' = RouteRows
  BY DEF T, LanesPerRow, PerWarp, Grouped, GatheredRow, RouteBegin, RouteRows
<1>2. LaunchOK' <=> LaunchOK
  BY DEF LaunchOK, T, Grouped
<1>3. \A lane \in Lanes : /\ RowOf(lane)' = RowOf(lane) /\ RowLane(lane)' = RowLane(lane)
                          /\ Active(lane)' = Active(lane)
                          /\ ActivationRow(lane)' = ActivationRow(lane)
                          /\ OwnedGroups(lane)' = OwnedGroups(lane)
  BY DEF RowOf, RowLane, LanesPerRow, PerWarp, T, Active, RouteRows, RouteBegin, Grouped, ActivationRow,
         GatheredRow, OwnedGroups, Wide, Bc
<1>4. Storing' = Storing /\ Base' = Base
  BY <1>1, <1>3 DEF Storing, Base, Lanes
<1>5. \A lane \in Lanes : AddedUpTo(lane, block)' = AddedUpTo(lane, block')
  BY <1>3 DEF AddedUpTo, Product
<1> QED BY <1>1, <1>2, <1>3, <1>4, <1>5

(* The first lanes reach only themselves.                                  *)
LEMMA WarpStarts ==
  ASSUME VecdotInit
  PROVE  WarpInv
<1>1. LaunchOK
  BY LaunchFacts DEF VecdotInit
<1>2. LanesPerRow \in {4, 8, 16}
  BY <1>1, WarpIsDivided
<1>3. off \in {2, 4, 8} /\ 2 * off = LanesPerRow /\ Apart = LanesPerRow
  BY <1>2 DEF VecdotInit, Apart
<1>4. \A a \in Lanes, l \in Lanes : Reaches(a, l) <=> l = a
  <2> SUFFICES ASSUME NEW a \in Lanes, NEW l \in Lanes, Reaches(a, l) PROVE l = a
    BY <1>3 DEF Reaches
  <2>1. /\ a = LanesPerRow * (a \div LanesPerRow) + (a % LanesPerRow)
        /\ l = LanesPerRow * (l \div LanesPerRow) + (l % LanesPerRow)
    BY <1>2, LaneCoordinates DEF Lanes
  <2> QED BY <1>3, <2>1 DEF Reaches
<1>5. share = [a \in Lanes |-> [l \in Lanes |-> IF Reaches(a, l) THEN 1 ELSE 0]]
  BY <1>4 DEF VecdotInit
<1>6. \A lane \in Lanes : AddedUpTo(lane, 0) = {}
  BY DEF AddedUpTo
<1>7. pc = "blocks" /\ block = 0 /\ acc = [lane \in Lanes |-> AddedUpTo(lane, block)]
  BY <1>6 DEF VecdotInit
<1>8. block \in 0 .. launch.blocks
  BY <1>1, <1>7 DEF LaunchOK
<1> QED BY <1>1, <1>3, <1>5, <1>7, <1>8 DEF WarpInv

(* An exchange doubles what every lane's sum holds.                        *)
LEMMA ExchangeReaches ==
  ASSUME WarpInv, Exchange
  PROVE  WarpInv'
<1>1. /\ launch' = launch /\ pc' = pc /\ block' = block /\ acc' = acc
      /\ pc = "sum" /\ off > 0 /\ off' = off \div 2
      /\ share' = [lane \in Lanes |-> [l \in Lanes |-> share[lane][l] + share[Partner(lane)][l]]]
  BY DEF Exchange
<1>2. /\ LaunchOK /\ block \in 0 .. launch.blocks /\ block = launch.blocks
      /\ off \in {1, 2, 4, 8} /\ 2 * off <= LanesPerRow
      /\ acc = [lane \in Lanes |-> AddedUpTo(lane, block)]
      /\ share = [a \in Lanes |-> [l \in Lanes |-> IF Reaches(a, l) THEN 1 ELSE 0]]
  BY <1>1 DEF WarpInv
<1>3. LanesPerRow \in {4, 8, 16}
  BY <1>2, WarpIsDivided
<1>4. /\ LaunchOK' /\ LanesPerRow' = LanesPerRow
      /\ \A lane \in Lanes : AddedUpTo(lane, block)' = AddedUpTo(lane, block')
  BY <1>1, <1>2, LaunchStands
<1>5. /\ off' \in {0, 1, 2, 4, 8} /\ 2 * off' <= LanesPerRow
      /\ Apart = 2 * off /\ Apart' = off
  BY <1>1, <1>2, <1>3 DEF Apart
<1>6. ASSUME NEW a \in Lanes, NEW l \in Lanes
      PROVE  /\ Partner(a) \in Lanes
             /\ ~(Reaches(a, l) /\ Reaches(Partner(a), l))
             /\ Reaches(a, l)' <=> (Reaches(a, l) \/ Reaches(Partner(a), l))
  <2>1. Partner(a) = PartnerAt(a, off)
    BY DEF Partner, PartnerAt
  <2>2. PICK o \in {1, 2, 4, 8} : o = off
    BY <1>2
  <2>3. PICK L \in {4, 8, 16} : L = LanesPerRow
    BY <1>3
  <2>4. PICK p : p = PartnerAt(a, o)
    OBVIOUS
  <2>5. /\ p \in 0 .. 31 /\ (p \div L) = (a \div L)
        /\ ~((a % (2 * o)) = (l % (2 * o)) /\ (p % (2 * o)) = (l % (2 * o)))
        /\ ((a % (2 * o)) = (l % (2 * o)) \/ (p % (2 * o)) = (l % (2 * o))) <=> (a % o) = (l % o)
    <3>1. 2 * o <= L
      BY <1>2, <2>2, <2>3
    <3>2. Halfway(L, o, a, l)
      BY <3>1, PartnerIsHalfway DEF Lanes
    <3> QED BY <2>4, <3>2 DEF Halfway
  <2>6. /\ Reaches(a, l) <=> (a \div L) = (l \div L) /\ (a % (2 * o)) = (l % (2 * o))
        /\ Reaches(p, l) <=> (p \div L) = (l \div L) /\ (p % (2 * o)) = (l % (2 * o))
        /\ Reaches(a, l)' <=> (a \div L) = (l \div L) /\ (a % o) = (l % o)
    BY <1>4, <1>5, <2>2, <2>3 DEF Reaches
  <2> QED BY <2>1, <2>2, <2>4, <2>5, <2>6 DEF Lanes
<1>7. ASSUME NEW a \in Lanes, NEW l \in Lanes
      PROVE  share[a][l] + share[Partner(a)][l] = IF Reaches(a, l)' THEN 1 ELSE 0
  <2>1. /\ share[a][l] = IF Reaches(a, l) THEN 1 ELSE 0
        /\ share[Partner(a)][l] = IF Reaches(Partner(a), l) THEN 1 ELSE 0
    BY <1>2, <1>6
  <2> QED BY <1>6, <2>1
<1>8. share' = [a \in Lanes |-> [l \in Lanes |-> IF Reaches(a, l)' THEN 1 ELSE 0]]
  BY <1>1, <1>7
<1> QED BY <1>1, <1>2, <1>4, <1>5, <1>8 DEF WarpInv

(* Every step keeps the warp's invariant.                                  *)
LEMMA WarpSteps ==
  ASSUME WarpInv, VecdotNext \/ UNCHANGED kernelVars
  PROVE  WarpInv'
<1>1. CASE AccumulateBlock
  <2>1. /\ launch' = launch /\ pc = "blocks" /\ block < launch.blocks /\ block' = block + 1
        /\ off' = off /\ share' = share
        /\ pc' = IF block' = launch.blocks THEN "sum" ELSE pc
        /\ acc' = [lane \in Lanes |-> acc[lane] \cup Products(lane)]
    BY <1>1 DEF AccumulateBlock
  <2>2. /\ LaunchOK /\ block \in 0 .. launch.blocks /\ launch.blocks \in Nat /\ block \in Nat
        /\ off \in {0, 1, 2, 4, 8} /\ 2 * off <= LanesPerRow
        /\ acc = [lane \in Lanes |-> AddedUpTo(lane, block)]
        /\ share = [a \in Lanes |-> [l \in Lanes |-> IF Reaches(a, l) THEN 1 ELSE 0]]
    BY DEF WarpInv, LaunchOK
  <2>3. /\ LaunchOK' /\ LanesPerRow' = LanesPerRow
        /\ \A lane \in Lanes : AddedUpTo(lane, block)' = AddedUpTo(lane, block')
    BY <2>1, <2>2, LaunchStands
  <2>4. acc' = [lane \in Lanes |-> AddedUpTo(lane, block)']
    BY <2>1, <2>2, <2>3, OneBlockMore
  <2>5. \A a \in Lanes, l \in Lanes : Reaches(a, l)' <=> Reaches(a, l)
    BY <2>1, <2>3 DEF Reaches, Apart
  <2>6. share' = [a \in Lanes |-> [l \in Lanes |-> IF Reaches(a, l)' THEN 1 ELSE 0]]
    BY <2>1, <2>2, <2>5
  <2>7. block' \in 0 .. launch'.blocks /\ pc' \in {"blocks", "sum"} /\ (pc' # "blocks" => block' = launch'.blocks)
    BY <2>1, <2>2
  <2> QED BY <2>1, <2>2, <2>3, <2>4, <2>6, <2>7 DEF WarpInv
<1>2. CASE Exchange
  BY <1>2, ExchangeReaches
<1>3. CASE Summed \/ Store \/ Retired \/ UNCHANGED kernelVars
  <2>1. /\ launch' = launch /\ block' = block /\ off' = off /\ acc' = acc /\ share' = share
        /\ \/ pc = "sum" /\ off = 0 /\ pc' = "store"
           \/ Store /\ pc = "store" /\ pc' = "stored"
           \/ pc' = pc /\ rowOut' = rowOut
    BY <1>3 DEF Summed, Store, Retired, kernelVars
  <2>2. LaunchOK /\ acc = [lane \in Lanes |-> AddedUpTo(lane, block)]
        /\ share = [a \in Lanes |-> [l \in Lanes |-> IF Reaches(a, l) THEN 1 ELSE 0]]
    BY DEF WarpInv
  <2>3. /\ LaunchOK' /\ LanesPerRow' = LanesPerRow /\ Storing' = Storing /\ Base' = Base
        /\ \A lane \in Lanes : RowOf(lane)' = RowOf(lane) /\ AddedUpTo(lane, block)' = AddedUpTo(lane, block')
    BY <2>1, <2>2, LaunchStands
  <2>4. \A a \in Lanes, l \in Lanes : Reaches(a, l)' <=> Reaches(a, l)
    BY <2>1, <2>3 DEF Reaches, Apart
  <2>5. share' = [a \in Lanes |-> [l \in Lanes |-> IF Reaches(a, l)' THEN 1 ELSE 0]]
    BY <2>1, <2>2, <2>4
  <2>6. acc' = [lane \in Lanes |-> AddedUpTo(lane, block)']
    BY <2>1, <2>2, <2>3
  <2>7. Storing \subseteq Lanes
    BY DEF Storing
  <2>8. ASSUME pc' = "stored" PROVE RowsStored'
    <3>1. CASE Store
      <4>1. PICK b : b = Base
        OBVIOUS
      <4>2. rowOut' = [a \in {b + RowOf(lane) : lane \in Storing} |->
                         share[CHOOSE lane \in Storing : b + RowOf(lane) = a]]
        BY <3>1, <4>1 DEF Store, Base, Storing
      <4>3. DOMAIN rowOut' = {b + RowOf(lane) : lane \in Storing}
        BY <4>2
      <4>4. ASSUME NEW a \in DOMAIN rowOut'
            PROVE  \E lane \in Storing : b + RowOf(lane) = a /\ rowOut'[a] = share[lane]
        BY <4>2, <4>3
      <4> QED BY <2>1, <2>3, <2>7, <4>1, <4>3, <4>4 DEF RowsStored
    <3>2. CASE pc' = pc /\ rowOut' = rowOut
      <4>1. RowsStored
        BY <2>8, <3>2 DEF WarpInv
      <4> QED BY <2>1, <2>3, <2>7, <3>2, <4>1 DEF RowsStored
    <3> QED BY <2>1, <2>8, <3>1, <3>2
  <2> QED BY <2>1, <2>2, <2>3, <2>5, <2>6, <2>8 DEF WarpInv
<1> QED BY <1>1, <1>2, <1>3 DEF VecdotNext

(* A group is a lane's by its number, or its pair's.                       *)
Key(g) == IF Wide THEN g \div 2 ELSE g

(* A lane owns the groups whose number is its own modulo the row's lanes.  *)
LEMMA GroupOwner ==
  ASSUME LaunchOK, NEW lane \in Lanes
  PROVE  /\ \A g : g \in OwnedGroups(lane) <=> g \in Groups(T) /\ Key(g) % LanesPerRow = RowLane(lane)
         /\ OwnedGroups(lane) # {} => OwnsHeader(lane)
<1>1. PICK c \in Nat : c = Quant[T].groups
  BY Numbers DEF LaunchOK
<1>2. PICK L \in {4, 8, 16}, x \in Int : L = LanesPerRow /\ x = RowLane(lane)
  <2>1. LanesPerRow \in {4, 8, 16}
    BY WarpIsDivided
  <2>2. RowLane(lane) \in Int
    BY <2>1 DEF RowLane, Lanes
  <2> QED BY <2>1, <2>2
<1>3. Groups(T) = 0 .. c - 1
  BY <1>1 DEF Groups
<1>4. CASE Wide
  <2>1. c = 8
    <3>1. T = "Q4_K" \/ T = "Q5_K"
      BY <1>4 DEF Wide
    <3> QED BY <1>1, <3>1 DEF Quant
  <2>2. OwnedGroups(lane) = UNION {{2 * p, 2 * p + 1} : p \in {i \in 0 .. 3 : (i % L) = x}}
    BY <1>1, <1>2, <1>4, <2>1 DEF OwnedGroups
  <2>3. ASSUME NEW g \in OwnedGroups(lane) PROVE g \in 0 .. 7 /\ ((g \div 2) % L) = x
    BY <2>2
  <2>4. ASSUME NEW g \in 0 .. 7, ((g \div 2) % L) = x PROVE g \in OwnedGroups(lane)
    <3>1. (g \div 2) \in 0 .. 3 /\ g \in {2 * (g \div 2), 2 * (g \div 2) + 1}
      OBVIOUS
    <3> QED BY <2>2, <2>4, <3>1
  <2>5. ASSUME OwnedGroups(lane) # {} PROVE OwnsHeader(lane)
    <3>1. PICK i \in 0 .. 3 : (i % L) = x
      BY <2>2, <2>5
    <3> QED BY <1>1, <1>2, <1>4, <2>1, <3>1 DEF OwnsHeader
  <2> QED BY <1>2, <1>3, <1>4, <2>1, <2>3, <2>4, <2>5 DEF Key
<1>5. CASE ~Wide
  <2>2. OwnedGroups(lane) = {i \in 0 .. c - 1 : (i % L) = x}
    BY <1>1, <1>2, <1>5 DEF OwnedGroups
  <2>3. ASSUME OwnedGroups(lane) # {} PROVE OwnsHeader(lane)
    <3>1. PICK i \in 0 .. c - 1 : (i % L) = x
      BY <2>2, <2>3
    <3>2. i >= (i % L)
      BY <1>1, <1>2, <3>1
    <3> QED BY <1>1, <1>2, <1>5, <3>1, <3>2 DEF OwnsHeader
  <2> QED BY <1>2, <1>3, <1>5, <2>2, <2>3 DEF Key
<1> QED BY <1>4, <1>5

(* The lanes of a row, and the one of a group of it.                       *)
LEMMA LanesOfRow ==
  ASSUME LaunchOK
  PROVE  /\ \A lane \in Lanes : /\ RowOf(lane) \in launch.warp * PerWarp .. launch.warp * PerWarp + PerWarp - 1
                                /\ RowLane(lane) \in 0 .. LanesPerRow - 1
         /\ \A a \in Lanes, l \in Lanes :
              /\ (a \div LanesPerRow) = (l \div LanesPerRow) <=> RowOf(a) = RowOf(l)
              /\ RowOf(a) = RowOf(l) /\ RowLane(a) = RowLane(l) => a = l
         /\ \A r \in launch.warp * PerWarp .. launch.warp * PerWarp + PerWarp - 1, c \in 0 .. LanesPerRow - 1 :
              \E lane \in Lanes : RowOf(lane) = r /\ RowLane(lane) = c
<1>1. PICK L \in {4, 8, 16}, P \in {2, 4, 8}, w \in Nat :
        /\ L = LanesPerRow /\ P = PerWarp /\ w = launch.warp * PerWarp
        /\ P * L = 32
  BY WarpIsDivided
<1>2. (32 \div L) = P
  BY <1>1 DEF LanesPerRow
<1>3. \A lane \in Lanes : RowOf(lane) = w + (lane \div L) /\ RowLane(lane) = (lane % L)
  BY <1>1 DEF RowOf, RowLane
<1>4. \A lane \in Lanes : (lane \div L) \in 0 .. P - 1 /\ (lane % L) \in 0 .. L - 1
  BY <1>2, LaneCoordinates DEF Lanes
<1>5. ASSUME NEW a \in Lanes, NEW l \in Lanes, (a \div L) = (l \div L), (a % L) = (l % L) PROVE a = l
  <2>1. /\ a = L * (a \div L) + (a % L)
        /\ l = L * (l \div L) + (l % L)
    BY LaneCoordinates DEF Lanes
  <2> QED BY <1>5, <2>1
<1>6. ASSUME NEW r \in w .. w + P - 1, NEW c \in 0 .. L - 1
      PROVE  \E lane \in Lanes : w + (lane \div L) = r /\ (lane % L) = c
  <2>1. r - w \in 0 .. P - 1
    OBVIOUS
  <2>2. PICK q \in 0 .. P - 1 : q = r - w
    BY <2>1
  <2>3. q * L + c \in Lanes /\ ((q * L + c) \div L) = q /\ ((q * L + c) % L) = c
    BY <1>1, LaneOfPlaces DEF Lanes
  <2> QED BY <2>2, <2>3
<1>7. ASSUME NEW lane \in Lanes
      PROVE  RowOf(lane) \in w .. w + P - 1 /\ RowLane(lane) \in 0 .. L - 1
  BY <1>3, <1>4
<1>8. ASSUME NEW a \in Lanes, NEW l \in Lanes
      PROVE  /\ (a \div L) = (l \div L) <=> RowOf(a) = RowOf(l)
             /\ RowOf(a) = RowOf(l) /\ RowLane(a) = RowLane(l) => a = l
  <2>1. (a \div L) = (l \div L) <=> RowOf(a) = RowOf(l)
    BY <1>3, <1>4
  <2> QED BY <2>1, <1>3, <1>5
<1>9. ASSUME NEW r \in w .. w + P - 1, NEW c \in 0 .. L - 1
      PROVE  \E lane \in Lanes : RowOf(lane) = r /\ RowLane(lane) = c
  BY <1>3, <1>6
<1> QED BY <1>1, <1>7, <1>8, <1>9

(* The activation row a weight row is multiplied with, the products of a   *)
(* row, the rows that are the warp's, and whether its route is one.        *)
RowX(r) == CASE launch.contract = "dense" -> 0
             [] launch.contract = "rows" -> r
             [] launch.contract = "grouped" -> GatheredRow
RowWhole(r) == {Product(launch.expert, r, b, g, RowX(r)) : b \in 0 .. launch.blocks - 1, g \in Groups(T)}
Mine == {r \in launch.warp * PerWarp .. launch.warp * PerWarp + PerWarp - 1 : r < launch.rows}
Routed == ~Grouped \/ GatheredRow < launch.offsets[launch.expert + 2]

(* An active lane is one of a row of the warp, on a route, and it takes    *)
(* the activation its contract names.                                      *)
LEMMA ActiveLanes ==
  ASSUME LaunchOK
  PROVE  /\ Base \in Int
         /\ \A lane \in Lanes : /\ RowOf(lane) \in Int
                                /\ Active(lane) <=> RowOf(lane) \in Mine /\ Routed
                                /\ Active(lane) => ActivationRow(lane) = RowX(RowOf(lane))
<1>1. launch.rows \in Nat /\ launch.route \in Nat /\ launch.warp * PerWarp \in Nat /\ PerWarp \in Nat
  BY WarpIsDivided DEF LaunchOK
<1>2. launch.route < RouteRows <=> Routed
  <2>1. CASE Grouped
    <3>1. PICK a \in Nat, b \in Nat : a = launch.offsets[launch.expert + 1] /\ b = launch.offsets[launch.expert + 2]
      BY <2>1 DEF LaunchOK
    <3> QED BY <1>1, <2>1, <3>1 DEF RouteRows, RouteBegin, Routed, GatheredRow
  <2>2. CASE ~Grouped
    BY <2>2 DEF LaunchOK, RouteRows, Routed
  <2> QED BY <2>1, <2>2
<1>3. Base \in Int
  <2>1. CASE Grouped
    <3>1. GatheredRow \in Nat
      BY <1>1, <2>1 DEF LaunchOK, GatheredRow, RouteBegin
    <3> QED BY <1>1, <2>1, <3>1 DEF Base
  <2>2. CASE ~Grouped
    BY <2>2 DEF Base
  <2> QED BY <2>1, <2>2
<1>4. ASSUME NEW lane \in Lanes
      PROVE  /\ RowOf(lane) \in Int
             /\ Active(lane) <=> RowOf(lane) \in Mine /\ Routed
             /\ Active(lane) => ActivationRow(lane) = RowX(RowOf(lane))
  <2>1. RowOf(lane) \in launch.warp * PerWarp .. launch.warp * PerWarp + PerWarp - 1
    BY LanesOfRow
  <2>2. Active(lane) <=> RowOf(lane) \in Mine /\ Routed
    BY <1>2, <2>1 DEF Active, Mine
  <2>3. RowOf(lane) \in Int
    BY <1>1, <2>1
  <2>4. ASSUME Active(lane) PROVE ActivationRow(lane) = RowX(RowOf(lane))
    BY <2>4 DEF ActivationRow, RowX, Grouped, LaunchOK
  <2> QED BY <2>2, <2>3, <2>4
<1> QED BY <1>3, <1>4

(* A lane's sum when all blocks are added.                                 *)
Total(lane) ==
  IF Active(lane)
  THEN {Product(launch.expert, RowOf(lane), b, g, RowX(RowOf(lane))) :
          b \in 0 .. launch.blocks - 1, g \in OwnedGroups(lane)}
  ELSE {}

(* What the lanes of a warp that is done have added, and of each other.    *)
LEMMA WarpDone ==
  ASSUME WarpInv, pc = "stored"
  PROVE  /\ \A lane \in Lanes : acc[lane] = Total(lane)
         /\ \A a \in Lanes, l \in Lanes : share[a][l] = IF RowOf(a) = RowOf(l) THEN 1 ELSE 0
<1>1. /\ LaunchOK /\ off = 0 /\ block = launch.blocks
      /\ acc = [lane \in Lanes |-> AddedUpTo(lane, block)]
      /\ share = [a \in Lanes |-> [l \in Lanes |-> IF Reaches(a, l) THEN 1 ELSE 0]]
  BY DEF WarpInv
<1>2. ASSUME NEW lane \in Lanes
      PROVE  acc[lane] = Total(lane)
  <2>1. acc[lane] = AddedUpTo(lane, launch.blocks)
    BY <1>1
  <2>2. Active(lane) => ActivationRow(lane) = RowX(RowOf(lane))
    BY <1>1, ActiveLanes
  <2> QED BY <2>1, <2>2 DEF AddedUpTo, Total
<1>3. ASSUME NEW a \in Lanes, NEW l \in Lanes
      PROVE  share[a][l] = IF RowOf(a) = RowOf(l) THEN 1 ELSE 0
  <2>1. Apart = 1
    BY <1>1 DEF Apart
  <2>2. (a % 1) = (l % 1)
    BY DEF Lanes
  <2>3. Reaches(a, l) <=> RowOf(a) = RowOf(l)
    BY <1>1, <2>1, <2>2, LanesOfRow DEF Reaches
  <2>4. share[a][l] = IF Reaches(a, l) THEN 1 ELSE 0
    BY <1>1
  <2> QED BY <2>3, <2>4
<1> QED BY <1>2, <1>3

(* Where a warp that is done has stored, and what.                         *)
LEMMA WarpStored ==
  ASSUME WarpInv, pc = "stored"
  PROVE  /\ DOMAIN rowOut = IF Routed THEN {Base + r : r \in Mine} ELSE {}
         /\ Routed => \A r \in Mine, l \in Lanes : rowOut[Base + r][l] = IF RowOf(l) = r THEN 1 ELSE 0
<1>1. LaunchOK /\ RowsStored
  BY DEF WarpInv
<1>2. PICK b \in Int : b = Base
  BY <1>1, ActiveLanes
<1>3. \A lane \in Lanes : lane \in Storing <=> RowOf(lane) \in Mine /\ Routed /\ RowLane(lane) = 0
  BY <1>1, ActiveLanes DEF Storing
<1>4. Storing \subseteq Lanes
  BY DEF Storing
<1>5. Mine \subseteq Int
  <2>1. launch.warp * PerWarp \in Nat /\ PerWarp \in Nat
    BY <1>1, WarpIsDivided
  <2> QED BY <2>1 DEF Mine
<1>6. ASSUME NEW r \in Mine, Routed PROVE \E lane \in Storing : RowOf(lane) = r
  <2>1. 0 \in 0 .. LanesPerRow - 1
    BY <1>1, WarpIsDivided
  <2>2. r \in launch.warp * PerWarp .. launch.warp * PerWarp + PerWarp - 1
    BY DEF Mine
  <2>3. PICK lane \in Lanes : RowOf(lane) = r /\ RowLane(lane) = 0
    BY <1>1, <2>1, <2>2, LanesOfRow
  <2> QED BY <1>3, <1>6, <2>3
<1>7. DOMAIN rowOut = IF Routed THEN {b + r : r \in Mine} ELSE {}
  <2>1. DOMAIN rowOut = {b + RowOf(lane) : lane \in Storing}
    BY <1>1, <1>2 DEF RowsStored
  <2>2. CASE Routed
    BY <1>3, <1>4, <1>6, <2>1, <2>2
  <2>3. CASE ~Routed
    BY <1>3, <1>4, <2>1, <2>3
  <2> QED BY <2>2, <2>3
<1>8. ASSUME Routed, NEW r \in Mine, NEW l \in Lanes
      PROVE  rowOut[b + r][l] = IF RowOf(l) = r THEN 1 ELSE 0
  <2>1. b + r \in DOMAIN rowOut
    BY <1>7, <1>8
  <2>2. PICK lane \in Storing : b + RowOf(lane) = b + r /\ rowOut[b + r] = share[lane]
    BY <1>1, <1>2, <2>1 DEF RowsStored
  <2>3. RowOf(lane) = r
    <3>1. RowOf(lane) \in Int /\ r \in Int
      BY <1>1, <1>4, <1>5, ActiveLanes
    <3>2. PICK x \in Int, y \in Int : x = RowOf(lane) /\ y = r
      BY <3>1
    <3>3. b + x = b + y
      BY <2>2, <3>2
    <3>4. x = y
      BY <3>3
    <3> QED BY <3>2, <3>4
  <2>4. share[lane][l] = IF RowOf(lane) = RowOf(l) THEN 1 ELSE 0
    BY <1>4, WarpDone
  <2> QED BY <2>2, <2>3, <2>4
<1> QED BY <1>2, <1>7, <1>8

(* Each product of a row is in the sum of one lane, a lane of the row, and *)
(* a lane has nothing else.                                                *)
LEMMA ProductHasALane ==
  ASSUME LaunchOK, Routed, NEW r \in Mine, NEW p \in RowWhole(r)
  PROVE  \E lane \in Lanes : RowOf(lane) = r /\ \A l \in Lanes : p \in Total(l) <=> l = lane
<1>1. PICK b \in 0 .. launch.blocks - 1, g \in Groups(T) : p = Product(launch.expert, r, b, g, RowX(r))
  BY DEF RowWhole
<1>2. Key(g) % LanesPerRow \in 0 .. LanesPerRow - 1
  <2>1. LanesPerRow \in {4, 8, 16}
    BY WarpIsDivided
  <2>2. g \in Nat
    BY DEF Groups
  <2>3. Key(g) \in Nat
    BY <2>2 DEF Key
  <2> QED BY <2>1, <2>3
<1>3. r \in launch.warp * PerWarp .. launch.warp * PerWarp + PerWarp - 1
  BY DEF Mine
<1>4. PICK lane \in Lanes : RowOf(lane) = r /\ RowLane(lane) = Key(g) % LanesPerRow
  BY <1>2, <1>3, LanesOfRow
<1>5. p \in Total(lane)
  <2>1. Active(lane)
    BY <1>4, ActiveLanes
  <2>2. g \in OwnedGroups(lane)
    BY <1>4, GroupOwner
  <2> QED BY <1>1, <1>4, <2>1, <2>2 DEF Total
<1>6. ASSUME NEW l \in Lanes, p \in Total(l) PROVE l = lane
  <2>1. PICK c \in 0 .. launch.blocks - 1, h \in OwnedGroups(l) :
          p = Product(launch.expert, RowOf(l), c, h, RowX(RowOf(l)))
    BY <1>6 DEF Total
  <2>2. RowOf(l) = r /\ h = g
    BY <1>1, <2>1 DEF Product
  <2>3. RowLane(l) = Key(g) % LanesPerRow
    BY <2>2, GroupOwner
  <2> QED BY <1>4, <2>2, <2>3, LanesOfRow
<1> QED BY <1>4, <1>5, <1>6

(* What a lane has of a row: all of it the row's, if the lane is of the    *)
(* row, and otherwise none.                                                *)
LEMMA TotalIsOfItsRow ==
  ASSUME LaunchOK, NEW l \in Lanes, NEW r
  PROVE  Total(l) # {} => (RowOf(l) = r <=> Total(l) \subseteq RowWhole(r))
<1>1. \A p \in Total(l) : \E b \in 0 .. launch.blocks - 1, g \in OwnedGroups(l) :
        p = Product(launch.expert, RowOf(l), b, g, RowX(RowOf(l)))
  BY DEF Total
<1>2. OwnedGroups(l) \subseteq Groups(T)
  BY GroupOwner
<1>3. ASSUME RowOf(l) = r PROVE Total(l) \subseteq RowWhole(r)
  BY <1>1, <1>2, <1>3 DEF RowWhole
<1>4. ASSUME NEW p \in Total(l), p \in RowWhole(r) PROVE RowOf(l) = r
  BY <1>1, <1>4 DEF RowWhole, Product
<1> QED BY <1>3, <1>4

(* The property, of the rows and products named above.                     *)
RowSummed(r, base, whole) ==
  /\ \A p \in whole : Cardinality({l \in Lanes : p \in acc[l]}) = 1
  /\ \A l \in Lanes : acc[l] # {} => rowOut[base + r][l] = IF acc[l] \subseteq whole THEN 1 ELSE 0
  /\ whole \subseteq UNION {acc[l] : l \in {x \in Lanes : rowOut[base + r][x] = 1}}

SummedOnce ==
  /\ T \in OfficialDecodes
  /\ DOMAIN rowOut = IF Routed THEN {Base + r : r \in Mine} ELSE {}
  /\ \A r \in Mine : Routed => RowSummed(r, Base, RowWhole(r))
  /\ GridRows(launch.rows, PerWarp, Threads(launch.kernel, T, PerWarp)) >= launch.rows
  /\ \A lane \in Lanes : Active(lane) /\ OwnedGroups(lane) # {} => OwnsHeader(lane)

(* It is the property.                                                     *)
LEMMA SummedOnceIs == EveryGroupSummedOnce <=> (pc = "stored" => SummedOnce)
<1> DEFINE threads == Threads(launch.kernel, T, PerWarp)
           mine == {r \in launch.warp * PerWarp .. launch.warp * PerWarp + PerWarp - 1 : r < launch.rows}
           routed == ~Grouped \/ GatheredRow < launch.offsets[launch.expert + 2]
           X(r) == CASE launch.contract = "dense" -> 0
                     [] launch.contract = "rows" -> r
                     [] launch.contract = "grouped" -> GatheredRow
           Whole(r) == {Product(launch.expert, r, b, g, X(r)) :
                          b \in 0 .. launch.blocks - 1, g \in Groups(T)}
           base == IF Grouped THEN GatheredRow * launch.rows ELSE 0
           stored == DOMAIN rowOut = IF routed THEN {base + r : r \in mine} ELSE {}
           room == (threads \div 32) * GridSize(launch.rows, PerWarp, threads) * PerWarp >= launch.rows
           headers == \A lane \in Lanes : Active(lane) /\ OwnedGroups(lane) # {} => OwnsHeader(lane)
<1>1. EveryGroupSummedOnce
        <=> (pc = "stored" => /\ T \in OfficialDecodes
                              /\ stored
                              /\ \A r \in mine : routed => RowSummed(r, base, Whole(r))
                              /\ room
                              /\ headers)
  BY DEF EveryGroupSummedOnce, RowSummed
<1>2. mine = Mine /\ (routed <=> Routed) /\ base = Base
  BY DEF Mine, Routed, Base
<1>3. \A r : Whole(r) = RowWhole(r)
  BY DEF RowWhole, RowX
<1>4. room <=> GridRows(launch.rows, PerWarp, threads) >= launch.rows
  BY DEF GridRows
<1> HIDE DEF mine, routed, X, Whole, base, room, headers
<1>5. stored <=> DOMAIN rowOut = IF Routed THEN {Base + r : r \in Mine} ELSE {}
  BY <1>2
<1> HIDE DEF stored
<1>6. (\A r \in mine : routed => RowSummed(r, base, Whole(r)))
        <=> \A r \in Mine : Routed => RowSummed(r, Base, RowWhole(r))
  BY <1>2, <1>3
<1> QED BY <1>1, <1>4, <1>5, <1>6 DEF SummedOnce, headers, threads

(* A warp that is done has stored each of its rows as the sum of each of   *)
(* its groups, once.                                                       *)
LEMMA WarpIsSummedOnce ==
  ASSUME WarpInv
  PROVE  EveryGroupSummedOnce
<1> SUFFICES ASSUME pc = "stored" PROVE SummedOnce
  BY SummedOnceIs
<1>1. LaunchOK
  BY DEF WarpInv
<1>2. T \in OfficialDecodes
  BY <1>1, AllDecodesOfficial DEF LaunchOK
<1>3. DOMAIN rowOut = IF Routed THEN {Base + r : r \in Mine} ELSE {}
  BY WarpStored
<1>4. ASSUME NEW r \in Mine, Routed
      PROVE  /\ \A p \in RowWhole(r) : Cardinality({l \in Lanes : p \in acc[l]}) = 1
             /\ \A l \in Lanes : acc[l] # {} =>
                  rowOut[Base + r][l] = IF acc[l] \subseteq RowWhole(r) THEN 1 ELSE 0
             /\ RowWhole(r) \subseteq UNION {acc[l] : l \in {x \in Lanes : rowOut[Base + r][x] = 1}}
  <2>1. \A l \in Lanes : acc[l] = Total(l)
    BY WarpDone
  <2>2. \A l \in Lanes : rowOut[Base + r][l] = IF RowOf(l) = r THEN 1 ELSE 0
    BY <1>4, WarpStored
  <2>3. ASSUME NEW p \in RowWhole(r)
        PROVE  /\ Cardinality({l \in Lanes : p \in acc[l]}) = 1
               /\ \E l \in Lanes : rowOut[Base + r][l] = 1 /\ p \in acc[l]
    <3>1. PICK lane \in Lanes : RowOf(lane) = r /\ \A l \in Lanes : p \in Total(l) <=> l = lane
      BY <1>1, <1>4, ProductHasALane
    <3>2. {l \in Lanes : p \in acc[l]} = {lane}
      BY <2>1, <3>1
    <3> QED BY <2>1, <2>2, <3>1, <3>2, FS_Singleton
  <2>4. ASSUME NEW l \in Lanes, acc[l] # {}
        PROVE  rowOut[Base + r][l] = IF acc[l] \subseteq RowWhole(r) THEN 1 ELSE 0
    <3>1. RowOf(l) = r <=> acc[l] \subseteq RowWhole(r)
      BY <1>1, <2>1, <2>4, TotalIsOfItsRow
    <3>2. rowOut[Base + r][l] = IF RowOf(l) = r THEN 1 ELSE 0
      BY <2>2
    <3> QED BY <3>1, <3>2
  <2>5. RowWhole(r) \subseteq UNION {acc[l] : l \in {x \in Lanes : rowOut[Base + r][x] = 1}}
    BY <2>3
  <2> QED BY <2>3, <2>4, <2>5
<1>5. GridRows(launch.rows, PerWarp, Threads(launch.kernel, T, PerWarp)) >= launch.rows
  <2>1. launch.rows \in Nat \ {0} /\ PerWarp \in {2, 4, 8}
    BY <1>1, WarpIsDivided DEF LaunchOK
  <2>2. Threads(launch.kernel, T, PerWarp) \in {128, 256}
    BY ThreadsType
  <2> QED BY <2>1, <2>2, GridCovers
<1>6. \A lane \in Lanes : Active(lane) /\ OwnedGroups(lane) # {} => OwnsHeader(lane)
  BY <1>1, GroupOwner
<1>7. \A r \in Mine : Routed => RowSummed(r, Base, RowWhole(r))
  BY <1>4 DEF RowSummed
<1> QED BY <1>2, <1>3, <1>5, <1>6, <1>7 DEF SummedOnce

(* A warp of any launch, of any extents and row offsets, that has stored   *)
(* its rows has stored each as the sum of each of its groups once, with    *)
(* the activation its contract names, and read as the official block says. *)
THEOREM WarpsSumEveryGroup == VecdotSpec => []EveryGroupSummedOnce
<1>1. VecdotSpec => []WarpInv
  <2>1. VecdotInit => WarpInv
    BY WarpStarts
  <2>2. WarpInv /\ [VecdotNext]_kernelVars => WarpInv'
    BY WarpSteps
  <2> QED BY <2>1, <2>2, PTL DEF VecdotSpec
<1>2. WarpInv => EveryGroupSummedOnce
  BY WarpIsSummedOnce
<1> QED BY <1>1, <1>2, PTL

(* And so beside the producers, in the specification the run checks.       *)
THEOREM WarpsSumEveryGroupBesideProducers == LayoutsSpec => []EveryGroupSummedOnce
<1> DEFINE Quiet == pc = "none"
<1>1. LayoutsInit => WarpInv \/ Quiet
  BY WarpStarts DEF LayoutsInit, NoKernel
<1>2. (WarpInv \/ Quiet) /\ [LayoutsNext]_<<vars, placeVars, kernelVars, xplaneVars>> => (WarpInv \/ Quiet)'
  <2>1. [LayoutsNext]_<<vars, placeVars, kernelVars, xplaneVars>>
          => (pc # "none" /\ VecdotNext) \/ UNCHANGED kernelVars
    BY DEF LayoutsNext
  <2>2. UNCHANGED kernelVars => pc' = pc
    BY DEF kernelVars
  <2> QED BY <2>1, <2>2, WarpSteps
<1>3. WarpInv \/ Quiet => EveryGroupSummedOnce
  BY WarpIsSummedOnce, SummedOnceIs
<1> QED BY <1>1, <1>2, <1>3, PTL DEF LayoutsSpec
-----------------------------------------------------------------------------
(* The producer's artifact. First its addresses: in a plane ...            *)

(* A number in mixed radix has one pair of digits.                         *)
LEMMA SameDigits ==
  ASSUME NEW S \in Nat \ {0}, NEW q \in Int, NEW p \in Int, NEW r \in 0 .. S - 1, NEW t \in 0 .. S - 1,
         S * q + r = S * p + t
  PROVE  q = p /\ r = t
<1>1. ((S * q + r) \div S) = q /\ ((S * q + r) % S) = r
  BY DivUnique, ModUnique
<1>2. ((S * p + t) \div S) = p /\ ((S * p + t) % S) = t
  BY DivUnique, ModUnique
<1> QED BY <1>1, <1>2

(* The K-pack group and slot of a code.                                    *)
LEMMA PlacedIn ==
  ASSUME NEW kk \in Nat, NEW W \in Nat, kk < 256 * W, NEW bits \in {1, 2, 4}
  PROVE  /\ Pack(bits) \in {4, 8, 16} /\ Pack(bits) * bits = 16
         /\ PlacedGroup(kk, Pack(bits)) \in Nat /\ PlacedGroup(kk, Pack(bits)) < (256 \div Pack(bits)) * W
         /\ bits * PlacedSlot(kk, Pack(bits)) \in 0 .. 15
<1>1. CASE bits = 1
  <2>1. Pack(bits) = 16 BY <1>1 DEF Pack
  <2>2. /\ PlacedGroup(kk, 16) = (kk \div 128) * 8 + (kk % 8)
        /\ PlacedSlot(kk, 16) = (kk % 128) \div 8
    BY DEF PlacedGroup, PlacedSlot
  <2>3. (kk \div 128) \in Nat /\ (kk \div 128) < 2 * W /\ (kk % 8) \in 0 .. 7 /\ ((kk % 128) \div 8) \in 0 .. 15
    OBVIOUS
  <2> QED BY <1>1, <2>1, <2>2, <2>3
<1>2. CASE bits = 2
  <2>1. Pack(bits) = 8 BY <1>2 DEF Pack
  <2> QED BY <1>2, <2>1 DEF PlacedGroup, PlacedSlot
<1>3. CASE bits = 4
  <2>1. Pack(bits) = 4 BY <1>3 DEF Pack
  <2> QED BY <1>3, <2>1 DEF PlacedGroup, PlacedSlot
<1> QED BY <1>1, <1>2, <1>3

(* They are one code's.                                                    *)
LEMMA PlacedOnce ==
  ASSUME NEW x \in Nat, NEW y \in Nat, NEW bits \in {1, 2, 4},
         PlacedGroup(x, Pack(bits)) = PlacedGroup(y, Pack(bits)),
         bits * PlacedSlot(x, Pack(bits)) = bits * PlacedSlot(y, Pack(bits))
  PROVE  x = y
<1>1. CASE bits = 1
  <2>1. Pack(bits) = 16 BY <1>1 DEF Pack
  <2>2. /\ (x \div 128) * 8 + (x % 8) = (y \div 128) * 8 + (y % 8)
        /\ ((x % 128) \div 8) = ((y % 128) \div 8)
    BY <1>1, <2>1 DEF PlacedGroup, PlacedSlot
  <2>3. (x \div 128) = (y \div 128) /\ (x % 8) = (y % 8)
    BY <2>2
  <2>4. /\ x = 128 * (x \div 128) + 8 * ((x % 128) \div 8) + (x % 8)
        /\ y = 128 * (y \div 128) + 8 * ((y % 128) \div 8) + (y % 8)
    OBVIOUS
  <2> QED BY <2>2, <2>3, <2>4
<1>2. CASE bits = 2
  <2>1. Pack(bits) = 8 BY <1>2 DEF Pack
  <2> QED BY <1>2, <2>1 DEF PlacedGroup, PlacedSlot
<1>3. CASE bits = 4
  <2>1. Pack(bits) = 4 BY <1>3 DEF Pack
  <2> QED BY <1>3, <2>1 DEF PlacedGroup, PlacedSlot
<1> QED BY <1>1, <1>2, <1>3

(* The bit s of the word of expert e, group g and column c.                *)
WordIn(P, N, e, g, c, s) == 16 * (e * (P * N) + g * N + c) + s
SameBit(P, N, e, g, c, s, f, h, d, t) ==
  /\ P \in Nat /\ N \in Nat \ {0} /\ e \in Nat /\ f \in Nat
  /\ g \in 0 .. P - 1 /\ h \in 0 .. P - 1 /\ c \in 0 .. N - 1 /\ d \in 0 .. N - 1
  /\ s \in 0 .. 15 /\ t \in 0 .. 15
  /\ WordIn(P, N, e, g, c, s) = WordIn(P, N, f, h, d, t)

(* A word of a plane is one expert's, group's and column's.                *)
LEMMA SameWordOfPlane ==
  ASSUME NEW P, NEW N, NEW e, NEW f, NEW g, NEW h, NEW c, NEW d, NEW s, NEW t,
         SameBit(P, N, e, g, c, s, f, h, d, t)
  PROVE  e = f /\ g = h /\ c = d /\ s = t
<1> DEFINE u == P * e + g
           v == P * f + h
<1>0. /\ P \in Nat /\ N \in Nat \ {0} /\ e \in Nat /\ f \in Nat
      /\ g \in 0 .. P - 1 /\ h \in 0 .. P - 1 /\ c \in 0 .. N - 1 /\ d \in 0 .. N - 1
      /\ s \in 0 .. 15 /\ t \in 0 .. 15
  BY DEF SameBit
<1>1. u \in Int /\ v \in Int /\ P # 0
  BY <1>0
<1>2. e * (P * N) + g * N = N * u /\ f * (P * N) + h * N = N * v
  BY <1>0
<1> HIDE DEF u, v
<1>3. N * u \in Int /\ N * v \in Int
  BY <1>0, <1>1
<1>4. N * u + c = N * v + d /\ s = t
  BY <1>0, <1>2, <1>3 DEF SameBit, WordIn
<1>5. u = v /\ c = d
  BY <1>0, <1>1, <1>4, SameDigits
<1>6. e = f /\ g = h
  <2>1. P * e + g = P * f + h
    BY <1>5 DEF u, v
  <2> QED BY <1>0, <1>1, <2>1, SameDigits
<1> QED BY <1>4, <1>5, <1>6

(* An extent of so many superblocks, and the words of its plane.           *)
IsDeep(K, W) == W \in Nat /\ K = 256 * W
PlaneGroups(W, bits) == (256 \div Pack(bits)) * W
PlaneWords(P, N) == P * N

(* There are as many as the code counts.                                   *)
LEMMA WordsOfPlane ==
  ASSUME NEW K, NEW W, IsDeep(K, W), NEW N \in Nat, NEW bits \in {1, 2, 4}
  PROVE  /\ PlaneGroups(W, bits) \in Nat
         /\ WordsPerExpert(N, K, bits) = PlaneWords(PlaneGroups(W, bits), N)
<1>0. W \in Nat /\ K = 256 * W
  BY DEF IsDeep
<1>1. CASE bits = 1
  <2>1. Pack(bits) = 16 BY <1>1 DEF Pack
  <2>2. ((256 * W) \div 16) = 16 * W /\ 16 * W \in Nat
    BY <1>0
  <2> QED BY <1>0, <2>1, <2>2 DEF WordsPerExpert, PlaneGroups, PlaneWords
<1>2. CASE bits = 2
  <2>1. Pack(bits) = 8 BY <1>2 DEF Pack
  <2>2. ((256 * W) \div 8) = 32 * W /\ 32 * W \in Nat
    BY <1>0
  <2> QED BY <1>0, <2>1, <2>2 DEF WordsPerExpert, PlaneGroups, PlaneWords
<1>3. CASE bits = 4
  <2>1. Pack(bits) = 4 BY <1>3 DEF Pack
  <2>2. ((256 * W) \div 4) = 64 * W /\ 64 * W \in Nat
    BY <1>0
  <2> QED BY <1>0, <2>1, <2>2 DEF WordsPerExpert, PlaneGroups, PlaneWords
<1> QED BY <1>1, <1>2, <1>3

(* One place in a plane, reached from two codes.                           *)
SamePlaced(e, c, x, f, d, y, N, K, bits) == PlacedAt(e, c, x, N, K, bits) = PlacedAt(f, d, y, N, K, bits)
SameTransposedPlace(e, c, x, f, d, y, N, K) == TransposedAt(e, c, x, N, K) = TransposedAt(f, d, y, N, K)

(* A place in a plane is one code's.                                       *)
LEMMA PlacedApart ==
  ASSUME NEW K, NEW W, IsDeep(K, W), NEW N \in Nat \ {0}, NEW bits \in {1, 2, 4}, NEW e \in Nat, NEW f \in Nat,
         NEW c \in 0 .. N - 1, NEW d \in 0 .. N - 1, NEW x \in 0 .. K - 1, NEW y \in 0 .. K - 1,
         SamePlaced(e, c, x, f, d, y, N, K, bits)
  PROVE  e = f /\ c = d /\ x = y
<1>0. W \in Nat /\ x \in Nat /\ y \in Nat /\ x < 256 * W /\ y < 256 * W
  BY DEF IsDeep
<1>1. PICK P \in Nat : P = PlaneGroups(W, bits)
  BY WordsOfPlane
<1>2. PICK g \in Nat, s \in 0 .. 15 : g = PlacedGroup(x, Pack(bits)) /\ s = bits * PlacedSlot(x, Pack(bits)) /\ g < P
  BY <1>0, <1>1, PlacedIn DEF PlaneGroups
<1>3. PICK h \in Nat, t \in 0 .. 15 : h = PlacedGroup(y, Pack(bits)) /\ t = bits * PlacedSlot(y, Pack(bits)) /\ h < P
  BY <1>0, <1>1, PlacedIn DEF PlaneGroups
<1>4. WordsPerExpert(N, K, bits) = P * N
  BY <1>1, WordsOfPlane DEF PlaneWords
<1>6. g \in 0 .. P - 1 /\ h \in 0 .. P - 1
  BY <1>1, <1>2, <1>3
<1>5. SameBit(P, N, e, g, c, s, f, h, d, t)
  BY <1>2, <1>3, <1>4, <1>6 DEF PlacedAt, SamePlaced, SameBit, WordIn
<1>7. e = f /\ g = h /\ c = d /\ s = t
  BY <1>5, SameWordOfPlane
<1> QED BY <1>0, <1>2, <1>3, <1>7, PlacedOnce

(* The coordinates of the transposed plane.                                *)
TransposedColumn(c, x) == 16 * (c \div 16) + (c % 8) + 8 * ((x \div 128) % 2)
TransposedGroup(x) == (x \div 256) * 16 + 8 * ((x \div 64) % 2) + (x % 8)
TransposedSlot(c, x) == 8 * ((c \div 8) % 2) + ((x \div 8) % 8)
SameTransposed(c, x, d, y) ==
  /\ TransposedColumn(c, x) = TransposedColumn(d, y)
  /\ TransposedGroup(x) = TransposedGroup(y)
  /\ TransposedSlot(c, x) = TransposedSlot(d, y)

(* They are in the plane ...                                               *)
LEMMA TransposedIn ==
  ASSUME NEW W \in Nat, NEW N \in Nat, (N % 256) = 0, NEW c \in 0 .. N - 1, NEW x \in Nat, x < 256 * W
  PROVE  /\ TransposedColumn(c, x) \in 0 .. N - 1
         /\ TransposedGroup(x) \in 0 .. 16 * W - 1
         /\ TransposedSlot(c, x) \in 0 .. 15
<1>1. TransposedColumn(c, x) \in 0 .. N - 1
  <2>1. ((x \div 128) % 2) \in {0, 1} /\ (c % 8) \in 0 .. 7 /\ 16 * (c \div 16) \in 0 .. N - 16
    OBVIOUS
  <2> QED BY <2>1 DEF TransposedColumn
<1>2. TransposedGroup(x) \in 0 .. 16 * W - 1
  <2>1. ((x \div 64) % 2) \in {0, 1} /\ (x % 8) \in 0 .. 7 /\ (x \div 256) \in 0 .. W - 1
    OBVIOUS
  <2> QED BY <2>1 DEF TransposedGroup
<1>3. TransposedSlot(c, x) \in 0 .. 15
  BY DEF TransposedSlot
<1> QED BY <1>1, <1>2, <1>3

(* ... and one code's.                                                     *)
LEMMA TransposedOnce ==
  ASSUME NEW c \in Nat, NEW d \in Nat, NEW x \in Nat, NEW y \in Nat,
         SameTransposed(c, x, d, y)
  PROVE  c = d /\ x = y
<1>1. /\ (c \div 16) = (d \div 16) /\ (c % 8) = (d % 8) /\ ((x \div 128) % 2) = ((y \div 128) % 2)
  BY DEF SameTransposed, TransposedColumn
<1>2. /\ (x \div 256) = (y \div 256) /\ ((x \div 64) % 2) = ((y \div 64) % 2) /\ (x % 8) = (y % 8)
  BY DEF SameTransposed, TransposedGroup
<1>3. /\ ((c \div 8) % 2) = ((d \div 8) % 2) /\ ((x \div 8) % 8) = ((y \div 8) % 8)
  BY DEF SameTransposed, TransposedSlot
<1>4. \A z \in Nat : z = 16 * (z \div 16) + 8 * ((z \div 8) % 2) + (z % 8)
  OBVIOUS
<1>5. \A z \in Nat : z = 256 * (z \div 256) + 128 * ((z \div 128) % 2) + 64 * ((z \div 64) % 2)
                          + 8 * ((z \div 8) % 8) + (z % 8)
  OBVIOUS
<1>6. c = d
  BY <1>1, <1>3, <1>4
<1>7. x = y
  BY <1>1, <1>2, <1>3, <1>5
<1> QED BY <1>6, <1>7

(* An extent in N that the transposed plane is made for.                   *)
IsWide(N) == N \in Nat \ {0} /\ (N % 256) = 0

(* A place in it is one code's too.                                        *)
LEMMA TransposedApart ==
  ASSUME NEW K, NEW W, IsDeep(K, W), NEW N, IsWide(N), NEW e \in Nat, NEW f \in Nat,
         NEW c \in 0 .. N - 1, NEW d \in 0 .. N - 1, NEW x \in 0 .. K - 1, NEW y \in 0 .. K - 1,
         SameTransposedPlace(e, c, x, f, d, y, N, K)
  PROVE  e = f /\ c = d /\ x = y
<1>0. W \in Nat /\ N \in Nat \ {0} /\ (N % 256) = 0 /\ x \in Nat /\ y \in Nat /\ x < 256 * W /\ y < 256 * W
  BY DEF IsDeep, IsWide
<1>1. PICK P \in Nat : P = 16 * W
  BY <1>0
<1>2. WordsPerExpert(N, K, 1) = P * N
  <2>1. PlaneGroups(W, 1) = P
    BY <1>1 DEF Pack, PlaneGroups
  <2>2. WordsPerExpert(N, K, 1) = PlaneWords(PlaneGroups(W, 1), N)
    BY <1>0, WordsOfPlane
  <2> QED BY <2>1, <2>2 DEF PlaneWords
<1>3. PICK a \in 0 .. N - 1, g \in 0 .. P - 1, s \in 0 .. 15 :
        a = TransposedColumn(c, x) /\ g = TransposedGroup(x) /\ s = TransposedSlot(c, x)
  BY <1>0, <1>1, TransposedIn
<1>4. PICK b \in 0 .. N - 1, h \in 0 .. P - 1, t \in 0 .. 15 :
        b = TransposedColumn(d, y) /\ h = TransposedGroup(y) /\ t = TransposedSlot(d, y)
  BY <1>0, <1>1, TransposedIn
<1>5. \A z : Bit(z, 7) = (z \div 128) % 2 /\ Bit(z, 6) = (z \div 64) % 2 /\ Bit(z, 3) = (z \div 8) % 2
  <2>1. 2 ^ 7 = 128 /\ 2 ^ 6 = 64 /\ 2 ^ 3 = 8
    BY SMT
  <2> QED BY <2>1 DEF Bit
<1>6. ASSUME NEW i \in Nat, NEW q \in Nat, NEW r \in Nat
      PROVE  TransposedAt(i, q, r, N, K)
               = WordIn(P, N, i, TransposedGroup(r), TransposedColumn(q, r), TransposedSlot(q, r))
  <2>1. /\ TransposedColumn(q, r) = 16 * (q \div 16) + (q % 8) + 8 * Bit(r, 7)
        /\ TransposedGroup(r) = (r \div 256) * 16 + 8 * Bit(r, 6) + (r % 8)
        /\ TransposedSlot(q, r) = 8 * Bit(q, 3) + ((r \div 8) % 8)
    BY <1>5 DEF TransposedColumn, TransposedGroup, TransposedSlot
  <2>2. TransposedAt(i, q, r, N, K)
          = 16 * (i * WordsPerExpert(N, K, 1) + TransposedGroup(r) * N + TransposedColumn(q, r))
              + TransposedSlot(q, r)
    BY <2>1 DEF TransposedAt
  <2> QED BY <1>2, <2>2 DEF WordIn
<1>7. SameBit(P, N, e, g, a, s, f, h, b, t)
  BY <1>0, <1>1, <1>3, <1>4, <1>6 DEF SameBit, SameTransposedPlace
<1>8. e = f /\ g = h /\ a = b /\ s = t
  BY <1>7, SameWordOfPlane
<1>9. SameTransposed(c, x, d, y)
  BY <1>3, <1>4, <1>8 DEF SameTransposed
<1> QED BY <1>0, <1>8, <1>9, TransposedOnce

(* An extent the producer takes.                                           *)
Geometry ==
  /\ fmt \in Formats
  /\ n \in Nat \ {0} /\ (n % 256) = 0
  /\ k \in Nat \ {0} /\ (k % 256) = 0
  /\ SbPerUnit(fmt) = 2 => (k % 512) = 0
  /\ experts \in Nat

(* The bytes of a superblock's metadata and of its official block.         *)
LEMMA UnitSizes ==
  ASSUME NEW f \in Formats
  PROVE  /\ SbBytes(f) \in {14, 16, 18, 20} /\ SbPerUnit(f) \in {1, 2}
         /\ UnitBytes(f) = SbPerUnit(f) * SbBytes(f)
<1>1. CASE f = "Q2_K"
  <2>1. HasMin(f) /\ Quant[f].groups = 16 /\ Quant[f].scaleBits = 4 /\ Quant[f].minBits = 4
    BY <1>1 DEF HasMin, Quant
  <2>2. SbBytes(f) = 20
    BY <2>1 DEF SbBytes, HeaderBytes
  <2> QED BY <2>2 DEF SbPerUnit, UnitBytes
<1>2. CASE f = "Q3_K"
  <2>1. ~HasMin(f) /\ Quant[f].groups = 16 /\ Quant[f].scaleBits = 6 /\ Quant[f].minBits = 0
    BY <1>2 DEF HasMin, Quant
  <2>2. SbBytes(f) = 14
    BY <2>1 DEF SbBytes, HeaderBytes
  <2> QED BY <2>2 DEF SbPerUnit, UnitBytes
<1>3. CASE f \in {"Q4_K", "Q5_K"}
  <2>1. HasMin(f) /\ Quant[f].groups = 8 /\ Quant[f].scaleBits = 6 /\ Quant[f].minBits = 6
    BY <1>3 DEF HasMin, Quant
  <2>2. SbBytes(f) = 16
    BY <2>1 DEF SbBytes, HeaderBytes
  <2> QED BY <2>2 DEF SbPerUnit, UnitBytes
<1>4. CASE f = "Q6_K"
  <2>1. ~HasMin(f) /\ Quant[f].groups = 16 /\ Quant[f].scaleBits = 8 /\ Quant[f].minBits = 0
    BY <1>4 DEF HasMin, Quant
  <2>2. SbBytes(f) = 18
    BY <2>1 DEF SbBytes, HeaderBytes
  <2> QED BY <2>2 DEF SbPerUnit, UnitBytes
<1> QED BY <1>1, <1>2, <1>3, <1>4, FormatsAre

(* An extent in K is whole superblocks.                                    *)
LEMMA DeepExtent ==
  ASSUME Geometry
  PROVE  IsDeep(k, Superblocks) /\ Superblocks \in Nat /\ k = 256 * Superblocks
<1>1. k \in Nat /\ (k % 256) = 0
  BY DEF Geometry
<1>2. Superblocks = k \div 256
  BY DEF Superblocks, QK
<1> QED BY <1>1, <1>2 DEF IsDeep

(* Where a superblock is.                                                  *)
LEMMA BlockCoordinates ==
  ASSUME Geometry, NEW b \in Blocks
  PROVE  \E e \in 0 .. experts - 1, c \in 0 .. n - 1, s \in 0 .. Superblocks - 1 :
           b = <<e, c, s>> /\ e \in Nat
<1>1. PICK e \in 0 .. experts - 1, c \in {x \in Columns : x < n}, s \in 0 .. Superblocks - 1 : b = <<e, c, s>>
  BY DEF Blocks
<1>2. c \in 0 .. n - 1
  BY LayoutAssumption DEF Geometry
<1>3. e \in Nat
  BY DEF Geometry
<1> QED BY <1>1, <1>2, <1>3

(* A code's address in its plane is of one superblock and one code.        *)
LEMMA CodesApart ==
  ASSUME Geometry, NEW b \in Blocks, NEW c \in Blocks, NEW p \in Planes(fmt), NEW i \in Codes, NEW j \in Codes,
         CodeAt(b, i, p) = CodeAt(c, j, p)
  PROVE  b = c /\ i = j
<1>1. PICK e1 \in 0 .. experts - 1, c1 \in 0 .. n - 1, s1 \in 0 .. Superblocks - 1 :
        b = <<e1, c1, s1>> /\ e1 \in Nat
  BY BlockCoordinates
<1>2. PICK e2 \in 0 .. experts - 1, c2 \in 0 .. n - 1, s2 \in 0 .. Superblocks - 1 :
        c = <<e2, c2, s2>> /\ e2 \in Nat
  BY BlockCoordinates
<1>3. i \in 0 .. 255 /\ j \in 0 .. 255 /\ QK = 256
  BY DEF Codes, QK
<1>4. n \in Nat \ {0} /\ (n % 256) = 0 /\ fmt \in Formats
  BY DEF Geometry
<1>5. PICK W \in Nat : W = Superblocks /\ IsDeep(k, W) /\ k = 256 * W
  BY DeepExtent
<1>6. PICK x \in 0 .. k - 1 : x = 256 * s1 + i
  BY <1>3, <1>5
<1>7. PICK y \in 0 .. k - 1 : y = 256 * s2 + j
  BY <1>3, <1>5
<1>8. b[3] * QK + i = x /\ c[3] * QK + j = y
  BY <1>1, <1>2, <1>3, <1>6, <1>7
<1>9. e1 = e2 /\ c1 = c2 /\ x = y
  <2>1. CASE fmt = "Q5_K" /\ p = "high"
    <3>1. SameTransposedPlace(e1, c1, x, e2, c2, y, n, k)
      BY <1>1, <1>2, <1>8, <2>1 DEF CodeAt, SameTransposedPlace
    <3>2. e1 \in Nat /\ e2 \in Nat /\ n \in Nat \ {0} /\ IsDeep(k, W)
      BY <1>1, <1>2, <1>4, <1>5
    <3>3. c1 \in 0 .. n - 1 /\ c2 \in 0 .. n - 1 /\ x \in 0 .. k - 1 /\ y \in 0 .. k - 1
      OBVIOUS
    <3>4. IsWide(n)
      BY <1>4 DEF IsWide
    <3> QED BY <3>1, <3>2, <3>3, <3>4, TransposedApart
  <2>2. CASE ~(fmt = "Q5_K" /\ p = "high")
    <3>1. PICK bits \in {1, 2, 4} : bits = Quant[fmt][p]
      BY <1>4, WidthOf
    <3>2. SamePlaced(e1, c1, x, e2, c2, y, n, k, bits)
      BY <1>1, <1>2, <1>8, <2>2, <3>1 DEF CodeAt, SamePlaced
    <3>3. e1 \in Nat /\ e2 \in Nat /\ n \in Nat \ {0} /\ IsDeep(k, W)
      BY <1>1, <1>2, <1>4, <1>5
    <3>4. c1 \in 0 .. n - 1 /\ c2 \in 0 .. n - 1 /\ x \in 0 .. k - 1 /\ y \in 0 .. k - 1
      OBVIOUS
    <3> QED BY <3>2, <3>3, <3>4, PlacedApart, SMTT(20)
  <2> QED BY <2>1, <2>2
<1>10. s1 = s2 /\ i = j
  <2>1. s1 \in Int /\ s2 \in Int /\ 256 * s1 + i = 256 * s2 + j
    BY <1>5, <1>6, <1>7, <1>9
  <2> QED BY <1>3, <2>1
<1> QED BY <1>1, <1>2, <1>9, <1>10

-----------------------------------------------------------------------------
(* ... and in the metadata units.                                          *)

(* A bit of a superblock's metadata, of a column, a unit and an expert.    *)
UnitBit(B, S, M, N, e, u, c, r, x) == B * (S * (N * (M * e + u) + c) + r) + x
SameUnitBit(B, S, M, N, e, u, c, r, x, f, v, d, t, y) ==
  /\ B \in Nat \ {0} /\ S \in Nat \ {0} /\ M \in Nat /\ N \in Nat \ {0}
  /\ e \in Nat /\ f \in Nat /\ u \in 0 .. M - 1 /\ v \in 0 .. M - 1
  /\ c \in 0 .. N - 1 /\ d \in 0 .. N - 1 /\ r \in 0 .. S - 1 /\ t \in 0 .. S - 1
  /\ x \in 0 .. B - 1 /\ y \in 0 .. B - 1
  /\ UnitBit(B, S, M, N, e, u, c, r, x) = UnitBit(B, S, M, N, f, v, d, t, y)

(* It is of one expert, unit, column, place in the unit and offset.        *)
LEMMA UnitBitIsOne ==
  ASSUME NEW B, NEW S, NEW M, NEW N, NEW e, NEW u, NEW c, NEW r, NEW x, NEW f, NEW v, NEW d, NEW t, NEW y,
         SameUnitBit(B, S, M, N, e, u, c, r, x, f, v, d, t, y)
  PROVE  e = f /\ u = v /\ c = d /\ r = t /\ x = y
<1> DEFINE a1 == M * e + u
           a2 == M * f + v
           b1 == N * a1 + c
           b2 == N * a2 + d
           c1 == S * b1 + r
           c2 == S * b2 + t
<1>0. /\ B \in Nat \ {0} /\ S \in Nat \ {0} /\ M \in Nat \ {0} /\ N \in Nat \ {0}
      /\ e \in Nat /\ f \in Nat /\ u \in 0 .. M - 1 /\ v \in 0 .. M - 1
      /\ c \in 0 .. N - 1 /\ d \in 0 .. N - 1 /\ r \in 0 .. S - 1 /\ t \in 0 .. S - 1
      /\ x \in 0 .. B - 1 /\ y \in 0 .. B - 1
  BY DEF SameUnitBit
<1>1. B * c1 + x = B * c2 + y
  BY DEF SameUnitBit, UnitBit
<1>2. a1 \in Int /\ a2 \in Int
  BY <1>0
<1> HIDE DEF a1, a2
<1>3. b1 \in Int /\ b2 \in Int
  BY <1>0, <1>2
<1> HIDE DEF b1, b2
<1>4. c1 \in Int /\ c2 \in Int
  BY <1>0, <1>3
<1> HIDE DEF c1, c2
<1>5. c1 = c2 /\ x = y
  BY <1>0, <1>1, <1>4, SameDigits
<1>6. b1 = b2 /\ r = t
  <2>1. S * b1 + r = S * b2 + t
    BY <1>5 DEF c1, c2
  <2> QED BY <1>0, <1>3, <2>1, SameDigits
<1>7. a1 = a2 /\ c = d
  <2>1. N * a1 + c = N * a2 + d
    BY <1>6 DEF b1, b2
  <2> QED BY <1>0, <1>2, <2>1, SameDigits
<1>8. e = f /\ u = v
  <2>1. M * e + u = M * f + v
    BY <1>7 DEF a1, a2
  <2> QED BY <1>0, <2>1, SameDigits
<1> QED BY <1>5, <1>6, <1>7, <1>8

(* Where a superblock's metadata begins.                                   *)
UnitsOfColumn == Superblocks \div SbPerUnit(fmt)

(* Whole units of a column, the superblock's place in its own, and bits    *)
(* from there.                                                             *)
LEMMA UnitBaseIs ==
  ASSUME Geometry, NEW b \in Blocks
  PROVE  /\ UnitsOfColumn \in Nat
         /\ \E e \in Nat, u \in 0 .. UnitsOfColumn - 1, c \in 0 .. n - 1, r \in 0 .. SbPerUnit(fmt) - 1 :
              /\ b = <<e, c, SbPerUnit(fmt) * u + r>>
              /\ \A x \in Int : UnitBase(b) + x = UnitBit(8 * SbBytes(fmt), SbPerUnit(fmt), UnitsOfColumn, n, e, u, c, r, x)
<1>1. PICK e \in 0 .. experts - 1, c \in 0 .. n - 1, s \in 0 .. Superblocks - 1 : b = <<e, c, s>> /\ e \in Nat
  BY BlockCoordinates
<1>2. PICK S \in {1, 2} : S = SbPerUnit(fmt)
  BY UnitSizes DEF Geometry
<1>3. PICK B \in {14, 16, 18, 20} : B = SbBytes(fmt) /\ UnitBytes(fmt) = S * B
  BY <1>2, UnitSizes DEF Geometry
<1>4. PICK W \in Nat : W = Superblocks /\ k = 256 * W
  BY DeepExtent
<1>5. (W % S) = 0
  <2>1. CASE S = 1
    BY <2>1
  <2>2. CASE S = 2
    <3>1. (k % 512) = 0
      BY <1>2, <2>2 DEF Geometry
    <3> QED BY <1>4, <2>2, <3>1
  <2> QED BY <2>1, <2>2
<1>6. PICK M \in Nat : M = (W \div S) /\ W = S * M
  <2>1. CASE S = 1
    BY <2>1
  <2>2. CASE S = 2
    BY <1>5, <2>2
  <2> QED BY <2>1, <2>2
<1>7. PICK u \in 0 .. M - 1, r \in 0 .. S - 1 : u = (s \div S) /\ r = (s % S) /\ s = S * u + r
  <2>0. s \in 0 .. W - 1
    BY <1>4
  <2>1. CASE S = 1
    BY <1>6, <2>0, <2>1
  <2>2. CASE S = 2
    BY <1>6, <2>0, <2>2
  <2> QED BY <2>1, <2>2
<1>8. n \in Nat
  BY DEF Geometry
<1>9. UnitBase(b) = ((e * M + u) * n + c) * (S * B) * 8 + r * B * 8
  BY <1>1, <1>2, <1>3, <1>4, <1>6, <1>7 DEF UnitBase
<1>10. ASSUME NEW x \in Int
       PROVE  UnitBase(b) + x = UnitBit(8 * B, S, M, n, e, u, c, r, x)
  <2> DEFINE w == (e * M + u) * n + c
  <2>1. w \in Int /\ n * (M * e + u) + c = w
    BY <1>8
  <2>2. UnitBase(b) = w * (S * B) * 8 + r * B * 8
    BY <1>9
  <2>3. UnitBit(8 * B, S, M, n, e, u, c, r, x) = 8 * B * (S * w + r) + x
    BY <2>1 DEF UnitBit
  <2> HIDE DEF w
  <2>4. S * w \in Int /\ w * (S * B) * 8 = (S * w) * B * 8
    BY <2>1
  <2> QED BY <2>1, <2>2, <2>3, <2>4
<1>11. M = UnitsOfColumn
  BY <1>2, <1>4, <1>6 DEF UnitsOfColumn
<1> QED BY <1>1, <1>2, <1>3, <1>7, <1>10, <1>11

(* One metadata bit, reached from two superblocks.                         *)
SameUnitPlace(b, x, c, y) ==
  x \in 0 .. 8 * SbBytes(fmt) - 1 /\ y \in 0 .. 8 * SbBytes(fmt) - 1 /\ UnitBase(b) + x = UnitBase(c) + y

(* It is of one superblock.                                                *)
LEMMA UnitsApart ==
  ASSUME Geometry, NEW b \in Blocks, NEW c \in Blocks, NEW x, NEW y, SameUnitPlace(b, x, c, y)
  PROVE  b = c /\ x = y
<1>1. PICK B \in Nat \ {0} : B = 8 * SbBytes(fmt)
  BY UnitSizes DEF Geometry
<1>2. PICK S \in Nat \ {0} : S = SbPerUnit(fmt)
  BY UnitSizes DEF Geometry
<1>3. PICK M \in Nat : M = UnitsOfColumn
  BY UnitBaseIs
<1>4. x \in 0 .. B - 1 /\ y \in 0 .. B - 1 /\ UnitBase(b) + x = UnitBase(c) + y
  BY <1>1 DEF SameUnitPlace
<1>5. PICK e \in Nat, u \in 0 .. M - 1, q \in 0 .. n - 1, r \in 0 .. S - 1 :
        b = <<e, q, S * u + r>> /\ UnitBase(b) + x = UnitBit(B, S, M, n, e, u, q, r, x)
  BY <1>1, <1>2, <1>3, <1>4, UnitBaseIs
<1>6. PICK f \in Nat, v \in 0 .. M - 1, d \in 0 .. n - 1, t \in 0 .. S - 1 :
        c = <<f, d, S * v + t>> /\ UnitBase(c) + y = UnitBit(B, S, M, n, f, v, d, t, y)
  BY <1>1, <1>2, <1>3, <1>4, UnitBaseIs
<1>7. n \in Nat \ {0}
  BY DEF Geometry
<1>8. SameUnitBit(B, S, M, n, e, u, q, r, x, f, v, d, t, y)
  BY <1>4, <1>5, <1>6, <1>7 DEF SameUnitBit
<1>9. e = f /\ u = v /\ q = d /\ r = t /\ x = y
  BY <1>8, UnitBitIsOne
<1> QED BY <1>5, <1>6, <1>9

-----------------------------------------------------------------------------
(* What the metadata of a superblock is.                                   *)

(* A superblock's metadata, from its own first bits: where each field is   *)
(* in the official block and in the unit.                                  *)
LocalPairs(f) ==
  {<<RefMetaField(f, g, w), UnitField(f, g, w)>> : g \in Groups(f), w \in Fields(f)}
  \cup {<<Field(8 * Quant[f].dOff, 16), Field(0, 16)>>}
  \cup IF ~HasMin(f) THEN {} ELSE {<<Field(8 * Quant[f].dminOff, 16), Field(16, 16)>>}

(* The official bit that a bit of the unit holds.                          *)
SplitField(low, high, i) == IF i < 4 THEN low + i ELSE high + i - 4
OfficialOf(f, y) ==
  IF y < 16 THEN 8 * Quant[f].dOff + y
  ELSE IF HasMin(f) /\ y < 32 THEN 8 * Quant[f].dminOff + y - 16
  ELSE IF f = "Q2_K"
  THEN 8 * (8 * ((y - 32) \div 64) + ((y % 32) \div 4)) + 4 * (((y - 32) \div 32) % 2) + (y % 4)
  ELSE IF f = "Q3_K"
  THEN LET g == (y - 16) \div 6
       IN  SplitField(8 * (96 + (g % 8)) + 4 * (g \div 8), 8 * (104 + (g % 4)) + 2 * (g \div 4), ((y - 16) % 6))
  ELSE IF f = "Q6_K" THEN 8 * 192 + y - 16
  ELSE LET h == (y - 32) \div 48
           t == ((y - 32) % 24) \div 6
       IN  IF ((y - 32) % 48) < 24
           THEN SplitField(8 * (4 + t + 8 * h), 8 * (4 + t) + 4 + 2 * h, ((y - 32) % 6))
           ELSE SplitField(8 * (8 + t + 4 * h) + 4 * h, 8 * (8 + t) + 4 + 2 * h, ((y - 32) % 6))

(* A field and its place in the unit, bit by bit.                          *)
PairFits(f, pr) ==
  \E w \in Nat :
    /\ DOMAIN pr[1] = 1 .. w /\ DOMAIN pr[2] = 1 .. w
    /\ \A i \in 1 .. w : /\ pr[2][i] \in 0 .. 8 * SbBytes(f) - 1
                         /\ pr[1][i] = OfficialOf(f, pr[2][i])
                         /\ pr[1][i] \in 0 .. 8 * Quant[f].raw - 1

(* The same of the two fields of a pair.                                   *)
LEMMA PairFitsIf ==
  ASSUME NEW f, NEW raw, NEW unit, NEW w \in Nat, DOMAIN raw = 1 .. w, DOMAIN unit = 1 .. w,
         \A i \in 1 .. w : /\ unit[i] \in 0 .. 8 * SbBytes(f) - 1
                           /\ raw[i] = OfficialOf(f, unit[i])
                           /\ raw[i] \in 0 .. 8 * Quant[f].raw - 1
  PROVE  PairFits(f, <<raw, unit>>)
BY DEF PairFits

IsSplit(field, low, high) ==
  DOMAIN field = 1 .. 6 /\ \A i \in 1 .. 6 : field[i] = SplitField(low, high, i - 1)

(* A field of four bits and two.                                           *)
LEMMA JoinedField ==
  ASSUME NEW a \in Int, NEW b \in Int
  PROVE  IsSplit(Field(a, 4) \o Field(b, 2), a, b)
BY DEF Field, SplitField, IsSplit

(* The header.                                                             *)
LEMMA HeaderFits ==
  ASSUME NEW f \in Formats
  PROVE  /\ PairFits(f, <<Field(8 * Quant[f].dOff, 16), Field(0, 16)>>)
         /\ HasMin(f) => PairFits(f, <<Field(8 * Quant[f].dminOff, 16), Field(16, 16)>>)
<1>1. SbBytes(f) \in {14, 16, 18, 20}
  BY UnitSizes
<1>2. Quant[f].dOff \in 0 .. Quant[f].raw - 2 /\ Quant[f].raw \in Nat /\ Quant[f].dOff \in Int
  BY DEF Formats, Quant
<1>3. HasMin(f) => Quant[f].dminOff \in 0 .. Quant[f].raw - 2 /\ Quant[f].dminOff \in Int
  BY DEF Formats, Quant, HasMin
<1>4. PairFits(f, <<Field(8 * Quant[f].dOff, 16), Field(0, 16)>>)
  <2>1. /\ DOMAIN Field(8 * Quant[f].dOff, 16) = 1 .. 16 /\ DOMAIN Field(0, 16) = 1 .. 16
        /\ \A i \in 1 .. 16 : Field(8 * Quant[f].dOff, 16)[i] = 8 * Quant[f].dOff + i - 1 /\ Field(0, 16)[i] = i - 1
    BY <1>2 DEF Field
  <2>2. ASSUME NEW i \in 1 .. 16
        PROVE  /\ i - 1 \in 0 .. 8 * SbBytes(f) - 1
               /\ OfficialOf(f, i - 1) = 8 * Quant[f].dOff + i - 1
               /\ 8 * Quant[f].dOff + i - 1 \in 0 .. 8 * Quant[f].raw - 1
    <3>1. OfficialOf(f, i - 1) = 8 * Quant[f].dOff + (i - 1)
      BY DEF OfficialOf
    <3> QED BY <1>1, <1>2, <3>1
  <2> DEFINE raw == Field(8 * Quant[f].dOff, 16)
             unit == Field(0, 16)
  <2>3. DOMAIN raw = 1 .. 16 /\ DOMAIN unit = 1 .. 16
    BY <2>1
  <2>4. ASSUME NEW i \in 1 .. 16
        PROVE  /\ unit[i] \in 0 .. 8 * SbBytes(f) - 1
               /\ raw[i] = OfficialOf(f, unit[i])
               /\ raw[i] \in 0 .. 8 * Quant[f].raw - 1
    <3>1. unit[i] = i - 1 /\ raw[i] = 8 * Quant[f].dOff + i - 1
      BY <2>1
    <3> HIDE DEF raw, unit
    <3> QED BY <2>2, <3>1
  <2> HIDE DEF raw, unit
  <2>5. PairFits(f, <<raw, unit>>)
    BY <2>3, <2>4, PairFitsIf
  <2> QED BY <2>5 DEF raw, unit
<1>5. ASSUME HasMin(f) PROVE PairFits(f, <<Field(8 * Quant[f].dminOff, 16), Field(16, 16)>>)
  <2>1. /\ DOMAIN Field(8 * Quant[f].dminOff, 16) = 1 .. 16 /\ DOMAIN Field(16, 16) = 1 .. 16
        /\ \A i \in 1 .. 16 : /\ Field(8 * Quant[f].dminOff, 16)[i] = 8 * Quant[f].dminOff + i - 1
                              /\ Field(16, 16)[i] = 16 + i - 1
    BY <1>3, <1>5 DEF Field
  <2>2. ASSUME NEW i \in 1 .. 16
        PROVE  /\ 16 + i - 1 \in 0 .. 8 * SbBytes(f) - 1
               /\ OfficialOf(f, 16 + i - 1) = 8 * Quant[f].dminOff + i - 1
               /\ 8 * Quant[f].dminOff + i - 1 \in 0 .. 8 * Quant[f].raw - 1
    <3>1. OfficialOf(f, 16 + i - 1) = 8 * Quant[f].dminOff + (16 + i - 1) - 16
      BY <1>5 DEF OfficialOf
    <3> QED BY <1>1, <1>2, <1>3, <1>5, <3>1
  <2> QED BY <2>1, <2>2, PairFitsIf
<1> QED BY <1>4, <1>5

(* The fields of Q2_K: four bits of scale, four of min.                    *)
LEMMA FieldsFitQ2 ==
  ASSUME NEW g \in 0 .. 15, NEW w \in {"scale", "min"}
  PROVE  PairFits("Q2_K", <<RefMetaField("Q2_K", g, w), UnitField("Q2_K", g, w)>>)
<1> DEFINE raw == RefMetaField("Q2_K", g, w)
           unit == UnitField("Q2_K", g, w)
<1>1. /\ Quant["Q2_K"].raw = 84 /\ Quant["Q2_K"].scaleOff = 0 /\ Quant["Q2_K"].groups = 16
      /\ Quant["Q2_K"].scaleBits = 4 /\ Quant["Q2_K"].minBits = 4
  BY DEF Quant
<1>2. HasMin("Q2_K")
  BY <1>1 DEF HasMin
<1>3. SbBytes("Q2_K") = 20 /\ HeaderBytes("Q2_K") = 4 /\ RunGroups("Q2_K") = 8 /\ RunBits("Q2_K") = 64
  BY <1>1, <1>2 DEF SbBytes, HeaderBytes, RunGroups, RunBits
<1>4. PICK m \in {0, 1} : m = IF w = "min" THEN 1 ELSE 0
  OBVIOUS
<1>5. PICK y \in 32 .. 156 : y = 32 + 32 * m + 4 * (g % 8) + 64 * (g \div 8)
  <2>1. (g % 8) \in 0 .. 7 /\ (g \div 8) \in {0, 1}
    OBVIOUS
  <2> QED BY <2>1
<1>6. BitOf("Q2_K", g, w) = y /\ Width("Q2_K", w) = 4
  BY <1>1, <1>3, <1>4, <1>5 DEF BitOf, Width
<1>7. unit = Field(y, 4)
  BY <1>6 DEF UnitField
<1>8. raw = Field(8 * g + 4 * m, 4)
  BY <1>1, <1>4 DEF RefMetaField, RefScaleField, RefMinField, At
<1> HIDE DEF raw, unit
<1>9. DOMAIN unit = 1 .. 4 /\ DOMAIN raw = 1 .. 4
  BY <1>7, <1>8 DEF Field
<1>10. ASSUME NEW i \in 1 .. 4
       PROVE  /\ unit[i] \in 0 .. 8 * SbBytes("Q2_K") - 1
              /\ raw[i] = OfficialOf("Q2_K", unit[i])
              /\ raw[i] \in 0 .. 8 * Quant["Q2_K"].raw - 1
  <2>1. unit[i] = y + i - 1 /\ raw[i] = 8 * g + 4 * m + i - 1
    BY <1>7, <1>8 DEF Field
  <2>2. PICK z \in 32 .. 159 : z = unit[i] /\ z = y + i - 1
    BY <2>1
  <2>3. /\ ((z - 32) \div 64) = g \div 8 /\ ((z % 32) \div 4) = (g % 8)
        /\ (((z - 32) \div 32) % 2) = m /\ (z % 4) = i - 1
    BY <1>5, <2>2
  <2>4. OfficialOf("Q2_K", z)
          = 8 * (8 * ((z - 32) \div 64) + ((z % 32) \div 4)) + 4 * (((z - 32) \div 32) % 2) + (z % 4)
    BY DEF OfficialOf
  <2>5. OfficialOf("Q2_K", z) = 8 * g + 4 * m + i - 1
    BY <2>3, <2>4
  <2> QED BY <1>1, <1>3, <2>1, <2>2, <2>5
<1> QED BY <1>9, <1>10, PairFitsIf DEF raw, unit

(* Those of Q3_K: four bits of a scale and two, apart.                     *)
LEMMA FieldsFitQ3 ==
  ASSUME NEW g \in 0 .. 15
  PROVE  PairFits("Q3_K", <<RefMetaField("Q3_K", g, "scale"), UnitField("Q3_K", g, "scale")>>)
<1> DEFINE raw == RefMetaField("Q3_K", g, "scale")
           unit == UnitField("Q3_K", g, "scale")
           low == 8 * (96 + (g % 8)) + 4 * (g \div 8)
           high == 8 * (104 + (g % 4)) + 2 * (g \div 4)
<1>1. /\ Quant["Q3_K"].raw = 110 /\ Quant["Q3_K"].scaleOff = 96 /\ Quant["Q3_K"].groups = 16
      /\ Quant["Q3_K"].scaleBits = 6 /\ Quant["Q3_K"].minBits = 0
  BY DEF Quant
<1>2. ~HasMin("Q3_K")
  BY <1>1 DEF HasMin
<1>3. SbBytes("Q3_K") = 14 /\ HeaderBytes("Q3_K") = 2 /\ RunGroups("Q3_K") = 16 /\ RunBits("Q3_K") = 96
  BY <1>1, <1>2 DEF SbBytes, HeaderBytes, RunGroups, RunBits
<1>4. low \in 0 .. 8 * 110 - 5 /\ high \in 0 .. 8 * 110 - 3
  OBVIOUS
<1>6. BitOf("Q3_K", g, "scale") = 16 + 6 * g /\ Width("Q3_K", "scale") = 6
  <2>1. (g % 16) = g /\ (g \div 16) = 0
    OBVIOUS
  <2>2. Width("Q3_K", "scale") = 6
    BY <1>1 DEF Width
  <2>3. BitOf("Q3_K", g, "scale") = 8 * 2 + 0 + (g % 16) * 6 + (g \div 16) * 96
    BY <1>3, <2>2 DEF BitOf
  <2> QED BY <2>1, <2>2, <2>3
<1>7. unit = Field(16 + 6 * g, 6)
  BY <1>6 DEF UnitField
<1>8. raw = Field(low, 4) \o Field(high, 2)
  <2>1. raw = Field(8 * (96 + (g % 8)) + 4 * (g \div 8), 4) \o Field(8 * (96 + 8 + (g % 4)) + 2 * (g \div 4), 2)
    BY <1>1 DEF RefMetaField, RefScaleField, At
  <2> QED BY <2>1
<1> HIDE DEF low, high
<1>11. IsSplit(raw, low, high)
  <2>1. low \in Int /\ high \in Int
    BY <1>4
  <2> QED BY <1>8, <2>1, JoinedField
<1>9. DOMAIN unit = 1 .. 6 /\ DOMAIN raw = 1 .. 6
  BY <1>7, <1>11 DEF Field, IsSplit
<1> HIDE DEF raw, unit
<1>10. ASSUME NEW i \in 1 .. 6
       PROVE  /\ unit[i] \in 0 .. 8 * SbBytes("Q3_K") - 1
              /\ raw[i] = OfficialOf("Q3_K", unit[i])
              /\ raw[i] \in 0 .. 8 * Quant["Q3_K"].raw - 1
  <2>1. unit[i] = 16 + 6 * g + i - 1
    BY <1>7 DEF Field
  <2>2. PICK z \in 16 .. 111 : z = unit[i] /\ z = 16 + 6 * g + i - 1
    BY <2>1
  <2>3. ((z - 16) \div 6) = g /\ ((z - 16) % 6) = i - 1
    BY <2>2
  <2>4. OfficialOf("Q3_K", z)
          = SplitField(8 * (96 + (((z - 16) \div 6) % 8)) + 4 * (((z - 16) \div 6) \div 8),
                       8 * (104 + (((z - 16) \div 6) % 4)) + 2 * (((z - 16) \div 6) \div 4), ((z - 16) % 6))
    BY <1>2 DEF OfficialOf
  <2>5. OfficialOf("Q3_K", z) = SplitField(low, high, i - 1)
    BY <2>3, <2>4 DEF low, high
  <2>6. raw[i] = SplitField(low, high, i - 1)
    BY <1>11 DEF IsSplit
  <2>7. SplitField(low, high, i - 1) \in 0 .. 8 * 110 - 1
    BY <1>4 DEF SplitField
  <2> QED BY <1>1, <1>3, <2>2, <2>5, <2>6, <2>7
<1> QED BY <1>9, <1>10, PairFitsIf DEF raw, unit

(* Those of Q6_K: whole bytes.                                             *)
LEMMA FieldsFitQ6 ==
  ASSUME NEW g \in 0 .. 15
  PROVE  PairFits("Q6_K", <<RefMetaField("Q6_K", g, "scale"), UnitField("Q6_K", g, "scale")>>)
<1> DEFINE raw == RefMetaField("Q6_K", g, "scale")
           unit == UnitField("Q6_K", g, "scale")
<1>1. /\ Quant["Q6_K"].raw = 210 /\ Quant["Q6_K"].scaleOff = 192 /\ Quant["Q6_K"].groups = 16
      /\ Quant["Q6_K"].scaleBits = 8 /\ Quant["Q6_K"].minBits = 0
  BY DEF Quant
<1>2. ~HasMin("Q6_K")
  BY <1>1 DEF HasMin
<1>3. SbBytes("Q6_K") = 18 /\ HeaderBytes("Q6_K") = 2 /\ RunGroups("Q6_K") = 16 /\ RunBits("Q6_K") = 128
  BY <1>1, <1>2 DEF SbBytes, HeaderBytes, RunGroups, RunBits
<1>6. BitOf("Q6_K", g, "scale") = 16 + 8 * g /\ Width("Q6_K", "scale") = 8
  <2>1. (g % 16) = g /\ (g \div 16) = 0
    OBVIOUS
  <2>2. Width("Q6_K", "scale") = 8
    BY <1>1 DEF Width
  <2>3. BitOf("Q6_K", g, "scale") = 8 * 2 + 0 + (g % 16) * 8 + (g \div 16) * 128
    BY <1>3, <2>2 DEF BitOf
  <2> QED BY <2>1, <2>2, <2>3
<1>7. unit = Field(16 + 8 * g, 8)
  BY <1>6 DEF UnitField
<1>8. raw = Field(8 * (192 + g), 8)
  BY <1>1 DEF RefMetaField, RefScaleField, At
<1> HIDE DEF raw, unit
<1>9. DOMAIN unit = 1 .. 8 /\ DOMAIN raw = 1 .. 8
  BY <1>7, <1>8 DEF Field
<1>10. ASSUME NEW i \in 1 .. 8
       PROVE  /\ unit[i] \in 0 .. 8 * SbBytes("Q6_K") - 1
              /\ raw[i] = OfficialOf("Q6_K", unit[i])
              /\ raw[i] \in 0 .. 8 * Quant["Q6_K"].raw - 1
  <2>1. unit[i] = 16 + 8 * g + i - 1 /\ raw[i] = 8 * (192 + g) + i - 1
    BY <1>7, <1>8 DEF Field
  <2>2. PICK z \in 16 .. 143 : z = unit[i] /\ z = 16 + 8 * g + i - 1
    BY <2>1
  <2>4. OfficialOf("Q6_K", z) = 8 * 192 + z - 16
    BY <1>2 DEF OfficialOf
  <2> QED BY <1>1, <1>3, <2>1, <2>2, <2>4
<1> QED BY <1>9, <1>10, PairFitsIf DEF raw, unit

(* Q4_K and Q5_K share their metadata.                                     *)
LEMMA FieldsFitQ4 ==
  ASSUME NEW f \in {"Q4_K", "Q5_K"}, NEW g \in 0 .. 7, NEW w \in {"scale", "min"}
  PROVE  PairFits(f, <<RefMetaField(f, g, w), UnitField(f, g, w)>>)
<1> DEFINE raw == RefMetaField(f, g, w)
           unit == UnitField(f, g, w)
<1>1. /\ Quant[f].raw \in {144, 176} /\ Quant[f].scaleOff = 4 /\ Quant[f].groups = 8
      /\ Quant[f].scaleBits = 6 /\ Quant[f].minBits = 6
  BY DEF Quant
<1>2. HasMin(f)
  BY <1>1 DEF HasMin
<1>3. SbBytes(f) = 16 /\ HeaderBytes(f) = 4 /\ RunGroups(f) = 4 /\ RunBits(f) = 48
  BY <1>1, <1>2 DEF SbBytes, HeaderBytes, RunGroups, RunBits
<1>4. PICK t \in 0 .. 3, h \in {0, 1} : t = (g % 4) /\ h = (g \div 4)
  OBVIOUS
<1>5. PICK m \in {0, 1} : m = IF w = "min" THEN 1 ELSE 0
  OBVIOUS
<1>6. PICK y \in 32 .. 122 : y = 32 + 24 * m + 6 * t + 48 * h
  <2>1. 24 * m \in 0 .. 24 /\ 6 * t \in 0 .. 18 /\ 48 * h \in 0 .. 48
    OBVIOUS
  <2> QED BY <2>1
<1>7. unit = Field(y, 6)
  <2>1. BitOf(f, g, w) = y /\ Width(f, w) = 6
    BY <1>1, <1>3, <1>4, <1>5, <1>6 DEF BitOf, Width
  <2> QED BY <2>1 DEF UnitField
<1>8. PICK low \in 0 .. 8 * 144 - 5, high \in 0 .. 8 * 144 - 3 :
        /\ low = IF m = 0 THEN 8 * (4 + t + 8 * h) ELSE 8 * (8 + t + 4 * h) + 4 * h
        /\ high = IF m = 0 THEN 8 * (4 + t) + 4 + 2 * h ELSE 8 * (8 + t) + 4 + 2 * h
  <2>1. /\ 8 * (4 + t + 8 * h) \in 0 .. 8 * 144 - 5 /\ 8 * (4 + t) + 4 + 2 * h \in 0 .. 8 * 144 - 3
        /\ 8 * (8 + t + 4 * h) + 4 * h \in 0 .. 8 * 144 - 5 /\ 8 * (8 + t) + 4 + 2 * h \in 0 .. 8 * 144 - 3
    BY SMTT(20)
  <2> QED BY <2>1
<1>9. raw = Field(low, 4) \o Field(high, 2)
  <2>1. CASE m = 0
    <3>1. raw = Field(8 * (4 + t + 8 * h) + 0, 4) \o Field(8 * (4 + t) + (4 + 2 * h), 2)
      BY <1>1, <1>4, <1>5, <2>1 DEF RefMetaField, RefScaleField, At
    <3>2. 8 * (4 + t + 8 * h) + 0 = low /\ 8 * (4 + t) + (4 + 2 * h) = high
      BY <1>8, <2>1
    <3> QED BY <3>1, <3>2
  <2>2. CASE m = 1
    <3>1. raw = Field(8 * (4 + 4 + t + 4 * h) + 4 * h, 4) \o Field(8 * (4 + 4 + t) + (4 + 2 * h), 2)
      BY <1>1, <1>4, <1>5, <2>2 DEF RefMetaField, RefMinField, At
    <3>2. 8 * (4 + 4 + t + 4 * h) + 4 * h = low /\ 8 * (4 + 4 + t) + (4 + 2 * h) = high
      BY <1>8, <2>2
    <3> QED BY <3>1, <3>2
  <2> QED BY <2>1, <2>2
<1> HIDE DEF raw, unit
<1>12. IsSplit(raw, low, high)
  BY <1>9, JoinedField
<1>10. DOMAIN unit = 1 .. 6 /\ DOMAIN raw = 1 .. 6
  BY <1>7, <1>12 DEF Field, IsSplit
<1>11. ASSUME NEW i \in 1 .. 6
       PROVE  /\ unit[i] \in 0 .. 8 * SbBytes(f) - 1
              /\ raw[i] = OfficialOf(f, unit[i])
              /\ raw[i] \in 0 .. 8 * Quant[f].raw - 1
  <2>1. unit[i] = y + i - 1
    BY <1>7 DEF Field
  <2>2. PICK z \in 32 .. 127 : z = unit[i] /\ z = y + i - 1
    BY <2>1
  <2>3. /\ ((z - 32) \div 48) = h /\ (((z - 32) % 24) \div 6) = t /\ ((z - 32) % 6) = i - 1
        /\ ((z - 32) % 48) < 24 <=> m = 0
    BY <1>6, <2>2
  <2>4. OfficialOf(f, z)
          = IF ((z - 32) % 48) < 24
            THEN SplitField(8 * (4 + (((z - 32) % 24) \div 6) + 8 * ((z - 32) \div 48)),
                            8 * (4 + (((z - 32) % 24) \div 6)) + 4 + 2 * ((z - 32) \div 48), ((z - 32) % 6))
            ELSE SplitField(8 * (8 + (((z - 32) % 24) \div 6) + 4 * ((z - 32) \div 48)) + 4 * ((z - 32) \div 48),
                            8 * (8 + (((z - 32) % 24) \div 6)) + 4 + 2 * ((z - 32) \div 48), ((z - 32) % 6))
    BY DEF OfficialOf
  <2>5. OfficialOf(f, z) = SplitField(low, high, i - 1)
    <3>1. CASE m = 0
      BY <1>8, <2>3, <2>4, <3>1
    <3>2. CASE m = 1
      BY <1>8, <2>3, <2>4, <3>2
    <3> QED BY <3>1, <3>2
  <2>6. raw[i] = SplitField(low, high, i - 1)
    BY <1>12 DEF IsSplit
  <2>7. SplitField(low, high, i - 1) \in 0 .. 8 * 144 - 1
    BY DEF SplitField
  <2>8. \A v \in 0 .. 8 * 144 - 1 : v \in 0 .. 8 * Quant[f].raw - 1
    <3>1. Quant[f].raw = 144 \/ Quant[f].raw = 176
      BY <1>1
    <3> QED BY <3>1
  <2>9. unit[i] \in 0 .. 8 * SbBytes(f) - 1
    BY <1>3, <2>2
  <2> QED BY <2>2, <2>5, <2>6, <2>7, <2>8, <2>9
<1> QED BY <1>10, <1>11, PairFitsIf DEF raw, unit

(* Every field of a superblock's metadata.                                 *)
LEMMA PairsFit ==
  ASSUME NEW f \in Formats, NEW pr \in LocalPairs(f)
  PROVE  PairFits(f, pr)
<1>1. CASE \E g \in Groups(f), w \in Fields(f) : pr = <<RefMetaField(f, g, w), UnitField(f, g, w)>>
  <2>1. PICK g \in Groups(f), w \in Fields(f) : pr = <<RefMetaField(f, g, w), UnitField(f, g, w)>>
    BY <1>1
  <2>2. CASE f = "Q2_K"
    <3>1. g \in 0 .. 15 /\ w \in {"scale", "min"}
      BY <2>2 DEF Groups, Fields, Quant
    <3> QED BY <2>1, <2>2, <3>1, FieldsFitQ2
  <2>3. CASE f = "Q3_K"
    <3>1. g \in 0 .. 15 /\ w = "scale"
      BY <2>3 DEF Groups, Fields, Quant, HasMin
    <3> QED BY <2>1, <2>3, <3>1, FieldsFitQ3
  <2>4. CASE f \in {"Q4_K", "Q5_K"}
    <3>1. g \in 0 .. 7 /\ w \in {"scale", "min"}
      BY <2>4 DEF Groups, Fields, Quant
    <3> QED BY <2>1, <2>4, <3>1, FieldsFitQ4
  <2>5. CASE f = "Q6_K"
    <3>1. g \in 0 .. 15 /\ w = "scale"
      BY <2>5 DEF Groups, Fields, Quant, HasMin
    <3> QED BY <2>1, <2>5, <3>1, FieldsFitQ6
  <2> QED BY <2>2, <2>3, <2>4, <2>5, FormatsAre
<1>2. CASE pr = <<Field(8 * Quant[f].dOff, 16), Field(0, 16)>>
  BY <1>2, HeaderFits
<1>3. CASE HasMin(f) /\ pr = <<Field(8 * Quant[f].dminOff, 16), Field(16, 16)>>
  BY <1>3, HeaderFits
<1> QED BY <1>1, <1>2, <1>3 DEF LocalPairs

(* A field of codes, from its first bit.                                   *)
IsFieldAt(field, a, w) == DOMAIN field = 1 .. w /\ \A j \in 1 .. w : field[j] = a + j - 1

(* A field is at its first bit.                                            *)
LEMMA FieldAt ==
  ASSUME NEW a \in Int, NEW w \in Nat
  PROVE  IsFieldAt(Field(a, w), a, w)
BY DEF Field, IsFieldAt

(* The low codes of two bits.                                              *)
LEMMA ThinCode ==
  ASSUME NEW f \in {"Q2_K", "Q3_K"}, NEW g \in 0 .. 15, NEW j \in 0 .. 15, NEW i, i = 16 * g + j
  PROVE  IsFieldAt(RefCodeField(f, i, "low"),
                   8 * (Quant[f].loOff + j + 16 * (g % 2) + 32 * (g \div 8)) + 2 * ((g \div 2) % 4), 2)
<1>1. Quant[f].group = 16 /\ Quant[f].loOff \in Int
  BY DEF Quant
<1>2. (i \div 16) = g /\ (i % 16) = j
  OBVIOUS
<1>3. RefCodeField(f, i, "low")
        = Field(8 * (Quant[f].loOff + j + 16 * (g % 2) + 32 * (g \div 8)) + 2 * ((g \div 2) % 4), 2)
  BY <1>1, <1>2 DEF RefCodeField, At
<1> QED BY <1>1, <1>3, FieldAt

(* The high codes of Q3_K.                                                 *)
LEMMA ThinHigh ==
  ASSUME NEW g \in 0 .. 15, NEW j \in 0 .. 15, NEW i, i = 16 * g + j
  PROVE  IsFieldAt(RefCodeField("Q3_K", i, "high"), 8 * (j + 16 * (g % 2)) + (((g \div 2) % 4) + 4 * (g \div 8)), 1)
<1>1. Quant["Q3_K"].group = 16
  BY DEF Quant
<1>2. (i \div 16) = g /\ (i % 16) = j
  OBVIOUS
<1>3. RefCodeField("Q3_K", i, "high") = Field(8 * (j + 16 * (g % 2)) + (((g \div 2) % 4) + 4 * (g \div 8)), 1)
  BY <1>1, <1>2 DEF RefCodeField, At
<1> QED BY <1>3, FieldAt

(* The low codes of Q4_K and Q5_K.                                         *)
LEMMA WideCode ==
  ASSUME NEW f \in {"Q4_K", "Q5_K"}, NEW g \in 0 .. 7, NEW j \in 0 .. 31, NEW i, i = 32 * g + j
  PROVE  IsFieldAt(RefCodeField(f, i, "low"), 8 * (Quant[f].loOff + j + 32 * (g \div 2)) + 4 * (g % 2), 4)
<1>1. Quant[f].group = 32 /\ Quant[f].loOff \in Int
  BY DEF Quant
<1>2. (i \div 32) = g /\ (i % 32) = j
  OBVIOUS
<1>3. RefCodeField(f, i, "low") = Field(8 * (Quant[f].loOff + j + 32 * (g \div 2)) + 4 * (g % 2), 4)
  BY <1>1, <1>2 DEF RefCodeField, At
<1>4. 8 * (Quant[f].loOff + j + 32 * (g \div 2)) + 4 * (g % 2) \in Int
  BY <1>1
<1> QED BY <1>3, <1>4, FieldAt

(* The high codes of Q5_K.                                                 *)
LEMMA WideHigh ==
  ASSUME NEW g \in 0 .. 7, NEW j \in 0 .. 31, NEW i, i = 32 * g + j
  PROVE  IsFieldAt(RefCodeField("Q5_K", i, "high"), 8 * (16 + j) + g, 1)
<1>1. Quant["Q5_K"].group = 32
  BY DEF Quant
<1>2. (i \div 32) = g /\ (i % 32) = j
  OBVIOUS
<1>3. RefCodeField("Q5_K", i, "high") = Field(8 * (16 + j) + g, 1)
  BY <1>1, <1>2 DEF RefCodeField, At
<1> QED BY <1>3, FieldAt

(* Where a block of Q6_K holds the low and the high bits of code j of      *)
(* group g.                                                                *)
SixLowAt(g, j) == 8 * (j + 16 * (g % 2) + 32 * ((g \div 2) % 2) + 64 * (g \div 8)) + 4 * ((g \div 4) % 2)
SixHighAt(g, j) == 8 * (128 + j + 16 * (g % 2) + 32 * (g \div 8)) + (2 * ((g \div 2) % 2) + 4 * ((g \div 4) % 2))

(* The two places lie in the codes of the block.                           *)
LEMMA SixPlaces ==
  ASSUME NEW g \in 0 .. 15, NEW j \in 0 .. 15
  PROVE  /\ SixLowAt(g, j) \in Nat /\ SixLowAt(g, j) + 4 <= 8 * 210
         /\ SixHighAt(g, j) \in Nat /\ SixHighAt(g, j) + 2 <= 8 * 210
<1>1. (g % 2) \in {0, 1} /\ ((g \div 2) % 2) \in {0, 1} /\ ((g \div 4) % 2) \in {0, 1} /\ (g \div 8) \in {0, 1}
  OBVIOUS
<1>2. PICK q \in {0, 1} : q = g % 2
  BY <1>1
<1>3. PICK h \in {0, 1} : h = (g \div 2) % 2
  BY <1>1
<1>4. PICK u \in {0, 1} : u = (g \div 4) % 2
  BY <1>1
<1>5. PICK v \in {0, 1} : v = g \div 8
  BY <1>1
<1>6. SixLowAt(g, j) = 8 * (j + 16 * q + 32 * h + 64 * v) + 4 * u
  BY <1>2, <1>3, <1>4, <1>5 DEF SixLowAt
<1>7. SixHighAt(g, j) = 8 * (128 + j + 16 * q + 32 * v) + (2 * h + 4 * u)
  BY <1>2, <1>3, <1>4, <1>5 DEF SixHighAt
<1> QED BY <1>6, <1>7

(* The low codes of Q6_K.                                                  *)
LEMMA SixCode ==
  ASSUME NEW g \in 0 .. 15, NEW j \in 0 .. 15
  PROVE  IsFieldAt(RefCodeField("Q6_K", 16 * g + j, "low"), SixLowAt(g, j), 4)
<1>1. Quant["Q6_K"].group = 16
  BY DEF Quant
<1>2. ((16 * g + j) \div 16) = g /\ ((16 * g + j) % 16) = j
  OBVIOUS
<1>3. RefCodeField("Q6_K", 16 * g + j, "low")
        = Field(8 * (j + 16 * (g % 2) + 32 * ((g \div 2) % 2) + 64 * (g \div 8)) + 4 * ((g \div 4) % 2), 4)
  BY <1>1, <1>2 DEF RefCodeField, At
<1>4. RefCodeField("Q6_K", 16 * g + j, "low") = Field(SixLowAt(g, j), 4)
  BY <1>3 DEF SixLowAt
<1>5. SixLowAt(g, j) \in Int
  BY DEF SixLowAt
<1> QED BY <1>4, <1>5, FieldAt

(* Its high ones.                                                          *)
LEMMA SixHigh ==
  ASSUME NEW g \in 0 .. 15, NEW j \in 0 .. 15
  PROVE  IsFieldAt(RefCodeField("Q6_K", 16 * g + j, "high"), SixHighAt(g, j), 2)
<1>1. Quant["Q6_K"].group = 16
  BY DEF Quant
<1>2. ((16 * g + j) \div 16) = g /\ ((16 * g + j) % 16) = j
  OBVIOUS
<1>3. RefCodeField("Q6_K", 16 * g + j, "high")
        = Field(8 * (128 + j + 16 * (g % 2) + 32 * (g \div 8)) + (2 * ((g \div 2) % 2) + 4 * ((g \div 4) % 2)), 2)
  BY <1>1, <1>2 DEF RefCodeField, At
<1>4. RefCodeField("Q6_K", 16 * g + j, "high") = Field(SixHighAt(g, j), 2)
  BY <1>3 DEF SixHighAt
<1>5. SixHighAt(g, j) \in Int
  BY DEF SixHighAt
<1> QED BY <1>4, <1>5, FieldAt

(* A code is in its official block, wherever its group puts it.            *)
CodeFits(f, i, p) ==
  \E a \in Nat : /\ IsFieldAt(RefCodeField(f, i, p), a, Quant[f][p])
                 /\ a + Quant[f][p] <= 8 * Quant[f].raw

(* Every code is.                                                          *)
LEMMA CodesFit ==
  ASSUME NEW f \in Formats, NEW i \in Codes, NEW p \in Planes(f)
  PROVE  CodeFits(f, i, p)
<1>1. i \in 0 .. 255
  BY DEF Codes, QK
<1>2. ASSUME f \in {"Q2_K", "Q3_K"}, p = "low" PROVE CodeFits(f, i, p)
  <2>1. PICK g \in 0 .. 15, j \in 0 .. 15 : i = 16 * g + j
    <3>1. (i \div 16) \in 0 .. 15 /\ (i % 16) \in 0 .. 15 /\ i = 16 * (i \div 16) + (i % 16)
      BY <1>1
    <3> QED BY <3>1
  <2>2. Quant[f].loOff \in {16, 32} /\ Quant[f].raw >= Quant[f].loOff + 64 /\ Quant[f].raw \in Nat /\ Quant[f][p] = 2
    BY <1>2 DEF Quant
  <2>3. PICK a \in Nat : /\ a = 8 * (Quant[f].loOff + j + 16 * (g % 2) + 32 * (g \div 8)) + 2 * ((g \div 2) % 4)
                         /\ a + 2 <= 8 * (Quant[f].loOff + 64)
    <3>1. (g % 2) \in {0, 1} /\ (g \div 8) \in {0, 1} /\ ((g \div 2) % 4) \in 0 .. 3
      OBVIOUS
    <3> QED BY <2>2, <3>1
  <2>4. IsFieldAt(RefCodeField(f, i, "low"), a, 2)
    BY <1>2, <2>1, <2>3, ThinCode
  <2> QED BY <1>2, <2>2, <2>3, <2>4 DEF CodeFits
<1>3. ASSUME f = "Q3_K", p = "high" PROVE CodeFits(f, i, p)
  <2>1. PICK g \in 0 .. 15, j \in 0 .. 15 : i = 16 * g + j
    <3>1. (i \div 16) \in 0 .. 15 /\ (i % 16) \in 0 .. 15 /\ i = 16 * (i \div 16) + (i % 16)
      BY <1>1
    <3> QED BY <3>1
  <2>2. Quant[f].raw = 110 /\ Quant[f][p] = 1
    BY <1>3 DEF Quant
  <2>3. PICK a \in 0 .. 255 : a = 8 * (j + 16 * (g % 2)) + (((g \div 2) % 4) + 4 * (g \div 8))
    <3>1. (g % 2) \in {0, 1} /\ (g \div 8) \in {0, 1} /\ ((g \div 2) % 4) \in 0 .. 3
      OBVIOUS
    <3> QED BY <3>1
  <2>4. IsFieldAt(RefCodeField("Q3_K", i, "high"), a, 1)
    BY <2>1, <2>3, ThinHigh
  <2>5. a \in Nat /\ a + 1 <= 8 * 110
    BY <2>3
  <2> QED BY <1>3, <2>2, <2>4, <2>5 DEF CodeFits
<1>4. ASSUME f \in {"Q4_K", "Q5_K"}, p = "low" PROVE CodeFits(f, i, p)
  <2>1. PICK g \in 0 .. 7, j \in 0 .. 31 : i = 32 * g + j
    <3>1. (i \div 32) \in 0 .. 7 /\ (i % 32) \in 0 .. 31 /\ i = 32 * (i \div 32) + (i % 32)
      BY <1>1
    <3> QED BY <3>1
  <2>2. Quant[f].loOff \in {16, 48} /\ Quant[f].raw >= Quant[f].loOff + 128 /\ Quant[f].raw \in Nat /\ Quant[f][p] = 4
    BY <1>4 DEF Quant
  <2>3. PICK a \in Nat : /\ a = 8 * (Quant[f].loOff + j + 32 * (g \div 2)) + 4 * (g % 2)
                         /\ a + 4 <= 8 * (Quant[f].loOff + 128)
    <3>1. (g % 2) \in {0, 1} /\ (g \div 2) \in 0 .. 3
      OBVIOUS
    <3> QED BY <2>2, <3>1
  <2>4. IsFieldAt(RefCodeField(f, i, "low"), a, 4)
    BY <1>4, <2>1, <2>3, WideCode
  <2> QED BY <1>4, <2>2, <2>3, <2>4 DEF CodeFits
<1>5. ASSUME f = "Q5_K", p = "high" PROVE CodeFits(f, i, p)
  <2>1. PICK g \in 0 .. 7, j \in 0 .. 31 : i = 32 * g + j
    <3>1. (i \div 32) \in 0 .. 7 /\ (i % 32) \in 0 .. 31 /\ i = 32 * (i \div 32) + (i % 32)
      BY <1>1
    <3> QED BY <3>1
  <2>2. Quant[f].raw = 176 /\ Quant[f][p] = 1
    BY <1>5 DEF Quant
  <2>3. PICK a \in 0 .. 383 : a = 8 * (16 + j) + g
    OBVIOUS
  <2>4. IsFieldAt(RefCodeField("Q5_K", i, "high"), a, 1)
    BY <2>1, <2>3, WideHigh
  <2>5. a \in Nat /\ a + 1 <= 8 * 176
    BY <2>3
  <2> QED BY <1>5, <2>2, <2>4, <2>5 DEF CodeFits
<1>6. ASSUME f = "Q6_K" PROVE CodeFits(f, i, "low") /\ CodeFits(f, i, "high")
  <2>1. PICK g \in 0 .. 15, j \in 0 .. 15 : i = 16 * g + j
    <3>1. (i \div 16) \in 0 .. 15 /\ (i % 16) \in 0 .. 15 /\ i = 16 * (i \div 16) + (i % 16)
      BY <1>1
    <3> QED BY <3>1
  <2>2. Quant[f].raw = 210 /\ Quant[f]["low"] = 4 /\ Quant[f]["high"] = 2
    BY <1>6 DEF Quant
  <2>3. SixLowAt(g, j) \in Nat /\ SixLowAt(g, j) + 4 <= 8 * 210 /\ SixHighAt(g, j) \in Nat /\ SixHighAt(g, j) + 2 <= 8 * 210
    BY SixPlaces
  <2>4. IsFieldAt(RefCodeField("Q6_K", 16 * g + j, "low"), SixLowAt(g, j), 4)
    BY SixCode
  <2>5. IsFieldAt(RefCodeField("Q6_K", 16 * g + j, "high"), SixHighAt(g, j), 2)
    BY SixHigh
  <2> QED BY <1>6, <2>1, <2>2, <2>3, <2>4, <2>5 DEF CodeFits
<1>7. p \in {"low", "high"} /\ (p = "high" => f \in {"Q3_K", "Q5_K", "Q6_K"})
  BY DEF Planes, Formats, Quant
<1> QED BY <1>2, <1>3, <1>4, <1>5, <1>6, <1>7, FormatsAre

-----------------------------------------------------------------------------
(* That an official block is nothing but codes and metadata.               *)

(* A bit of an official block is in a code or in a field of metadata.      *)
BitCovered(f, z) ==
  \/ \E i \in Codes, p \in Planes(f) :
       \E j \in DOMAIN RefCodeField(f, i, p) : RefCodeField(f, i, p)[j] = z
  \/ \E pr \in LocalPairs(f) : \E j \in DOMAIN pr[1] : pr[1][j] = z

Within(z, a, w) == z \in Nat /\ a \in Int /\ w \in Nat /\ a <= z /\ z < a + w

(* A bit of a code is covered.                                             *)
LEMMA CodeCovers ==
  ASSUME NEW f, NEW i \in Codes, NEW p \in Planes(f), NEW a, NEW w, NEW z,
         IsFieldAt(RefCodeField(f, i, p), a, w), Within(z, a, w)
  PROVE  BitCovered(f, z)
<1>1. PICK j \in 1 .. w : a + j - 1 = z
  <2>1. z - a + 1 \in 1 .. w /\ a + (z - a + 1) - 1 = z
    BY DEF Within
  <2> QED BY <2>1
<1>2. j \in DOMAIN RefCodeField(f, i, p) /\ RefCodeField(f, i, p)[j] = z
  BY <1>1 DEF IsFieldAt
<1> QED BY <1>2 DEF BitCovered

(* A field of metadata that holds a bit.                                   *)
FieldHas(f, g, w, z) == \E j \in DOMAIN RefMetaField(f, g, w) : RefMetaField(f, g, w)[j] = z

(* So is one of a scale or of a min.                                       *)
LEMMA FieldCovers ==
  ASSUME NEW f, NEW g \in Groups(f), NEW w \in Fields(f), NEW z, FieldHas(f, g, w, z)
  PROVE  BitCovered(f, z)
<1>1. <<RefMetaField(f, g, w), UnitField(f, g, w)>> \in LocalPairs(f)
  BY DEF LocalPairs
<1> QED BY <1>1 DEF BitCovered, FieldHas

(* So is one of d and of dmin.                                             *)
LEMMA HeaderCovers ==
  ASSUME NEW f \in Formats, NEW z,
         Within(z, 8 * Quant[f].dOff, 16) \/ (HasMin(f) /\ Within(z, 8 * Quant[f].dminOff, 16))
  PROVE  BitCovered(f, z)
<1>1. ASSUME Within(z, 8 * Quant[f].dOff, 16) PROVE BitCovered(f, z)
  <2> DEFINE a == 8 * Quant[f].dOff
             pr == <<Field(a, 16), Field(0, 16)>>
  <2>1. pr \in LocalPairs(f)
    BY DEF LocalPairs
  <2> HIDE DEF a
  <2>2. PICK j \in 1 .. 16 : a + j - 1 = z
    <3>1. z - a + 1 \in 1 .. 16 /\ a + (z - a + 1) - 1 = z
      BY <1>1 DEF Within, a
    <3> QED BY <3>1
  <2>3. j \in DOMAIN Field(a, 16) /\ Field(a, 16)[j] = z
    BY <2>2 DEF Field
  <2> QED BY <2>1, <2>3 DEF BitCovered
<1>2. ASSUME HasMin(f), Within(z, 8 * Quant[f].dminOff, 16) PROVE BitCovered(f, z)
  <2> DEFINE a == 8 * Quant[f].dminOff
             pr == <<Field(a, 16), Field(16, 16)>>
  <2>1. pr \in LocalPairs(f)
    BY <1>2 DEF LocalPairs
  <2> HIDE DEF a
  <2>2. PICK j \in 1 .. 16 : a + j - 1 = z
    <3>1. z - a + 1 \in 1 .. 16 /\ a + (z - a + 1) - 1 = z
      BY <1>2 DEF Within, a
    <3> QED BY <3>1
  <2>3. j \in DOMAIN Field(a, 16) /\ Field(a, 16)[j] = z
    BY <2>2 DEF Field
  <2> QED BY <2>1, <2>3 DEF BitCovered
<1> QED BY <1>1, <1>2

(* The low codes of two bits cover their bytes.                            *)
LEMMA CoveredThin ==
  ASSUME NEW f \in {"Q2_K", "Q3_K"}, NEW z \in 8 * Quant[f].loOff .. 8 * (Quant[f].loOff + 64) - 1
  PROVE  BitCovered(f, z)
<1>1. PICK o \in {16, 32} : o = Quant[f].loOff
  BY DEF Quant
<1>2. PICK v \in 0 .. 511 : z = 8 * o + v
  <2>1. z \in 8 * o .. 8 * (o + 64) - 1
    BY <1>1
  <2>2. z - 8 * o \in 0 .. 511
    BY <2>1
  <2> QED BY <2>2
<1>3. PICK y \in 0 .. 63, s \in 0 .. 7 : v = 8 * y + s
  <2>1. (v \div 8) \in 0 .. 63 /\ (v % 8) \in 0 .. 7 /\ v = 8 * (v \div 8) + (v % 8)
    OBVIOUS
  <2> QED BY <2>1
<1>4. PICK j \in 0 .. 15, q \in {0, 1}, h \in {0, 1} : y = 32 * h + 16 * q + j
  <2>1. /\ (y % 16) \in 0 .. 15 /\ ((y \div 16) % 2) \in {0, 1} /\ (y \div 32) \in {0, 1}
        /\ y = 32 * (y \div 32) + 16 * ((y \div 16) % 2) + (y % 16)
    OBVIOUS
  <2> QED BY <2>1
<1>5. PICK r \in 0 .. 3, t \in {0, 1} : s = 2 * r + t
  <2>1. (s \div 2) \in 0 .. 3 /\ (s % 2) \in {0, 1} /\ s = 2 * (s \div 2) + (s % 2)
    OBVIOUS
  <2> QED BY <2>1
<1>6. PICK g \in 0 .. 15 : g = 8 * h + 2 * r + q
  <2>1. 8 * h \in 0 .. 8 /\ 2 * r \in 0 .. 6
    OBVIOUS
  <2> QED BY <2>1
<1>7. (g % 2) = q /\ (g \div 8) = h /\ ((g \div 2) % 4) = r
  BY <1>6
<1>8. PICK i \in Codes : i = 16 * g + j
  BY DEF Codes, QK
<1>9. IsFieldAt(RefCodeField(f, i, "low"), 8 * (o + j + 16 * q + 32 * h) + 2 * r, 2)
  BY <1>1, <1>7, <1>8, ThinCode
<1>10. Within(z, 8 * (o + j + 16 * q + 32 * h) + 2 * r, 2)
  BY <1>2, <1>3, <1>4, <1>5 DEF Within
<1>11. "low" \in Planes(f)
  BY DEF Planes
<1> QED BY <1>9, <1>10, <1>11, CodeCovers

(* The high codes of Q3_K cover theirs.                                    *)
LEMMA CoveredThinHigh ==
  ASSUME NEW z \in 0 .. 255
  PROVE  BitCovered("Q3_K", z)
<1>1. PICK y \in 0 .. 31, s \in 0 .. 7 : z = 8 * y + s
  <2>1. (z \div 8) \in 0 .. 31 /\ (z % 8) \in 0 .. 7 /\ z = 8 * (z \div 8) + (z % 8)
    OBVIOUS
  <2> QED BY <2>1
<1>2. PICK j \in 0 .. 15, q \in {0, 1} : y = 16 * q + j
  <2>1. (y % 16) \in 0 .. 15 /\ (y \div 16) \in {0, 1} /\ y = 16 * (y \div 16) + (y % 16)
    OBVIOUS
  <2> QED BY <2>1
<1>3. PICK r \in 0 .. 3, h \in {0, 1} : s = 4 * h + r
  <2>1. (s % 4) \in 0 .. 3 /\ (s \div 4) \in {0, 1} /\ s = 4 * (s \div 4) + (s % 4)
    OBVIOUS
  <2> QED BY <2>1
<1>6. PICK g \in 0 .. 15 : g = 8 * h + 2 * r + q
  <2>1. 8 * h \in 0 .. 8 /\ 2 * r \in 0 .. 6
    OBVIOUS
  <2> QED BY <2>1
<1>7. (g % 2) = q /\ (g \div 8) = h /\ ((g \div 2) % 4) = r
  BY <1>6
<1>8. PICK i \in Codes : i = 16 * g + j
  BY DEF Codes, QK
<1>9. IsFieldAt(RefCodeField("Q3_K", i, "high"), 8 * (j + 16 * q) + (r + 4 * h), 1)
  BY <1>7, <1>8, ThinHigh
<1>10. Within(z, 8 * (j + 16 * q) + (r + 4 * h), 1)
  BY <1>1, <1>2, <1>3 DEF Within
<1>11. "high" \in Planes("Q3_K")
  BY DEF Planes, Quant
<1> QED BY <1>9, <1>10, <1>11, CodeCovers

(* The low codes of Q4_K and Q5_K do.                                      *)
LEMMA CoveredWide ==
  ASSUME NEW f \in {"Q4_K", "Q5_K"}, NEW z \in 8 * Quant[f].loOff .. 8 * (Quant[f].loOff + 128) - 1
  PROVE  BitCovered(f, z)
<1>1. PICK o \in {16, 48} : o = Quant[f].loOff
  BY DEF Quant
<1>2. PICK v \in 0 .. 1023 : z = 8 * o + v
  <2>1. z \in 8 * o .. 8 * (o + 128) - 1
    BY <1>1
  <2>2. z - 8 * o \in 0 .. 1023
    BY <2>1
  <2> QED BY <2>2
<1>3. PICK y \in 0 .. 127, s \in 0 .. 7 : v = 8 * y + s
  <2>1. (v \div 8) \in 0 .. 127 /\ (v % 8) \in 0 .. 7 /\ v = 8 * (v \div 8) + (v % 8)
    OBVIOUS
  <2> QED BY <2>1
<1>4. PICK j \in 0 .. 31, h \in 0 .. 3 : y = 32 * h + j
  <2>1. (y % 32) \in 0 .. 31 /\ (y \div 32) \in 0 .. 3 /\ y = 32 * (y \div 32) + (y % 32)
    OBVIOUS
  <2> QED BY <2>1
<1>5. PICK q \in {0, 1}, t \in 0 .. 3 : s = 4 * q + t
  <2>1. (s \div 4) \in {0, 1} /\ (s % 4) \in 0 .. 3 /\ s = 4 * (s \div 4) + (s % 4)
    OBVIOUS
  <2> QED BY <2>1
<1>6. PICK g \in 0 .. 7 : g = 2 * h + q
  OBVIOUS
<1>7. (g % 2) = q /\ (g \div 2) = h
  BY <1>6
<1>8. PICK i \in Codes : i = 32 * g + j
  BY DEF Codes, QK
<1>9. IsFieldAt(RefCodeField(f, i, "low"), 8 * (o + j + 32 * h) + 4 * q, 4)
  BY <1>1, <1>7, <1>8, WideCode
<1>10. Within(z, 8 * (o + j + 32 * h) + 4 * q, 4)
  BY <1>2, <1>3, <1>4, <1>5 DEF Within
<1>11. "low" \in Planes(f)
  BY DEF Planes
<1> QED BY <1>9, <1>10, <1>11, CodeCovers

(* The high codes of Q5_K do.                                              *)
LEMMA CoveredWideHigh ==
  ASSUME NEW z \in 128 .. 383
  PROVE  BitCovered("Q5_K", z)
<1>1. PICK j \in 0 .. 31, g \in 0 .. 7 : z = 8 * (16 + j) + g
  <2>1. (z \div 8) - 16 \in 0 .. 31 /\ (z % 8) \in 0 .. 7 /\ z = 8 * (16 + ((z \div 8) - 16)) + (z % 8)
    OBVIOUS
  <2> QED BY <2>1
<1>8. PICK i \in Codes : i = 32 * g + j
  BY DEF Codes, QK
<1>9. IsFieldAt(RefCodeField("Q5_K", i, "high"), 8 * (16 + j) + g, 1)
  BY <1>8, WideHigh
<1>10. Within(z, 8 * (16 + j) + g, 1)
  BY <1>1 DEF Within
<1>11. "high" \in Planes("Q5_K")
  BY DEF Planes, Quant
<1> QED BY <1>9, <1>10, <1>11, CodeCovers

(* z is a bit of the bytes from b to e - 1.                                *)
InBytes(z, b, e) ==
  z \in 8 * b .. 8 * e - 1

(* The low codes of Q6_K do.                                               *)
LEMMA CoveredSix ==
  ASSUME NEW z, InBytes(z, 0, 128)
  PROVE  BitCovered("Q6_K", z)
<1>0. z \in 0 .. 1023
  BY DEF InBytes
<1>1. PICK y \in 0 .. 127, s \in 0 .. 7 : z = 8 * y + s
  <2>1. (z \div 8) \in 0 .. 127 /\ (z % 8) \in 0 .. 7 /\ z = 8 * (z \div 8) + (z % 8)
    BY <1>0
  <2> QED BY <2>1
<1>2. PICK j \in 0 .. 15, p \in {0, 1}, q \in {0, 1}, h \in {0, 1} : y = 64 * h + 32 * q + 16 * p + j
  <2>1. /\ (y % 16) \in 0 .. 15 /\ ((y \div 16) % 2) \in {0, 1} /\ ((y \div 32) % 2) \in {0, 1} /\ (y \div 64) \in {0, 1}
        /\ y = 64 * (y \div 64) + 32 * ((y \div 32) % 2) + 16 * ((y \div 16) % 2) + (y % 16)
    OBVIOUS
  <2> QED BY <2>1
<1>3. PICK m \in {0, 1}, t \in 0 .. 3 : s = 4 * m + t
  <2>1. (s \div 4) \in {0, 1} /\ (s % 4) \in 0 .. 3 /\ s = 4 * (s \div 4) + (s % 4)
    OBVIOUS
  <2> QED BY <2>1
<1>6. PICK g \in 0 .. 15 : g = 8 * h + 4 * m + 2 * q + p
  <2>1. 8 * h \in 0 .. 8 /\ 4 * m \in 0 .. 4 /\ 2 * q \in 0 .. 2
    OBVIOUS
  <2> QED BY <2>1
<1>7. (g % 2) = p /\ (g \div 8) = h /\ ((g \div 2) % 2) = q /\ ((g \div 4) % 2) = m
  BY <1>6
<1>8. PICK i \in Codes : i = 16 * g + j
  BY DEF Codes, QK
<1>9. IsFieldAt(RefCodeField("Q6_K", i, "low"), 8 * (j + 16 * p + 32 * q + 64 * h) + 4 * m, 4)
  BY <1>7, <1>8, SixCode DEF SixLowAt
<1>10. Within(z, 8 * (j + 16 * p + 32 * q + 64 * h) + 4 * m, 4)
  BY <1>1, <1>2, <1>3 DEF Within
<1>11. "low" \in Planes("Q6_K")
  BY DEF Planes
<1> QED BY <1>9, <1>10, <1>11, CodeCovers

(* Its high codes do.                                                      *)
LEMMA CoveredSixHigh ==
  ASSUME NEW z, InBytes(z, 128, 192)
  PROVE  BitCovered("Q6_K", z)
<1>0. z \in 1024 .. 1535
  BY DEF InBytes
<1>1. PICK y \in 0 .. 63, s \in 0 .. 7 : z = 8 * (128 + y) + s
  <2>1. (z \div 8) - 128 \in 0 .. 63 /\ (z % 8) \in 0 .. 7 /\ z = 8 * (128 + ((z \div 8) - 128)) + (z % 8)
    BY <1>0
  <2> QED BY <2>1
<1>2. PICK j \in 0 .. 15, p \in {0, 1}, h \in {0, 1} : y = 32 * h + 16 * p + j
  <2>1. /\ (y % 16) \in 0 .. 15 /\ ((y \div 16) % 2) \in {0, 1} /\ (y \div 32) \in {0, 1}
        /\ y = 32 * (y \div 32) + 16 * ((y \div 16) % 2) + (y % 16)
    OBVIOUS
  <2> QED BY <2>1
<1>3. PICK m \in {0, 1}, q \in {0, 1}, t \in {0, 1} : s = 4 * m + 2 * q + t
  <2>1. /\ (s \div 4) \in {0, 1} /\ ((s \div 2) % 2) \in {0, 1} /\ (s % 2) \in {0, 1}
        /\ s = 4 * (s \div 4) + 2 * ((s \div 2) % 2) + (s % 2)
    OBVIOUS
  <2> QED BY <2>1
<1>6. PICK g \in 0 .. 15 : g = 8 * h + 4 * m + 2 * q + p
  <2>1. 8 * h \in 0 .. 8 /\ 4 * m \in 0 .. 4 /\ 2 * q \in 0 .. 2
    OBVIOUS
  <2> QED BY <2>1
<1>7. (g % 2) = p /\ (g \div 8) = h /\ ((g \div 2) % 2) = q /\ ((g \div 4) % 2) = m
  BY <1>6
<1>8. PICK i \in Codes : i = 16 * g + j
  BY DEF Codes, QK
<1>9. IsFieldAt(RefCodeField("Q6_K", i, "high"), 8 * (128 + j + 16 * p + 32 * h) + (2 * q + 4 * m), 2)
  BY <1>7, <1>8, SixHigh DEF SixHighAt
<1>10. Within(z, 8 * (128 + j + 16 * p + 32 * h) + (2 * q + 4 * m), 2)
  BY <1>1, <1>2, <1>3 DEF Within
<1>11. "high" \in Planes("Q6_K")
  BY DEF Planes, Quant
<1> QED BY <1>9, <1>10, <1>11, CodeCovers

(* A bit of a field in one piece.                                          *)
LEMMA WholeFieldHas ==
  ASSUME NEW f, NEW g, NEW w, NEW z, NEW a \in Int, NEW width \in Nat,
         RefMetaField(f, g, w) = Field(a, width), Within(z, a, width)
  PROVE  FieldHas(f, g, w, z)
<1>1. PICK j \in 1 .. width : a + j - 1 = z
  <2>1. z - a + 1 \in 1 .. width /\ a + (z - a + 1) - 1 = z
    BY DEF Within
  <2> QED BY <2>1
<1>2. j \in DOMAIN Field(a, width) /\ Field(a, width)[j] = z
  BY <1>1 DEF Field
<1> QED BY <1>2 DEF FieldHas

(* A bit of a field in two.                                                *)
LEMMA SplitFieldHas ==
  ASSUME NEW f, NEW g, NEW w, NEW z, NEW low \in Int, NEW high \in Int,
         RefMetaField(f, g, w) = Field(low, 4) \o Field(high, 2), Within(z, low, 4) \/ Within(z, high, 2)
  PROVE  FieldHas(f, g, w, z)
<1>1. IsSplit(RefMetaField(f, g, w), low, high)
  BY JoinedField
<1>2. PICK j \in 1 .. 6 : SplitField(low, high, j - 1) = z
  <2>1. CASE Within(z, low, 4)
    <3>1. z - low + 1 \in 1 .. 4 /\ SplitField(low, high, (z - low + 1) - 1) = z
      BY <2>1 DEF Within, SplitField
    <3> QED BY <3>1
  <2>2. CASE Within(z, high, 2)
    <3>1. z - high + 5 \in 5 .. 6 /\ SplitField(low, high, (z - high + 5) - 1) = z
      BY <2>2 DEF Within, SplitField
    <3> QED BY <3>1
  <2> QED BY <2>1, <2>2
<1> QED BY <1>1, <1>2 DEF IsSplit, FieldHas

(* The scales and mins of Q2_K cover their bytes.                          *)
LEMMA CoveredScalesQ2 ==
  ASSUME NEW z \in 0 .. 127
  PROVE  BitCovered("Q2_K", z)
<1>1. PICK g \in 0 .. 15, m \in {0, 1}, t \in 0 .. 3 : z = 8 * g + 4 * m + t
  <2>1. /\ (z \div 8) \in 0 .. 15 /\ ((z \div 4) % 2) \in {0, 1} /\ (z % 4) \in 0 .. 3
        /\ z = 8 * (z \div 8) + 4 * ((z \div 4) % 2) + (z % 4)
    OBVIOUS
  <2> QED BY <2>1
<1>2. PICK w \in Fields("Q2_K") : w = IF m = 0 THEN "scale" ELSE "min"
  BY DEF Fields, HasMin, Quant
<1>3. Quant["Q2_K"].scaleOff = 0 /\ g \in Groups("Q2_K")
  BY DEF Quant, Groups
<1>4. RefMetaField("Q2_K", g, w) = Field(8 * g + 4 * m, 4)
  BY <1>2, <1>3 DEF RefMetaField, RefScaleField, RefMinField, At
<1>5. Within(z, 8 * g + 4 * m, 4) /\ 8 * g + 4 * m \in Int
  BY <1>1 DEF Within
<1>6. FieldHas("Q2_K", g, w, z)
  BY <1>4, <1>5, WholeFieldHas
<1> QED BY <1>3, <1>6, FieldCovers

(* The scales of Q3_K do.                                                  *)
LEMMA CoveredScalesQ3 ==
  ASSUME NEW z \in 768 .. 863
  PROVE  BitCovered("Q3_K", z)
<1>0. Quant["Q3_K"].scaleOff = 96 /\ "scale" \in Fields("Q3_K") /\ Groups("Q3_K") = 0 .. 15
  BY DEF Quant, Groups, Fields
<1>1. ASSUME NEW g \in 0 .. 15
      PROVE  RefMetaField("Q3_K", g, "scale")
               = Field(8 * (96 + (g % 8)) + 4 * (g \div 8), 4) \o Field(8 * (96 + 8 + (g % 4)) + 2 * (g \div 4), 2)
  BY <1>0 DEF RefMetaField, RefScaleField, At
<1>2. CASE z < 832
  <2>1. PICK t \in 0 .. 7, h \in {0, 1}, s \in 0 .. 3 : z = 8 * (96 + t) + 4 * h + s
    <3>1. /\ (z \div 8) - 96 \in 0 .. 7 /\ ((z \div 4) % 2) \in {0, 1} /\ (z % 4) \in 0 .. 3
          /\ z = 8 * (96 + ((z \div 8) - 96)) + 4 * ((z \div 4) % 2) + (z % 4)
      BY <1>2
    <3> QED BY <3>1
  <2>2. PICK g \in 0 .. 15 : g = 8 * h + t
    OBVIOUS
  <2>3. (g % 8) = t /\ (g \div 8) = h
    BY <2>2
  <2>4. PICK low \in Int, high \in Int : low = 8 * (96 + (g % 8)) + 4 * (g \div 8) /\ high = 8 * (96 + 8 + (g % 4)) + 2 * (g \div 4)
    <3>1. 8 * (96 + (g % 8)) + 4 * (g \div 8) \in Int /\ 8 * (96 + 8 + (g % 4)) + 2 * (g \div 4) \in Int
      OBVIOUS
    <3> QED BY <3>1
  <2>5. RefMetaField("Q3_K", g, "scale") = Field(low, 4) \o Field(high, 2)
    BY <1>1, <2>4
  <2>6. Within(z, low, 4)
    <3>1. low = 8 * (96 + t) + 4 * h
      BY <2>3, <2>4
    <3> QED BY <2>1, <3>1 DEF Within
  <2>7. FieldHas("Q3_K", g, "scale", z)
    BY <2>5, <2>6, SplitFieldHas
  <2> QED BY <1>0, <2>7, FieldCovers
<1>3. CASE z >= 832
  <2>1. PICK t \in 0 .. 3, h \in 0 .. 3, s \in {0, 1} : z = 8 * (104 + t) + 2 * h + s
    <3>1. /\ (z \div 8) - 104 \in 0 .. 3 /\ ((z \div 2) % 4) \in 0 .. 3 /\ (z % 2) \in {0, 1}
          /\ z = 8 * (104 + ((z \div 8) - 104)) + 2 * ((z \div 2) % 4) + (z % 2)
      BY <1>3
    <3> QED BY <3>1
  <2>2. PICK g \in 0 .. 15 : g = 4 * h + t
    OBVIOUS
  <2>3. (g % 4) = t /\ (g \div 4) = h
    BY <2>2
  <2>4. PICK low \in Int, high \in Int : low = 8 * (96 + (g % 8)) + 4 * (g \div 8) /\ high = 8 * (96 + 8 + (g % 4)) + 2 * (g \div 4)
    <3>1. 8 * (96 + (g % 8)) + 4 * (g \div 8) \in Int /\ 8 * (96 + 8 + (g % 4)) + 2 * (g \div 4) \in Int
      OBVIOUS
    <3> QED BY <3>1
  <2>5. RefMetaField("Q3_K", g, "scale") = Field(low, 4) \o Field(high, 2)
    BY <1>1, <2>4
  <2>6. Within(z, high, 2)
    <3>1. high = 8 * (96 + 8 + t) + 2 * h
      BY <2>3, <2>4
    <3> QED BY <2>1, <3>1 DEF Within
  <2>7. FieldHas("Q3_K", g, "scale", z)
    BY <2>5, <2>6, SplitFieldHas
  <2> QED BY <1>0, <2>7, FieldCovers
<1> QED BY <1>2, <1>3

(* The scales of Q6_K do.                                                  *)
LEMMA CoveredScalesQ6 ==
  ASSUME NEW z, InBytes(z, 192, 208)
  PROVE  BitCovered("Q6_K", z)
<1>0. z \in 1536 .. 1663
  BY DEF InBytes
<1>1. PICK g \in 0 .. 15, t \in 0 .. 7 : z = 8 * (192 + g) + t
  <2>1. (z \div 8) - 192 \in 0 .. 15 /\ (z % 8) \in 0 .. 7 /\ z = 8 * (192 + ((z \div 8) - 192)) + (z % 8)
    BY <1>0
  <2> QED BY <2>1
<1>3. Quant["Q6_K"].scaleOff = 192 /\ g \in Groups("Q6_K") /\ "scale" \in Fields("Q6_K")
  BY DEF Quant, Groups, Fields
<1>4. RefMetaField("Q6_K", g, "scale") = Field(8 * (192 + g), 8)
  BY <1>3 DEF RefMetaField, RefScaleField, At
<1>5. Within(z, 8 * (192 + g), 8) /\ 8 * (192 + g) \in Int
  BY <1>1 DEF Within
<1>6. FieldHas("Q6_K", g, "scale", z)
  BY <1>4, <1>5, WholeFieldHas
<1> QED BY <1>3, <1>6, FieldCovers

(* A bit of a scale of Q4_K or Q5_K is covered.                            *)
LEMMA SplitScale ==
  ASSUME NEW f \in {"Q4_K", "Q5_K"}, NEW t \in 0 .. 3, NEW h \in {0, 1}, NEW z,
         Within(z, 8 * (4 + t + 8 * h), 4) \/ Within(z, 8 * (4 + t) + (4 + 2 * h), 2)
  PROVE  BitCovered(f, z)
<1>0. Quant[f].scaleOff = 4 /\ "scale" \in Fields(f) /\ Groups(f) = 0 .. 7
  BY DEF Quant, Groups, Fields
<1>1. PICK g \in 0 .. 7 : g = 4 * h + t
  OBVIOUS
<1>2. (g % 4) = t /\ (g \div 4) = h
  BY <1>1
<1>3. PICK low \in Int, high \in Int : low = 8 * (4 + t + 8 * h) /\ high = 8 * (4 + t) + (4 + 2 * h)
  OBVIOUS
<1>4. RefMetaField(f, g, "scale") = Field(low, 4) \o Field(high, 2)
  <2>1. RefMetaField(f, g, "scale") = Field(8 * (4 + t + 8 * h) + 0, 4) \o Field(8 * (4 + t) + (4 + 2 * h), 2)
    BY <1>0, <1>2 DEF RefMetaField, RefScaleField, At
  <2> QED BY <1>3, <2>1
<1>5. FieldHas(f, g, "scale", z)
  BY <1>3, <1>4, SplitFieldHas
<1> QED BY <1>0, <1>5, FieldCovers

(* So is one of a min.                                                     *)
LEMMA SplitMin ==
  ASSUME NEW f \in {"Q4_K", "Q5_K"}, NEW t \in 0 .. 3, NEW h \in {0, 1}, NEW z,
         Within(z, 8 * (8 + t + 4 * h) + 4 * h, 4) \/ Within(z, 8 * (8 + t) + (4 + 2 * h), 2)
  PROVE  BitCovered(f, z)
<1>0. Quant[f].scaleOff = 4 /\ "min" \in Fields(f) /\ Groups(f) = 0 .. 7
  BY DEF Quant, Groups, Fields, HasMin
<1>1. PICK g \in 0 .. 7 : g = 4 * h + t
  OBVIOUS
<1>2. (g % 4) = t /\ (g \div 4) = h
  BY <1>1
<1>3. PICK low \in Int, high \in Int : low = 8 * (8 + t + 4 * h) + 4 * h /\ high = 8 * (8 + t) + (4 + 2 * h)
  OBVIOUS
<1>4. RefMetaField(f, g, "min") = Field(low, 4) \o Field(high, 2)
  <2>1. RefMetaField(f, g, "min") = Field(8 * (4 + 4 + t + 4 * h) + 4 * h, 4) \o Field(8 * (4 + 4 + t) + (4 + 2 * h), 2)
    BY <1>0, <1>2 DEF RefMetaField, RefMinField, At
  <2> QED BY <1>3, <2>1
<1>5. FieldHas(f, g, "min", z)
  BY <1>3, <1>4, SplitFieldHas
<1> QED BY <1>0, <1>5, FieldCovers

(* The scales and mins of Q4_K and Q5_K cover their bytes.                 *)
LEMMA CoveredScalesQ4 ==
  ASSUME NEW f \in {"Q4_K", "Q5_K"}, NEW z \in 32 .. 127
  PROVE  BitCovered(f, z)
<1>1. PICK y \in 4 .. 15, s \in 0 .. 7 : z = 8 * y + s
  <2>1. (z \div 8) \in 4 .. 15 /\ (z % 8) \in 0 .. 7 /\ z = 8 * (z \div 8) + (z % 8)
    OBVIOUS
  <2> QED BY <2>1
<1>2. PICK t \in 0 .. 3, r \in 1 .. 3 : y = 4 * r + t
  <2>1. (y % 4) \in 0 .. 3 /\ (y \div 4) \in 1 .. 3 /\ y = 4 * (y \div 4) + (y % 4)
    OBVIOUS
  <2> QED BY <2>1
<1>3. CASE r = 1 /\ s < 4
  <2>1. Within(z, 8 * (4 + t + 8 * 0), 4)
    BY <1>1, <1>2, <1>3 DEF Within
  <2> QED BY <2>1, SplitScale
<1>4. CASE r = 1 /\ s >= 4
  <2>1. PICK h \in {0, 1} : Within(z, 8 * (4 + t) + (4 + 2 * h), 2)
    <3>1. s < 6 => Within(z, 8 * (4 + t) + (4 + 2 * 0), 2)
      BY <1>1, <1>2, <1>4 DEF Within
    <3>2. s >= 6 => Within(z, 8 * (4 + t) + (4 + 2 * 1), 2)
      BY <1>1, <1>2, <1>4 DEF Within
    <3> QED BY <3>1, <3>2
  <2> QED BY <2>1, SplitScale
<1>5. CASE r = 2 /\ s < 4
  <2>1. Within(z, 8 * (8 + t + 4 * 0) + 4 * 0, 4)
    BY <1>1, <1>2, <1>5 DEF Within
  <2> QED BY <2>1, SplitMin
<1>6. CASE r = 2 /\ s >= 4
  <2>1. PICK h \in {0, 1} : Within(z, 8 * (8 + t) + (4 + 2 * h), 2)
    <3>1. s < 6 => Within(z, 8 * (8 + t) + (4 + 2 * 0), 2)
      BY <1>1, <1>2, <1>6 DEF Within
    <3>2. s >= 6 => Within(z, 8 * (8 + t) + (4 + 2 * 1), 2)
      BY <1>1, <1>2, <1>6 DEF Within
    <3> QED BY <3>1, <3>2
  <2> QED BY <2>1, SplitMin
<1>7. CASE r = 3 /\ s < 4
  <2>1. Within(z, 8 * (4 + t + 8 * 1), 4)
    BY <1>1, <1>2, <1>7 DEF Within
  <2> QED BY <2>1, SplitScale
<1>8. CASE r = 3 /\ s >= 4
  <2>1. Within(z, 8 * (8 + t + 4 * 1) + 4 * 1, 4)
    BY <1>1, <1>2, <1>8 DEF Within
  <2> QED BY <2>1, SplitMin
<1> QED BY <1>3, <1>4, <1>5, <1>6, <1>7, <1>8

(* Every bit of a Q6_K block.                                              *)
LEMMA SixCovered ==
  ASSUME NEW z, InBytes(z, 0, 210)
  PROVE  BitCovered("Q6_K", z)
<1>0. z \in 0 .. 1679
  BY DEF InBytes
<1>1. CASE z < 1024
  <2>1. InBytes(z, 0, 128)
    BY <1>0, <1>1 DEF InBytes
  <2> QED BY <2>1, CoveredSix
<1>2. CASE z >= 1024 /\ z < 1536
  <2>1. InBytes(z, 128, 192)
    BY <1>0, <1>2 DEF InBytes
  <2> QED BY <2>1, CoveredSixHigh
<1>3. CASE z >= 1536 /\ z < 1664
  <2>1. InBytes(z, 192, 208)
    BY <1>0, <1>3 DEF InBytes
  <2> QED BY <2>1, CoveredScalesQ6
<1>4. CASE z >= 1664
  <2>1. Quant["Q6_K"].raw = 210 /\ Quant["Q6_K"].dOff = 208
    BY DEF Quant
  <2>0. z \in 1664 .. 1679
    BY <1>0, <1>4
  <2>2. Within(z, 8 * 208, 16)
    BY <2>0 DEF Within
  <2>3. "Q6_K" \in Formats
    BY DEF Formats, Quant
  <2> QED BY <2>1, <2>2, <2>3, HeaderCovers
<1> QED BY <1>0, <1>1, <1>2, <1>3, <1>4

(* Every bit of an official block is a code's or the metadata's.           *)
LEMMA EveryBitCovered ==
  ASSUME NEW f \in Formats, NEW z \in 0 .. 8 * Quant[f].raw - 1
  PROVE  BitCovered(f, z)
<1>1. CASE f = "Q2_K"
  <2>1. Quant[f].raw = 84 /\ Quant[f].loOff = 16 /\ Quant[f].dOff = 80 /\ Quant[f].dminOff = 82 /\ HasMin(f)
    BY <1>1 DEF Quant, HasMin
  <2>2. z \in 0 .. 671
    BY <2>1
  <2>3. z >= 640 => Within(z, 8 * 80, 16) \/ Within(z, 8 * 82, 16)
    BY <2>2 DEF Within
  <2>4. CASE z < 128
    BY <1>1, <2>1, <2>2, <2>3, <2>4, CoveredScalesQ2
  <2>5. CASE z >= 128 /\ z < 640
    BY <1>1, <2>1, <2>2, <2>3, <2>5, CoveredThin
  <2>6. CASE z >= 640
    BY <1>1, <2>1, <2>2, <2>3, <2>6, HeaderCovers
  <2> QED BY <2>2, <2>4, <2>5, <2>6
<1>2. CASE f = "Q3_K"
  <2>1. Quant[f].raw = 110 /\ Quant[f].loOff = 32 /\ Quant[f].dOff = 108
    BY <1>2 DEF Quant
  <2>2. z \in 0 .. 879
    BY <2>1
  <2>3. z >= 864 => Within(z, 8 * 108, 16)
    BY <2>2 DEF Within
  <2>4. CASE z < 256
    BY <1>2, <2>1, <2>2, <2>3, <2>4, CoveredThinHigh
  <2>5. CASE z >= 256 /\ z < 768
    BY <1>2, <2>1, <2>2, <2>3, <2>5, CoveredThin
  <2>6. CASE z >= 768 /\ z < 864
    BY <1>2, <2>1, <2>2, <2>3, <2>6, CoveredScalesQ3
  <2>7. CASE z >= 864
    BY <1>2, <2>1, <2>2, <2>3, <2>7, HeaderCovers
  <2> QED BY <2>2, <2>4, <2>5, <2>6, <2>7
<1>3. CASE f = "Q4_K"
  <2>1. Quant[f].raw = 144 /\ Quant[f].loOff = 16 /\ Quant[f].dOff = 0 /\ Quant[f].dminOff = 2 /\ HasMin(f)
    BY <1>3 DEF Quant, HasMin
  <2>2. z \in 0 .. 1151
    BY <2>1
  <2>3. z < 32 => Within(z, 8 * 0, 16) \/ Within(z, 8 * 2, 16)
    BY <2>2 DEF Within
  <2>4. CASE z < 32
    BY <1>3, <2>1, <2>2, <2>3, <2>4, HeaderCovers
  <2>5. CASE z >= 32 /\ z < 128
    BY <1>3, <2>1, <2>2, <2>3, <2>5, CoveredScalesQ4
  <2>6. CASE z >= 128
    <3>1. z \in 8 * Quant[f].loOff .. 8 * (Quant[f].loOff + 128) - 1
      BY <2>1, <2>2, <2>6
    <3> QED BY <1>3, <3>1, CoveredWide
  <2> QED BY <2>2, <2>4, <2>5, <2>6
<1>4. CASE f = "Q5_K"
  <2>1. Quant[f].raw = 176 /\ Quant[f].loOff = 48 /\ Quant[f].dOff = 0 /\ Quant[f].dminOff = 2 /\ HasMin(f)
    BY <1>4 DEF Quant, HasMin
  <2>2. z \in 0 .. 1407
    BY <2>1
  <2>3. z < 32 => Within(z, 8 * 0, 16) \/ Within(z, 8 * 2, 16)
    BY <2>2 DEF Within
  <2>4. CASE z < 32
    BY <1>4, <2>1, <2>2, <2>3, <2>4, HeaderCovers
  <2>5. CASE z >= 32 /\ z < 128
    BY <1>4, <2>1, <2>2, <2>3, <2>5, CoveredScalesQ4
  <2>6. CASE z >= 128 /\ z < 384
    BY <1>4, <2>1, <2>2, <2>3, <2>6, CoveredWideHigh
  <2>7. CASE z >= 384
    BY <1>4, <2>1, <2>2, <2>3, <2>7, CoveredWide
  <2> QED BY <2>2, <2>4, <2>5, <2>6, <2>7
<1>5. CASE f = "Q6_K"
  <2>1. Quant[f].raw = 210
    BY <1>5 DEF Quant
  <2>2. InBytes(z, 0, 210)
    BY <2>1 DEF InBytes
  <2>3. BitCovered("Q6_K", z)
    BY <2>2, SixCovered
  <2> QED BY <1>5, <2>3
<1> QED BY <1>1, <1>2, <1>3, <1>4, <1>5, FormatsAre

-----------------------------------------------------------------------------
(* A whole artifact.                                                       *)

(* A metadata bit of a superblock: where it is in the unit and in the      *)
(* official block.                                                         *)
MetaBitAt(b, pr, j, y) ==
  /\ y \in 0 .. 8 * SbBytes(fmt) - 1
  /\ pr[2][j] = UnitBase(b) + y
  /\ pr[1][j] = RawBase(b) + OfficialOf(fmt, y)
  /\ OfficialOf(fmt, y) \in 0 .. 8 * Quant[fmt].raw - 1

(* The metadata of a superblock is the format's, moved to where it is.     *)
LEMMA PairsShifted ==
  ASSUME NEW b, NEW pr
  PROVE  pr \in MetaPairs(b)
           <=> \E x \in LocalPairs(fmt) : pr = <<Shifted(RawBase(b), x[1]), Shifted(UnitBase(b), x[2])>>
<1> DEFINE Moved(x) == <<Shifted(RawBase(b), x[1]), Shifted(UnitBase(b), x[2])>>
<1>1. MetaPairs(b)
        = {Moved(<<RefMetaField(fmt, g, w), UnitField(fmt, g, w)>>) : g \in Groups(fmt), w \in Fields(fmt)}
            \cup {Moved(<<Field(8 * Quant[fmt].dOff, 16), Field(0, 16)>>)}
            \cup IF ~HasMin(fmt) THEN {} ELSE {Moved(<<Field(8 * Quant[fmt].dminOff, 16), Field(16, 16)>>)}
  BY DEF MetaPairs
<1> HIDE DEF Moved
<1>2. pr \in MetaPairs(b) <=> \E x \in LocalPairs(fmt) : pr = Moved(x)
  <2> DEFINE A == {<<RefMetaField(fmt, g, w), UnitField(fmt, g, w)>> : g \in Groups(fmt), w \in Fields(fmt)}
             B == {<<Field(8 * Quant[fmt].dOff, 16), Field(0, 16)>>}
             C == IF ~HasMin(fmt) THEN {} ELSE {<<Field(8 * Quant[fmt].dminOff, 16), Field(16, 16)>>}
  <2>1. LocalPairs(fmt) = A \cup B \cup C
    BY DEF LocalPairs
  <2>2. pr \in {Moved(<<RefMetaField(fmt, g, w), UnitField(fmt, g, w)>>) : g \in Groups(fmt), w \in Fields(fmt)}
          <=> \E x \in A : pr = Moved(x)
    <3> DEFINE Pair(g, w) == <<RefMetaField(fmt, g, w), UnitField(fmt, g, w)>>
    <3>1. A = {Pair(g, w) : g \in Groups(fmt), w \in Fields(fmt)}
      OBVIOUS
    <3> HIDE DEF A, Pair
    <3>2. pr \in {Moved(Pair(g, w)) : g \in Groups(fmt), w \in Fields(fmt)} <=> \E x \in A : pr = Moved(x)
      BY <3>1
    <3> QED BY <3>2 DEF Pair
  <2>3. pr \in {Moved(<<Field(8 * Quant[fmt].dOff, 16), Field(0, 16)>>)} <=> \E x \in B : pr = Moved(x)
    OBVIOUS
  <2>4. pr \in (IF ~HasMin(fmt) THEN {} ELSE {Moved(<<Field(8 * Quant[fmt].dminOff, 16), Field(16, 16)>>)})
          <=> \E x \in C : pr = Moved(x)
    OBVIOUS
  <2> HIDE DEF A, B, C
  <2> QED BY <1>1, <2>1, <2>2, <2>3, <2>4
<1> QED BY <1>2 DEF Moved

(* So every bit of it has its place.                                       *)
LEMMA MetaBitIs ==
  ASSUME Geometry, NEW b, NEW pr \in MetaPairs(b)
  PROVE  /\ DOMAIN pr[1] = DOMAIN pr[2]
         /\ \A j \in DOMAIN pr[1] : \E y \in 0 .. 8 * SbBytes(fmt) - 1 : MetaBitAt(b, pr, j, y)
<1>1. PICK x \in LocalPairs(fmt) : pr = <<Shifted(RawBase(b), x[1]), Shifted(UnitBase(b), x[2])>>
  BY PairsShifted
<1>2. PairFits(fmt, x)
  BY PairsFit DEF Geometry
<1>3. /\ pr[1] = [i \in DOMAIN x[1] |-> RawBase(b) + x[1][i]]
      /\ pr[2] = [i \in DOMAIN x[2] |-> UnitBase(b) + x[2][i]]
  BY <1>1 DEF Shifted
<1>4. PICK w \in Nat :
        /\ DOMAIN x[1] = 1 .. w /\ DOMAIN x[2] = 1 .. w
        /\ \A i \in 1 .. w : /\ x[2][i] \in 0 .. 8 * SbBytes(fmt) - 1
                             /\ x[1][i] = OfficialOf(fmt, x[2][i])
                             /\ x[1][i] \in 0 .. 8 * Quant[fmt].raw - 1
  BY <1>2 DEF PairFits
<1>5. DOMAIN pr[1] = 1 .. w /\ DOMAIN pr[2] = 1 .. w
  BY <1>3, <1>4
<1>6. ASSUME NEW j \in 1 .. w PROVE MetaBitAt(b, pr, j, x[2][j])
  BY <1>3, <1>4 DEF MetaBitAt
<1> QED BY <1>4, <1>5, <1>6

(* One bit of the units, reached from two superblocks' metadata.           *)
SameMetaPlace(b, pr, i, c, qr, j) ==
  /\ pr \in MetaPairs(b) /\ qr \in MetaPairs(c) /\ i \in DOMAIN pr[1] /\ j \in DOMAIN qr[1]
  /\ pr[2][i] = qr[2][j]

(* It is one superblock's, and one bit of its official block.              *)
LEMMA MetaApart ==
  ASSUME Geometry, NEW b \in Blocks, NEW c \in Blocks, NEW pr, NEW i, NEW qr, NEW j, SameMetaPlace(b, pr, i, c, qr, j)
  PROVE  b = c /\ pr[1][i] = qr[1][j]
<1>1. PICK x \in 0 .. 8 * SbBytes(fmt) - 1 : MetaBitAt(b, pr, i, x)
  BY MetaBitIs DEF SameMetaPlace
<1>2. PICK y \in 0 .. 8 * SbBytes(fmt) - 1 : MetaBitAt(c, qr, j, y)
  BY MetaBitIs DEF SameMetaPlace
<1>3. SameUnitPlace(b, x, c, y)
  BY <1>1, <1>2 DEF SameMetaPlace, MetaBitAt, SameUnitPlace
<1>4. b = c /\ x = y
  BY <1>3, UnitsApart
<1> QED BY <1>1, <1>2, <1>4 DEF MetaBitAt

(* A superblock begins at a bit of its own.                                *)
LEMMA RawBaseType ==
  ASSUME Geometry, NEW b \in Blocks
  PROVE  RawBase(b) \in Int
<1>1. PICK e \in 0 .. experts - 1, c \in 0 .. n - 1, s \in 0 .. Superblocks - 1 : b = <<e, c, s>>
  BY BlockCoordinates
<1>2. Superblocks \in Int /\ n \in Int
  BY DeepExtent DEF Geometry
<1>3. Quant[fmt].raw \in Int
  BY Numbers DEF Geometry
<1>4. PICK r \in Int : r = (e * n + c) * Superblocks + s
  BY <1>2
<1>5. RawBase(b) = r * Quant[fmt].raw * 8
  BY <1>1, <1>4 DEF RawBase
<1> QED BY <1>3, <1>5

(* The official bits of a superblock are those of its codes and metadata.  *)
LEMMA ExtentIs ==
  ASSUME Geometry, NEW b \in Blocks
  PROVE  /\ \A i \in Codes, p \in Planes(fmt) : \A j \in DOMAIN RawCode(b, i, p) : RawCode(b, i, p)[j] \in Extent(b)
         /\ \A pr \in MetaPairs(b) : \A j \in DOMAIN pr[1] : pr[1][j] \in Extent(b)
         /\ \A a \in Extent(b) :
              \/ \E i \in Codes, p \in Planes(fmt) :
                   \E j \in DOMAIN RawCode(b, i, p) : RawCode(b, i, p)[j] = a
              \/ \E pr \in MetaPairs(b) : \E j \in DOMAIN pr[1] : pr[1][j] = a
<1>0. PICK base \in Int : base = RawBase(b)
  BY RawBaseType
<1>1. fmt \in Formats
  BY DEF Geometry
<1>2. PICK size \in Nat : size = Quant[fmt].raw
  BY <1>1, Numbers
<1>3. \A a : a \in Extent(b) <=> a \in base .. base + 8 * size - 1
  BY <1>0, <1>2 DEF Extent
<1>4. ASSUME NEW i \in Codes, NEW p \in Planes(fmt)
      PROVE  /\ DOMAIN RawCode(b, i, p) = DOMAIN RefCodeField(fmt, i, p)
             /\ \A j \in DOMAIN RefCodeField(fmt, i, p) : RawCode(b, i, p)[j] = base + RefCodeField(fmt, i, p)[j]
  BY <1>0 DEF RawCode, Shifted
<1>5. ASSUME NEW i \in Codes, NEW p \in Planes(fmt), NEW j \in DOMAIN RawCode(b, i, p)
      PROVE  RawCode(b, i, p)[j] \in Extent(b)
  <2>1. PICK a \in Nat : /\ IsFieldAt(RefCodeField(fmt, i, p), a, Quant[fmt][p])
                         /\ a + Quant[fmt][p] <= 8 * Quant[fmt].raw
    BY <1>1, CodesFit DEF CodeFits
  <2>2. PICK w \in {1, 2, 4} : w = Quant[fmt][p]
    BY <1>1, WidthOf
  <2>3. j \in 1 .. w /\ RefCodeField(fmt, i, p)[j] = a + j - 1
    BY <1>4, <2>1, <2>2 DEF IsFieldAt
  <2>4. RawCode(b, i, p)[j] = base + (a + j - 1)
    BY <1>4, <2>3
  <2>5. base + (a + j - 1) \in base .. base + 8 * size - 1
    BY <1>2, <2>1, <2>2, <2>3
  <2> QED BY <1>3, <2>4, <2>5
<1>6. ASSUME NEW pr \in MetaPairs(b), NEW j \in DOMAIN pr[1]
      PROVE  pr[1][j] \in Extent(b)
  <2>1. PICK y \in 0 .. 8 * SbBytes(fmt) - 1 : MetaBitAt(b, pr, j, y)
    BY MetaBitIs
  <2>2. PICK o \in 0 .. 8 * size - 1 : pr[1][j] = base + o
    BY <1>0, <1>2, <2>1 DEF MetaBitAt
  <2> QED BY <1>3, <2>2
<1>7. ASSUME NEW a \in Extent(b)
      PROVE  \/ \E i \in Codes, p \in Planes(fmt) :
                  \E j \in DOMAIN RawCode(b, i, p) : RawCode(b, i, p)[j] = a
             \/ \E pr \in MetaPairs(b) : \E j \in DOMAIN pr[1] : pr[1][j] = a
  <2>1. PICK z \in 0 .. 8 * Quant[fmt].raw - 1 : a = base + z
    <3>1. a \in Int /\ a - base \in 0 .. 8 * size - 1 /\ a = base + (a - base)
      BY <1>3
    <3> QED BY <1>2, <3>1
  <2>2. BitCovered(fmt, z)
    BY <1>1, EveryBitCovered
  <2>3. CASE \E i \in Codes, p \in Planes(fmt) :
               \E j \in DOMAIN RefCodeField(fmt, i, p) : RefCodeField(fmt, i, p)[j] = z
    BY <1>4, <2>1, <2>3
  <2>4. CASE \E x \in LocalPairs(fmt) : \E j \in DOMAIN x[1] : x[1][j] = z
    <3>0. PICK x \in LocalPairs(fmt) : \E j \in DOMAIN x[1] : x[1][j] = z
      BY <2>4
    <3>1. PICK j \in DOMAIN x[1] : x[1][j] = z
      BY <3>0
    <3> DEFINE pr == <<Shifted(RawBase(b), x[1]), Shifted(UnitBase(b), x[2])>>
    <3>2. pr \in MetaPairs(b)
      BY PairsShifted
    <3>3. j \in DOMAIN pr[1] /\ pr[1][j] = a
      BY <1>0, <2>1, <3>1 DEF Shifted
    <3> QED BY <3>2, <3>3
  <2> QED BY <2>2, <2>3, <2>4 DEF BitCovered
<1> QED BY <1>5, <1>6, <1>7

(* The codes of a superblock, put: its own are there, and those of the     *)
(* others stand.                                                           *)
LEMMA CodesPut ==
  ASSUME Geometry, NEW b \in Blocks, NEW p \in Planes(fmt)
  PROVE  /\ \A i \in Codes : /\ CodeAt(b, i, p) \in DOMAIN PutCodes(b, p)
                             /\ PutCodes(b, p)[CodeAt(b, i, p)] = RawCode(b, i, p)
         /\ \A c \in Blocks, i \in Codes :
              c # b /\ CodeAt(c, i, p) \in DOMAIN plane[p] =>
                /\ CodeAt(c, i, p) \in DOMAIN PutCodes(b, p)
                /\ PutCodes(b, p)[CodeAt(c, i, p)] = plane[p][CodeAt(c, i, p)]
<1> DEFINE At1 == {CodeAt(b, i, p) : i \in Codes}
           new == [a \in At1 |-> RawCode(b, CHOOSE i \in Codes : CodeAt(b, i, p) = a, p)]
<1>1. PutCodes(b, p) = [a \in At1 \cup DOMAIN plane[p] |-> IF a \in At1 THEN new[a] ELSE plane[p][a]]
  BY DEF PutCodes, Over
<1>2. ASSUME NEW i \in Codes
      PROVE  CodeAt(b, i, p) \in At1 /\ new[CodeAt(b, i, p)] = RawCode(b, i, p)
  <2> DEFINE h == CHOOSE j \in Codes : CodeAt(b, j, p) = CodeAt(b, i, p)
  <2>1. h \in Codes /\ CodeAt(b, h, p) = CodeAt(b, i, p)
    OBVIOUS
  <2>2. new[CodeAt(b, i, p)] = RawCode(b, h, p) /\ CodeAt(b, i, p) \in At1
    OBVIOUS
  <2> HIDE DEF h
  <2>3. h = i
    BY <2>1, CodesApart
  <2> QED BY <2>2, <2>3
<1>3. ASSUME NEW c \in Blocks, NEW i \in Codes, c # b
      PROVE  CodeAt(c, i, p) \notin At1
  <2>1. SUFFICES ASSUME NEW j \in Codes, CodeAt(b, j, p) = CodeAt(c, i, p) PROVE FALSE
    OBVIOUS
  <2> QED BY <1>3, <2>1, CodesApart
<1> HIDE DEF At1, new
<1> QED BY <1>1, <1>2, <1>3

(* The metadata of a superblock, put where the units were zero.            *)
MetaAddress(b, a) == \E pr \in MetaPairs(b) : \E j \in DOMAIN pr[1] : a = pr[2][j]

(* Its own metadata is there, and what was there stands.                   *)
LEMMA MetaPut ==
  ASSUME Geometry, NEW b \in Blocks, \A a \in DOMAIN units : ~MetaAddress(b, a)
  PROVE  /\ \A a : a \in DOMAIN PutMeta(b) <=> a \in DOMAIN units \/ MetaAddress(b, a)
         /\ \A a \in DOMAIN units : PutMeta(b)[a] = units[a]
         /\ \A pr \in MetaPairs(b) : \A j \in DOMAIN pr[1] : PutMeta(b)[pr[2][j]] = {pr[1][j]}
<1> DEFINE writes == UNION {{<<pr[2][i], pr[1][i]>> : i \in DOMAIN pr[1] \cap DOMAIN pr[2]} : pr \in MetaPairs(b)}
           written == {w[1] : w \in writes}
           new == [a \in written |-> UnitHolds(a) \cup {w[2] : w \in {v \in writes : v[1] = a}}]
<1>1. PutMeta(b) = [a \in written \cup DOMAIN units |-> IF a \in written THEN new[a] ELSE units[a]]
  BY DEF PutMeta, Over
<1>2. \A w : w \in writes <=> \E pr \in MetaPairs(b) : \E i \in DOMAIN pr[1] : w = <<pr[2][i], pr[1][i]>>
  <2>1. \A pr \in MetaPairs(b) : DOMAIN pr[1] \cap DOMAIN pr[2] = DOMAIN pr[1]
    BY MetaBitIs
  <2> QED BY <2>1
<1> HIDE DEF writes
<1>3. \A a : a \in written <=> MetaAddress(b, a)
  <2>1. ASSUME NEW a \in written PROVE MetaAddress(b, a)
    <3>1. PICK w \in writes : a = w[1]
      OBVIOUS
    <3>2. PICK pr \in MetaPairs(b) : \E i \in DOMAIN pr[1] : w = <<pr[2][i], pr[1][i]>>
      BY <1>2
    <3> QED BY <3>1, <3>2 DEF MetaAddress
  <2>2. ASSUME NEW pr \in MetaPairs(b), NEW i \in DOMAIN pr[1] PROVE pr[2][i] \in written
    <3>1. <<pr[2][i], pr[1][i]>> \in writes /\ <<pr[2][i], pr[1][i]>>[1] = pr[2][i]
      BY <1>2
    <3> QED BY <3>1
  <2> HIDE DEF written
  <2> QED BY <2>1, <2>2 DEF MetaAddress
<1>4. ASSUME NEW pr \in MetaPairs(b), NEW j \in DOMAIN pr[1]
      PROVE  pr[2][j] \in written /\ new[pr[2][j]] = {pr[1][j]}
  <2> DEFINE a == pr[2][j]
             origins == {w[2] : w \in {v \in writes : v[1] = a}}
  <2>1. a \in written /\ UnitHolds(a) = {}
    BY <1>3 DEF MetaAddress, UnitHolds
  <2>2. new[a] = UnitHolds(a) \cup origins
    BY <2>1
  <2>3. ASSUME NEW w \in writes, w[1] = a PROVE w[2] = pr[1][j]
    <3>1. PICK qr \in MetaPairs(b) : \E i \in DOMAIN qr[1] : w = <<qr[2][i], qr[1][i]>>
      BY <1>2
    <3>2. PICK i \in DOMAIN qr[1] : w = <<qr[2][i], qr[1][i]>>
      BY <3>1
    <3>3. SameMetaPlace(b, pr, j, b, qr, i)
      BY <2>3, <3>2 DEF SameMetaPlace
    <3> QED BY <3>2, <3>3, MetaApart
  <2>4. <<a, pr[1][j]>> \in writes /\ <<a, pr[1][j]>>[1] = a /\ <<a, pr[1][j]>>[2] = pr[1][j]
    BY <1>2
  <2>5. origins = {pr[1][j]}
    <3>1. pr[1][j] \in origins
      BY <2>4
    <3>2. \A o \in origins : o = pr[1][j]
      BY <2>3
    <3> HIDE DEF origins
    <3> QED BY <3>1, <3>2
  <2> QED BY <2>1, <2>2, <2>5
<1> HIDE DEF written, new
<1> QED BY <1>1, <1>3, <1>4

(* The superblock a loop visits next is one it has still to visit.         *)
LEMMA FirstIsIn ==
  ASSUME NEW S, S \subseteq Nat \X Nat \X Nat, S # {}
  PROVE  First(S) \in S
<1>1. PICK e \in {a[1] : a \in S} : \A x \in {a[1] : a \in S} : e <= x
  <2>1. {a[1] : a \in S} \subseteq Nat /\ {a[1] : a \in S} # {}
    OBVIOUS
  <2> QED BY <2>1, LeastNumber
<1> DEFINE S1 == {a \in S : a[1] = e}
<1>2. PICK c \in {a[2] : a \in S1} : \A x \in {a[2] : a \in S1} : c <= x
  <2>1. {a[2] : a \in S1} \subseteq Nat /\ {a[2] : a \in S1} # {}
    OBVIOUS
  <2> QED BY <2>1, LeastNumber
<1> DEFINE S2 == {a \in S1 : a[2] = c}
<1>3. PICK s \in {a[3] : a \in S2} : \A x \in {a[3] : a \in S2} : s <= x
  <2>1. {a[3] : a \in S2} \subseteq Nat /\ {a[3] : a \in S2} # {}
    OBVIOUS
  <2> QED BY <2>1, LeastNumber
<1>4. PICK m \in S : m[1] = e /\ m[2] = c /\ m[3] = s
  BY <1>3
<1>5. ASSUME NEW b \in S \ {m} PROVE Before(m, b)
  <2>1. /\ m = <<m[1], m[2], m[3]>> /\ b = <<b[1], b[2], b[3]>>
        /\ m[1] \in Nat /\ m[2] \in Nat /\ m[3] \in Nat /\ b[1] \in Nat /\ b[2] \in Nat /\ b[3] \in Nat
    OBVIOUS
  <2>2. e <= b[1]
    BY <1>1
  <2>3. b[1] = e => c <= b[2]
    BY <1>2
  <2>4. b[1] = e /\ b[2] = c => s <= b[3]
    BY <1>3
  <2>5. ~(b[1] = e /\ b[2] = c /\ b[3] = s)
    BY <1>4, <2>1
  <2> QED BY <1>4, <2>1, <2>2, <2>3, <2>4, <2>5 DEF Before
<1> HIDE DEF S1, S2
<1>6. \E a \in S : \A b \in S \ {a} : Before(a, b)
  BY <1>5
<1> QED BY <1>6 DEF First

(* What is held, while it is prepared and afterwards: the codes and the    *)
(* metadata of every superblock prepared, and no others' metadata.         *)
CodesHeld ==
  \A b \in Prepared : \A p \in Planes(fmt) : \A i \in Codes :
    CodeAt(b, i, p) \in DOMAIN plane[p] /\ plane[p][CodeAt(b, i, p)] = RawCode(b, i, p)
MetaHeld ==
  \A b \in Prepared : \A pr \in MetaPairs(b) : \A j \in DOMAIN pr[1] :
    pr[2][j] \in DOMAIN units /\ units[pr[2][j]] = {pr[1][j]}
UnitsAreMeta == \A a \in DOMAIN units : \E b \in Prepared : MetaAddress(b, a)
BlocksRecovered ==
  phase \in {"recover", "done"} =>
    \A b \in Blocks \ todo : b \in DOMAIN recovered /\ recovered[b] = {<<a, a>> : a \in Extent(b)}

ArtifactInv ==
  /\ fmt \in Formats /\ n \in Int /\ k \in Int /\ experts \in Nat
  /\ phase \in {"request", "prepare", "recover", "done", "refused"}
  /\ phase = "request" => units = << >>
  /\ phase \in {"prepare", "recover", "done"} => Geometry /\ todo \subseteq Blocks
  /\ phase = "done" => todo = {}
  /\ DOMAIN plane = {"low", "high"}
  /\ CodesHeld /\ MetaHeld /\ UnitsAreMeta /\ BlocksRecovered

(* The addresses are those of the request, which stands.                   *)
LEMMA RequestStands ==
  ASSUME UNCHANGED request
  PROVE  /\ Blocks' = Blocks /\ (Geometry' <=> Geometry) /\ Planes(fmt)' = Planes(fmt)
         /\ \A b, i, p : CodeAt(b, i, p)' = CodeAt(b, i, p) /\ RawCode(b, i, p)' = RawCode(b, i, p)
         /\ \A b : /\ MetaPairs(b)' = MetaPairs(b) /\ Extent(b)' = Extent(b)
                   /\ \A a : MetaAddress(b, a)' <=> MetaAddress(b, a)
<1>1. fmt' = fmt /\ n' = n /\ k' = k /\ experts' = experts
  BY DEF request
<1>2. Superblocks' = Superblocks
  BY <1>1 DEF Superblocks
<1>3. \A b : RawBase(b)' = RawBase(b) /\ UnitBase(b)' = UnitBase(b)
  BY <1>1, <1>2 DEF RawBase, UnitBase
<1>4. Blocks' = Blocks /\ (Geometry' <=> Geometry) /\ Planes(fmt)' = Planes(fmt)
  BY <1>1, <1>2 DEF Blocks, Geometry
<1>5. \A b, i, p : CodeAt(b, i, p)' = CodeAt(b, i, p) /\ RawCode(b, i, p)' = RawCode(b, i, p)
  BY <1>1, <1>3 DEF CodeAt, RawCode
<1>6. \A b : MetaPairs(b)' = MetaPairs(b) /\ Extent(b)' = Extent(b)
  BY <1>1, <1>3 DEF MetaPairs, Extent
<1>7. \A b, a : MetaAddress(b, a)' <=> MetaAddress(b, a)
  BY <1>6 DEF MetaAddress
<1> QED BY <1>4, <1>5, <1>6, <1>7

(* A request the code takes is one of the extents above.                   *)
LEMMA LegalIsGeometry ==
  ASSUME fmt \in Formats, n \in Int, k \in Int, experts \in Nat, LegalGeometry
  PROVE  Geometry
<1>1. SbPerUnit(fmt) \in {1, 2}
  BY UnitSizes
<1>2. CASE SbPerUnit(fmt) = 2
  <2>1. n > 0 /\ (n % 256) = 0 /\ k > 0 /\ (k % 512) = 0
    BY <1>2 DEF LegalGeometry
  <2>2. (k % 256) = 0
    BY <2>1
  <2> QED BY <2>1, <2>2 DEF Geometry
<1>3. CASE SbPerUnit(fmt) # 2
  <2>1. n > 0 /\ (n % 256) = 0 /\ k > 0 /\ (k % 256) = 0
    BY <1>3 DEF LegalGeometry
  <2> QED BY <1>3, <2>1 DEF Geometry
<1> QED BY <1>2, <1>3

(* It holds at first.                                                      *)
LEMMA ArtifactStarts == Init => ArtifactInv
<1> SUFFICES ASSUME Init PROVE ArtifactInv
  OBVIOUS
<1>1. fmt \in Formats /\ n \in Int /\ k \in Int /\ experts \in Nat
  BY LayoutAssumption DEF Init
<1>2. phase = "request" /\ units = << >> /\ DOMAIN plane = {"low", "high"}
  BY DEF Init
<1>3. Prepared = {} /\ DOMAIN units = {}
  BY <1>2 DEF Prepared
<1> QED BY <1>1, <1>2, <1>3 DEF ArtifactInv, CodesHeld, MetaHeld, UnitsAreMeta, BlocksRecovered

(* The superblocks are triples of numbers.                                 *)
LEMMA BlocksType ==
  ASSUME Geometry
  PROVE  Blocks \subseteq Nat \X Nat \X Nat
<1>1. ASSUME NEW b \in Blocks PROVE b \in Nat \X Nat \X Nat
  <2>1. PICK e \in 0 .. experts - 1, c \in 0 .. n - 1, s \in 0 .. Superblocks - 1 : b = <<e, c, s>> /\ e \in Nat
    BY BlockCoordinates
  <2> QED BY <2>1
<1> QED BY <1>1

(* What a superblock gives back is what it had.                            *)
LEMMA BlockRecovered ==
  ASSUME Geometry, NEW b \in Prepared, b \in Blocks, CodesHeld, MetaHeld
  PROVE  CodeBits(b) \cup MetaBits(b) = {<<a, a>> : a \in Extent(b)}
<1>1. ASSUME NEW i \in Codes, NEW p \in Planes(fmt)
      PROVE  PlaneHolds(p, CodeAt(b, i, p)) = RawCode(b, i, p)
  BY DEF CodesHeld, PlaneHolds
<1>2. ASSUME NEW pr \in MetaPairs(b), NEW j \in DOMAIN pr[1]
      PROVE  UnitHolds(pr[2][j]) = {pr[1][j]}
  BY DEF MetaHeld, UnitHolds
<1>3. \A x : x \in CodeBits(b)
        <=> \E i \in Codes, p \in Planes(fmt) :
              \E j \in DOMAIN RawCode(b, i, p) : x = <<RawCode(b, i, p)[j], RawCode(b, i, p)[j]>>
  <2> DEFINE Back(i, p) ==
        LET at == RawCode(b, i, p)
            held == PlaneHolds(p, CodeAt(b, i, p))
        IN  {<<at[j], held[j]>> : j \in DOMAIN at \cap DOMAIN held}
  <2>1. CodeBits(b) = UNION {Back(i, p) : i \in Codes, p \in Planes(fmt)}
    BY DEF CodeBits
  <2>2. ASSUME NEW i \in Codes, NEW p \in Planes(fmt)
        PROVE  Back(i, p) = {<<RawCode(b, i, p)[j], RawCode(b, i, p)[j]>> : j \in DOMAIN RawCode(b, i, p)}
    BY <1>1
  <2> HIDE DEF Back
  <2>3. \A x : x \in CodeBits(b) <=> \E i \in Codes, p \in Planes(fmt) : x \in Back(i, p)
    BY <2>1
  <2> QED BY <2>2, <2>3
<1>4. \A x : x \in MetaBits(b)
        <=> \E pr \in MetaPairs(b) : \E j \in DOMAIN pr[1] : x = <<pr[1][j], pr[1][j]>>
  <2> DEFINE Back(pr) == UNION {{<<pr[1][j], o>> : o \in UnitHolds(pr[2][j])} : j \in DOMAIN pr[1]}
  <2>1. MetaBits(b) = UNION {Back(pr) : pr \in MetaPairs(b)}
    BY DEF MetaBits
  <2>2. ASSUME NEW pr \in MetaPairs(b), NEW x
        PROVE  x \in Back(pr) <=> \E j \in DOMAIN pr[1] : x = <<pr[1][j], pr[1][j]>>
    BY <1>2
  <2> HIDE DEF Back
  <2>3. \A x : x \in MetaBits(b) <=> \E pr \in MetaPairs(b) : x \in Back(pr)
    BY <2>1
  <2> QED BY <2>2, <2>3
<1>5. ASSUME NEW x \in CodeBits(b) \cup MetaBits(b) PROVE \E a \in Extent(b) : x = <<a, a>>
  <2>1. CASE x \in CodeBits(b)
    BY <1>3, <2>1, ExtentIs
  <2>2. CASE x \in MetaBits(b)
    BY <1>4, <2>2, ExtentIs
  <2> QED BY <2>1, <2>2
<1>6. ASSUME NEW a \in Extent(b) PROVE <<a, a>> \in CodeBits(b) \cup MetaBits(b)
  BY <1>3, <1>4, ExtentIs
<1> QED BY <1>5, <1>6

(* Preparing a superblock keeps it: the addresses written are its own.     *)
LEMMA PrepareKeeps ==
  ASSUME ArtifactInv, PrepareBlock
  PROVE  ArtifactInv'
<1> DEFINE b == First(todo)
<1>1. /\ Geometry /\ todo \subseteq Blocks /\ todo # {} /\ phase = "prepare"
      /\ CodesHeld /\ MetaHeld /\ UnitsAreMeta /\ DOMAIN plane = {"low", "high"}
  BY DEF ArtifactInv, PrepareBlock
<1>2. b \in todo /\ b \in Blocks
  BY <1>1, FirstIsIn, BlocksType
<1> HIDE DEF b
<1>3. /\ todo' = todo \ {b}
      /\ plane' = [p \in DOMAIN plane |-> IF p \in Planes(fmt) THEN PutCodes(b, p) ELSE plane[p]]
      /\ units' = PutMeta(b)
      /\ UNCHANGED request /\ phase' = phase /\ recovered' = recovered
  BY DEF PrepareBlock, b
<1>4. Prepared = Blocks \ todo /\ Prepared' = Prepared \cup {b} /\ b \notin Prepared /\ Prepared \subseteq Blocks
  <2>1. Blocks' = Blocks
    BY <1>3, RequestStands
  <2> QED BY <1>1, <1>2, <1>3, <2>1 DEF Prepared
<1>5. Planes(fmt) \subseteq {"low", "high"}
  BY DEF Planes
<1>6. CodesHeld'
  <2>1. ASSUME NEW c \in Prepared \cup {b}, NEW p \in Planes(fmt), NEW i \in Codes
        PROVE  CodeAt(c, i, p) \in DOMAIN plane'[p] /\ plane'[p][CodeAt(c, i, p)] = RawCode(c, i, p)
    <3>1. plane'[p] = PutCodes(b, p)
      BY <1>1, <1>3, <1>5
    <3>2. CASE c = b
      BY <1>1, <1>2, <3>1, <3>2, CodesPut
    <3>3. CASE c # b
      <4>1. c \in Prepared /\ c \in Blocks
        BY <1>4, <3>3
      <4>2. CodeAt(c, i, p) \in DOMAIN plane[p] /\ plane[p][CodeAt(c, i, p)] = RawCode(c, i, p)
        BY <1>1, <4>1 DEF CodesHeld
      <4> QED BY <1>1, <1>2, <3>1, <3>3, <4>1, <4>2, CodesPut
    <3> QED BY <3>2, <3>3
  <2> QED BY <1>3, <1>4, <2>1, RequestStands DEF CodesHeld
<1>7. \A a \in DOMAIN units : ~MetaAddress(b, a)
  <2>1. SUFFICES ASSUME NEW a \in DOMAIN units, MetaAddress(b, a) PROVE FALSE
    OBVIOUS
  <2>2. PICK c \in Prepared : MetaAddress(c, a)
    BY <1>1 DEF UnitsAreMeta
  <2>3. PICK pr \in MetaPairs(b) : \E i \in DOMAIN pr[1] : a = pr[2][i]
    BY <2>1 DEF MetaAddress
  <2>4. PICK i \in DOMAIN pr[1] : a = pr[2][i]
    BY <2>3
  <2>5. PICK qr \in MetaPairs(c) : \E j \in DOMAIN qr[1] : a = qr[2][j]
    BY <2>2 DEF MetaAddress
  <2>6. PICK j \in DOMAIN qr[1] : a = qr[2][j]
    BY <2>5
  <2>7. SameMetaPlace(b, pr, i, c, qr, j)
    BY <2>4, <2>6 DEF SameMetaPlace
  <2>8. b = c
    BY <1>1, <1>2, <1>4, <2>7, MetaApart
  <2> QED BY <1>4, <2>8
<1>8. /\ \A a : a \in DOMAIN units' <=> a \in DOMAIN units \/ MetaAddress(b, a)
      /\ \A a \in DOMAIN units : units'[a] = units[a]
      /\ \A pr \in MetaPairs(b) : \A j \in DOMAIN pr[1] : units'[pr[2][j]] = {pr[1][j]}
  BY <1>1, <1>2, <1>3, <1>7, MetaPut
<1>9. MetaHeld'
  <2>1. ASSUME NEW c \in Prepared \cup {b}, NEW pr \in MetaPairs(c), NEW j \in DOMAIN pr[1]
        PROVE  pr[2][j] \in DOMAIN units' /\ units'[pr[2][j]] = {pr[1][j]}
    <3>1. CASE c = b
      <4>1. MetaAddress(b, pr[2][j])
        BY <3>1 DEF MetaAddress
      <4> QED BY <1>8, <3>1, <4>1
    <3>2. CASE c # b
      BY <1>1, <1>8, <3>2 DEF MetaHeld
    <3> QED BY <3>1, <3>2
  <2> QED BY <1>3, <1>4, <2>1, RequestStands DEF MetaHeld
<1>10. UnitsAreMeta'
  <2>1. ASSUME NEW a \in DOMAIN units' PROVE \E c \in Prepared \cup {b} : MetaAddress(c, a)
    BY <1>1, <1>8 DEF UnitsAreMeta
  <2> QED BY <1>3, <1>4, <2>1, RequestStands DEF UnitsAreMeta
<1>11. BlocksRecovered'
  BY <1>1, <1>3 DEF BlocksRecovered
<1>12. DOMAIN plane' = {"low", "high"}
  BY <1>1, <1>3
<1>13. /\ fmt' \in Formats /\ n' \in Int /\ k' \in Int /\ experts' \in Nat
  BY <1>3 DEF ArtifactInv, request
<1>14. Geometry' /\ todo' \subseteq Blocks'
  BY <1>1, <1>3, RequestStands
<1> QED BY <1>1, <1>3, <1>6, <1>9, <1>10, <1>11, <1>12, <1>13, <1>14 DEF ArtifactInv

(* Recovering one does.                                                    *)
LEMMA RecoverKeeps ==
  ASSUME ArtifactInv, RecoverBlock
  PROVE  ArtifactInv'
<1> DEFINE b == First(todo)
           bits == CodeBits(b) \cup MetaBits(b)
<1>1. /\ Geometry /\ todo \subseteq Blocks /\ todo # {} /\ phase = "recover"
      /\ CodesHeld /\ MetaHeld /\ UnitsAreMeta /\ BlocksRecovered /\ DOMAIN plane = {"low", "high"}
  BY DEF ArtifactInv, RecoverBlock
<1>2. b \in todo /\ b \in Blocks
  BY <1>1, FirstIsIn, BlocksType
<1>3. /\ todo' = todo \ {b}
      /\ recovered' = Over([c \in {b} |-> CodeBits(c) \cup MetaBits(c)], recovered)
      /\ UNCHANGED request /\ phase' = phase /\ plane' = plane /\ units' = units
  BY DEF RecoverBlock
<1>0. bits = {<<a, a>> : a \in Extent(b)}
  <2>1. b \in Prepared
    BY <1>1, <1>2 DEF Prepared
  <2> QED BY <1>1, <1>2, <2>1, BlockRecovered
<1>4. /\ DOMAIN recovered' = DOMAIN recovered \cup {b} /\ recovered'[b] = bits
      /\ \A c \in DOMAIN recovered : c # b => recovered'[c] = recovered[c]
  BY <1>3 DEF Over
<1> HIDE DEF b, bits
<1>5. Prepared' = Prepared
  BY <1>1, <1>3, RequestStands DEF Prepared
<1>6. CodesHeld' /\ MetaHeld' /\ UnitsAreMeta'
  BY <1>1, <1>3, <1>5, RequestStands DEF CodesHeld, MetaHeld, UnitsAreMeta
<1>7. BlocksRecovered'
  <2>1. ASSUME NEW c \in Blocks \ (todo \ {b})
        PROVE  c \in DOMAIN recovered' /\ recovered'[c] = {<<a, a>> : a \in Extent(c)}
    <3>1. CASE c = b
      BY <1>0, <1>4, <3>1
    <3>2. CASE c # b
      <4>1. c \in Blocks \ todo
        BY <3>2
      <4>2. c \in DOMAIN recovered /\ recovered[c] = {<<a, a>> : a \in Extent(c)}
        BY <1>1, <4>1 DEF BlocksRecovered
      <4> QED BY <1>4, <3>2, <4>2
    <3> QED BY <3>1, <3>2
  <2> QED BY <1>3, <2>1, RequestStands DEF BlocksRecovered
<1>8. /\ fmt' \in Formats /\ n' \in Int /\ k' \in Int /\ experts' \in Nat
  BY <1>3 DEF ArtifactInv, request
<1>9. Geometry' /\ todo' \subseteq Blocks'
  BY <1>1, <1>3, RequestStands
<1> QED BY <1>1, <1>3, <1>6, <1>7, <1>8, <1>9 DEF ArtifactInv

(* The steps that write nothing.                                           *)
LEMMA PhaseKeeps ==
  ASSUME ArtifactInv, Validate \/ StartRecover \/ Finish \/ UNCHANGED vars
  PROVE  ArtifactInv'
<1>0. UNCHANGED request /\ plane' = plane /\ units' = units /\ recovered' = recovered
  BY DEF Validate, StartRecover, Finish, vars, request
<1>1. /\ Blocks' = Blocks /\ (Geometry' <=> Geometry)
      /\ fmt' \in Formats /\ n' \in Int /\ k' \in Int /\ experts' \in Nat
  BY <1>0, RequestStands DEF request, ArtifactInv
<1>2. ASSUME Prepared' = Prepared
      PROVE  CodesHeld' /\ MetaHeld' /\ UnitsAreMeta'
  BY <1>0, <1>2, RequestStands DEF CodesHeld, MetaHeld, UnitsAreMeta, ArtifactInv
<1>3. CASE Validate
  <2>1. phase = "request" /\ units = << >> /\ Prepared = {}
    BY <1>3 DEF Validate, ArtifactInv, Prepared
  <2>2. CASE LegalGeometry
    <3>1. phase' = "prepare" /\ todo' = Blocks
      BY <1>3, <2>2 DEF Validate
    <3>2. Geometry
      BY <2>2, LegalIsGeometry DEF ArtifactInv
    <3>3. Prepared' = Prepared
      BY <1>1, <2>1, <3>1 DEF Prepared
    <3>4. BlocksRecovered'
      BY <3>1 DEF BlocksRecovered
    <3> QED BY <1>0, <1>1, <1>2, <3>1, <3>2, <3>3, <3>4 DEF ArtifactInv
  <2>3. CASE ~LegalGeometry
    <3>1. phase' = "refused"
      BY <1>3, <2>3 DEF Validate
    <3>3. Prepared' = Prepared
      BY <2>1, <3>1 DEF Prepared
    <3>4. BlocksRecovered'
      BY <3>1 DEF BlocksRecovered
    <3> QED BY <1>0, <1>1, <1>2, <3>1, <3>3, <3>4 DEF ArtifactInv
  <2> QED BY <2>2, <2>3
<1>4. CASE StartRecover
  <2>1. phase = "prepare" /\ todo = {} /\ phase' = "recover" /\ todo' = Blocks
    BY <1>4 DEF StartRecover
  <2>2. Prepared' = Prepared
    BY <1>1, <2>1 DEF Prepared
  <2>3. BlocksRecovered'
    BY <1>1, <2>1 DEF BlocksRecovered
  <2> QED BY <1>0, <1>1, <1>2, <2>1, <2>2, <2>3 DEF ArtifactInv
<1>5. CASE Finish
  <2>1. phase = "recover" /\ todo = {} /\ phase' = "done" /\ todo' = todo
    BY <1>5 DEF Finish
  <2>2. Prepared' = Prepared
    BY <1>1, <2>1 DEF Prepared
  <2>3. BlocksRecovered'
    BY <1>0, <1>1, <2>1, RequestStands DEF BlocksRecovered, ArtifactInv
  <2> QED BY <1>0, <1>1, <1>2, <2>1, <2>2, <2>3 DEF ArtifactInv
<1>6. CASE UNCHANGED vars
  <2>1. phase' = phase /\ todo' = todo
    BY <1>6 DEF vars
  <2>2. Prepared' = Prepared
    BY <1>1, <2>1 DEF Prepared
  <2>3. BlocksRecovered'
    BY <1>0, <1>1, <2>1, RequestStands DEF BlocksRecovered, ArtifactInv
  <2> QED BY <1>0, <1>1, <1>2, <2>1, <2>2, <2>3 DEF ArtifactInv
<1> QED BY <1>3, <1>4, <1>5, <1>6

(* Every step does.                                                        *)
LEMMA ArtifactSteps == ArtifactInv /\ [Next]_vars => ArtifactInv'
<1> SUFFICES ASSUME ArtifactInv, [Next]_vars PROVE ArtifactInv'
  OBVIOUS
<1>1. CASE PrepareBlock
  BY <1>1, PrepareKeeps
<1>2. CASE RecoverBlock
  BY <1>2, RecoverKeeps
<1>3. CASE Validate \/ StartRecover \/ Finish \/ UNCHANGED vars
  BY <1>3, PhaseKeeps
<1> QED BY <1>1, <1>2, <1>3 DEF Next, Terminated

(* The invariant is the property.                                          *)
LEMMA ArtifactIsInverse == ArtifactInv => RecoverIsInverse
<1> SUFFICES ASSUME ArtifactInv PROVE RecoverIsInverse
  OBVIOUS
<1>1. NothingClobbered
  <2>1. ASSUME NEW b \in Prepared, NEW p \in Planes(fmt), NEW i \in Codes
        PROVE  PlaneHolds(p, CodeAt(b, i, p)) = RawCode(b, i, p)
    BY DEF ArtifactInv, CodesHeld, PlaneHolds
  <2>2. ASSUME NEW b \in Prepared, NEW pr \in MetaPairs(b), NEW j \in DOMAIN pr[1]
        PROVE  UnitHolds(pr[2][j]) = {pr[1][j]}
    BY DEF ArtifactInv, MetaHeld, UnitHolds
  <2> QED BY <2>1, <2>2 DEF NothingClobbered
<1>2. ASSUME phase = "done", NEW b \in Blocks PROVE recovered[b] = {<<a, a>> : a \in Extent(b)}
  BY <1>2 DEF ArtifactInv, BlocksRecovered
<1> QED BY <1>1, <1>2 DEF RecoverIsInverse

(* For every format and extent, expert count and set of columns: whatever  *)
(* is prepared reads back as it was, and recovering an artifact gives back *)
(* every bit of every official block and no other.                         *)
THEOREM ArtifactsRecover == Spec => []RecoverIsInverse
<1>1. Spec => []ArtifactInv
  BY ArtifactStarts, ArtifactSteps, PTL DEF Spec
<1> QED BY <1>1, ArtifactIsInverse, PTL

(* And so beside the readers, in the specification the run checks.         *)
THEOREM ArtifactsRecoverBesideReaders == LayoutsSpec => []RecoverIsInverse
<1> DEFINE Quiet == phase = "none"
<1>1. LayoutsInit => ArtifactInv \/ Quiet
  BY ArtifactStarts DEF LayoutsInit, NoArtifact
<1>2. (ArtifactInv \/ Quiet) /\ [LayoutsNext]_<<vars, placeVars, kernelVars, xplaneVars>> => (ArtifactInv \/ Quiet)'
  <2>1. [LayoutsNext]_<<vars, placeVars, kernelVars, xplaneVars>>
          => (phase # "none" /\ Next) \/ UNCHANGED vars
    BY DEF LayoutsNext
  <2>2. UNCHANGED vars => phase' = phase
    BY DEF vars
  <2> QED BY <2>1, <2>2, ArtifactSteps
<1>3. ArtifactInv \/ Quiet => RecoverIsInverse
  <2>1. Quiet => RecoverIsInverse
    BY DEF RecoverIsInverse, NothingClobbered, Prepared
  <2> QED BY <2>1, ArtifactIsInverse
<1> QED BY <1>1, <1>2, <1>3, PTL DEF LayoutsSpec

-----------------------------------------------------------------------------
(* A weight that can be read back: int4 codes in the arrangement           *)
(* "mixed_gemm", one matrix whose rows are a multiple of 256. Each step of *)
(* the chain moves a cell to a place written down below, and the reader    *)
(* takes the steps in reverse.                                             *)

(* The row that place t of a tile of 32 rows holds, and the place of row q; *)
(* the place of element s in a word of eight.                              *)
TileRow(t) == 8 * ((t % 8) \div 2) + (t % 2) + 2 * (t \div 8)
TilePlace(q) == 8 * ((q % 8) \div 2) + 2 * (q \div 8) + (q % 2)
WordPlace(s) == 4 * (s % 2) + s \div 2

(* Rows and places of a tile correspond one to one.                        *)
LEMMA TilePlaces ==
  ASSUME NEW q \in 0 .. 31
  PROVE  /\ TilePlace(q) \in 0 .. 31 /\ TileRow(TilePlace(q)) = q
         /\ TileRow(q) \in 0 .. 31 /\ TilePlace(TileRow(q)) = q
<1>1. PICK h \in 0 .. 3, m \in 0 .. 3, b \in {0, 1} : q = 8 * h + 2 * m + b
  <2>1. (q \div 8) \in 0 .. 3 /\ ((q \div 2) % 4) \in 0 .. 3 /\ (q % 2) \in {0, 1}
        /\ q = 8 * (q \div 8) + 2 * ((q \div 2) % 4) + (q % 2)
    OBVIOUS
  <2> QED BY <2>1
<1>2. PICK t \in 0 .. 31 : t = 8 * m + 2 * h + b
  OBVIOUS
<1>3. /\ ((t % 8) \div 2) = h /\ (t % 2) = b /\ (t \div 8) = m
      /\ ((q % 8) \div 2) = m /\ (q % 2) = b /\ (q \div 8) = h
  BY <1>1, <1>2
<1>4. TileRow(t) = q /\ TilePlace(q) = t /\ TileRow(q) = t /\ TilePlace(t) = q
  BY <1>1, <1>2, <1>3 DEF TileRow, TilePlace
<1> QED BY <1>4

(* So do the elements of a word and their places.                          *)
LEMMA WordPlaces ==
  ASSUME NEW s \in 0 .. 7
  PROVE  /\ WordPlace(s) \in 0 .. 7 /\ Int4Source(WordPlace(s)) = s
         /\ Int4Source(s) \in 0 .. 7 /\ WordPlace(Int4Source(s)) = s
BY DEF WordPlace, Int4Source

(* The row a row moves to.                                                 *)
MovedRow(r) == r - (r % 32) + TilePlace(r % 32)
UnmovedRow(r) == r - (r % 32) + TileRow(r % 32)

(* Moving a row back gives the row, and no row leaves the matrix.          *)
LEMMA RowsMoveBack ==
  ASSUME NEW a \in Nat, NEW r \in 0 .. 256 * a - 1
  PROVE  MovedRow(r) \in 0 .. 256 * a - 1 /\ UnmovedRow(MovedRow(r)) = r
<1>1. PICK h \in Int, q \in 0 .. 31 : r = 32 * h + q
  <2>1. (r \div 32) \in Int /\ (r % 32) \in 0 .. 31 /\ r = 32 * (r \div 32) + (r % 32)
    OBVIOUS
  <2> QED BY <2>1
<1>2. (r % 32) = q
  BY <1>1
<1>3. PICK t \in 0 .. 31 : t = TilePlace(q) /\ TileRow(t) = q
  BY TilePlaces
<1>4. MovedRow(r) = 32 * h + t
  BY <1>1, <1>2, <1>3 DEF MovedRow
<1>5. ((32 * h + t) % 32) = t
  OBVIOUS
<1>6. UnmovedRow(32 * h + t) = 32 * h + q
  BY <1>3, <1>5 DEF UnmovedRow
<1>7. 32 * h + t \in 0 .. 256 * a - 1
  BY <1>1
<1> QED BY <1>1, <1>4, <1>6, <1>7

(* A cell of a row-major matrix.                                           *)
LEMMA CellParts ==
  ASSUME NEW C \in Nat \ {0}, NEW r \in Nat, NEW c \in 0 .. C - 1
  PROVE  ((r * C + c) \div C) = r /\ ((r * C + c) % C) = c
<1>1. r * C + c = C * r + c
  OBVIOUS
<1> QED BY <1>1, ModUnique, DivUnique

(* It is in the matrix.                                                    *)
LEMMA CellInMatrix ==
  ASSUME NEW R \in Nat, NEW C \in Nat \ {0}, NEW r \in 0 .. R - 1, NEW c \in 0 .. C - 1
  PROVE  r * C + c \in 0 .. R * C - 1
<1>1. PICK d \in Nat : R = r + d + 1
  <2>1. R - 1 - r \in Nat /\ R = r + (R - 1 - r) + 1
    OBVIOUS
  <2> QED BY <2>1
<1>2. R * C = r * C + d * C + C /\ d * C \in Nat /\ r * C \in Nat
  BY <1>1
<1> QED BY <1>2

-----------------------------------------------------------------------------
(* The word that word v of column c moves to, of V words in a column.      *)
LineWord(V, c, v) == (c \div 4) * V * 4 + 4 * (v - (v % 8)) + 8 * (c % 4) + (v % 8)
LineBase(V, c, v) == (c \div 4) * V * 4 + 4 * ((v \div 8) * 8) + 8 * (c % 4) + (v % 8)

(* Where in its group of four columns a word is.                           *)
InGroup(c, v) == 32 * (v \div 8) + 8 * (c % 4) + (v % 8)

(* The interleave and the reader agree on a word's place: its group of     *)
(* four columns, and where it is in the group.                             *)
LEMMA LineSplits ==
  ASSUME NEW V \in Nat, NEW c \in Nat, NEW v \in Nat
  PROVE  LineBase(V, c, v) = (4 * V) * (c \div 4) + InGroup(c, v) /\ LineWord(V, c, v) = LineBase(V, c, v)
<1>1. PICK g \in Nat, j \in 0 .. 3 : g = c \div 4 /\ j = c % 4
  <2>1. (c \div 4) \in Nat /\ (c % 4) \in 0 .. 3
    OBVIOUS
  <2> QED BY <2>1
<1>2. PICK h \in Nat, l \in 0 .. 7 : h = v \div 8 /\ l = v % 8 /\ v = 8 * h + l
  <2>1. (v \div 8) \in Nat /\ (v % 8) \in 0 .. 7 /\ v = 8 * (v \div 8) + (v % 8)
    OBVIOUS
  <2> QED BY <2>1
<1>3. PICK p \in Nat : p = g * V
  <2>1. g * V \in Nat
    OBVIOUS
  <2> QED BY <2>1
<1>4. g * V * 4 = 4 * p /\ (4 * V) * g = 4 * p
  BY <1>3
<1>5. LineBase(V, c, v) = 4 * p + 4 * (h * 8) + 8 * j + l
  BY <1>1, <1>2, <1>4 DEF LineBase
<1>6. LineWord(V, c, v) = 4 * p + 4 * (v - l) + 8 * j + l
  BY <1>1, <1>2, <1>4 DEF LineWord
<1>7. InGroup(c, v) = 32 * h + 8 * j + l
  BY <1>1, <1>2 DEF InGroup
<1> QED BY <1>1, <1>2, <1>4, <1>5, <1>6, <1>7

(* A word stays in its group.                                              *)
LEMMA InGroupBounds ==
  ASSUME NEW a \in Nat, NEW c \in Nat, NEW v \in 0 .. 32 * a - 1
  PROVE  InGroup(c, v) \in 0 .. 4 * (32 * a) - 1
<1>1. PICK j \in 0 .. 3 : j = c % 4
  <2>1. (c % 4) \in 0 .. 3
    OBVIOUS
  <2> QED BY <2>1
<1>2. PICK h \in Nat, l \in 0 .. 7 : h = v \div 8 /\ l = v % 8 /\ v = 8 * h + l
  <2>1. (v \div 8) \in Nat /\ (v % 8) \in 0 .. 7 /\ v = 8 * (v \div 8) + (v % 8)
    OBVIOUS
  <2> QED BY <2>1
<1>3. h <= 4 * a - 1
  BY <1>2
<1>4. InGroup(c, v) = 32 * h + 8 * j + l
  BY <1>1, <1>2 DEF InGroup
<1> QED BY <1>3, <1>4

(* No two words of a group have one place.                                 *)
LEMMA InGroupApart ==
  ASSUME NEW g \in Nat, NEW c \in 4 * g .. 4 * g + 3, NEW d \in 4 * g .. 4 * g + 3, NEW v \in Nat, NEW u \in Nat,
         InGroup(c, v) = InGroup(d, u)
  PROVE  c = d /\ v = u
<1>1. PICK j \in 0 .. 3 : c = 4 * g + j /\ j = c % 4
  <2>1. (c % 4) \in 0 .. 3 /\ c = 4 * g + (c % 4)
    OBVIOUS
  <2> QED BY <2>1
<1>2. PICK i \in 0 .. 3 : d = 4 * g + i /\ i = d % 4
  <2>1. (d % 4) \in 0 .. 3 /\ d = 4 * g + (d % 4)
    OBVIOUS
  <2> QED BY <2>1
<1>3. PICK h \in Nat, l \in 0 .. 7 : h = v \div 8 /\ l = v % 8 /\ v = 8 * h + l
  <2>1. (v \div 8) \in Nat /\ (v % 8) \in 0 .. 7 /\ v = 8 * (v \div 8) + (v % 8)
    OBVIOUS
  <2> QED BY <2>1
<1>4. PICK o \in Nat, m \in 0 .. 7 : o = u \div 8 /\ m = u % 8 /\ u = 8 * o + m
  <2>1. (u \div 8) \in Nat /\ (u % 8) \in 0 .. 7 /\ u = 8 * (u \div 8) + (u % 8)
    OBVIOUS
  <2> QED BY <2>1
<1>5. InGroup(c, v) = 32 * h + 8 * j + l /\ InGroup(d, u) = 32 * o + 8 * i + m
  BY <1>1, <1>2, <1>3, <1>4 DEF InGroup
<1>6. 32 * h + 8 * j + l = 32 * o + 8 * i + m
  BY <1>5
<1>7. h = o /\ j = i /\ l = m
  BY <1>6
<1> QED BY <1>1, <1>2, <1>3, <1>4, <1>7

(* So a place tells the group.                                             *)
LEMMA LineGroup ==
  ASSUME NEW a \in Nat \ {0}, NEW c \in Nat, NEW v \in 0 .. 32 * a - 1
  PROVE  (LineBase(32 * a, c, v) \div (4 * (32 * a))) = c \div 4 /\ InGroup(c, v) = LineBase(32 * a, c, v) % (4 * (32 * a))
<1>1. PICK V \in Nat \ {0} : V = 32 * a
  <2>1. 32 * a \in Nat \ {0}
    OBVIOUS
  <2> QED BY <2>1
<1>2. PICK S \in Nat \ {0} : S = 4 * V
  <2>1. 4 * V \in Nat \ {0}
    OBVIOUS
  <2> QED BY <2>1
<1>3. PICK g \in Nat : g = c \div 4
  <2>1. (c \div 4) \in Nat
    OBVIOUS
  <2> QED BY <2>1
<1>4. PICK q \in 0 .. S - 1 : q = InGroup(c, v)
  BY <1>1, <1>2, InGroupBounds
<1>5. v \in Nat
  OBVIOUS
<1>6. LineBase(V, c, v) = (4 * V) * (c \div 4) + InGroup(c, v)
  BY <1>5, LineSplits
<1>7. LineBase(V, c, v) = S * g + q
  BY <1>2, <1>3, <1>4, <1>6
<1>8. ((S * g + q) % S) = q /\ ((S * g + q) \div S) = g
  BY ModUnique, DivUnique
<1> QED BY <1>1, <1>2, <1>3, <1>4, <1>7, <1>8

(* V words make a column of 256 * a elements; g is column c's group.       *)
IsWords(V, a) == V = 32 * a
IsGroupOf(g, c) == g = c \div 4

(* The place of word v of column c is in group g and no other word's.      *)
Returns(V, g, c, v) ==
  /\ <<c, v>> \in (4 * g .. 4 * g + 3) \X (0 .. V - 1)
  /\ (LineBase(V, c, v) \div (4 * V)) = g
  /\ \A x \in (4 * g .. 4 * g + 3) \X (0 .. V - 1) : LineBase(V, x[1], x[2]) = LineBase(V, c, v) => x = <<c, v>>

(* A word's place tells column and word.                                   *)
LEMMA LineReturns ==
  ASSUME NEW a \in Nat \ {0}, NEW c \in Nat, NEW v \in 0 .. 32 * a - 1, NEW V, IsWords(V, a), NEW g, IsGroupOf(g, c)
  PROVE  Returns(V, g, c, v)
<1>0. V = 32 * a /\ g = c \div 4
  BY DEF IsWords, IsGroupOf
<1>1. g \in Nat /\ c \in 4 * g .. 4 * g + 3 /\ V \in Nat
  BY <1>0
<1>3. (LineBase(V, c, v) \div (4 * V)) = g
  BY <1>0, LineGroup
<1>4. <<c, v>> \in (4 * g .. 4 * g + 3) \X (0 .. V - 1)
  BY <1>0, <1>1
<1>5. ASSUME NEW x \in (4 * g .. 4 * g + 3) \X (0 .. V - 1), LineBase(V, x[1], x[2]) = LineBase(V, c, v)
      PROVE  x = <<c, v>>
  <2>1. PICK d \in 4 * g .. 4 * g + 3, u \in 0 .. V - 1 : x = <<d, u>>
    BY <1>1
  <2>2. d \in Nat /\ u \in 0 .. 32 * a - 1
    BY <1>0, <1>1
  <2>3. LineBase(V, d, u) = LineBase(V, c, v)
    BY <1>5, <2>1
  <2>4. InGroup(d, u) = LineBase(V, d, u) % (4 * V)
    BY <1>0, <2>2, LineGroup
  <2>5. InGroup(c, v) = LineBase(V, c, v) % (4 * V)
    BY <1>0, LineGroup
  <2>6. u \in Nat /\ v \in Nat
    BY <1>0, <1>1
  <2>7. InGroup(d, u) = InGroup(c, v)
    BY <2>3, <2>4, <2>5
  <2>8. d = c /\ u = v
    BY <1>1, <2>6, <2>7, InGroupApart
  <2> QED BY <2>1, <2>8
<1> QED BY <1>3, <1>4, <1>5 DEF Returns

(* No word leaves the buffer.                                              *)
LEMMA LineInBuffer ==
  ASSUME NEW a \in Nat \ {0}, NEW b \in Nat, NEW c \in 0 .. 4 * b - 1, NEW v \in 0 .. 32 * a - 1
  PROVE  LineBase(32 * a, c, v) \in 0 .. (32 * a) * (4 * b) - 1
<1>1. PICK S \in Nat \ {0} : S = 4 * (32 * a)
  <2>1. 4 * (32 * a) \in Nat \ {0}
    OBVIOUS
  <2> QED BY <2>1
<1>2. PICK g \in 0 .. b - 1 : g = c \div 4
  <2>1. (c \div 4) \in 0 .. b - 1
    OBVIOUS
  <2> QED BY <2>1
<1>3. PICK q \in 0 .. S - 1 : q = InGroup(c, v)
  BY <1>1, InGroupBounds
<1>4. c \in Nat /\ v \in Nat /\ 32 * a \in Nat
  OBVIOUS
<1>5. LineBase(32 * a, c, v) = (4 * (32 * a)) * (c \div 4) + InGroup(c, v)
  BY <1>4, LineSplits
<1>6. LineBase(32 * a, c, v) = g * S + q
  BY <1>1, <1>2, <1>3, <1>5
<1>7. g * S + q \in 0 .. b * S - 1
  BY CellInMatrix
<1>8. b * S = (32 * a) * (4 * b)
  BY <1>1
<1> QED BY <1>6, <1>7, <1>8

-----------------------------------------------------------------------------
(* One int4 matrix of R rows and C columns.                                *)
OneInt4(R, C) ==
  Experts = 1 /\ Rows = R /\ Cols = C /\ rq.type = "QUInt4x2" /\ rq.mma = FALSE

(* The sizes the steps use.                                                *)
LEMMA Int4Sizes ==
  ASSUME NEW R, NEW C, OneInt4(R, C)
  PROVE  BitsPerElt = 4 /\ EltsPerReg = 8 /\ RowsPerMma = 32 /\ ColumnsInterleaved = 4
BY DEF OneInt4, BitsPerElt, TypeBits, EltsPerReg, RowsPerMma, ColumnsInterleaved, Tile

(* All of its places are in the one matrix.                                *)
LEMMA OneMatrix ==
  ASSUME NEW R \in Nat \ {0}, NEW C \in Nat \ {0}, OneInt4(R, C), NEW p \in 0 .. R * C - 1
  PROVE  MatrixOf(p) * Rows * Cols = 0 /\ InMatrix(p) = p
<1>1. PICK S \in Nat \ {0} : S = R * C
  <2>1. R * C \in Nat \ {0}
    OBVIOUS
  <2> QED BY <2>1
<1>2. p \in 0 .. S - 1
  BY <1>1
<1>3. p = S * 0 + p
  BY <1>2
<1>4. ((S * 0 + p) % S) = p /\ ((S * 0 + p) \div S) = 0
  BY <1>2, ModUnique, DivUnique
<1>5. (p % S) = p /\ (p \div S) = 0
  BY <1>3, <1>4
<1>6. MatrixOf(p) = 0 /\ InMatrix(p) = p
  BY <1>1, <1>5 DEF MatrixOf, InMatrix, OneInt4
<1>7. 0 * R * C = 0
  OBVIOUS
<1> QED BY <1>6, <1>7 DEF OneInt4

(* Element x stands at place p.                                            *)
StandsAt(x, p) == x \in DOMAIN where /\ where[x] = p

(* Element x is element s of word v of column c; it is where the chain     *)
(* leaves that element; it is read back; v is a word of a column of        *)
(* 256 * a elements.                                                       *)
InColumn(x, R, c, v, s) == StandsAt(x, c * R + (8 * v + s))
InLine(x, a, c, v, s) == StandsAt(x, LineWord(32 * a, c, v) * 8 + WordPlace(s))
ReadsBack(x, C, c, v, s) == RestoredPlaces[x] = UnmovedRow(8 * v + s) * C + c
IsWordOf(v, a) == v \in 0 .. 32 * a - 1

(* R rows are a of 256, C columns b of 64.                                 *)
IsRows(R, a) == R = 256 * a
IsCols(C, b) == C = 64 * b

(* The permutation of rows moves an element's row.                         *)
LEMMA RowsMoved ==
  ASSUME NEW a \in Nat \ {0}, NEW R \in Nat \ {0}, IsRows(R, a), NEW C \in Nat \ {0}, OneInt4(R, C),
         NEW x, NEW r \in 0 .. R - 1, NEW c \in 0 .. C - 1, StandsAt(x, r * C + c)
  PROVE  Permuted[x] = MovedRow(r) * C + c
<1> USE DEF StandsAt, IsRows
<1>1. R \in Nat \ {0} /\ r \in Nat
  OBVIOUS
<1>2. r * C + c \in 0 .. R * C - 1
  BY <1>1, CellInMatrix
<1>3. MatrixOf(where[x]) * Rows * Cols = 0 /\ InMatrix(where[x]) = where[x]
  BY <1>1, <1>2, OneMatrix
<1>4. (where[x] \div C) = r /\ (where[x] % C) = c
  <2>1. ((r * C + c) \div C) = r /\ ((r * C + c) % C) = c
    BY <1>1, CellParts
  <2> QED BY <2>1
<1>5. (r % 32) \in 0 .. 31
  OBVIOUS
<1>6. ASSUME NEW t \in 0 .. 31 PROVE TileReadRow(t) = TileRow(t)
  BY Int4Sizes DEF TileReadRow, TileRow, OneInt4
<1> DEFINE w == CHOOSE t \in 0 .. 31 : TileReadRow(t) = r % 32
<1>7. w = TilePlace(r % 32)
  <2>1. TilePlace(r % 32) \in 0 .. 31 /\ TileReadRow(TilePlace(r % 32)) = r % 32
    BY <1>5, <1>6, TilePlaces
  <2>2. w \in 0 .. 31 /\ TileReadRow(w) = r % 32
    BY <2>1
  <2> HIDE DEF w
  <2>3. TileRow(w) = r % 32 /\ TilePlace(TileRow(w)) = w
    BY <1>6, <2>2, TilePlaces
  <2> QED BY <2>3
<1>8. Permuted[x] = MatrixOf(where[x]) * Rows * Cols + ((r - (r % 32) + w) * C + c)
  <2> DEFINE to == [q \in 0 .. RowsPerMma - 1 |-> CHOOSE t \in 0 .. RowsPerMma - 1 : TileReadRow(t) = q]
             Move(p) == ((p \div Cols) - ((p \div Cols) % RowsPerMma) + to[(p \div Cols) % RowsPerMma]) * Cols + (p % Cols)
  <2>1. RowsPerMma = 32
    BY Int4Sizes
  <2>2. to[r % 32] = w
    BY <1>5, <2>1
  <2>3. Permuted = [y \in DOMAIN where |-> MatrixOf(where[y]) * Rows * Cols + Move(InMatrix(where[y]))]
    BY DEF Permuted
  <2> HIDE DEF to, w
  <2>4. Permuted[x] = MatrixOf(where[x]) * Rows * Cols + Move(InMatrix(where[x]))
    BY <2>3
  <2>5. Move(InMatrix(where[x])) = (r - (r % 32) + w) * C + c
    BY <1>3, <1>4, <2>1, <2>2 DEF OneInt4
  <2> QED BY <2>4, <2>5
<1> HIDE DEF w
<1>9. Permuted[x] = 0 + ((r - (r % 32) + TilePlace(r % 32)) * C + c)
  BY <1>3, <1>7, <1>8
<1>10. MovedRow(r) \in Int
  BY <1>5, TilePlaces DEF MovedRow
<1>11. Permuted[x] = 0 + (MovedRow(r) * C + c)
  BY <1>9 DEF MovedRow
<1> QED BY <1>10, <1>11

(* The transposition exchanges row and column.                             *)
LEMMA CellsTransposed ==
  ASSUME NEW R \in Nat \ {0}, NEW C \in Nat \ {0}, OneInt4(R, C),
         NEW x, NEW r \in 0 .. R - 1, NEW c \in 0 .. C - 1, StandsAt(x, r * C + c)
  PROVE  Transposed[x] = c * R + r
<1> USE DEF StandsAt
<1>1. r \in Nat
  OBVIOUS
<1>2. r * C + c \in 0 .. R * C - 1
  BY CellInMatrix
<1>3. MatrixOf(where[x]) * Rows * Cols = 0 /\ InMatrix(where[x]) = where[x]
  BY <1>2, OneMatrix
<1>4. (where[x] \div C) = r /\ (where[x] % C) = c
  BY <1>1, CellParts
<1>5. Transposed[x] = MatrixOf(where[x]) * Rows * Cols + (c * R + r)
  BY <1>3, <1>4 DEF Transposed, OneInt4
<1>6. c * R + r \in Int
  OBVIOUS
<1> QED BY <1>3, <1>5, <1>6

(* Element s of word v of column c: its word, and where it is in the word. *)
ColumnSplits(V, c, v, s) ==
  /\ ((c * (8 * V) + (8 * v + s)) \div 8) = c * V + v
  /\ ((c * (8 * V) + (8 * v + s)) % 8) = s
  /\ ((c * V + v) \div V) = c /\ ((c * V + v) % V) = v

(* A place in a column, as word and element of the word.                   *)
LEMMA ColumnParts ==
  ASSUME NEW V \in Nat \ {0}, NEW c \in Nat, NEW v \in 0 .. V - 1, NEW s \in 0 .. 7
  PROVE  ColumnSplits(V, c, v, s)
<1>1. v \in Nat
  OBVIOUS
<1>2. PICK p \in Nat : p = c * V
  <2>1. c * V \in Nat
    OBVIOUS
  <2> QED BY <2>1
<1>3. c * (8 * V) = 8 * p
  BY <1>2
<1>4. ((8 * p + (8 * v + s)) \div 8) = p + v /\ ((8 * p + (8 * v + s)) % 8) = s
  BY <1>1
<1>5. ((c * V + v) \div V) = c /\ ((c * V + v) % V) = v
  BY CellParts
<1> QED BY <1>2, <1>3, <1>4, <1>5 DEF ColumnSplits

(* The interleave of columns.                                              *)
Lined == MoveWords(CachelineWord)
IsLined(x, a, c, v, s) == Lined[x] = LineWord(32 * a, c, v) * 8 + s

(* The interleave moves an element with its word.                          *)
LEMMA LinesMoved ==
  ASSUME NEW a \in Nat \ {0}, NEW R \in Nat \ {0}, IsRows(R, a), NEW C \in Nat \ {0}, OneInt4(R, C),
         NEW x, NEW v \in Nat, IsWordOf(v, a), NEW s \in 0 .. 7, NEW c \in 0 .. C - 1,
         InColumn(x, R, c, v, s)
  PROVE  IsLined(x, a, c, v, s)
<1> USE DEF InColumn, IsWordOf, StandsAt, IsRows, IsLined
<1>1. PICK V \in Nat \ {0} : V = 32 * a
  <2>1. 32 * a \in Nat \ {0}
    OBVIOUS
  <2> QED BY <2>1
<1>2. R = 8 * V /\ R \in Nat \ {0} /\ c \in Nat /\ v \in 0 .. V - 1 /\ v \in Nat
  BY <1>1
<1>3. 8 * v + s \in 0 .. R - 1
  BY <1>2
<1>4. where[x] \in 0 .. R * C - 1
  <2>1. where[x] \in 0 .. C * R - 1
    BY <1>2, <1>3, CellInMatrix
  <2> QED BY <1>2, <2>1
<1>5. MatrixOf(where[x]) * Rows * Cols = 0 /\ InMatrix(where[x]) = where[x]
  BY <1>2, <1>4, OneMatrix
<1>6. where[x] = c * (8 * V) + (8 * v + s)
  BY <1>2
<1>7. (where[x] \div 8) = c * V + v /\ (where[x] % 8) = s /\ ((c * V + v) \div V) = c /\ ((c * V + v) % V) = v
  <2>1. ColumnSplits(V, c, v, s)
    BY <1>2, ColumnParts
  <2> QED BY <1>6, <2>1 DEF ColumnSplits
<1>0. EltsPerReg = 8 /\ ColumnsInterleaved = 4
  BY Int4Sizes
<1>8. (Rows \div EltsPerReg) = V
  <2>1. Rows = 8 * V
    BY <1>2 DEF OneInt4
  <2>2. ((8 * V) \div 8) = V
    OBVIOUS
  <2> QED BY <1>0, <2>1, <2>2
<1>9. CachelineWord(c, v) = LineWord(V, c, v)
  <2>1. (Tile \div EltsPerReg) = 8
    BY <1>0 DEF Tile
  <2>2. CachelineWord(c, v) = (c \div 4) * V * 4 + 4 * (v - (v % 8)) + 8 * (c % 4) + (v % 8)
    BY <1>0, <1>8, <2>1 DEF CachelineWord
  <2> QED BY <2>2 DEF LineWord
<1> DEFINE Moved(p) == CachelineWord((p \div EltsPerReg) \div (Rows \div EltsPerReg), (p \div EltsPerReg) % (Rows \div EltsPerReg)) * EltsPerReg
                         + (p % EltsPerReg)
<1>10. Lined = [y \in DOMAIN where |-> MatrixOf(where[y]) * Rows * Cols + Moved(InMatrix(where[y]))]
  BY DEF Lined, MoveWords
<1>11. Lined[x] = MatrixOf(where[x]) * Rows * Cols + Moved(InMatrix(where[x]))
  BY <1>10
<1>12. Moved(InMatrix(where[x])) = LineWord(V, c, v) * 8 + s
  BY <1>0, <1>5, <1>7, <1>8, <1>9
<1>13. LineWord(V, c, v) \in Int
  BY <1>2 DEF LineWord
<1> QED BY <1>1, <1>5, <1>11, <1>12, <1>13

(* The converter's order moves an element within its word.                 *)
LEMMA WordsReordered ==
  ASSUME NEW R, NEW C, OneInt4(R, C), NEW x, NEW w \in Int, NEW s \in 0 .. 7, StandsAt(x, w * 8 + s)
  PROVE  Relayout[x] = w * 8 + WordPlace(s)
<1> USE DEF StandsAt
<1>1. EltsPerReg = 8 /\ BitsPerElt = 4
  BY Int4Sizes
<1>2. ((w * 8 + s) % 8) = s
  OBVIOUS
<1> DEFINE d == CHOOSE u \in 0 .. 7 : Int4Source(u) = s
           dest == [t \in 0 .. EltsPerReg - 1 |->
                      IF BitsPerElt = 8 THEN Int8Relayout(t) ELSE CHOOSE u \in 0 .. 7 : Int4Source(u) = t]
<1>3. d = WordPlace(s)
  <2>1. WordPlace(s) \in 0 .. 7 /\ Int4Source(WordPlace(s)) = s
    BY WordPlaces
  <2>2. d \in 0 .. 7 /\ Int4Source(d) = s
    BY <2>1
  <2> HIDE DEF d
  <2>3. WordPlace(Int4Source(d)) = d
    BY <2>2, WordPlaces
  <2> QED BY <2>2, <2>3
<1>4. dest[s] = d
  BY <1>1
<1>5. Relayout = [y \in DOMAIN where |-> where[y] - (where[y] % EltsPerReg) + dest[where[y] % EltsPerReg]]
  BY DEF Relayout
<1> HIDE DEF dest, d
<1>6. Relayout[x] = where[x] - (where[x] % EltsPerReg) + dest[where[x] % EltsPerReg]
  BY <1>5
<1>7. WordPlace(s) \in Int
  BY WordPlaces
<1>8. (where[x] % EltsPerReg) = s
  BY <1>1, <1>2
<1>9. Relayout[x] = w * 8 + s - s + WordPlace(s)
  BY <1>3, <1>4, <1>6, <1>8
<1> QED BY <1>7, <1>9

(* The home of the word at LineWord(V, c, v), as the inverse looks it up.  *)
IsHome(V, c, v) ==
  LET w == LineWord(V, c, v)
  IN  (CHOOSE y \in (4 * (w \div (4 * V)) .. 4 * (w \div (4 * V)) + 3) \X (0 .. V - 1) : LineBase(V, y[1], y[2]) = w) = <<c, v>>

(* It is found, and in the buffer.                                         *)
LEMMA HomeFound ==
  ASSUME NEW a \in Nat \ {0}, NEW b \in Nat, NEW V, IsWords(V, a), NEW c \in 0 .. 4 * b - 1, NEW v \in 0 .. V - 1
  PROVE  LineWord(V, c, v) \in 0 .. V * (4 * b) - 1 /\ IsHome(V, c, v)
<1>1. PICK g \in Nat : IsGroupOf(g, c)
  <2>1. (c \div 4) \in Nat
    OBVIOUS
  <2> QED BY <2>1 DEF IsGroupOf
<1>2. V = 32 * a /\ V \in Nat
  BY DEF IsWords
<1>3. c \in Nat /\ v \in Nat /\ v \in 0 .. 32 * a - 1
  BY <1>2
<1> DEFINE w == LineWord(V, c, v)
           S == (4 * g .. 4 * g + 3) \X (0 .. V - 1)
<1>4. w = LineBase(V, c, v)
  BY <1>2, <1>3, LineSplits
<1>5. LineBase(V, c, v) \in 0 .. V * (4 * b) - 1
  BY <1>2, <1>3, LineInBuffer
<1>0. Returns(V, g, c, v)
  BY <1>1, <1>3, LineReturns
<1>6. (LineBase(V, c, v) \div (4 * V)) = g
  BY <1>0 DEF Returns
<1>7. <<c, v>> \in S
  BY <1>0 DEF Returns
<1>8. \A y \in S : LineBase(V, y[1], y[2]) = LineBase(V, c, v) => y = <<c, v>>
  BY <1>0 DEF Returns
<1> HIDE DEF S, w
<1>9. (CHOOSE y \in S : LineBase(V, y[1], y[2]) = w) = <<c, v>>
  BY <1>4, <1>7, <1>8
<1>10. (w \div (4 * V)) = g
  BY <1>4, <1>6
<1>11. (CHOOSE y \in (4 * (w \div (4 * V)) .. 4 * (w \div (4 * V)) + 3) \X (0 .. V - 1) : LineBase(V, y[1], y[2]) = w) = <<c, v>>
  BY <1>9, <1>10 DEF S
<1> QED BY <1>4, <1>5, <1>11 DEF w, IsHome

(* Reading back a place gives the cell it came from.                       *)
LEMMA PlacesRestored ==
  ASSUME NEW a \in Nat \ {0}, NEW b \in Nat \ {0}, NEW R \in Nat \ {0}, IsRows(R, a), NEW C \in Nat \ {0}, IsCols(C, b), OneInt4(R, C),
         NEW x, NEW v \in Nat, IsWordOf(v, a), NEW s \in 0 .. 7, NEW c \in 0 .. C - 1,
         InLine(x, a, c, v, s)
  PROVE  ReadsBack(x, C, c, v, s)
<1> USE DEF InLine, IsWordOf, StandsAt, IsRows, IsCols
<1> DEFINE V == Rows \div 8
           From(m, l) == (m \div 4) * V * 4 + 4 * ((l \div 8) * 8) + 8 * (m % 4) + (l % 8)
           to == [w \in 0 .. NumElts \div 8 - 1 |->
                    LET group == w \div (4 * V)
                        y == CHOOSE y \in (4 * group .. 4 * group + 3) \X (0 .. V - 1) : From(y[1], y[2]) = w
                    IN  y[1] * V + y[2]]
           Column(p) == to[p \div 8] * 8 + (p % 8)
           Transpose(p) == (p % Rows) * Cols + p \div Rows
           Read(w) == 8 * ((w % 8) \div 2) + (w % 2) + 2 * (w \div 8)
           Row(p) == ((p \div Cols) - ((p \div Cols) % 32) + Read((p \div Cols) % 32)) * Cols + (p % Cols)
           w == LineWord(V, c, v)
<1>1. Rows = R /\ Cols = C /\ Experts = 1 /\ V = 32 * a /\ IsWords(V, a)
  <2>1. Rows = R /\ Cols = C /\ Experts = 1
    BY DEF OneInt4
  <2>2. (R \div 8) = 32 * a
    OBVIOUS
  <2> QED BY <2>1, <2>2 DEF IsWords
<1>3. RestoredPlaces = [y \in DOMAIN where |-> Row(Transpose(Column(RestoreWord(where[y]))))]
  BY DEF RestoredPlaces
<1> HIDE DEF V
<1>2. /\ R = 8 * V /\ R \in Nat \ {0} /\ C \in Nat \ {0} /\ c \in Nat /\ v \in 0 .. V - 1 /\ v \in Nat
      /\ V \in Nat \ {0} /\ 16 * b \in Nat /\ C = 4 * (16 * b) /\ c \in 0 .. 4 * (16 * b) - 1
  BY <1>1
<1>4. RestoredPlaces[x] = Row(Transpose(Column(RestoreWord(where[x]))))
  BY <1>3
<1>5. w \in Int
  BY <1>2 DEF LineWord
<1>6. RestoreWord(where[x]) = w * 8 + s
  <2>1. PICK d \in 0 .. 7 : d = WordPlace(s) /\ Int4Source(d) = s
    BY WordPlaces
  <2> HIDE DEF w
  <2>2. where[x] = w * 8 + d
    BY <1>1, <2>1 DEF w
  <2>3. ((w * 8 + d) % 8) = d
    BY <1>5
  <2> QED BY <1>5, <2>1, <2>2, <2>3 DEF RestoreWord
<1>7. to[w] = c * V + v
  <2>0. w \in 0 .. V * (4 * (16 * b)) - 1 /\ IsHome(V, c, v)
    <3> HIDE DEF IsRows, IsCols, StandsAt, InLine
    <3>1. PICK e \in Nat : e = 16 * b
      BY <1>2
    <3>2. c \in 0 .. 4 * e - 1
      BY <1>2, <3>1
    <3>3. LineWord(V, c, v) \in 0 .. V * (4 * e) - 1 /\ IsHome(V, c, v)
      BY <1>1, <1>2, <3>2, HomeFound
    <3> QED BY <3>1, <3>3
  <2>1. w \in 0 .. NumElts \div 8 - 1
    <3>1. w \in 0 .. V * (4 * (16 * b)) - 1
      BY <2>0
    <3>2. NumElts = 8 * (V * C)
      BY <1>1, <1>2 DEF NumElts
    <3>3. V * C \in Nat
      BY <1>2
    <3>4. (NumElts \div 8) = V * C
      BY <3>2, <3>3
    <3>5. C = 4 * (16 * b)
      BY <1>2
    <3> HIDE DEF w
    <3> QED BY <3>1, <3>4, <3>5
  <2>2. (CHOOSE y \in (4 * (w \div (4 * V)) .. 4 * (w \div (4 * V)) + 3) \X (0 .. V - 1) :
           LineBase(V, y[1], y[2]) = w) = <<c, v>>
    BY <2>0 DEF IsHome
  <2>3. (CHOOSE y \in (4 * (w \div (4 * V)) .. 4 * (w \div (4 * V)) + 3) \X (0 .. V - 1) :
           From(y[1], y[2]) = w) = <<c, v>>
    BY <2>2 DEF LineBase
  <2> HIDE DEF w, From
  <2>4. to[w] = <<c, v>>[1] * V + <<c, v>>[2]
    BY <2>1, <2>3
  <2> QED BY <2>4
<1>8. Column(w * 8 + s) = c * R + (8 * v + s)
  <2> HIDE DEF w, to
  <2>1. ((w * 8 + s) \div 8) = w /\ ((w * 8 + s) % 8) = s
    BY <1>5
  <2>2. Column(w * 8 + s) = (c * V + v) * 8 + s
    BY <1>7, <2>1
  <2>3. (c * V + v) * 8 + s = c * (8 * V) + (8 * v + s)
    BY <1>2
  <2> QED BY <1>2, <2>2, <2>3
<1> DEFINE r == 8 * v + s
<1>9. r \in 0 .. R - 1 /\ r \in Nat
  BY <1>2
<1> HIDE DEF r, to, w
<1>10. Transpose(c * R + r) = r * C + c
  <2>1. ((c * R + r) \div R) = c /\ ((c * R + r) % R) = r
    <3> HIDE DEF IsRows, IsCols, StandsAt, InLine, IsWordOf
    <3>1. R \in Nat \ {0} /\ c \in Nat
      BY <1>2
    <3> QED BY <3>1, <1>9, CellParts
  <2> QED BY <1>1, <2>1
<1>11. Row(r * C + c) = UnmovedRow(r) * C + c
  <2> HIDE DEF IsRows, IsCols, StandsAt
  <2>0. C \in Nat \ {0} /\ r \in Nat /\ c \in 0 .. C - 1
    BY <1>2, <1>9
  <2>1. ((r * C + c) \div C) = r /\ ((r * C + c) % C) = c
    BY <2>0, CellParts
  <2> QED BY <1>1, <2>1 DEF UnmovedRow, TileRow
<1> HIDE DEF Column, Transpose, Row
<1>12. RestoredPlaces[x] = UnmovedRow(r) * C + c
  BY <1>4, <1>6, <1>8, <1>10, <1>11 DEF r
<1> QED BY <1>12 DEF r, ReadsBack

-----------------------------------------------------------------------------
(* The device's converter reads a word in the order it is stored in.       *)
LEMMA WordsUndone ==
  ASSUME KnownType(rq.type)
  PROVE  ConverterUndoesWord
<1>1. BitsPerElt \in {4, 8}
  BY DEF KnownType, BitsPerElt, TypeBits
<1>2. ASSUME BitsPerElt = 8 PROVE ConverterUndoesWord
  <2>1. \A s \in 0 .. 3 : Int8Relayout(s) = Byte4Source(TRUE)[s + 1]
    <3>1. Byte4Source(TRUE) = <<0, 2, 1, 3>>
      BY DEF Byte4Source, Selectors
    <3>2. \A s \in 0 .. 3 : Int8Relayout(s) = <<0, 2, 1, 3>>[s + 1]
      BY DEF Int8Relayout
    <3> QED BY <3>1, <3>2
  <2>2. \A x \in -128 .. 127 : Byte4Value(128, x + 128) = x
    BY DEF Byte4Value
  <2> QED BY <1>2, <2>1, <2>2 DEF ConverterUndoesWord
<1>3. ASSUME BitsPerElt # 8 PROVE ConverterUndoesWord
  <2>1. Pairs(4) = 0 .. 3
    BY DEF Pairs, CodesPerVreg
  <2>2. ASSUME NEW t \in 0 .. 3, NEW half \in Halves
        PROVE  Int4Source(LoCode(4, t, half)) = 2 * t + half
    <3>1. LoCode(4, t, half) = t + 4 * half /\ half \in {0, 1}
      BY DEF LoCode, Halves
    <3> QED BY <3>1 DEF Int4Source
  <2>3. ASSUME NEW t \in 0 .. 3, NEW x \in -8 .. 7
        PROVE  Converted(4, CvtBias(4, 0, FALSE), t, x + 8) = x
    <3>1. CvtBias(4, 0, FALSE) = 8
      BY DEF CvtBias
    <3>2. PICK m \in {1, 16} : m = 2 ^ BPos(4, t)
      <4>1. BPos(4, t) \in {0, 4}
        BY DEF BPos, PerLevel
      <4>2. 2 ^ 0 = 1 /\ 2 ^ 4 = 16
        BY SMT
      <4> QED BY <4>1, <4>2
    <3>3. Converted(4, 8, t, x + 8) = (MantissaField((x + 8) * m) - MantissaField(8 * m)) \div m
      BY <3>2 DEF Converted
    <3>4. MantissaField((x + 8) * m) = 1024 + (x + 8) * m /\ MantissaField(8 * m) = 1024 + 8 * m
      BY DEF MantissaField
    <3>5. MantissaField((x + 8) * m) - MantissaField(8 * m) = x * m
      BY <3>4
    <3>6. ((x * m) \div m) = x
      OBVIOUS
    <3>7. Converted(4, 8, t, x + 8) = ((x * m) \div m)
      BY <3>3, <3>5
    <3> QED BY <3>1, <3>6, <3>7
  <2> QED BY <1>3, <2>1, <2>2, <2>3 DEF ConverterUndoesWord
<1> QED BY <1>2, <1>3

-----------------------------------------------------------------------------
(* Where an element, named by the place it had, stands after each step.    *)
RowNow(x) == MovedRow(x \div Cols)
AfterRows(x) == RowNow(x) * Cols + (x % Cols)
AfterTranspose(x) == (x % Cols) * Rows + RowNow(x)
AfterLines(x) == LineWord(Rows \div 8, x % Cols, RowNow(x) \div 8) * 8 + (RowNow(x) % 8)
AfterWords(x) == LineWord(Rows \div 8, x % Cols, RowNow(x) \div 8) * 8 + WordPlace(RowNow(x) % 8)

(* The request of a weight that can be read back, once it is prepared.     *)
Sized == rq.shape \in (Nat \ {0}) \X (Nat \ {0}) \X (Nat \ {0})
Int4Request == rq.type = "QUInt4x2" /\ rq.mma = FALSE /\ rq.aiu = FALSE

(* The elements followed are cells of the one matrix.                      *)
LEMMA Followed ==
  ASSUME Sized, Experts = 1, NEW x \in DOMAIN RowMajor
  PROVE  /\ Rows \in Nat \ {0} /\ Cols \in Nat \ {0}
         /\ (x \div Cols) \in 0 .. Rows - 1 /\ (x % Cols) \in 0 .. Cols - 1 /\ x = (x \div Cols) * Cols + (x % Cols)
<1>1. Rows \in Nat \ {0} /\ Cols \in Nat \ {0}
  BY DEF Sized, Rows, Cols
<1>2. Experts * Rows = Rows
  BY <1>1
<1>3. DOMAIN RowMajor = {r * Cols + c : r \in 0 .. Experts * Rows - 1, c \in {c \in Watched : c < Cols}}
  BY DEF RowMajor
<1>4. PICK r \in 0 .. Rows - 1, c \in {c \in Watched : c < Cols} : x = r * Cols + c
  BY <1>2, <1>3
<1>5. c \in 0 .. Cols - 1 /\ r \in Nat
  BY <1>1, <1>4, PlacementAssumption
<1>6. (x \div Cols) = r /\ (x % Cols) = c
  BY <1>1, <1>4, <1>5, CellParts
<1> QED BY <1>1, <1>4, <1>5, <1>6

(* A request for such a weight.                                            *)
Readable == Sized /\ Restorable /\ Int4Request

(* It is of one matrix, whose rows fill their tiles.                       *)
LEMMA Grid ==
  ASSUME Readable
  PROVE  /\ OneInt4(Rows, Cols) /\ Experts = 1 /\ Rows \in Nat \ {0} /\ Cols \in Nat \ {0}
         /\ \E a \in Nat \ {0} : IsRows(Rows, a)
<1>1. Rows \in Nat \ {0} /\ Cols \in Nat \ {0}
  BY DEF Readable, Sized, Rows, Cols
<1>2. OneInt4(Rows, Cols) /\ Experts = 1 /\ Rows % 256 = 0
  BY DEF Readable, Restorable, Int4Request, OneInt4
<1>3. (Rows \div 256) \in Nat \ {0} /\ Rows = 256 * (Rows \div 256)
  BY <1>1, <1>2
<1> QED BY <1>1, <1>2, <1>3 DEF IsRows

(* An element's row after the permutation, as word and element of a word.  *)
LEMMA RowNowParts ==
  ASSUME Readable, NEW x \in DOMAIN RowMajor, NEW a \in Nat \ {0}, IsRows(Rows, a)
  PROVE  /\ RowNow(x) \in 0 .. Rows - 1 /\ UnmovedRow(RowNow(x)) = x \div Cols
         /\ (RowNow(x) \div 8) \in 0 .. 32 * a - 1 /\ (RowNow(x) % 8) \in 0 .. 7
         /\ RowNow(x) = 8 * (RowNow(x) \div 8) + (RowNow(x) % 8)
         /\ (Rows \div 8) = 32 * a
<1>1. PICK r \in 0 .. 256 * a - 1 : r = x \div Cols
  BY Grid, Followed DEF Readable, IsRows
<1>2. PICK q \in 0 .. 256 * a - 1 : q = RowNow(x) /\ UnmovedRow(q) = r
  BY <1>1, RowsMoveBack DEF RowNow
<1>3. (q \div 8) \in 0 .. 32 * a - 1 /\ (q % 8) \in 0 .. 7 /\ q = 8 * (q \div 8) + (q % 8)
  OBVIOUS
<1>4. ((256 * a) \div 8) = 32 * a
  OBVIOUS
<1> QED BY <1>1, <1>2, <1>3, <1>4 DEF IsRows

(* The permutation puts an element of a readable weight in its new row.    *)
LEMMA ChainRows ==
  ASSUME Readable, NEW x \in DOMAIN RowMajor, StandsAt(x, x)
  PROVE  Permuted[x] = AfterRows(x)
<1>1. PICK a \in Nat \ {0} : IsRows(Rows, a)
  BY Grid
<1>2. /\ (x \div Cols) \in 0 .. Rows - 1 /\ (x % Cols) \in 0 .. Cols - 1 /\ x = (x \div Cols) * Cols + (x % Cols)
      /\ Cols \in Nat \ {0}
  BY Grid, Followed DEF Readable
<1>3. StandsAt(x, (x \div Cols) * Cols + (x % Cols)) /\ OneInt4(Rows, Cols)
  BY <1>2, Grid
<1>4. PICK R \in Nat \ {0}, C \in Nat \ {0} : R = Rows /\ C = Cols
  BY Grid
<1>5. PICK r \in 0 .. R - 1, c \in 0 .. C - 1 : r = x \div Cols /\ c = x % Cols
  BY <1>2, <1>4
<1>6. StandsAt(x, r * C + c) /\ OneInt4(R, C) /\ IsRows(R, a)
  BY <1>1, <1>3, <1>4, <1>5
<1>7. Permuted[x] = MovedRow(r) * C + c
  BY <1>6, RowsMoved
<1> QED BY <1>4, <1>5, <1>7 DEF AfterRows, RowNow

(* The transpose puts it in its column.                                    *)
LEMMA ChainTranspose ==
  ASSUME Readable, NEW x \in DOMAIN RowMajor, StandsAt(x, AfterRows(x))
  PROVE  Transposed[x] = AfterTranspose(x)
<1>1. PICK a \in Nat \ {0} : IsRows(Rows, a)
  BY Grid
<1>2. (x % Cols) \in 0 .. Cols - 1 /\ Rows \in Nat \ {0} /\ Cols \in Nat \ {0} /\ OneInt4(Rows, Cols)
  BY Grid, Followed DEF Readable
<1>3. RowNow(x) \in 0 .. Rows - 1
  BY <1>1, RowNowParts
<1>4. StandsAt(x, RowNow(x) * Cols + (x % Cols))
  BY DEF AfterRows
<1>5. Transposed[x] = (x % Cols) * Rows + RowNow(x)
  BY <1>2, <1>3, <1>4, CellsTransposed
<1> QED BY <1>5 DEF AfterTranspose

(* The interleave moves it with its word.                                  *)
LEMMA ChainLines ==
  ASSUME Readable, NEW x \in DOMAIN RowMajor, StandsAt(x, AfterTranspose(x))
  PROVE  Lined[x] = AfterLines(x)
<1>1. PICK a \in Nat \ {0} : IsRows(Rows, a)
  BY Grid
<1>2. (x % Cols) \in 0 .. Cols - 1 /\ Cols \in Nat \ {0} /\ OneInt4(Rows, Cols)
  BY Grid, Followed DEF Readable
<1>3. PICK v \in 0 .. 32 * a - 1, s \in 0 .. 7 : v = RowNow(x) \div 8 /\ s = RowNow(x) % 8 /\ RowNow(x) = 8 * v + s
  BY <1>1, RowNowParts
<1>4. (Rows \div 8) = 32 * a
  BY <1>1, RowNowParts
<1>5. PICK R \in Nat \ {0}, C \in Nat \ {0} : R = Rows /\ C = Cols
  BY Grid
<1>6. PICK c \in 0 .. C - 1 : c = x % Cols
  BY <1>2, <1>5
<1>7. InColumn(x, R, c, v, s)
  BY <1>3, <1>5, <1>6 DEF AfterTranspose, InColumn
<1>8. OneInt4(R, C) /\ IsRows(R, a) /\ IsWordOf(v, a) /\ v \in Nat
  BY <1>1, <1>2, <1>3, <1>5 DEF IsWordOf
<1>9. IsLined(x, a, c, v, s)
  BY <1>7, <1>8, LinesMoved
<1> QED BY <1>3, <1>4, <1>6, <1>9 DEF AfterLines, IsLined

(* The order of a word moves it in its word.                               *)
LEMMA ChainWords ==
  ASSUME Readable, NEW x \in DOMAIN RowMajor, StandsAt(x, AfterLines(x))
  PROVE  Relayout[x] = AfterWords(x)
<1>1. PICK a \in Nat \ {0} : IsRows(Rows, a)
  BY Grid
<1>2. (x % Cols) \in 0 .. Cols - 1 /\ Cols \in Nat \ {0} /\ OneInt4(Rows, Cols)
  BY Grid, Followed DEF Readable
<1>3. PICK v \in 0 .. 32 * a - 1, s \in 0 .. 7 : v = RowNow(x) \div 8 /\ s = RowNow(x) % 8
  BY <1>1, RowNowParts
<1>4. PICK c \in 0 .. Cols - 1 : c = x % Cols
  BY <1>2
<1>5. PICK V \in Nat : V = Rows \div 8
  BY <1>1, RowNowParts
<1>6. PICK w \in Int : w = LineWord(V, c, v)
  <2>1. LineWord(V, c, v) \in Int
    BY <1>2 DEF LineWord
  <2> QED BY <2>1
<1>7. StandsAt(x, w * 8 + s)
  BY <1>3, <1>4, <1>5, <1>6 DEF AfterLines
<1>8. Relayout[x] = w * 8 + WordPlace(s)
  BY <1>2, <1>7, WordsReordered
<1> QED BY <1>3, <1>4, <1>5, <1>6, <1>8 DEF AfterWords

(* And the reader finds it where it was.                                   *)
LEMMA ChainBack ==
  ASSUME Readable, Cols % 64 = 0, NEW x \in DOMAIN RowMajor, StandsAt(x, AfterWords(x))
  PROVE  RestoredPlaces[x] = x
<1>1. PICK a \in Nat \ {0} : IsRows(Rows, a)
  BY Grid
<1>2. /\ (x % Cols) \in 0 .. Cols - 1 /\ Cols \in Nat \ {0} /\ OneInt4(Rows, Cols)
      /\ x = (x \div Cols) * Cols + (x % Cols)
  BY Grid, Followed DEF Readable
<1>3. PICK b \in Nat \ {0} : IsCols(Cols, b)
  <2>1. (Cols \div 64) \in Nat \ {0} /\ Cols = 64 * (Cols \div 64)
    BY <1>2
  <2> QED BY <2>1 DEF IsCols
<1>4. PICK v \in 0 .. 32 * a - 1, s \in 0 .. 7 : v = RowNow(x) \div 8 /\ s = RowNow(x) % 8 /\ RowNow(x) = 8 * v + s
  BY <1>1, RowNowParts
<1>5. (Rows \div 8) = 32 * a /\ UnmovedRow(RowNow(x)) = x \div Cols
  BY <1>1, RowNowParts
<1>6. PICK R \in Nat \ {0}, C \in Nat \ {0} : R = Rows /\ C = Cols
  BY Grid
<1>7. PICK c \in 0 .. C - 1 : c = x % Cols
  BY <1>2, <1>6
<1>8. InLine(x, a, c, v, s)
  BY <1>4, <1>5, <1>7 DEF AfterWords, InLine
<1>9. OneInt4(R, C) /\ IsRows(R, a) /\ IsCols(C, b) /\ IsWordOf(v, a) /\ v \in Nat
  BY <1>1, <1>2, <1>3, <1>6 DEF IsWordOf
<1>10. ReadsBack(x, C, c, v, s)
  BY <1>8, <1>9, PlacesRestored
<1> QED BY <1>2, <1>4, <1>5, <1>6, <1>7, <1>10 DEF ReadsBack

-----------------------------------------------------------------------------
(* Where the element at x stands when the chain is at a stage.             *)
PlaceAt(x, s) ==
  CASE s = "permute" -> x
    [] s = "transpose" -> AfterRows(x)
    [] s = "interleave" -> AfterTranspose(x)
    [] s \in {"aiu", "bias"} -> AfterLines(x)
    [] s \in {"done", "restored"} -> AfterWords(x)

(* A weight that can be read back is at each stage where the steps before  *)
(* it put it, in a matrix whose columns fill their tiles once they were    *)
(* interleaved.                                                            *)
Following == {"permute", "transpose", "interleave", "aiu", "bias", "done", "restored"}
StandsWell(w, s) ==
  Restorable =>
    /\ s \in Following \cup {"op"} => Int4Request
    /\ s \in Following => DOMAIN w = DOMAIN RowMajor /\ \A x \in DOMAIN RowMajor : w[x] = PlaceAt(x, s)
    /\ s \in {"aiu", "bias", "done", "restored"} => Cols % 64 = 0

Ops == {"layout", "flags", "symmetric", "permute", "transpose"}
Names == DOMAIN Registry \cup {"unregistered", "none"}
Tokens == {"mmarow16", "mmarow32", "mmarow32i", "tr", "cl2", "cl4", "aiu256", "cvtword", "bias"}
Requests ==
  [op : Ops, shape : Shapes, type : DOMAIN TypeBits \cup {"other"}, name : Names,
   mma : BOOLEAN, aiu : BOOLEAN, arch : Nat, useAiu : BOOLEAN]

(* What every step keeps. An element is moved only when its type is known, *)
(* and what is read back is where it was.                                  *)
PlaceInv ==
  /\ rq \in Requests
  /\ steps \in Seq(Tokens)
  /\ stage \in {"permute", "transpose", "interleave", "aiu", "bias"} \/ steps # << >> => KnownType(rq.type)
  /\ StandsWell(where, stage)
  /\ Restorable /\ stage \in {"done", "restored"} => \E i \in DOMAIN steps : steps[i] = "bias"
  /\ stage = "restored" => Restorable /\ restored = RowMajor

(* Every call is such a request.                                           *)
LEMMA CallsAreRequests == Calls \subseteq Requests
<1>1. {80} \subseteq Nat /\ Arches \subseteq Nat /\ AiuBuilds \subseteq BOOLEAN
  BY PlacementAssumption
<1>2. DOMAIN Registry \cup {"unregistered"} \subseteq Names /\ {"none"} \subseteq Names
  BY DEF Names
<1>3. {"layout"} \subseteq Ops /\ {"flags"} \subseteq Ops /\ {"symmetric", "permute"} \subseteq Ops /\ {"transpose"} \subseteq Ops
  BY DEF Ops
<1> QED BY <1>1, <1>2, <1>3 DEF Calls, Requests

(* Every shape requested is a matrix's.                                    *)
LEMMA RequestsAreSized ==
  ASSUME rq \in Requests
  PROVE  Sized
BY PlacementAssumption DEF Requests, Sized

(* The invariant holds when a call is made.                                *)
LEMMA PlaceStarts == PlaceInit => PlaceInv
<1> SUFFICES ASSUME PlaceInit PROVE PlaceInv
  OBVIOUS
<1>1. rq \in Requests /\ stage = "call" /\ steps = << >>
  BY CallsAreRequests DEF PlaceInit
<1> QED BY <1>1 DEF PlaceInv, StandsWell, Following

(* While the request stands, so does what is said in its terms.            *)
LEMMA WeightRequestStands ==
  ASSUME rq' = rq
  PROVE  /\ Restorable' = Restorable /\ KnownType(rq.type)' = KnownType(rq.type) /\ RowMajor' = RowMajor
         /\ StandsWell(where, stage)' <=> StandsWell(where', stage')
<1>1. Rows' = Rows /\ Cols' = Cols /\ Experts' = Experts
  BY DEF Rows, Cols, Experts
<1>2. Restorable' = Restorable /\ Int4Request' = Int4Request /\ KnownType(rq.type)' = KnownType(rq.type)
  BY <1>1 DEF Restorable, Int4Request, KnownType
<1>3. RowMajor' = RowMajor
  BY <1>1 DEF RowMajor
<1>4. ASSUME NEW x PROVE RowNow(x)' = RowNow(x)
  BY <1>1 DEF RowNow
<1>5. ASSUME NEW x
      PROVE  /\ AfterRows(x)' = AfterRows(x) /\ AfterTranspose(x)' = AfterTranspose(x)
             /\ AfterLines(x)' = AfterLines(x) /\ AfterWords(x)' = AfterWords(x)
  BY <1>1, <1>4 DEF AfterRows, AfterTranspose, AfterLines, AfterWords
<1>6. ASSUME NEW x PROVE PlaceAt(x, stage)' = PlaceAt(x, stage')
  BY <1>5 DEF PlaceAt
<1>7. StandsWell(where, stage)' <=> StandsWell(where', stage')
  BY <1>1, <1>2, <1>3, <1>6 DEF StandsWell
<1> QED BY <1>2, <1>3, <1>7

(* A step that leaves the request, and reads nothing back.                 *)
LEMMA Onward ==
  ASSUME PlaceInv, rq' = rq, stage' # "restored", steps' \in Seq(Tokens),
         KnownType(rq.type) \/ (steps' = steps /\ stage' \notin {"permute", "transpose", "interleave", "aiu", "bias"}),
         StandsWell(where', stage'),
         Restorable /\ stage' = "done" => \E i \in DOMAIN steps' : steps'[i] = "bias"
  PROVE  PlaceInv'
<1>1. rq' \in Requests'
  BY DEF PlaceInv, Requests
<1>2. stage' \in {"permute", "transpose", "interleave", "aiu", "bias"} \/ steps' # << >> => KnownType(rq.type)
  BY DEF PlaceInv
<1> QED BY <1>1, <1>2, WeightRequestStands DEF PlaceInv

(* So a refusal.                                                           *)
LEMMA RefusalKeeps ==
  ASSUME PlaceInv, Refuse
  PROVE  PlaceInv'
<1>1. rq' = rq /\ stage' = "refused" /\ steps' = steps
  BY DEF Refuse
<1>2. StandsWell(where', stage')
  BY <1>1 DEF StandsWell, Following
<1>3. steps' \in Seq(Tokens)
  BY <1>1 DEF PlaceInv
<1> QED BY <1>1, <1>2, <1>3, Onward

(* And the beginning of the chain, with the elements in row-major order.   *)
LEMMA BeginningKeeps ==
  ASSUME PlaceInv, NEW s \in {"permute", "transpose", "done"}, Begin(s),
         KnownType(rq.type) \/ s = "done",
         Restorable => s = "permute" /\ Int4Request
  PROVE  PlaceInv'
<1>1. rq' = rq /\ stage' = s /\ steps' = steps /\ where' = RowMajor
  BY DEF Begin
<1>2. ASSUME NEW x \in DOMAIN RowMajor PROVE RowMajor[x] = x
  BY DEF RowMajor
<1>3. StandsWell(where', stage')
  BY <1>1, <1>2 DEF StandsWell, Following, PlaceAt
<1>4. steps' \in Seq(Tokens)
  BY <1>1 DEF PlaceInv
<1> QED BY <1>1, <1>3, <1>4, Onward

(* A step of the chain, that takes tokens and moves the elements.          *)
LEMMA TakingKeeps ==
  ASSUME PlaceInv, KnownType(rq.type), NEW tokens \in Seq(Tokens), NEW w, NEW s, Take(tokens, w, s), s # "restored",
         StandsWell(w, s),
         Restorable /\ s = "done" => \E i \in DOMAIN tokens : tokens[i] = "bias"
  PROVE  PlaceInv'
<1>1. rq' = rq /\ stage' = s /\ steps' = steps \o tokens /\ where' = w
  BY DEF Take
<1>2. steps \in Seq(Tokens)
  BY DEF PlaceInv
<1>3. steps' \in Seq(Tokens)
  BY <1>1, <1>2
<1>4. ASSUME NEW i \in DOMAIN tokens, tokens[i] = "bias"
      PROVE  \E j \in DOMAIN steps' : steps'[j] = "bias"
  <2>1. Len(steps) \in Nat /\ Len(tokens) \in Nat /\ i \in 1 .. Len(tokens)
    BY <1>2
  <2>2. Len(steps) + i \in DOMAIN steps' /\ steps'[Len(steps) + i] = tokens[i]
    BY <1>1, <1>2, <2>1
  <2> QED BY <1>4, <2>2
<1>5. Restorable /\ stage' = "done" => \E j \in DOMAIN steps' : steps'[j] = "bias"
  BY <1>1, <1>4
<1> QED BY <1>1, <1>3, <1>5, Onward

(* What the invariant says of a weight at a stage.                         *)
LEMMA WeightStands ==
  ASSUME PlaceInv, Restorable, stage \in Following
  PROVE  /\ Readable /\ DOMAIN where = DOMAIN RowMajor
         /\ \A x \in DOMAIN RowMajor : StandsAt(x, PlaceAt(x, stage))
         /\ stage \in {"aiu", "bias", "done", "restored"} => Cols % 64 = 0
<1>1. Sized
  BY RequestsAreSized DEF PlaceInv
<1>2. StandsWell(where, stage)
  BY DEF PlaceInv
<1>3. /\ Int4Request /\ DOMAIN where = DOMAIN RowMajor
      /\ \A x \in DOMAIN RowMajor : where[x] = PlaceAt(x, stage)
      /\ stage \in {"aiu", "bias", "done", "restored"} => Cols % 64 = 0
  BY <1>2 DEF StandsWell
<1> QED BY <1>1, <1>3 DEF Readable, StandsAt

(* The named layout's op: only the flags of the request change.            *)
LEMMA LayoutKeeps == ASSUME PlaceInv, PreprocessToLayout PROVE PlaceInv'
<1> DEFINE plan == Registry[rq.name]
<1>1. stage = "call" /\ rq.op = "layout"
  BY DEF PreprocessToLayout
<1>2. CASE Refuse
  BY <1>2, RefusalKeeps
<1>3. CASE rq.name = "logical" /\ Begin("done")
  <2>1. ~Restorable
    BY <1>3 DEF Restorable
  <2> QED BY <1>3, <2>1, BeginningKeeps
<1>4. CASE /\ rq.name \in DOMAIN Registry /\ KnownType(rq.type) /\ TypeBits[rq.type] = plan.bits
           /\ rq' = [rq EXCEPT !.mma = plan.mma, !.aiu = plan.aiu]
           /\ stage' = "op" /\ UNCHANGED <<where, steps, restored>>
  <2>1. plan.mma \in BOOLEAN /\ plan.aiu \in BOOLEAN
    <3>1. rq.name \in {"logical", "mixed_gemm", "mixed_gemm_aiu", "w4a8", "mixed_gemm_int8", "mixed_gemm_int2"}
      BY <1>4 DEF Registry
    <3>2. CASE rq.name = "w4a8"
      <4>1. plan.mma = TRUE /\ plan.aiu = FALSE
        BY <3>2 DEF Registry, Layout
      <4> QED BY <4>1
    <3>3. CASE rq.name = "mixed_gemm_aiu"
      <4>1. plan.mma = FALSE /\ plan.aiu = TRUE
        BY <3>3 DEF Registry, Layout
      <4> QED BY <4>1
    <3>4. CASE rq.name \in {"logical", "mixed_gemm", "mixed_gemm_int8", "mixed_gemm_int2"}
      <4>1. plan.mma = FALSE /\ plan.aiu = FALSE
        BY <3>4 DEF Registry, Layout
      <4> QED BY <4>1
    <3> QED BY <3>1, <3>2, <3>3, <3>4
  <2>2. rq' \in Requests
    BY <1>4, <2>1 DEF PlaceInv, Requests
  <2>3. rq'.type = rq.type /\ rq'.name = rq.name /\ rq'.mma = plan.mma /\ rq'.aiu = plan.aiu
    BY <1>4 DEF PlaceInv, Requests
  <2>4. KnownType(rq.type)'
    BY <1>4, <2>3 DEF KnownType, TypeBits
  <2>5. Restorable' => Int4Request'
    <3> SUFFICES ASSUME Restorable' PROVE Int4Request'
      OBVIOUS
    <3>1. rq.name = "mixed_gemm"
      BY <2>3 DEF Restorable
    <3>2. plan.mma = FALSE /\ plan.aiu = FALSE /\ plan.bits = 4
      BY <3>1 DEF Registry, Layout
    <3>3. rq.type = "QUInt4x2"
      BY <1>4, <3>2 DEF KnownType, TypeBits
    <3> QED BY <2>3, <3>2, <3>3 DEF Int4Request
  <2>6. StandsWell(where, stage)'
    BY <1>4, <2>5 DEF StandsWell, Following
  <2>7. Requests' = Requests
    BY DEF Requests
  <2> QED BY <1>4, <2>2, <2>4, <2>6, <2>7 DEF PlaceInv
<1> HIDE DEF plan
<1> QED BY <1>2, <1>3, <1>4 DEF PreprocessToLayout, plan

(* The ops that begin the chain.                                           *)
LEMMA OpsKeep ==
  ASSUME PlaceInv, PreprocessOp \/ SymmetricQuantize \/ PermuteOp \/ TransposeOp
  PROVE  PlaceInv'
<1>1. CASE Refuse
  BY <1>1, RefusalKeeps
<1>2. CASE PreprocessOp /\ ~Refuse
  <2>1. KnownType(rq.type) /\ Begin("permute") /\ (stage = "op" \/ rq.op = "flags")
    BY <1>2 DEF PreprocessOp
  <2>2. Restorable => Int4Request
    BY <2>1 DEF Restorable, PlaceInv, StandsWell
  <2> QED BY <2>1, <2>2, BeginningKeeps
<1>3. CASE (SymmetricQuantize \/ PermuteOp \/ TransposeOp) /\ ~Refuse
  <2>1. KnownType(rq.type) /\ rq.op # "layout" /\ (Begin("permute") \/ Begin("transpose"))
    BY <1>3 DEF SymmetricQuantize, PermuteOp, TransposeOp
  <2>2. ~Restorable
    BY <2>1 DEF Restorable
  <2> QED BY <2>1, <2>2, BeginningKeeps
<1> QED BY <1>1, <1>2, <1>3

(* The permutation of rows.                                                *)
LEMMA PermuteKeeps == ASSUME PlaceInv, PermuteRows PROVE PlaceInv'
<1>1. CASE Refuse
  BY <1>1, RefusalKeeps
<1>2. CASE ~Refuse
  <2> DEFINE s == IF rq.op = "permute" THEN "done" ELSE "transpose"
  <2>1. stage = "permute" /\ Take(<<RowToken>>, Permuted, s)
    BY <1>2 DEF PermuteRows
  <2>2. KnownType(rq.type)
    BY <2>1 DEF PlaceInv
  <2>3. <<RowToken>> \in Seq(Tokens)
    BY DEF RowToken, Tokens
  <2>4. Restorable => s = "transpose"
    BY DEF Restorable
  <2>5. StandsWell(Permuted, s)
    <3> SUFFICES ASSUME Restorable PROVE StandsWell(Permuted, "transpose")
      BY <2>4 DEF StandsWell
    <3>1. Readable /\ DOMAIN where = DOMAIN RowMajor /\ \A x \in DOMAIN RowMajor : StandsAt(x, x)
      BY <2>1, WeightStands DEF Following, PlaceAt
    <3>2. DOMAIN Permuted = DOMAIN RowMajor
      BY <3>1 DEF Permuted
    <3>3. \A x \in DOMAIN RowMajor : Permuted[x] = AfterRows(x)
      BY <3>1, ChainRows
    <3> QED BY <3>1, <3>2, <3>3 DEF StandsWell, PlaceAt, Readable
  <2>6. Restorable => s # "done"
    BY <2>4
  <2>7. s # "restored"
    OBVIOUS
  <2> HIDE DEF s
  <2> QED BY <2>1, <2>2, <2>3, <2>5, <2>6, <2>7, TakingKeeps
<1> QED BY <1>1, <1>2

(* The transpose.                                                          *)
LEMMA TransposeKeeps == ASSUME PlaceInv, SubbyteTranspose PROVE PlaceInv'
<1>1. CASE Refuse
  BY <1>1, RefusalKeeps
<1>2. CASE ~Refuse
  <2> DEFINE s == IF rq.op = "transpose" THEN "done" ELSE "interleave"
  <2>1. stage = "transpose" /\ Take(<<"tr">>, Transposed, s)
    BY <1>2 DEF SubbyteTranspose
  <2>2. KnownType(rq.type)
    BY <2>1 DEF PlaceInv
  <2>3. <<"tr">> \in Seq(Tokens)
    BY DEF Tokens
  <2>4. Restorable => s = "interleave"
    BY DEF Restorable
  <2>5. StandsWell(Transposed, s)
    <3> SUFFICES ASSUME Restorable PROVE StandsWell(Transposed, "interleave")
      BY <2>4 DEF StandsWell
    <3>1. Readable /\ DOMAIN where = DOMAIN RowMajor /\ \A x \in DOMAIN RowMajor : StandsAt(x, AfterRows(x))
      BY <2>1, WeightStands DEF Following, PlaceAt
    <3>2. DOMAIN Transposed = DOMAIN RowMajor
      BY <3>1 DEF Transposed
    <3>3. \A x \in DOMAIN RowMajor : Transposed[x] = AfterTranspose(x)
      BY <3>1, ChainTranspose
    <3> QED BY <3>1, <3>2, <3>3 DEF StandsWell, PlaceAt, Readable
  <2>6. Restorable => s # "done"
    BY <2>4
  <2>7. s # "restored"
    OBVIOUS
  <2> HIDE DEF s
  <2> QED BY <2>1, <2>2, <2>3, <2>5, <2>6, <2>7, TakingKeeps
<1> QED BY <1>1, <1>2

(* The interleave of columns, which fill their tiles.                      *)
LEMMA InterleaveKeeps == ASSUME PlaceInv, InterleaveColumns PROVE PlaceInv'
<1>1. CASE Refuse
  BY <1>1, RefusalKeeps
<1>2. CASE ~Refuse
  <2> DEFINE s == IF WritesPastEnd THEN "overrun" ELSE "aiu"
             tokens == <<IF BitsPerElt = 8 THEN "cl2" ELSE "cl4">>
  <2>1. stage = "interleave" /\ Take(tokens, Lined, s) /\ Cols % 64 = 0
    BY <1>2 DEF InterleaveColumns, Lined, Tile
  <2>2. KnownType(rq.type)
    BY <2>1 DEF PlaceInv
  <2>3. tokens \in Seq(Tokens)
    BY DEF Tokens
  <2>4. s \in {"overrun", "aiu"}
    OBVIOUS
  <2> HIDE DEF s, tokens
  <2>5. StandsWell(Lined, s)
    <3> SUFFICES ASSUME Restorable PROVE StandsWell(Lined, "aiu")
      BY <2>4 DEF StandsWell, Following
    <3>1. Readable /\ DOMAIN where = DOMAIN RowMajor /\ \A x \in DOMAIN RowMajor : StandsAt(x, AfterTranspose(x))
      BY <2>1, WeightStands DEF Following, PlaceAt
    <3>2. DOMAIN Lined = DOMAIN RowMajor
      BY <3>1 DEF Lined, MoveWords
    <3>3. \A x \in DOMAIN RowMajor : Lined[x] = AfterLines(x)
      BY <3>1, ChainLines
    <3> QED BY <2>1, <3>1, <3>2, <3>3 DEF StandsWell, PlaceAt, Readable
  <2> QED BY <2>1, <2>2, <2>3, <2>4, <2>5, TakingKeeps
<1> QED BY <1>1, <1>2

(* A weight that can be read back is not arranged for the AIU.             *)
LEMMA AiuKeeps == ASSUME PlaceInv, AiuInterleave PROVE PlaceInv'
<1>1. stage = "aiu" /\ KnownType(rq.type)
  BY DEF AiuInterleave, PlaceInv
<1>2. Restorable => Int4Request
  BY <1>1, WeightStands DEF Following, Readable
<1>3. CASE Take(<<"aiu256">>, AiuInterleaved, "bias") /\ rq.aiu
  <2>1. ~Restorable
    BY <1>2, <1>3 DEF Int4Request
  <2>2. StandsWell(AiuInterleaved, "bias")
    BY <2>1 DEF StandsWell
  <2>3. <<"aiu256">> \in Seq(Tokens)
    BY DEF Tokens
  <2> QED BY <1>1, <1>3, <2>2, <2>3, TakingKeeps
<1>4. CASE Take(<< >>, where, "bias")
  <2>1. StandsWell(where, "bias")
    BY <1>1 DEF PlaceInv, StandsWell, Following, PlaceAt
  <2>2. << >> \in Seq(Tokens)
    OBVIOUS
  <2> QED BY <1>1, <1>4, <2>1, <2>2, TakingKeeps
<1> QED BY <1>3, <1>4 DEF AiuInterleave

(* The bias, and the order of a word.                                      *)
LEMMA BiasKeeps == ASSUME PlaceInv, AddBiasAndInterleave PROVE PlaceInv'
<1>1. stage = "bias" /\ KnownType(rq.type)
  BY DEF AddBiasAndInterleave, PlaceInv
<1>2. Restorable => Int4Request
  BY <1>1, WeightStands DEF Following, Readable
<1>3. CASE Refuse
  BY <1>3, RefusalKeeps
<1>4. CASE Take(<< >>, where, "done") /\ rq.mma
  <2>1. ~Restorable
    BY <1>2, <1>4 DEF Int4Request
  <2>2. StandsWell(where, "done")
    BY <2>1 DEF StandsWell
  <2>3. << >> \in Seq(Tokens)
    OBVIOUS
  <2> QED BY <1>1, <1>4, <2>1, <2>2, <2>3, TakingKeeps
<1>5. CASE Take(<<"cvtword", "bias">>, Relayout, "done")
  <2>1. StandsWell(Relayout, "done")
    <3> SUFFICES ASSUME Restorable PROVE StandsWell(Relayout, "done")
      BY DEF StandsWell
    <3>1. Readable /\ DOMAIN where = DOMAIN RowMajor /\ \A x \in DOMAIN RowMajor : StandsAt(x, AfterLines(x))
      BY <1>1, WeightStands DEF Following, PlaceAt
    <3>2. DOMAIN Relayout = DOMAIN RowMajor
      BY <3>1 DEF Relayout
    <3>3. \A x \in DOMAIN RowMajor : Relayout[x] = AfterWords(x)
      BY <3>1, ChainWords
    <3>4. Cols % 64 = 0
      BY <1>1, WeightStands DEF Following
    <3> QED BY <3>1, <3>2, <3>3, <3>4 DEF StandsWell, PlaceAt, Readable
  <2>2. <<"cvtword", "bias">> \in Seq(Tokens)
    BY DEF Tokens
  <2>3. 2 \in DOMAIN <<"cvtword", "bias">> /\ <<"cvtword", "bias">>[2] = "bias"
    OBVIOUS
  <2> QED BY <1>1, <1>5, <2>1, <2>2, <2>3, TakingKeeps
<1> QED BY <1>3, <1>4, <1>5 DEF AddBiasAndInterleave

(* What is read back has a place for each element.                         *)
LEMMA EachIsReadBack == RestoredPlaces = [x \in DOMAIN where |-> RestoredPlaces[x]]
<1> DEFINE V == Rows \div 8
           From(m, l) == (m \div 4) * V * 4 + 4 * ((l \div 8) * 8) + 8 * (m % 4) + (l % 8)
           to == [w \in 0 .. NumElts \div 8 - 1 |->
                    LET group == w \div (4 * V)
                        y == CHOOSE y \in (4 * group .. 4 * group + 3) \X (0 .. V - 1) : From(y[1], y[2]) = w
                    IN  y[1] * V + y[2]]
           Column(p) == to[p \div 8] * 8 + (p % 8)
           Transpose(p) == (p % Rows) * Cols + p \div Rows
           Read(w) == 8 * ((w % 8) \div 2) + (w % 2) + 2 * (w \div 8)
           Row(p) == ((p \div Cols) - ((p \div Cols) % 32) + Read((p \div Cols) % 32)) * Cols + (p % Cols)
<1>1. RestoredPlaces = [x \in DOMAIN where |-> Row(Transpose(Column(RestoreWord(where[x]))))]
  BY DEF RestoredPlaces
<1> HIDE DEF V, From, to, Column, Transpose, Read, Row
<1> QED BY <1>1

(* Reading back.                                                           *)
LEMMA RestoreKeeps == ASSUME PlaceInv, Restore PROVE PlaceInv'
<1>1. /\ stage = "done" /\ Restorable /\ restored' = RestoredPlaces /\ stage' = "restored"
      /\ rq' = rq /\ where' = where /\ steps' = steps
  BY DEF Restore
<1>2. /\ Readable /\ Cols % 64 = 0 /\ DOMAIN where = DOMAIN RowMajor
      /\ \A x \in DOMAIN RowMajor : StandsAt(x, AfterWords(x))
  BY <1>1, WeightStands DEF Following, PlaceAt
<1>3. \A x \in DOMAIN RowMajor : RestoredPlaces[x] = x
  BY <1>2, ChainBack
<1>4. RestoredPlaces = [x \in DOMAIN RowMajor |-> RestoredPlaces[x]]
  BY <1>2, EachIsReadBack
<1>5. RowMajor = [x \in DOMAIN RowMajor |-> x]
  BY DEF RowMajor
<1>6. restored' = RowMajor'
  <2>1. RestoredPlaces = RowMajor
    BY <1>3, <1>4, <1>5
  <2> QED BY <1>1, <2>1, WeightRequestStands
<1>7. StandsWell(where', stage')
  <2>1. \A x : PlaceAt(x, "restored") = PlaceAt(x, "done")
    BY DEF PlaceAt
  <2> QED BY <1>1, <2>1 DEF PlaceInv, StandsWell, Following
<1>8. rq' \in Requests' /\ steps' \in Seq(Tokens) /\ (steps' # << >> => KnownType(rq.type))
      /\ \E i \in DOMAIN steps' : steps'[i] = "bias"
  BY <1>1 DEF PlaceInv, Requests
<1> QED BY <1>1, <1>6, <1>7, <1>8, WeightRequestStands DEF PlaceInv

(* Every step keeps the invariant.                                         *)
LEMMA PlaceSteps == PlaceInv /\ [PlaceNext]_placeVars => PlaceInv'
<1> SUFFICES ASSUME PlaceInv, [PlaceNext]_placeVars PROVE PlaceInv'
  OBVIOUS
<1>1. CASE UNCHANGED placeVars
  <2>1. rq' = rq /\ stage' = stage /\ where' = where /\ steps' = steps /\ restored' = restored
    BY <1>1 DEF placeVars
  <2>2. Requests' = Requests
    BY DEF Requests
  <2> QED BY <2>1, <2>2, WeightRequestStands DEF PlaceInv
<1>2. CASE PlaceNext
  BY <1>1, <1>2, LayoutKeeps, OpsKeep, PermuteKeeps, TransposeKeeps, InterleaveKeeps, AiuKeeps, BiasKeeps, RestoreKeeps
     DEF PlaceNext, Placed
<1> QED BY <1>1, <1>2

(* It says that what is read back is what was there.                       *)
LEMMA PlacesAreInverse == PlaceInv => RestoreIsInverse
<1> SUFFICES ASSUME PlaceInv PROVE RestoreIsInverse
  OBVIOUS
<1>1. stage = "restored" => restored = RowMajor /\ \E i \in DOMAIN steps : steps[i] = "bias"
  BY DEF PlaceInv
<1>2. (\E i \in DOMAIN steps : steps[i] = "cvtword") => KnownType(rq.type)
  <2>1. (\E i \in DOMAIN steps : steps[i] = "cvtword") => steps # << >>
    OBVIOUS
  <2> QED BY <2>1 DEF PlaceInv
<1> QED BY <1>1, <1>2, WordsUndone DEF RestoreIsInverse

(* For every shape and set of columns: a weight read back is the weight    *)
(* that was arranged, and the converter undoes the order of a word.        *)
THEOREM WeightsReadBack == PlaceSpec => []RestoreIsInverse
<1>1. PlaceSpec => []PlaceInv
  BY PlaceStarts, PlaceSteps, PTL DEF PlaceSpec
<1> QED BY <1>1, PlacesAreInverse, PTL

(* And so beside the other producers and readers, as the run checks it.    *)
THEOREM WeightsReadBackBesideReaders == LayoutsSpec => []RestoreIsInverse
<1> DEFINE Quiet == stage = "none"
<1>1. LayoutsInit => PlaceInv \/ Quiet
  BY PlaceStarts DEF LayoutsInit, NoWeight
<1>2. (PlaceInv \/ Quiet) /\ [LayoutsNext]_<<vars, placeVars, kernelVars, xplaneVars>> => (PlaceInv \/ Quiet)'
  <2>1. [LayoutsNext]_<<vars, placeVars, kernelVars, xplaneVars>>
          => (stage # "none" /\ PlaceNext) \/ UNCHANGED placeVars
    BY DEF LayoutsNext
  <2>2. UNCHANGED placeVars => stage' = stage
    BY DEF placeVars
  <2> QED BY <2>1, <2>2, PlaceSteps
<1>3. PlaceInv \/ Quiet => RestoreIsInverse
  <2>1. Quiet => RestoreIsInverse
    BY DEF RestoreIsInverse
  <2> QED BY <2>1, PlacesAreInverse
<1> QED BY <1>1, <1>2, <1>3, PTL DEF LayoutsSpec

-----------------------------------------------------------------------------
(* The arrangement a name spells. What the comments say of a token is the  *)
(* step it stands for, undone: for matrices of any shape.                  *)

(* A token's step takes the element at place p of a matrix of R rows and C *)
(* columns to place q of it.                                               *)
Undoes(token, q, p, R, C, w) ==
  q \in 0 .. R * C - 1 /\ Documented(token, q, R, C, w) = p

(* R is a multiple of H.                                                   *)
Whole(R, H) == R % H = 0

(* The row at a place of the tile a row token permutes.                    *)
TileHolds(token, u, t) == RowMap[token][u + 1] = t

(* A row that moves within its tile.                                       *)
LEMMA RowUndone ==
  ASSUME NEW token \in DOMAIN RowMap, NEW H \in {16, 32}, Len(RowMap[token]) = H,
         NEW R \in Nat \ {0}, Whole(R, H), NEW C \in Nat \ {0}, NEW w,
         NEW r \in 0 .. R - 1, NEW c \in 0 .. C - 1, NEW u \in 0 .. H - 1, TileHolds(token, u, r % H)
  PROVE  Undoes(token, (r - (r % H) + u) * C + c, r * C + c, R, C, w)
<1>1. PICK h \in Nat, t \in 0 .. H - 1 : h = r \div H /\ t = r % H /\ r = H * h + t
  <2>1. H \in Nat \ {0} /\ r \in Nat
    OBVIOUS
  <2>2. (r % H) \in 0 .. H - 1 /\ (r \div H) \in Nat /\ r = H * (r \div H) + (r % H)
    BY <2>1, ModDecompose
  <2> QED BY <2>2
<1>2. PICK m \in Nat : R = H * m
  <2>1. (R \div H) \in Nat /\ R = H * (R \div H) + (R % H)
    BY ModDecompose
  <2>2. (R \div H) \in Nat /\ R = H * (R \div H)
    BY <2>1 DEF Whole
  <2> QED BY <2>2
<1>3. h <= m - 1
  BY <1>1, <1>2
<1>4. PICK row \in 0 .. R - 1 : row = H * h + u
  <2>1. H * h + u \in 0 .. R - 1
    BY <1>1, <1>2, <1>3
  <2> QED BY <2>1
<1>5. r - (r % H) + u = row
  BY <1>1, <1>4
<1>6. (row % H) = u /\ (row - u + t) = r
  BY <1>1, <1>4
<1>7. ((row * C + c) \div C) = row /\ ((row * C + c) % C) = c /\ row * C + c \in 0 .. R * C - 1
  <2>1. row \in Nat /\ R \in Nat
    OBVIOUS
  <2>2. ((row * C + c) \div C) = row /\ ((row * C + c) % C) = c
    BY <2>1, CellParts
  <2>3. row * C + c \in 0 .. R * C - 1
    BY <2>1, CellInMatrix
  <2> QED BY <2>2, <2>3
<1> DEFINE q == row * C + c
<1> HIDE DEF q
<1>8. Documented(token, q, R, C, w) = ((q \div C) - ((q \div C) % H) + RowMap[token][((q \div C) % H) + 1]) * C + (q % C)
  <2>1. DOMAIN RowMap = {"mmarow16", "mmarow32", "mmarow32i"}
    BY DEF RowMap
  <2>2. token # "tr" /\ token \notin {"cl2", "cl4"} /\ token # "aiu256" /\ token # "cvtword" /\ token # "bias"
    BY <2>1
  <2> QED BY <2>2 DEF Documented
<1>9. (q \div C) = row /\ (q % C) = c /\ q \in 0 .. R * C - 1
  BY <1>7 DEF q
<1>10. RowMap[token][u + 1] = t
  BY <1>1 DEF TileHolds
<1>11. Documented(token, q, R, C, w) = r * C + c
  BY <1>6, <1>8, <1>9, <1>10
<1> QED BY <1>5, <1>9, <1>11 DEF Undoes, q

(* A cell that the transpose moves.                                        *)
LEMMA CellUndone ==
  ASSUME NEW R \in Nat \ {0}, NEW C \in Nat \ {0}, NEW w, NEW r \in 0 .. R - 1, NEW c \in 0 .. C - 1
  PROVE  Undoes("tr", c * R + r, r * C + c, R, C, w)
<1>1. ((c * R + r) \div R) = c /\ ((c * R + r) % R) = r /\ c * R + r \in 0 .. C * R - 1
  BY CellParts, CellInMatrix
<1>2. C * R = R * C
  OBVIOUS
<1> DEFINE q == c * R + r
<1>3. "tr" \notin DOMAIN RowMap
  BY DEF RowMap
<1>4. Documented("tr", q, R, C, w) = (q % R) * C + q \div R
  BY <1>3 DEF Documented
<1> QED BY <1>1, <1>2, <1>4 DEF Undoes

(* Columns that are interleaved by wide, lines of 64 rows.                 *)
IsLines(R, a) == R = 64 * a
LineAt(wide, a, g, j, d, l) == g * (64 * (a * wide)) + (64 * wide * j + 64 * d + l)

(* An element in a line of its column.                                     *)
LEMMA LineUndone ==
  ASSUME NEW token \in {"cl2", "cl4"}, NEW wide \in {2, 4}, wide = (IF token = "cl2" THEN 2 ELSE 4),
         NEW a \in Nat \ {0}, NEW R, IsLines(R, a), NEW b \in Nat, NEW C, C = wide * b, NEW w,
         NEW g \in 0 .. b - 1, NEW d \in 0 .. wide - 1, NEW j \in 0 .. a - 1, NEW l \in 0 .. 63
  PROVE  Undoes(token, LineAt(wide, a, g, j, d, l), (wide * g + d) * R + (64 * j + l), R, C, w)
<1>1. PICK S \in Nat \ {0} : S = 64 * (a * wide)
  <2>1. 64 * (a * wide) \in Nat \ {0}
    OBVIOUS
  <2> QED BY <2>1
<1>2. PICK in \in 0 .. S - 1 : in = 64 * wide * j + 64 * d + l
  <2>1. CASE wide = 2
    <3>1. 64 * wide * j + 64 * d + l \in 0 .. S - 1
      BY <1>1, <2>1
    <3> QED BY <3>1
  <2>2. CASE wide = 4
    <3>1. 64 * wide * j + 64 * d + l \in 0 .. S - 1
      BY <1>1, <2>2
    <3> QED BY <3>1
  <2> QED BY <2>1, <2>2
<1>3. PICK q \in Nat : q = g * S + in
  <2>1. g * S \in Nat
    OBVIOUS
  <2>2. g * S + in \in Nat
    BY <2>1
  <2> QED BY <2>2
<1>4. (q \div S) = g /\ (q % S) = in /\ q \in 0 .. b * S - 1
  BY <1>3, CellParts, CellInMatrix
<1>5. b * S = R * C
  <2>1. CASE wide = 2
    BY <1>1, <2>1 DEF IsLines
  <2>2. CASE wide = 4
    BY <1>1, <2>2 DEF IsLines
  <2> QED BY <2>1, <2>2
<1>6. R * wide = S
  BY <1>1 DEF IsLines
<1>7. (in \div (64 * wide)) = j /\ (in % (64 * wide)) = 64 * d + l
  <2>1. CASE wide = 2
    BY <1>2, <2>1
  <2>2. CASE wide = 4
    BY <1>2, <2>2
  <2> QED BY <2>1, <2>2
<1>8. ((64 * d + l) \div 64) = d /\ ((64 * d + l) % 64) = l
  OBVIOUS
<1> DEFINE inside == q % (R * wide)
           line == inside % (64 * wide)
<1>9. Documented(token, q, R, C, w)
        = ((q \div (R * wide)) * wide + line \div 64) * R + (inside \div (64 * wide)) * 64 + (line % 64)
  <2>1. token \notin DOMAIN RowMap /\ token # "tr"
    BY DEF RowMap
  <2> QED BY <2>1 DEF Documented
<1>10. inside = in
  BY <1>4, <1>6
<1>11. line = 64 * d + l
  BY <1>7, <1>10
<1>12. (q \div (R * wide)) = g
  BY <1>4, <1>6
<1> HIDE DEF inside, line
<1>13. Documented(token, q, R, C, w) = (g * wide + d) * R + j * 64 + l
  BY <1>7, <1>8, <1>9, <1>10, <1>11, <1>12
<1>14. g * wide + d = wide * g + d /\ j * 64 = 64 * j
  OBVIOUS
<1>15. PICK z \in Int : z = (wide * g + d) * R
  <2>1. R \in Int
    BY DEF IsLines
  <2>2. (wide * g + d) * R \in Int
    BY <2>1
  <2> QED BY <2>2
<1>16. Documented(token, q, R, C, w) = z + (64 * j + l)
  BY <1>13, <1>14, <1>15
<1>17. LineAt(wide, a, g, j, d, l) = q
  BY <1>1, <1>2, <1>3 DEF LineAt
<1> QED BY <1>4, <1>5, <1>15, <1>16, <1>17 DEF Undoes

(* Element l of column c of tile j, of 256 rows, and where it came from.   *)
TileAt(C, j, c, l) == j * (256 * C) + (c * 256 + l)
ColumnAt(R, j, c, l) == c * R + (256 * j + l)

(* An element in a tile of 256 rows.                                       *)
LEMMA TileUndone ==
  ASSUME NEW a \in Nat \ {0}, NEW R, IsRows(R, a), NEW C \in Nat \ {0}, NEW w,
         NEW j \in 0 .. a - 1, NEW c \in 0 .. C - 1, NEW l \in 0 .. 255
  PROVE  Undoes("aiu256", TileAt(C, j, c, l), ColumnAt(R, j, c, l), R, C, w)
<1>1. PICK S \in Nat \ {0} : S = 256 * C
  <2>1. 256 * C \in Nat \ {0}
    OBVIOUS
  <2> QED BY <2>1
<1>2. PICK in \in 0 .. S - 1 : in = c * 256 + l
  <2>1. c * 256 + l \in 0 .. S - 1
    BY <1>1
  <2> QED BY <2>1
<1>3. PICK q \in Nat : q = j * S + in
  <2>1. j * S \in Nat
    OBVIOUS
  <2>2. j * S + in \in Nat
    BY <2>1
  <2> QED BY <2>2
<1>4. (q \div S) = j /\ (q % S) = in /\ q \in 0 .. a * S - 1
  BY <1>3, CellParts, CellInMatrix
<1>5. a * S = R * C
  BY <1>1 DEF IsRows
<1>6. (in \div 256) = c /\ (in % 256) = l
  BY <1>2
<1> DEFINE inside == q % (256 * C)
<1>7. Documented("aiu256", q, R, C, w) = (inside \div 256) * R + (q \div (256 * C)) * 256 + (inside % 256)
  <2>1. "aiu256" \notin DOMAIN RowMap
    BY DEF RowMap
  <2> QED BY <2>1 DEF Documented
<1>8. inside = in /\ (q \div (256 * C)) = j
  BY <1>1, <1>4
<1> HIDE DEF inside
<1>9. PICK z \in Int : z = c * R
  <2>1. R \in Int
    BY DEF IsRows
  <2>2. c * R \in Int
    BY <2>1
  <2> QED BY <2>2
<1>10. Documented("aiu256", q, R, C, w) = z + j * 256 + l
  BY <1>6, <1>7, <1>8, <1>9
<1>11. Documented("aiu256", q, R, C, w) = z + (256 * j + l)
  BY <1>10
<1>12. TileAt(C, j, c, l) = q /\ ColumnAt(R, j, c, l) = z + (256 * j + l)
  BY <1>1, <1>2, <1>3, <1>9 DEF TileAt, ColumnAt
<1> QED BY <1>4, <1>5, <1>11, <1>12 DEF Undoes

-----------------------------------------------------------------------------
(* What a row token's picture shows is what the step reads.                *)
PictureOf(token, H) == \A u \in 0 .. H - 1 : RowMap[token][u + 1] = TileReadRow(u)

(* Each row of the tile is at some place of it.                            *)
LEMMA RowsPictured ==
  ASSUME KnownType(rq.type), rq.mma => RowsPerMma = 32, rq.mma \in BOOLEAN
  PROVE  /\ RowToken \in DOMAIN RowMap /\ RowsPerMma \in {16, 32} /\ Len(RowMap[RowToken]) = RowsPerMma
         /\ PictureOf(RowToken, RowsPerMma)
         /\ \A t \in 0 .. RowsPerMma - 1 : \E u \in 0 .. RowsPerMma - 1 : TileReadRow(u) = t
<1>1. BitsPerElt \in {4, 8} /\ (BitsPerElt = 8 => RowsPerMma = 16 /\ EltsPerReg = 4)
      /\ (BitsPerElt = 4 => RowsPerMma = 32 /\ EltsPerReg = 8)
  BY DEF KnownType, BitsPerElt, TypeBits, RowsPerMma, EltsPerReg
<1>2. CASE BitsPerElt = 8
  <2>1. RowToken = "mmarow16" /\ RowsPerMma = 16 /\ EltsPerReg = 4 /\ ~rq.mma
    BY <1>1, <1>2 DEF RowToken
  <2>2. RowMap["mmarow16"] = <<0, 1, 8, 9, 2, 3, 10, 11, 4, 5, 12, 13, 6, 7, 14, 15>> /\ "mmarow16" \in DOMAIN RowMap
    BY DEF RowMap
  <2> DEFINE m == RowMap["mmarow16"]
  <2>3. Len(m) = 16
    BY <2>2
  <2>4. ASSUME NEW u \in 0 .. 15 PROVE m[u + 1] = 8 * ((u % 4) \div 2) + (u % 2) + 2 * (u \div 4)
    <3>1. /\ m[1] = 0 /\ m[2] = 1 /\ m[3] = 8 /\ m[4] = 9 /\ m[5] = 2 /\ m[6] = 3 /\ m[7] = 10 /\ m[8] = 11
          /\ m[9] = 4 /\ m[10] = 5 /\ m[11] = 12 /\ m[12] = 13 /\ m[13] = 6 /\ m[14] = 7 /\ m[15] = 14 /\ m[16] = 15
      BY <2>2
    <3> HIDE DEF m
    <3>2. u \in {0, 1, 2, 3, 4, 5, 6, 7, 8, 9, 10, 11, 12, 13, 14, 15}
      OBVIOUS
    <3> QED BY <3>1, <3>2
  <2> HIDE DEF m
  <2>5. ASSUME NEW u \in 0 .. 15 PROVE TileReadRow(u) = 8 * ((u % 4) \div 2) + (u % 2) + 2 * (u \div 4)
    BY <2>1 DEF TileReadRow
  <2>6. ASSUME NEW t \in 0 .. 15 PROVE \E u \in 0 .. 15 : 8 * ((u % 4) \div 2) + (u % 2) + 2 * (u \div 4) = t
    <3> DEFINE v == 4 * ((t % 8) \div 2) + 2 * (t \div 8) + (t % 2)
    <3>1. v \in 0 .. 15 /\ 8 * ((v % 4) \div 2) + (v % 2) + 2 * (v \div 4) = t
      OBVIOUS
    <3> QED BY <3>1
  <2>7. PictureOf("mmarow16", 16)
    BY <2>4, <2>5 DEF PictureOf, m
  <2>8. \A t \in 0 .. 15 : \E u \in 0 .. 15 : TileReadRow(u) = t
    BY <2>5, <2>6
  <2>9. RowsPerMma - 1 = 15
    BY <2>1
  <2> QED BY <2>1, <2>2, <2>3, <2>7, <2>8, <2>9 DEF m
<1>3. CASE BitsPerElt = 4 /\ ~rq.mma
  <2>1. RowToken = "mmarow32" /\ RowsPerMma = 32 /\ EltsPerReg = 8
    BY <1>1, <1>3 DEF RowToken
  <2>2. /\ RowMap["mmarow32"] = <<0, 1, 8, 9, 16, 17, 24, 25, 2, 3, 10, 11, 18, 19, 26, 27,
                                  4, 5, 12, 13, 20, 21, 28, 29, 6, 7, 14, 15, 22, 23, 30, 31>>
        /\ "mmarow32" \in DOMAIN RowMap
    BY DEF RowMap
  <2> DEFINE m == RowMap["mmarow32"]
  <2>3. Len(m) = 32
    BY <2>2
  <2>4. ASSUME NEW u \in 0 .. 31 PROVE m[u + 1] = TileRow(u)
    <3>1. /\ m[1] = 0 /\ m[2] = 1 /\ m[3] = 8 /\ m[4] = 9 /\ m[5] = 16 /\ m[6] = 17 /\ m[7] = 24 /\ m[8] = 25
          /\ m[9] = 2 /\ m[10] = 3 /\ m[11] = 10 /\ m[12] = 11 /\ m[13] = 18 /\ m[14] = 19 /\ m[15] = 26 /\ m[16] = 27
      BY <2>2
    <3>2. /\ m[17] = 4 /\ m[18] = 5 /\ m[19] = 12 /\ m[20] = 13 /\ m[21] = 20 /\ m[22] = 21 /\ m[23] = 28 /\ m[24] = 29
          /\ m[25] = 6 /\ m[26] = 7 /\ m[27] = 14 /\ m[28] = 15 /\ m[29] = 22 /\ m[30] = 23 /\ m[31] = 30 /\ m[32] = 31
      BY <2>2
    <3> HIDE DEF m
    <3>3. CASE u < 16
      <4>1. u \in {0, 1, 2, 3, 4, 5, 6, 7, 8, 9, 10, 11, 12, 13, 14, 15}
        BY <3>3
      <4> QED BY <3>1, <4>1 DEF TileRow
    <3>4. CASE u >= 16
      <4>1. u \in {16, 17, 18, 19, 20, 21, 22, 23, 24, 25, 26, 27, 28, 29, 30, 31}
        BY <3>4
      <4> QED BY <3>2, <4>1 DEF TileRow
    <3> QED BY <3>3, <3>4
  <2> HIDE DEF m
  <2>5. ASSUME NEW u \in 0 .. 31 PROVE TileReadRow(u) = TileRow(u)
    BY <1>3, <2>1 DEF TileReadRow, TileRow
  <2>6. ASSUME NEW t \in 0 .. 31 PROVE \E u \in 0 .. 31 : TileRow(u) = t
    BY TilePlaces
  <2>7. PictureOf("mmarow32", 32)
    BY <2>4, <2>5 DEF PictureOf, m
  <2>8. \A t \in 0 .. 31 : \E u \in 0 .. 31 : TileReadRow(u) = t
    BY <2>5, <2>6
  <2>9. RowsPerMma - 1 = 31
    BY <2>1
  <2> QED BY <2>1, <2>2, <2>3, <2>7, <2>8, <2>9 DEF m
<1>4. CASE BitsPerElt = 4 /\ rq.mma
  <2>1. RowToken = "mmarow32i" /\ RowsPerMma = 32
    BY <1>1, <1>4 DEF RowToken
  <2>2. /\ RowMap["mmarow32i"] = <<0, 1, 2, 3, 16, 17, 18, 19, 4, 5, 6, 7, 20, 21, 22, 23,
                                   8, 9, 10, 11, 24, 25, 26, 27, 12, 13, 14, 15, 28, 29, 30, 31>>
        /\ "mmarow32i" \in DOMAIN RowMap
    BY DEF RowMap
  <2> DEFINE m == RowMap["mmarow32i"]
             read(u) == ((u % 8) \div 4) * 16 + (u \div 8) * 4 + (u % 4)
  <2>3. Len(m) = 32
    BY <2>2
  <2>4. ASSUME NEW u \in 0 .. 31 PROVE m[u + 1] = read(u)
    <3>1. /\ m[1] = 0 /\ m[2] = 1 /\ m[3] = 2 /\ m[4] = 3 /\ m[5] = 16 /\ m[6] = 17 /\ m[7] = 18 /\ m[8] = 19
          /\ m[9] = 4 /\ m[10] = 5 /\ m[11] = 6 /\ m[12] = 7 /\ m[13] = 20 /\ m[14] = 21 /\ m[15] = 22 /\ m[16] = 23
      BY <2>2
    <3>2. /\ m[17] = 8 /\ m[18] = 9 /\ m[19] = 10 /\ m[20] = 11 /\ m[21] = 24 /\ m[22] = 25 /\ m[23] = 26 /\ m[24] = 27
          /\ m[25] = 12 /\ m[26] = 13 /\ m[27] = 14 /\ m[28] = 15 /\ m[29] = 28 /\ m[30] = 29 /\ m[31] = 30 /\ m[32] = 31
      BY <2>2
    <3> HIDE DEF m
    <3>3. CASE u < 16
      <4>1. u \in {0, 1, 2, 3, 4, 5, 6, 7, 8, 9, 10, 11, 12, 13, 14, 15}
        BY <3>3
      <4> QED BY <3>1, <4>1
    <3>4. CASE u >= 16
      <4>1. u \in {16, 17, 18, 19, 20, 21, 22, 23, 24, 25, 26, 27, 28, 29, 30, 31}
        BY <3>4
      <4> QED BY <3>2, <4>1
    <3> QED BY <3>3, <3>4
  <2>6. ASSUME NEW t \in 0 .. 31 PROVE \E u \in 0 .. 31 : read(u) = t
    <3> DEFINE v == 8 * ((t % 16) \div 4) + 4 * (t \div 16) + (t % 4)
    <3>1. v \in 0 .. 31 /\ read(v) = t
      OBVIOUS
    <3> QED BY <3>1
  <2> HIDE DEF m
  <2>5. ASSUME NEW u \in 0 .. 31 PROVE TileReadRow(u) = read(u)
    BY <1>4 DEF TileReadRow
  <2>7. PictureOf("mmarow32i", 32)
    BY <2>4, <2>5 DEF PictureOf, m
  <2> HIDE DEF read
  <2>8. \A t \in 0 .. 31 : \E u \in 0 .. 31 : TileReadRow(u) = t
    BY <2>5, <2>6
  <2>9. RowsPerMma - 1 = 31
    BY <2>1
  <2> QED BY <2>1, <2>2, <2>3, <2>7, <2>8, <2>9 DEF m
<1> QED BY <1>1, <1>2, <1>3, <1>4

-----------------------------------------------------------------------------
(* The places of the matrices, one after the other.                        *)

(* A place of a matrix.                                                    *)
LEMMA PlaceInMatrix ==
  ASSUME Sized, NEW m \in 0 .. Experts - 1, NEW q \in 0 .. Rows * Cols - 1
  PROVE  /\ MatrixOf(m * Rows * Cols + q) = m /\ InMatrix(m * Rows * Cols + q) = q
         /\ m * Rows * Cols + q \in 0 .. NumElts - 1
<1>1. PICK X \in Nat \ {0}, R \in Nat \ {0}, C \in Nat \ {0} : X = Experts /\ R = Rows /\ C = Cols
  <2>1. Experts \in Nat \ {0} /\ Rows \in Nat \ {0} /\ Cols \in Nat \ {0}
    BY DEF Sized, Experts, Rows, Cols
  <2> QED BY <2>1
<1>2. PICK S \in Nat \ {0} : S = R * C
  <2>1. R * C \in Nat \ {0}
    BY SMT
  <2> QED BY <2>1
<1>3. m * R * C = m * S /\ X * R * C = X * S
  <2>1. m * R * C = m * (R * C) /\ X * R * C = X * (R * C)
    BY SMT
  <2> QED BY <1>2, <2>1
<1>4. m \in 0 .. X - 1 /\ m \in Nat /\ q \in 0 .. S - 1 /\ X \in Nat
  BY <1>1, <1>2
<1>5. ((m * S + q) \div S) = m /\ ((m * S + q) % S) = q
  BY <1>4, CellParts
<1>6. m * S + q \in 0 .. X * S - 1
  BY <1>4, CellInMatrix
<1>7. NumElts = X * S /\ m * Rows * Cols = m * S /\ Rows * Cols = S
  BY <1>1, <1>2, <1>3 DEF NumElts
<1> QED BY <1>5, <1>6, <1>7 DEF MatrixOf, InMatrix

(* Each place is of a matrix, and in its row and its column.               *)
LEMMA PlaceParts ==
  ASSUME Sized, NEW z \in 0 .. NumElts - 1
  PROVE  /\ MatrixOf(z) \in 0 .. Experts - 1 /\ InMatrix(z) \in 0 .. Rows * Cols - 1
         /\ z = MatrixOf(z) * Rows * Cols + InMatrix(z)
<1>1. PICK X \in Nat \ {0}, R \in Nat \ {0}, C \in Nat \ {0} : X = Experts /\ R = Rows /\ C = Cols
  <2>1. Experts \in Nat \ {0} /\ Rows \in Nat \ {0} /\ Cols \in Nat \ {0}
    BY DEF Sized, Experts, Rows, Cols
  <2> QED BY <2>1
<1>2. PICK S \in Nat \ {0} : S = R * C
  <2>1. R * C \in Nat \ {0}
    BY SMT
  <2> QED BY <2>1
<1>3. X * R * C = X * S
  <2>1. X * R * C = X * (R * C)
    BY SMT
  <2> QED BY <1>2, <2>1
<1>4. z \in 0 .. X * S - 1 /\ X \in Nat
  BY <1>1, <1>3 DEF NumElts
<1>5. (z \div S) \in 0 .. X - 1 /\ (z % S) \in 0 .. S - 1 /\ z = S * (z \div S) + (z % S)
  BY <1>4, Unpack
<1>6. PICK m \in 0 .. X - 1, q \in 0 .. S - 1 : m = z \div S /\ q = z % S /\ z = S * m + q
  BY <1>5
<1>7. MatrixOf(z) = m /\ InMatrix(z) = q
  BY <1>1, <1>2, <1>6 DEF MatrixOf, InMatrix
<1>8. m * R * C = S * m
  <2>1. m * R * C = (R * C) * m
    BY SMT
  <2> QED BY <1>2, <2>1
<1> QED BY <1>1, <1>2, <1>6, <1>7, <1>8

(* A row and a column of a place in its matrix.                            *)
LEMMA CellOf ==
  ASSUME NEW R \in Nat \ {0}, NEW C \in Nat \ {0}, NEW p \in 0 .. R * C - 1
  PROVE  (p \div C) \in 0 .. R - 1 /\ (p % C) \in 0 .. C - 1 /\ p = (p \div C) * C + (p % C)
<1>1. (p \div C) \in 0 .. R - 1 /\ (p % C) \in 0 .. C - 1 /\ p = C * (p \div C) + (p % C)
  BY Unpack
<1>2. PICK r \in 0 .. R - 1 : r = p \div C
  BY <1>1
<1>3. C * r = r * C
  OBVIOUS
<1> QED BY <1>1, <1>2, <1>3

(* Every element followed is in the buffer.                                *)
AllIn(w) == \A x \in DOMAIN w : w[x] \in 0 .. NumElts - 1

(* A step that moves each element within its matrix, to the place where    *)
(* the token says that it is.                                              *)
Takes(token, x, z) ==
  \E q \in 0 .. Rows * Cols - 1 :
    z = MatrixOf(where[x]) * Rows * Cols + q /\ Undoes(token, q, InMatrix(where[x]), Rows, Cols, EltsPerReg)
Moves(token, w) == DOMAIN w = DOMAIN where /\ \A x \in DOMAIN where : Takes(token, x, w[x])

(* The permutation of rows.                                                *)
LEMMA PermutedMoves ==
  ASSUME Sized, KnownType(rq.type), rq.mma \in BOOLEAN, rq.mma => RowsPerMma = 32, AllIn(where), Whole(Rows, RowsPerMma)
  PROVE  Moves(RowToken, Permuted)
<1> DEFINE H == RowsPerMma
           writeRow == [r \in 0 .. H - 1 |-> CHOOSE t \in 0 .. H - 1 : TileReadRow(t) = r]
           To(p) == ((p \div Cols) - ((p \div Cols) % H) + writeRow[(p \div Cols) % H]) * Cols + (p % Cols)
<1>1. Permuted = [x \in DOMAIN where |-> MatrixOf(where[x]) * Rows * Cols + To(InMatrix(where[x]))]
  BY DEF Permuted
<1>2. /\ RowToken \in DOMAIN RowMap /\ H \in {16, 32} /\ Len(RowMap[RowToken]) = H
      /\ PictureOf(RowToken, H)
      /\ \A t \in 0 .. H - 1 : \E u \in 0 .. H - 1 : TileReadRow(u) = t
  BY RowsPictured
<1>3. ASSUME NEW t \in 0 .. H - 1 PROVE writeRow[t] \in 0 .. H - 1 /\ TileReadRow(writeRow[t]) = t
  <2>1. \E u \in 0 .. H - 1 : TileReadRow(u) = t
    BY <1>2
  <2>2. writeRow[t] = CHOOSE u \in 0 .. H - 1 : TileReadRow(u) = t
    OBVIOUS
  <2> HIDE DEF H, writeRow
  <2> QED BY <2>1, <2>2
<1>4. Whole(Rows, H)
  OBVIOUS
<1> HIDE DEF H, writeRow
<1>5. ASSUME NEW x \in DOMAIN where
      PROVE  \E q \in 0 .. Rows * Cols - 1 :
               To(InMatrix(where[x])) = q /\ Undoes(RowToken, q, InMatrix(where[x]), Rows, Cols, EltsPerReg)
  <2>1. PICK R \in Nat \ {0}, C \in Nat \ {0} : R = Rows /\ C = Cols
    <3>1. Rows \in Nat \ {0} /\ Cols \in Nat \ {0}
      BY DEF Sized, Rows, Cols
    <3> QED BY <3>1
  <2>2. where[x] \in 0 .. NumElts - 1
    BY DEF AllIn
  <2>3. PICK p \in 0 .. R * C - 1 : p = InMatrix(where[x])
    BY <2>1, <2>2, PlaceParts
  <2>4. PICK r \in 0 .. R - 1, c \in 0 .. C - 1 : r = p \div C /\ c = p % C /\ p = r * C + c
    BY CellOf
  <2>5. (r % H) \in 0 .. H - 1
    BY <1>2
  <2>6. PICK u \in 0 .. H - 1 : u = writeRow[r % H] /\ TileReadRow(u) = r % H
    BY <1>3, <2>5
  <2>7. TileHolds(RowToken, u, r % H)
    BY <1>2, <2>6 DEF TileHolds, PictureOf
  <2>8. Whole(R, H)
    BY <1>4, <2>1
  <2>9. Undoes(RowToken, (r - (r % H) + u) * C + c, r * C + c, R, C, EltsPerReg)
    BY <1>2, <2>7, <2>8, RowUndone
  <2>10. To(p) = (r - (r % H) + u) * C + c
    BY <2>1, <2>4, <2>6
  <2> HIDE DEF To
  <2>11. To(p) \in 0 .. R * C - 1
    BY <2>9, <2>10 DEF Undoes
  <2> QED BY <2>1, <2>3, <2>4, <2>9, <2>10, <2>11
<1> HIDE DEF To
<1>6. ASSUME NEW x \in DOMAIN where PROVE Takes(RowToken, x, Permuted[x])
  <2>1. Permuted[x] = MatrixOf(where[x]) * Rows * Cols + To(InMatrix(where[x]))
    BY <1>1
  <2> QED BY <1>5, <2>1 DEF Takes
<1>7. DOMAIN Permuted = DOMAIN where
  BY <1>1
<1> QED BY <1>6, <1>7 DEF Moves

(* The transpose.                                                          *)
LEMMA TransposedMoves ==
  ASSUME Sized, AllIn(where)
  PROVE  Moves("tr", Transposed)
<1> DEFINE To(p) == (p % Cols) * Rows + p \div Cols
<1>1. Transposed = [x \in DOMAIN where |-> MatrixOf(where[x]) * Rows * Cols + To(InMatrix(where[x]))]
  BY DEF Transposed
<1>2. ASSUME NEW x \in DOMAIN where
      PROVE  \E q \in 0 .. Rows * Cols - 1 :
               To(InMatrix(where[x])) = q /\ Undoes("tr", q, InMatrix(where[x]), Rows, Cols, EltsPerReg)
  <2>1. PICK R \in Nat \ {0}, C \in Nat \ {0} : R = Rows /\ C = Cols
    <3>1. Rows \in Nat \ {0} /\ Cols \in Nat \ {0}
      BY DEF Sized, Rows, Cols
    <3> QED BY <3>1
  <2>2. where[x] \in 0 .. NumElts - 1
    BY DEF AllIn
  <2>3. PICK p \in 0 .. R * C - 1 : p = InMatrix(where[x])
    BY <2>1, <2>2, PlaceParts
  <2>4. PICK r \in 0 .. R - 1, c \in 0 .. C - 1 : r = p \div C /\ c = p % C /\ p = r * C + c
    BY CellOf
  <2>5. Undoes("tr", c * R + r, r * C + c, R, C, EltsPerReg)
    BY CellUndone
  <2>6. To(p) = c * R + r
    BY <2>1, <2>4
  <2> HIDE DEF To
  <2>7. To(p) \in 0 .. R * C - 1
    BY <2>5, <2>6 DEF Undoes
  <2> QED BY <2>1, <2>3, <2>4, <2>5, <2>6, <2>7
<1> HIDE DEF To
<1>3. ASSUME NEW x \in DOMAIN where PROVE Takes("tr", x, Transposed[x])
  <2>1. Transposed[x] = MatrixOf(where[x]) * Rows * Cols + To(InMatrix(where[x]))
    BY <1>1
  <2> QED BY <1>2, <2>1 DEF Takes
<1>4. DOMAIN Transposed = DOMAIN where
  BY <1>1
<1> QED BY <1>3, <1>4 DEF Moves

-----------------------------------------------------------------------------
(* A column of R elements is V words of E; element s of word v of column c *)
(* is found by its place.                                                  *)
OfWords(R, V, E) == R = E * V
SplitsInto(R, V, E, p, c, v, s) ==
  /\ p = c * R + (E * v + s)
  /\ (p \div E) = c * V + v /\ (p % E) = s
  /\ ((c * V + v) \div V) = c /\ ((c * V + v) % V) = v

(* Each place of a column is in a word of it.                              *)
LEMMA WordOfPlace ==
  ASSUME NEW E \in {4, 8}, NEW V \in Nat \ {0}, NEW R \in Nat \ {0}, OfWords(R, V, E), NEW C \in Nat \ {0},
         NEW p \in 0 .. R * C - 1
  PROVE  \E c \in 0 .. C - 1, v \in 0 .. V - 1, s \in 0 .. E - 1 : SplitsInto(R, V, E, p, c, v, s)
<1>1. p \in 0 .. C * R - 1
  <2>1. C * R = R * C
    OBVIOUS
  <2> QED BY <2>1
<1>2. PICK c \in 0 .. C - 1, r \in 0 .. R - 1 : p = c * R + r
  <2>1. (p \div R) \in 0 .. C - 1 /\ (p % R) \in 0 .. R - 1 /\ p = (p \div R) * R + (p % R)
    BY <1>1, CellOf
  <2> QED BY <2>1
<1>3. PICK v \in 0 .. V - 1, s \in 0 .. E - 1 : r = E * v + s
  <2>1. CASE E = 4
    <3>1. (r \div 4) \in 0 .. V - 1 /\ (r % 4) \in 0 .. 3 /\ r = 4 * (r \div 4) + (r % 4)
      BY <2>1 DEF OfWords
    <3> QED BY <2>1, <3>1
  <2>2. CASE E = 8
    <3>1. (r \div 8) \in 0 .. V - 1 /\ (r % 8) \in 0 .. 7 /\ r = 8 * (r \div 8) + (r % 8)
      BY <2>2 DEF OfWords
    <3> QED BY <2>2, <3>1
  <2> QED BY <2>1, <2>2
<1>4. PICK z \in Nat : z = c * V
  <2>1. c * V \in Nat
    OBVIOUS
  <2> QED BY <2>1
<1>5. (p \div E) = c * V + v /\ (p % E) = s
  <2>1. CASE E = 4
    <3>1. c * R = 4 * z
      BY <1>4, <2>1 DEF OfWords
    <3>2. p = 4 * (z + v) + s /\ v \in Nat
      BY <1>2, <1>3, <2>1, <3>1
    <3>3. ((4 * (z + v) + s) \div 4) = z + v /\ ((4 * (z + v) + s) % 4) = s
      BY <2>1, <3>2
    <3> QED BY <1>4, <2>1, <3>2, <3>3
  <2>2. CASE E = 8
    <3>1. c * R = 8 * z
      BY <1>4, <2>2 DEF OfWords
    <3>2. p = 8 * (z + v) + s /\ v \in Nat
      BY <1>2, <1>3, <2>2, <3>1
    <3>3. ((8 * (z + v) + s) \div 8) = z + v /\ ((8 * (z + v) + s) % 8) = s
      BY <2>2, <3>2
    <3> QED BY <1>4, <2>2, <3>2, <3>3
  <2> QED BY <2>1, <2>2
<1>6. ((c * V + v) \div V) = c /\ ((c * V + v) % V) = v
  <2>1. c \in Nat
    OBVIOUS
  <2> QED BY <2>1, CellParts
<1> QED BY <1>2, <1>3, <1>5, <1>6 DEF SplitsInto

(* The sizes of a word, a line and a tile, by the width of an element.     *)
LEMMA WordSizes ==
  ASSUME KnownType(rq.type)
  PROVE  /\ EltsPerReg \in {4, 8} /\ ColumnsInterleaved \in {2, 4} /\ BitsPerElt \in {4, 8}
         /\ EltsPerReg = 4 => ColumnsInterleaved = 2 /\ (Tile \div EltsPerReg) = 16 /\ BitsPerElt = 8 /\ RowsPerMma = 16
         /\ EltsPerReg = 8 => ColumnsInterleaved = 4 /\ (Tile \div EltsPerReg) = 8 /\ BitsPerElt = 4 /\ RowsPerMma = 32
BY DEF KnownType, TypeBits, BitsPerElt, EltsPerReg, ColumnsInterleaved, Tile, RowsPerMma

(* The cacheline interleave.                                               *)
LineToken == IF BitsPerElt = 8 THEN "cl2" ELSE "cl4"

OfElts(E) == EltsPerReg = E
LandsInLine(E, a, g, j, d, y, s) ==
  CachelineWord(ColumnsInterleaved * g + d, (Tile \div E) * j + y) * E + s
    = LineAt(ColumnsInterleaved, a, g, j, d, E * y + s)

(* Where it puts word v of column c.                                       *)
LEMMA LineOfWord ==
  ASSUME NEW E \in {4, 8}, OfElts(E), KnownType(rq.type), NEW a \in Nat \ {0}, IsLines(Rows, a),
         NEW g \in Nat, NEW d \in 0 .. ColumnsInterleaved - 1, NEW j \in Nat, NEW y \in 0 .. Tile \div E - 1,
         NEW s \in 0 .. E - 1
  PROVE  LandsInLine(E, a, g, j, d, y, s)
<1> USE DEF OfElts, IsLines, LandsInLine
<1>1. CASE E = 4
  <2>1. ColumnsInterleaved = 2 /\ (Tile \div EltsPerReg) = 16
    BY <1>1, WordSizes
  <2>2. (Rows \div EltsPerReg) = 16 * a
    BY <1>1
  <2>3. PICK c \in Nat : c = 2 * g + d
    BY <2>1
  <2>4. PICK v \in Nat : v = 16 * j + y
    BY <1>1, <2>1
  <2>5. (c \div 2) = g /\ (c % 2) = d /\ (v % 16) = y
    BY <1>1, <2>1, <2>3, <2>4
  <2>6. CachelineWord(c, v) = (c \div 2) * (16 * a) * 2 + 2 * (v - (v % 16)) + 16 * (c % 2) + (v % 16)
    BY <2>1, <2>2 DEF CachelineWord
  <2>7. PICK z \in Nat : z = g * a
    <3>1. g * a \in Nat
      OBVIOUS
    <3> QED BY <3>1
  <2>8. g * (16 * a) * 2 = 32 * z
    BY <2>7
  <2>9. CachelineWord(c, v) = 32 * z + 2 * (16 * j) + 16 * d + y
    BY <1>1, <2>1, <2>4, <2>5, <2>6, <2>8
  <2>10. g * (64 * (a * 2)) = 128 * z
    BY <2>7
  <2>11. LineAt(2, a, g, j, d, 4 * y + s) = 128 * z + (128 * j + 64 * d + (4 * y + s))
    BY <2>10 DEF LineAt
  <2>12. CachelineWord(c, v) * 4 + s = LineAt(2, a, g, j, d, 4 * y + s)
    BY <1>1, <2>1, <2>9, <2>11
  <2> QED BY <1>1, <2>1, <2>3, <2>4, <2>12
<1>2. CASE E = 8
  <2>1. ColumnsInterleaved = 4 /\ (Tile \div EltsPerReg) = 8
    BY <1>2, WordSizes
  <2>2. (Rows \div EltsPerReg) = 8 * a
    BY <1>2
  <2>3. PICK c \in Nat : c = 4 * g + d
    BY <2>1
  <2>4. PICK v \in Nat : v = 8 * j + y
    BY <1>2, <2>1
  <2>5. (c \div 4) = g /\ (c % 4) = d /\ (v % 8) = y
    BY <1>2, <2>1, <2>3, <2>4
  <2>6. CachelineWord(c, v) = (c \div 4) * (8 * a) * 4 + 4 * (v - (v % 8)) + 8 * (c % 4) + (v % 8)
    BY <2>1, <2>2 DEF CachelineWord
  <2>7. PICK z \in Nat : z = g * a
    <3>1. g * a \in Nat
      OBVIOUS
    <3> QED BY <3>1
  <2>8. g * (8 * a) * 4 = 32 * z
    BY <2>7
  <2>9. CachelineWord(c, v) = 32 * z + 4 * (8 * j) + 8 * d + y
    BY <1>2, <2>1, <2>4, <2>5, <2>6, <2>8
  <2>10. g * (64 * (a * 4)) = 256 * z
    BY <2>7
  <2>11. LineAt(4, a, g, j, d, 8 * y + s) = 256 * z + (256 * j + 64 * d + (8 * y + s))
    BY <2>10 DEF LineAt
  <2>12. CachelineWord(c, v) * 8 + s = LineAt(4, a, g, j, d, 8 * y + s)
    BY <1>2, <2>1, <2>9, <2>11
  <2> QED BY <1>2, <2>1, <2>3, <2>4, <2>12
<1> QED BY <1>1, <1>2

(* The interleave moves an element with its word.                          *)
LEMMA LineMoves ==
  ASSUME Sized, KnownType(rq.type), NEW x \in DOMAIN where,
         NEW V \in Nat \ {0}, OfWords(Rows, V, EltsPerReg),
         NEW c, NEW v, NEW s, SplitsInto(Rows, V, EltsPerReg, InMatrix(where[x]), c, v, s)
  PROVE  Lined[x] = MatrixOf(where[x]) * Rows * Cols + (CachelineWord(c, v) * EltsPerReg + s)
<1> DEFINE Moved(p) == CachelineWord((p \div EltsPerReg) \div (Rows \div EltsPerReg), (p \div EltsPerReg) % (Rows \div EltsPerReg))
                         * EltsPerReg + (p % EltsPerReg)
<1>1. Lined = [y \in DOMAIN where |-> MatrixOf(where[y]) * Rows * Cols + Moved(InMatrix(where[y]))]
  BY DEF Lined, MoveWords
<1>2. Lined[x] = MatrixOf(where[x]) * Rows * Cols + Moved(InMatrix(where[x]))
  BY <1>1
<1>3. (Rows \div EltsPerReg) = V
  <2>1. EltsPerReg \in {4, 8}
    BY WordSizes
  <2> QED BY <2>1 DEF OfWords
<1>4. Moved(InMatrix(where[x])) = CachelineWord(c, v) * EltsPerReg + s
  BY <1>3 DEF SplitsInto
<1> QED BY <1>2, <1>4

(* The word the AIU's interleave moves word v of column c to.              *)
AiuWord(c, v) ==
  (v \div (256 \div EltsPerReg)) * (256 \div EltsPerReg) * Cols + c * (256 \div EltsPerReg) + (v % (256 \div EltsPerReg))

(* And so does the AIU's.                                                  *)
LEMMA AiuMoves ==
  ASSUME Sized, KnownType(rq.type), NEW x \in DOMAIN where,
         NEW V \in Nat \ {0}, OfWords(Rows, V, EltsPerReg),
         NEW c, NEW v, NEW s, SplitsInto(Rows, V, EltsPerReg, InMatrix(where[x]), c, v, s)
  PROVE  AiuInterleaved[x] = MatrixOf(where[x]) * Rows * Cols + (AiuWord(c, v) * EltsPerReg + s)
<1> DEFINE Moved(p) == AiuWord((p \div EltsPerReg) \div (Rows \div EltsPerReg), (p \div EltsPerReg) % (Rows \div EltsPerReg))
                         * EltsPerReg + (p % EltsPerReg)
<1>1. AiuInterleaved = [y \in DOMAIN where |-> MatrixOf(where[y]) * Rows * Cols + Moved(InMatrix(where[y]))]
  BY DEF AiuInterleaved, MoveWords, AiuWord
<1>2. AiuInterleaved[x] = MatrixOf(where[x]) * Rows * Cols + Moved(InMatrix(where[x]))
  BY <1>1
<1>3. (Rows \div EltsPerReg) = V
  <2>1. EltsPerReg \in {4, 8}
    BY WordSizes
  <2> QED BY <2>1 DEF OfWords
<1>4. Moved(InMatrix(where[x])) = AiuWord(c, v) * EltsPerReg + s
  BY <1>3 DEF SplitsInto
<1> QED BY <1>2, <1>4

(* Where element s of word v of column c is put, and where it was.         *)
LinedPlace(c, v, s) == CachelineWord(c, v) * EltsPerReg + s
ColumnPlace(c, v, s) == c * Rows + (EltsPerReg * v + s)

(* The token says the same, of whole lines.                                *)
LEMMA LinedOfWord ==
  ASSUME Sized, KnownType(rq.type), NEW a \in Nat \ {0}, IsLines(Rows, a), NEW b \in Nat, IsLines(Cols, b),
         NEW V \in Nat, OfWords(Rows, V, EltsPerReg),
         NEW c \in 0 .. Cols - 1, NEW v \in 0 .. V - 1, NEW s \in 0 .. EltsPerReg - 1
  PROVE  Undoes(LineToken, LinedPlace(c, v, s), ColumnPlace(c, v, s), Rows, Cols, EltsPerReg)
<1>1. PICK E \in {4, 8}, W \in {2, 4}, Z \in {8, 16} : E = EltsPerReg /\ W = ColumnsInterleaved /\ Z = Tile \div E
  <2>1. EltsPerReg \in {4, 8} /\ ColumnsInterleaved \in {2, 4} /\ (Tile \div EltsPerReg) \in {8, 16}
    BY WordSizes
  <2> QED BY <2>1
<1>2. (E = 4 => W = 2 /\ Z = 16 /\ LineToken = "cl2") /\ (E = 8 => W = 4 /\ Z = 8 /\ LineToken = "cl4") /\ E * Z = 64
  BY <1>1, WordSizes DEF LineToken
<1>3. V = Z * a
  <2>1. CASE E = 4
    BY <1>1, <1>2, <2>1 DEF OfWords, IsLines
  <2>2. CASE E = 8
    BY <1>1, <1>2, <2>2 DEF OfWords, IsLines
  <2> QED BY <2>1, <2>2
<1>4. PICK h \in Nat : Cols = W * h
  <2>1. CASE W = 2
    <3>1. 32 * b \in Nat /\ Cols = 2 * (32 * b)
      BY DEF IsLines
    <3> QED BY <2>1, <3>1
  <2>2. CASE W = 4
    <3>1. 16 * b \in Nat /\ Cols = 4 * (16 * b)
      BY DEF IsLines
    <3> QED BY <2>2, <3>1
  <2> QED BY <2>1, <2>2
<1>5. PICK R \in Nat \ {0}, C \in Nat \ {0} : R = Rows /\ C = Cols
  <2>1. Rows \in Nat \ {0} /\ Cols \in Nat \ {0}
    BY DEF Sized, Rows, Cols
  <2> QED BY <2>1
<1>6. PICK g \in 0 .. h - 1, d \in 0 .. W - 1 : c = W * g + d
  <2>1. CASE W = 2
    <3>1. C = 2 * h /\ c \in 0 .. C - 1
      BY <1>4, <1>5, <2>1
    <3>2. (c \div 2) \in 0 .. h - 1 /\ (c % 2) \in 0 .. 1 /\ c = 2 * (c \div 2) + (c % 2)
      BY <3>1
    <3> QED BY <2>1, <3>2
  <2>2. CASE W = 4
    <3>1. C = 4 * h /\ c \in 0 .. C - 1
      BY <1>4, <1>5, <2>2
    <3>2. (c \div 4) \in 0 .. h - 1 /\ (c % 4) \in 0 .. 3 /\ c = 4 * (c \div 4) + (c % 4)
      BY <3>1
    <3> QED BY <2>2, <3>2
  <2> QED BY <2>1, <2>2
<1>7. PICK j \in 0 .. a - 1, y \in 0 .. Z - 1 : v = Z * j + y
  <2>1. CASE Z = 16
    <3>1. V = 16 * a
      BY <1>3, <2>1
    <3>2. (v \div 16) \in 0 .. a - 1 /\ (v % 16) \in 0 .. 15 /\ v = 16 * (v \div 16) + (v % 16)
      BY <3>1
    <3> QED BY <2>1, <3>2
  <2>2. CASE Z = 8
    <3>1. V = 8 * a
      BY <1>3, <2>2
    <3>2. (v \div 8) \in 0 .. a - 1 /\ (v % 8) \in 0 .. 7 /\ v = 8 * (v \div 8) + (v % 8)
      BY <3>1
    <3> QED BY <2>2, <3>2
  <2> QED BY <2>1, <2>2
<1>8. s \in 0 .. E - 1
  BY <1>1
<1>9. PICK l \in 0 .. 63 : l = E * y + s
  <2>1. CASE E = 4
    <3>1. 4 * y + s \in 0 .. 63
      BY <1>2, <1>8, <2>1
    <3> QED BY <2>1, <3>1
  <2>2. CASE E = 8
    <3>1. 8 * y + s \in 0 .. 63
      BY <1>2, <1>8, <2>2
    <3> QED BY <2>2, <3>1
  <2> QED BY <2>1, <2>2
<1>10. LinedPlace(c, v, s) = LineAt(W, a, g, j, d, l)
  <2>1. IsLines(Rows, a) /\ g \in Nat /\ j \in Nat
    BY DEF IsLines
  <2>2. OfElts(E) /\ y \in 0 .. Tile \div E - 1 /\ d \in 0 .. ColumnsInterleaved - 1
    BY <1>1 DEF OfElts
  <2>3. LandsInLine(E, a, g, j, d, y, s)
    BY <1>8, <2>1, <2>2, LineOfWord
  <2> QED BY <1>1, <1>6, <1>7, <1>9, <2>3 DEF LandsInLine, LinedPlace
<1>11. ColumnPlace(c, v, s) = (W * g + d) * R + (64 * j + l)
  <2>1. E * v + s = 64 * j + l
    BY <1>2, <1>7, <1>8, <1>9
  <2> QED BY <1>1, <1>5, <1>6, <2>1 DEF ColumnPlace
<1>12. Undoes(LineToken, LineAt(W, a, g, j, d, l), (W * g + d) * R + (64 * j + l), R, C, E)
  <2>1. LineToken \in {"cl2", "cl4"} /\ W = (IF LineToken = "cl2" THEN 2 ELSE 4)
    BY <1>2
  <2>2. C = W * h /\ IsLines(R, a)
    BY <1>4, <1>5
  <2> QED BY <2>1, <2>2, LineUndone
<1> QED BY <1>1, <1>5, <1>10, <1>11, <1>12

(* The interleave of columns and its token.                                *)
LEMMA LinedMoves ==
  ASSUME Sized, KnownType(rq.type), AllIn(where), NEW a \in Nat \ {0}, IsLines(Rows, a), NEW b \in Nat, IsLines(Cols, b),
         NEW V \in Nat \ {0}, OfWords(Rows, V, EltsPerReg)
  PROVE  Moves(LineToken, Lined)
<1>1. PICK R \in Nat \ {0}, C \in Nat \ {0} : R = Rows /\ C = Cols
  <2>1. Rows \in Nat \ {0} /\ Cols \in Nat \ {0}
    BY DEF Sized, Rows, Cols
  <2> QED BY <2>1
<1>2. PICK E \in {4, 8} : E = EltsPerReg
  BY WordSizes
<1>3. ASSUME NEW x \in DOMAIN where PROVE Takes(LineToken, x, Lined[x])
  <2>1. where[x] \in 0 .. NumElts - 1
    BY DEF AllIn
  <2>2. PICK p \in 0 .. R * C - 1 : p = InMatrix(where[x])
    BY <1>1, <2>1, PlaceParts
  <2>3. PICK c \in 0 .. C - 1, v \in 0 .. V - 1, s \in 0 .. E - 1 : SplitsInto(R, V, E, p, c, v, s)
    <3>1. OfWords(R, V, E)
      BY <1>1, <1>2
    <3> QED BY <3>1, WordOfPlace
  <2>4. Lined[x] = MatrixOf(where[x]) * Rows * Cols + (CachelineWord(c, v) * EltsPerReg + s)
    BY <1>1, <1>2, <2>2, <2>3, LineMoves
  <2>5. Undoes(LineToken, LinedPlace(c, v, s), ColumnPlace(c, v, s), Rows, Cols, EltsPerReg)
    <3>1. c \in 0 .. Cols - 1 /\ s \in 0 .. EltsPerReg - 1 /\ V \in Nat
      BY <1>1, <1>2
    <3> QED BY <3>1, LinedOfWord
  <2>6. ColumnPlace(c, v, s) = p
    BY <1>1, <1>2, <2>3 DEF ColumnPlace, SplitsInto
  <2>7. LinedPlace(c, v, s) \in 0 .. Rows * Cols - 1
    BY <2>5 DEF Undoes
  <2> QED BY <2>2, <2>4, <2>5, <2>6, <2>7 DEF Takes, LinedPlace
<1>4. DOMAIN Lined = DOMAIN where
  BY DEF Lined, MoveWords
<1> QED BY <1>3, <1>4 DEF Moves

(* Lines that are whole stay in the buffer.                                *)
LEMMA WholeLinesStay ==
  ASSUME Sized, KnownType(rq.type), NEW a \in Nat \ {0}, IsLines(Rows, a), NEW b \in Nat, IsLines(Cols, b)
  PROVE  ~WritesPastEnd
<1>1. PICK R \in Nat \ {0}, C \in Nat \ {0} : R = Rows /\ C = Cols
  <2>1. Rows \in Nat \ {0} /\ Cols \in Nat \ {0}
    BY DEF Sized, Rows, Cols
  <2> QED BY <2>1
<1>2. PICK E \in {4, 8} : E = EltsPerReg
  BY WordSizes
<1>3. PICK V \in Nat : R = E * V /\ V = R \div E
  <2>1. CASE E = 4
    <3>1. 16 * a \in Nat /\ R = 4 * (16 * a) /\ (R \div 4) = 16 * a
      BY <1>1, <2>1 DEF IsLines
    <3> QED BY <2>1, <3>1
  <2>2. CASE E = 8
    <3>1. 8 * a \in Nat /\ R = 8 * (8 * a) /\ (R \div 8) = 8 * a
      BY <1>1, <2>2 DEF IsLines
    <3> QED BY <2>2, <3>1
  <2> QED BY <2>1, <2>2
<1>4. ASSUME NEW c \in 0 .. C - 1, NEW v \in 0 .. V - 1 PROVE ~(CachelineWord(c, v) >= C * V)
  <2>1. Undoes(LineToken, LinedPlace(c, v, 0), ColumnPlace(c, v, 0), Rows, Cols, EltsPerReg)
    <3>1. OfWords(Rows, V, EltsPerReg) /\ c \in 0 .. Cols - 1 /\ 0 \in 0 .. EltsPerReg - 1
      BY <1>1, <1>2, <1>3 DEF OfWords
    <3> QED BY <3>1, LinedOfWord
  <2>2. LinedPlace(c, v, 0) \in 0 .. R * C - 1
    BY <1>1, <2>1 DEF Undoes
  <2>3. PICK w \in Int : w = CachelineWord(c, v)
    <3>1. Tile \div EltsPerReg \in Int /\ Rows \div EltsPerReg \in Int /\ ColumnsInterleaved \in {2, 4}
          /\ (Tile \div EltsPerReg) \in {8, 16}
      <4>1. Rows \in Int
        BY <1>1
      <4> QED BY <1>2, <4>1, WordSizes DEF Tile
    <3>2. CachelineWord(c, v) \in Int
      BY <3>1 DEF CachelineWord
    <3> QED BY <3>2
  <2>4. w * E + 0 < R * C
    BY <1>2, <2>2, <2>3 DEF LinedPlace
  <2>5. PICK z \in Nat : z = C * V
    <3>1. C * V \in Nat
      OBVIOUS
    <3> QED BY <3>1
  <2>6. R * C = E * z
    BY <1>3, <2>5
  <2>7. w < z
    BY <2>4, <2>6
  <2> QED BY <2>3, <2>5, <2>7
<1>5. WritesPastEnd <=> \E c \in 0 .. C - 1, v \in 0 .. V - 1 : CachelineWord(c, v) >= C * V
  BY <1>1, <1>2, <1>3 DEF WritesPastEnd
<1> QED BY <1>4, <1>5

(* A ragged last line of int8s is written past the end.                    *)
LEMMA RaggedLinesOverrun ==
  ASSUME Sized, KnownType(rq.type), BitsPerElt = 8, Whole(Rows, 32), ~Whole(Rows, 64), NEW b \in Nat, IsLines(Cols, b)
  PROVE  WritesPastEnd
<1>1. PICK R \in Nat \ {0}, C \in Nat \ {0} : R = Rows /\ C = Cols
  <2>1. Rows \in Nat \ {0} /\ Cols \in Nat \ {0}
    BY DEF Sized, Rows, Cols
  <2> QED BY <2>1
<1>2. EltsPerReg = 4 /\ ColumnsInterleaved = 2 /\ (Tile \div EltsPerReg) = 16
  BY WordSizes
<1>3. PICK a \in Nat : R = 64 * a + 32
  <2>1. R % 32 = 0 /\ R % 64 # 0
    BY <1>1 DEF Whole
  <2>2. (R \div 64) \in Nat /\ R = 64 * (R \div 64) + 32
    BY <2>1
  <2> QED BY <2>2
<1>4. PICK V \in Nat : V = 16 * a + 8 /\ V = R \div 4
  BY <1>3
<1>5. C = 64 * b
  BY <1>1 DEF IsLines
<1>6. PICK c \in 0 .. C - 1 : c = 64 * b - 1
  BY <1>5
<1>7. PICK v \in 0 .. V - 1 : v = 16 * a + 7
  BY <1>4
<1>8. (c \div 2) = 32 * b - 1 /\ (c % 2) = 1 /\ (v % 16) = 7
  BY <1>6, <1>7
<1>9. CachelineWord(c, v) = (c \div 2) * V * 2 + 2 * (v - (v % 16)) + 16 * (c % 2) + (v % 16)
  BY <1>1, <1>2, <1>4 DEF CachelineWord
<1>10. PICK z \in Nat : z = b * V
  <2>1. b * V \in Nat
    OBVIOUS
  <2> QED BY <2>1
<1>11. (32 * b - 1) * V * 2 = 64 * z - 2 * V /\ C * V = 64 * z
  BY <1>5, <1>10
<1>12. CachelineWord(c, v) = 64 * z - 2 * V + 2 * (16 * a) + 16 + 7
  BY <1>7, <1>8, <1>9, <1>11
<1>13. CachelineWord(c, v) >= C * V
  BY <1>4, <1>11, <1>12
<1> QED BY <1>1, <1>2, <1>4, <1>13 DEF WritesPastEnd

(* The AIU's interleave and its token.                                     *)
LEMMA AiuInterleavedMoves ==
  ASSUME Sized, KnownType(rq.type), BitsPerElt = 4, AllIn(where), NEW a \in Nat \ {0}, IsRows(Rows, a)
  PROVE  Moves("aiu256", AiuInterleaved)
<1>1. EltsPerReg = 8
  BY WordSizes
<1>2. PICK V \in Nat \ {0} : V = 32 * a
  <2>1. 32 * a \in Nat \ {0}
    OBVIOUS
  <2> QED BY <2>1
<1>3. OfWords(Rows, V, EltsPerReg)
  BY <1>1, <1>2 DEF OfWords, IsRows
<1>4. PICK R \in Nat \ {0}, C \in Nat \ {0} : R = Rows /\ C = Cols
  <2>1. Rows \in Nat \ {0} /\ Cols \in Nat \ {0}
    BY DEF Sized, Rows, Cols
  <2> QED BY <2>1
<1>5. ASSUME NEW x \in DOMAIN where PROVE Takes("aiu256", x, AiuInterleaved[x])
  <2>1. where[x] \in 0 .. NumElts - 1
    BY DEF AllIn
  <2>2. PICK p \in 0 .. R * C - 1 : p = InMatrix(where[x])
    BY <1>4, <2>1, PlaceParts
  <2>3. PICK c \in 0 .. C - 1, v \in 0 .. V - 1, s \in 0 .. 7 : SplitsInto(R, V, 8, p, c, v, s)
    <3>1. OfWords(R, V, 8)
      BY <1>1, <1>3, <1>4
    <3>2. \E c \in 0 .. C - 1, v \in 0 .. V - 1, s \in 0 .. 8 - 1 : SplitsInto(R, V, 8, p, c, v, s)
      BY <3>1, WordOfPlace
    <3> QED BY <3>2
  <2>4. AiuInterleaved[x] = MatrixOf(where[x]) * Rows * Cols + (AiuWord(c, v) * 8 + s)
    BY <1>1, <1>3, <1>4, <2>2, <2>3, AiuMoves
  <2>5. PICK j \in 0 .. a - 1, y \in 0 .. 31 : v = 32 * j + y /\ j = v \div 32 /\ y = v % 32
    <3>1. (v \div 32) \in 0 .. a - 1 /\ (v % 32) \in 0 .. 31 /\ v = 32 * (v \div 32) + (v % 32)
      BY <1>2
    <3> QED BY <3>1
  <2>6. PICK l \in 0 .. 255 : l = 8 * y + s
    OBVIOUS
  <2>7. AiuWord(c, v) * 8 + s = TileAt(C, j, c, l)
    <3>1. (256 \div EltsPerReg) = 32
      BY <1>1
    <3>2. AiuWord(c, v) = j * 32 * C + c * 32 + y
      BY <1>4, <2>5, <3>1 DEF AiuWord
    <3>3. PICK z \in Nat : z = j * C
      <4>1. j * C \in Nat
        OBVIOUS
      <4> QED BY <4>1
    <3>4. j * 32 * C = 32 * z /\ j * (256 * C) = 256 * z
      BY <3>3
    <3> QED BY <2>6, <3>2, <3>4 DEF TileAt
  <2>8. p = ColumnAt(R, j, c, l)
    <3>1. 8 * v + s = 256 * j + l
      BY <2>5, <2>6
    <3> QED BY <2>3, <3>1 DEF SplitsInto, ColumnAt
  <2>9. Undoes("aiu256", TileAt(C, j, c, l), ColumnAt(R, j, c, l), R, C, EltsPerReg)
    <3>1. IsRows(R, a)
      BY <1>4
    <3> QED BY <3>1, TileUndone
  <2> DEFINE q == TileAt(C, j, c, l)
  <2>10. q \in 0 .. R * C - 1
    BY <2>9 DEF Undoes
  <2> HIDE DEF q
  <2>11. AiuInterleaved[x] = MatrixOf(where[x]) * Rows * Cols + q
    BY <2>4, <2>7 DEF q
  <2>12. Undoes("aiu256", q, p, R, C, EltsPerReg)
    BY <2>8, <2>9 DEF q
  <2> QED BY <1>1, <1>4, <2>2, <2>10, <2>11, <2>12 DEF Takes
<1>6. DOMAIN AiuInterleaved = DOMAIN where
  BY DEF AiuInterleaved, MoveWords
<1> QED BY <1>5, <1>6 DEF Moves

-----------------------------------------------------------------------------
(* The order of a word, and what the comments say of it.                   *)
WordDest ==
  [s \in 0 .. EltsPerReg - 1 |->
     IF BitsPerElt = 8 THEN Int8Relayout(s) ELSE CHOOSE d \in 0 .. 7 : Int4Source(d) = s]

(* The picture of a word is that order.                                    *)
LEMMA WordPictured ==
  ASSUME KnownType(rq.type), NEW s \in 0 .. EltsPerReg - 1
  PROVE  WordDest[s] \in 0 .. EltsPerReg - 1 /\ WordMap[EltsPerReg][WordDest[s] + 1] = s
<1>1. WordMap[4] = <<0, 2, 1, 3>> /\ WordMap[8] = <<0, 2, 4, 6, 1, 3, 5, 7>>
  BY DEF WordMap
<1>2. CASE EltsPerReg = 4
  <2>1. WordDest[s] = Int8Relayout(s) /\ s \in {0, 1, 2, 3}
    BY <1>2, WordSizes DEF WordDest
  <2>2. Int8Relayout(0) = 0 /\ Int8Relayout(1) = 2 /\ Int8Relayout(2) = 1 /\ Int8Relayout(3) = 3
    BY DEF Int8Relayout
  <2>3. WordMap[4][1] = 0 /\ WordMap[4][2] = 2 /\ WordMap[4][3] = 1 /\ WordMap[4][4] = 3
    BY <1>1
  <2> QED BY <1>2, <2>1, <2>2, <2>3
<1>3. CASE EltsPerReg = 8
  <2>1. s \in 0 .. 7 /\ BitsPerElt = 4
    BY <1>3, WordSizes
  <2>2. WordDest[s] = CHOOSE d \in 0 .. 7 : Int4Source(d) = s
    BY <2>1 DEF WordDest
  <2>3. \E d \in 0 .. 7 : Int4Source(d) = s
    BY <2>1, WordPlaces
  <2>4. PICK d \in 0 .. 7 : d = WordDest[s] /\ Int4Source(d) = s
    BY <2>2, <2>3
  <2>5. /\ WordMap[8][1] = 0 /\ WordMap[8][2] = 2 /\ WordMap[8][3] = 4 /\ WordMap[8][4] = 6
        /\ WordMap[8][5] = 1 /\ WordMap[8][6] = 3 /\ WordMap[8][7] = 5 /\ WordMap[8][8] = 7
    BY <1>1
  <2>6. WordMap[8][d + 1] = Int4Source(d)
    <3>1. d \in {0, 1, 2, 3, 4, 5, 6, 7}
      OBVIOUS
    <3> QED BY <2>5, <3>1 DEF Int4Source
  <2> QED BY <1>3, <2>4, <2>6
<1> QED BY <1>2, <1>3, WordSizes

(* An element moved in its word of a matrix.                               *)
LEMMA WordUndone ==
  ASSUME NEW E \in {4, 8}, NEW N \in Nat \ {0}, NEW R, NEW C, R * C = E * N, NEW i \in 0 .. N - 1,
         NEW s \in 0 .. E - 1, NEW d \in 0 .. E - 1, WordMap[E][d + 1] = s
  PROVE  Undoes("cvtword", E * i + d, E * i + s, R, C, E)
<1>1. "cvtword" \notin DOMAIN RowMap
  BY DEF RowMap
<1>2. PICK q \in Nat : q = E * i + d
  BY SMT
<1>3. q \in 0 .. E * N - 1 /\ (q % E) = d
  <2>1. CASE E = 4
    BY <1>2, <2>1
  <2>2. CASE E = 8
    BY <1>2, <2>2
  <2> QED BY <2>1, <2>2
<1>4. Documented("cvtword", q, R, C, E) = q - (q % E) + WordMap[E][(q % E) + 1]
  BY <1>1 DEF Documented
<1>5. q - d + s = E * i + s
  BY <1>2
<1> QED BY <1>2, <1>3, <1>4, <1>5 DEF Undoes

(* The conversion of the words.                                            *)
LEMMA RelayoutMoves ==
  ASSUME Sized, KnownType(rq.type), AllIn(where), NEW V \in Nat \ {0}, OfWords(Rows, V, EltsPerReg)
  PROVE  Moves("cvtword", Relayout)
<1>1. PICK R \in Nat \ {0}, C \in Nat \ {0}, X \in Nat \ {0} : R = Rows /\ C = Cols /\ X = Experts
  <2>1. Rows \in Nat \ {0} /\ Cols \in Nat \ {0} /\ Experts \in Nat \ {0}
    BY DEF Sized, Rows, Cols, Experts
  <2> QED BY <2>1
<1>2. PICK E \in {4, 8} : E = EltsPerReg
  BY WordSizes
<1>3. PICK N \in Nat \ {0} : N = V * C
  <2>1. V * C \in Nat \ {0}
    BY SMT
  <2> QED BY <2>1
<1>4. R = E * V /\ R * C = E * N
  <2>1. R = E * V
    BY <1>1, <1>2 DEF OfWords
  <2>2. (E * V) * C = E * (V * C)
    BY SMT
  <2> QED BY <1>3, <2>1, <2>2
<1> DEFINE To(z) == z - (z % EltsPerReg) + WordDest[z % EltsPerReg]
<1>5. Relayout = [x \in DOMAIN where |-> To(where[x])]
  BY DEF Relayout, WordDest
<1>6. ASSUME NEW x \in DOMAIN where PROVE Takes("cvtword", x, To(where[x]))
  <2>1. PICK m \in 0 .. X - 1, p \in 0 .. R * C - 1 :
          m = MatrixOf(where[x]) /\ p = InMatrix(where[x]) /\ where[x] = m * R * C + p
    <3>1. where[x] \in 0 .. NumElts - 1
      BY DEF AllIn
    <3>2. /\ MatrixOf(where[x]) \in 0 .. Experts - 1 /\ InMatrix(where[x]) \in 0 .. Rows * Cols - 1
          /\ where[x] = MatrixOf(where[x]) * Rows * Cols + InMatrix(where[x])
      BY <3>1, PlaceParts
    <3> QED BY <1>1, <3>2
  <2>2. p \in 0 .. E * N - 1
    BY <1>4, <2>1
  <2>3. PICK i \in 0 .. N - 1, s \in 0 .. E - 1 : p = E * i + s
    <3>1. CASE E = 4
      <4>1. (p \div 4) \in 0 .. N - 1 /\ (p % 4) \in 0 .. 3 /\ p = 4 * (p \div 4) + (p % 4)
        BY <2>2, <3>1
      <4> QED BY <3>1, <4>1
    <3>2. CASE E = 8
      <4>1. (p \div 8) \in 0 .. N - 1 /\ (p % 8) \in 0 .. 7 /\ p = 8 * (p \div 8) + (p % 8)
        BY <2>2, <3>2
      <4> QED BY <3>2, <4>1
    <3> QED BY <3>1, <3>2
  <2>4. PICK b \in Nat : b = m * N
    <3>1. m * N \in Nat
      BY SMT
    <3> QED BY <3>1
  <2>5. m * R * C = E * b
    <3>1. m * R * C = m * (R * C) /\ m * (E * N) = E * (m * N)
      BY SMT
    <3> QED BY <1>4, <2>4, <3>1
  <2>6. PICK z \in Nat : z = where[x] /\ z = E * (b + i) + s /\ (z % E) = s
    <3>1. CASE E = 4
      <4>1. 4 * (b + i) + s \in Nat /\ ((4 * (b + i) + s) % 4) = s
        BY <3>1
      <4>2. where[x] = 4 * (b + i) + s
        BY <2>1, <2>3, <2>5, <3>1
      <4> QED BY <3>1, <4>1, <4>2
    <3>2. CASE E = 8
      <4>1. 8 * (b + i) + s \in Nat /\ ((8 * (b + i) + s) % 8) = s
        BY <3>2
      <4>2. where[x] = 8 * (b + i) + s
        <5>1. m * R * C = 8 * b /\ p = 8 * i + s /\ where[x] = m * R * C + p
          BY <2>1, <2>3, <2>5, <3>2
        <5> QED BY <5>1
      <4> QED BY <3>2, <4>1, <4>2
    <3> QED BY <3>1, <3>2
  <2>7. PICK d \in 0 .. E - 1 : d = WordDest[s] /\ WordMap[E][d + 1] = s
    BY <1>2, WordPictured
  <2>8. PICK q \in Int : q = E * i + d
    BY SMT
  <2>9. To(where[x]) = m * R * C + q
    <3>1. To(where[x]) = z - s + d
      BY <1>2, <2>6, <2>7
    <3>2. E * (b + i) = E * b + E * i
      BY SMT
    <3> QED BY <2>5, <2>6, <2>8, <3>1, <3>2
  <2>10. Undoes("cvtword", q, p, R, C, E)
    BY <1>4, <2>3, <2>7, <2>8, WordUndone
  <2>11. q \in 0 .. Rows * Cols - 1
    BY <1>1, <2>10 DEF Undoes
  <2> HIDE DEF To
  <2> QED BY <1>1, <1>2, <2>1, <2>9, <2>10, <2>11 DEF Takes
<1> HIDE DEF To
<1>7. DOMAIN Relayout = DOMAIN where /\ \A x \in DOMAIN where : Relayout[x] = To(where[x])
  BY <1>5
<1> QED BY <1>6, <1>7 DEF Moves

-----------------------------------------------------------------------------
(* The places of an element, from its row-major one: by each step taken.   *)
WordElts == IF KnownType(rq.type) THEN EltsPerReg ELSE 1
Follows(f, x, z, t) ==
  /\ f \in [0 .. Len(t) -> Int] /\ f[0] = InMatrix(x) /\ f[Len(t)] = InMatrix(z)
  /\ \A i \in 1 .. Len(t) : f[i - 1] = Documented(t[i], f[i], Rows, Cols, WordElts)
Traced(x, z, t) ==
  z \in 0 .. NumElts - 1 /\ MatrixOf(z) = MatrixOf(x) /\ \E f : Follows(f, x, z, t)

(* Every element followed is where the steps t took it.                    *)
TracedBy(w, t) == DOMAIN w = DOMAIN RowMajor /\ \A x \in DOMAIN w : Traced(x, w[x], t)

(* An element that no step moved is in its row-major place.                *)
LEMMA FollowedIn ==
  ASSUME Sized, NEW x \in DOMAIN RowMajor
  PROVE  x \in 0 .. NumElts - 1 /\ RowMajor[x] = x
<1>1. PICK X \in Nat \ {0}, R \in Nat \ {0}, C \in Nat \ {0} : X = Experts /\ R = Rows /\ C = Cols
  <2>1. Experts \in Nat \ {0} /\ Rows \in Nat \ {0} /\ Cols \in Nat \ {0}
    BY DEF Sized, Experts, Rows, Cols
  <2> QED BY <2>1
<1>2. PICK H \in Nat : H = X * R
  <2>1. X * R \in Nat
    BY SMT
  <2> QED BY <2>1
<1>3. DOMAIN RowMajor = {r * Cols + c : r \in 0 .. Experts * Rows - 1, c \in {c \in Watched : c < Cols}}
  BY DEF RowMajor
<1>4. PICK r \in 0 .. H - 1, c \in {c \in Watched : c < C} : x = r * C + c
  BY <1>1, <1>2, <1>3
<1>5. c \in 0 .. C - 1
  BY <1>4, PlacementAssumption
<1>6. r * C + c \in 0 .. H * C - 1
  BY <1>2, <1>5, CellInMatrix
<1>7. NumElts = H * C
  BY <1>1, <1>2 DEF NumElts
<1>8. RowMajor[x] = x
  BY DEF RowMajor
<1> QED BY <1>4, <1>6, <1>7, <1>8

(* At the beginning of the chain no step was taken.                        *)
LEMMA TracedAtFirst ==
  ASSUME Sized
  PROVE  TracedBy(RowMajor, << >>)
<1>1. ASSUME NEW x \in DOMAIN RowMajor PROVE Traced(x, RowMajor[x], << >>)
  <2>1. x \in 0 .. NumElts - 1 /\ RowMajor[x] = x
    BY FollowedIn
  <2>2. InMatrix(x) \in Int
    <3>1. InMatrix(x) \in 0 .. Rows * Cols - 1
      BY <2>1, PlaceParts
    <3>2. Rows \in Nat /\ Cols \in Nat
      BY DEF Sized, Rows, Cols
    <3> QED BY <3>1, <3>2
  <2> DEFINE f == [i \in 0 .. 0 |-> InMatrix(x)]
  <2>3. f \in [0 .. 0 -> Int] /\ f[0] = InMatrix(x)
    BY <2>2
  <2> HIDE DEF f
  <2>4. Len(<< >>) = 0
    OBVIOUS
  <2>5. Follows(f, x, x, << >>)
    BY <2>3, <2>4 DEF Follows
  <2> QED BY <2>1, <2>5 DEF Traced
<1> QED BY <1>1 DEF TracedBy

(* A step more: the token undoes it.                                       *)
LEMMA FollowsOnce ==
  ASSUME NEW t \in Seq(Tokens), NEW token \in Tokens, NEW f, NEW x, NEW y, NEW z, Follows(f, x, y, t),
         InMatrix(z) \in Int, InMatrix(y) = Documented(token, InMatrix(z), Rows, Cols, WordElts)
  PROVE  \E g : Follows(g, x, z, Append(t, token))
<1>1. PICK m \in Nat : m = Len(t)
  OBVIOUS
<1>2. /\ f \in [0 .. m -> Int] /\ f[0] = InMatrix(x) /\ f[m] = InMatrix(y)
      /\ \A i \in 1 .. m : f[i - 1] = Documented(t[i], f[i], Rows, Cols, WordElts)
  BY <1>1 DEF Follows
<1> DEFINE g == [i \in 0 .. m + 1 |-> IF i = m + 1 THEN InMatrix(z) ELSE f[i]]
           u == Append(t, token)
<1>3. g \in [0 .. m + 1 -> Int] /\ g[m + 1] = InMatrix(z) /\ \A i \in 0 .. m : g[i] = f[i]
  BY <1>2
<1>4. Len(u) = m + 1 /\ u[m + 1] = token /\ \A i \in 1 .. m : u[i] = t[i]
  BY <1>1
<1> HIDE DEF g, u
<1>5. ASSUME NEW i \in 1 .. m + 1 PROVE g[i - 1] = Documented(u[i], g[i], Rows, Cols, WordElts)
  <2>1. CASE i = m + 1
    <3>1. m \in 0 .. m /\ i - 1 = m
      BY <2>1
    <3>2. g[m] = f[m]
      BY <1>3, <3>1
    <3>3. g[m] = Documented(token, InMatrix(z), Rows, Cols, WordElts)
      BY <1>2, <3>2
    <3> QED BY <1>3, <1>4, <2>1, <3>1, <3>3
  <2>2. CASE i # m + 1
    <3>1. i \in 1 .. m /\ i \in 0 .. m /\ i - 1 \in 0 .. m
      BY <2>2
    <3>2. g[i] = f[i] /\ g[i - 1] = f[i - 1] /\ u[i] = t[i]
      BY <1>3, <1>4, <3>1
    <3>3. f[i - 1] = Documented(t[i], f[i], Rows, Cols, WordElts)
      BY <1>2, <3>1
    <3> QED BY <3>2, <3>3
  <2> QED BY <2>1, <2>2
<1>6. g[0] = InMatrix(x)
  <2>1. 0 \in 0 .. m
    OBVIOUS
  <2> QED BY <1>2, <1>3, <2>1
<1>7. Follows(g, x, z, u)
  BY <1>3, <1>4, <1>5, <1>6 DEF Follows
<1> QED BY <1>7 DEF u

(* So a step that moves every element as its token says.                   *)
LEMMA TracedOnce ==
  ASSUME Sized, KnownType(rq.type), NEW t \in Seq(Tokens), NEW token \in Tokens, TracedBy(where, t), NEW w, Moves(token, w)
  PROVE  TracedBy(w, Append(t, token))
<1>1. WordElts = EltsPerReg
  BY DEF WordElts
<1>2. DOMAIN w = DOMAIN where /\ DOMAIN where = DOMAIN RowMajor
  BY DEF Moves, TracedBy
<1>3. ASSUME NEW x \in DOMAIN where PROVE Traced(x, w[x], Append(t, token))
  <2>1. where[x] \in 0 .. NumElts - 1 /\ MatrixOf(where[x]) = MatrixOf(x) /\ \E f : Follows(f, x, where[x], t)
    BY DEF TracedBy, Traced
  <2>2. PICK f : Follows(f, x, where[x], t)
    BY <2>1
  <2>3. PICK q \in 0 .. Rows * Cols - 1 :
          /\ w[x] = MatrixOf(where[x]) * Rows * Cols + q
          /\ Undoes(token, q, InMatrix(where[x]), Rows, Cols, EltsPerReg)
    BY DEF Moves, Takes
  <2>4. MatrixOf(where[x]) \in 0 .. Experts - 1
    BY <2>1, PlaceParts
  <2>5. w[x] \in 0 .. NumElts - 1 /\ MatrixOf(w[x]) = MatrixOf(where[x]) /\ InMatrix(w[x]) = q
    BY <2>3, <2>4, PlaceInMatrix
  <2>6. InMatrix(where[x]) = Documented(token, InMatrix(w[x]), Rows, Cols, WordElts)
    BY <1>1, <2>3, <2>5 DEF Undoes
  <2>7. InMatrix(w[x]) \in Int
    <3>1. Rows \in Nat /\ Cols \in Nat
      BY DEF Sized, Rows, Cols
    <3>2. q \in Int
      BY <3>1
    <3> QED BY <2>5, <3>2
  <2>8. \E g : Follows(g, x, w[x], Append(t, token))
    BY <2>2, <2>6, <2>7, FollowsOnce
  <2> QED BY <2>1, <2>5, <2>8 DEF Traced
<1> QED BY <1>2, <1>3 DEF TracedBy

(* The bias moves nothing.                                                 *)
LEMMA TracedBias ==
  ASSUME Sized, KnownType(rq.type), NEW t \in Seq(Tokens), NEW w, TracedBy(w, t)
  PROVE  TracedBy(w, Append(t, "bias"))
<1>1. ASSUME NEW x \in DOMAIN w PROVE Traced(x, w[x], Append(t, "bias"))
  <2>1. w[x] \in 0 .. NumElts - 1 /\ MatrixOf(w[x]) = MatrixOf(x) /\ \E f : Follows(f, x, w[x], t)
    BY DEF TracedBy, Traced
  <2>2. PICK f : Follows(f, x, w[x], t)
    BY <2>1
  <2>3. InMatrix(w[x]) \in Int
    <3>1. InMatrix(w[x]) \in 0 .. Rows * Cols - 1 /\ Rows \in Nat /\ Cols \in Nat
      BY <2>1, PlaceParts DEF Sized, Rows, Cols
    <3> QED BY <3>1
  <2>4. InMatrix(w[x]) = Documented("bias", InMatrix(w[x]), Rows, Cols, WordElts)
    <3>1. "bias" \notin DOMAIN RowMap
      BY DEF RowMap
    <3> QED BY <3>1 DEF Documented
  <2>5. "bias" \in Tokens
    BY DEF Tokens
  <2>6. \E g : Follows(g, x, w[x], Append(t, "bias"))
    BY <2>2, <2>3, <2>4, <2>5, FollowsOnce
  <2> QED BY <2>1, <2>6 DEF Traced
<1> QED BY <1>1 DEF TracedBy

(* What the steps undone, the last of them first, give of a place.         *)
Unwinds(u, t, p) ==
  u = [i \in 0 .. Len(t) |-> IF i = 0 THEN p ELSE Documented(t[Len(t) - i + 1], u[i - 1], Rows, Cols, WordElts)]
UndoneAt(t, p) == (CHOOSE u : Unwinds(u, t, p))[Len(t)]

(* An element's places are found again, back to the first.                 *)
LEMMA TraceUnwinds ==
  ASSUME NEW t \in Seq(Tokens), NEW f, NEW x, NEW z, Follows(f, x, z, t)
  PROVE  UndoneAt(t, InMatrix(z)) = InMatrix(x)
<1>1. PICK m \in Nat : m = Len(t)
  OBVIOUS
<1>2. /\ f \in [0 .. m -> Int] /\ f[0] = InMatrix(x) /\ f[m] = InMatrix(z)
      /\ \A i \in 1 .. m : f[i - 1] = Documented(t[i], f[i], Rows, Cols, WordElts)
  BY <1>1 DEF Follows
<1> DEFINE Undo(v, i) == IF i = 0 THEN InMatrix(z) ELSE Documented(t[m - i + 1], v[i - 1], Rows, Cols, WordElts)
           back == [i \in 0 .. m |-> f[m - i]]
           undone == CHOOSE u : Unwinds(u, t, InMatrix(z))
<1>3. ASSUME NEW v PROVE Unwinds(v, t, InMatrix(z)) <=> v = [i \in 0 .. m |-> Undo(v, i)]
  BY <1>1 DEF Unwinds
<1>4. ASSUME NEW i \in 0 .. m PROVE f[m - i] = Undo(back, i)
  <2>1. CASE i = 0
    BY <1>2, <2>1
  <2>2. CASE i # 0
    <3>1. i - 1 \in 0 .. m /\ m - i + 1 \in 1 .. m /\ m - (i - 1) = m - i + 1 /\ (m - i + 1) - 1 = m - i
      BY <2>2
    <3>2. back[i - 1] = f[m - i + 1]
      BY <3>1
    <3>3. f[m - i] = Documented(t[m - i + 1], f[m - i + 1], Rows, Cols, WordElts)
      BY <1>2, <3>1
    <3> HIDE DEF back
    <3> QED BY <2>2, <3>2, <3>3
  <2> QED BY <2>1, <2>2
<1>5. back = [i \in 0 .. m |-> Undo(back, i)]
  <2>1. \A i \in 0 .. m : f[m - i] = Undo(back, i)
    BY <1>4
  <2>2. back = [i \in 0 .. m |-> f[m - i]]
    OBVIOUS
  <2> HIDE DEF back, Undo
  <2> QED BY <2>1, <2>2
<1> HIDE DEF Undo
<1>6. Unwinds(back, t, InMatrix(z))
  BY <1>3, <1>5
<1>7. Unwinds(undone, t, InMatrix(z))
  BY <1>6
<1>8. undone = [i \in 0 .. m |-> Undo(undone, i)]
  BY <1>3, <1>7
<1> HIDE DEF undone
<1>9. \A i \in 0 .. m : undone[i] = Undo(undone, i)
  BY <1>8
<1>10. \A i \in 0 .. m : back[i] = Undo(back, i)
  <2> HIDE DEF back
  <2> QED BY <1>5
<1> HIDE DEF back
<1> DEFINE Same == {i \in 0 .. m : undone[i] = back[i]}
<1>11. 0 \in Same
  BY <1>9, <1>10 DEF Undo
<1>12. ASSUME NEW i \in 0 .. m - 1, i \in Same PROVE i + 1 \in Same
  <2>1. i + 1 \in 0 .. m /\ i + 1 # 0 /\ (i + 1) - 1 = i /\ undone[i] = back[i]
    BY <1>12
  <2>2. Undo(undone, i + 1) = Undo(back, i + 1)
    BY <2>1 DEF Undo
  <2> QED BY <1>9, <1>10, <2>1, <2>2
<1> HIDE DEF Same
<1>13. 0 .. m \subseteq Same
  BY <1>11, <1>12, CountUp
<1>14. undone[m] = back[m]
  <2>1. m \in 0 .. m
    OBVIOUS
  <2> QED BY <1>13, <2>1 DEF Same
<1>15. back[m] = f[0]
  <2>1. m \in 0 .. m /\ m - m = 0
    OBVIOUS
  <2> QED BY <2>1 DEF back
<1> QED BY <1>1, <1>2, <1>14, <1>15 DEF UndoneAt, undone

-----------------------------------------------------------------------------
(* What is known of a call at each stage of its chain.                     *)
Moving == {"permute", "transpose", "interleave", "aiu", "bias", "done"}
Logical == rq.op = "layout" /\ rq.name = "logical"
Asked ==
  rq \in Requests /\ (rq.op \in {"symmetric", "permute", "transpose"} \/ Logical => rq.aiu = FALSE)

(* A named layout's call is as the registry says; an arrangement for the   *)
(* AIU is one that the AIU takes.                                          *)
Planned ==
  LET plan == Registry[rq.name]
  IN  /\ rq.name \in DOMAIN Registry \ {"logical"} /\ TypeBits[rq.type] = plan.bits
      /\ rq.mma = plan.mma /\ rq.aiu = plan.aiu
AiuMade == rq.useAiu = TRUE /\ BitsPerElt = 4 /\ Whole(Rows, 256) /\ Whole(Cols, 256)
Vectors == ((Rows * BitsPerElt) \div 8) % 32 = 0

AtStage(s) ==
  /\ s \in {"op"} \cup Moving => Logical \/ (KnownType(rq.type) /\ (rq.op = "layout" => Planned))
  /\ s \in {"op", "permute", "transpose", "interleave", "aiu", "bias"} => ~Logical
  /\ s = "op" => rq.op = "layout"
  /\ s = "permute" => rq.op # "transpose"
  /\ s = "transpose" => rq.op # "permute"
  /\ s \in {"interleave", "aiu", "bias"} => rq.op \notin {"permute", "transpose"}
  /\ s \in Moving => (rq.aiu => AiuMade)
  /\ s = "interleave" => Vectors
  /\ s \in {"aiu", "bias"} => Whole(Rows, 64) /\ Whole(Cols, 64)
  /\ s = "overrun" => BitsPerElt = 8 /\ ~Whole(Rows, 64)

(* The steps taken when the chain is at a stage.                           *)
RowsPermuted == Append(<< >>, RowToken)
Turned == Append(RowsPermuted, "tr")
Lines == Append(Turned, LineToken)
Tiles == IF rq.aiu THEN Append(Lines, "aiu256") ELSE Lines
StepsAt(s) ==
  CASE s = "transpose" -> IF rq.op = "transpose" THEN << >> ELSE RowsPermuted
    [] s = "interleave" -> Turned
    [] s = "aiu" -> Lines
    [] s = "bias" -> Tiles
    [] s = "done" -> IF Logical THEN << >> ELSE IF rq.op = "permute" THEN RowsPermuted
                     ELSE IF rq.op = "transpose" THEN Append(<< >>, "tr")
                     ELSE IF rq.mma THEN Tiles ELSE Append(Append(Tiles, "cvtword"), "bias")
    [] OTHER -> << >>

SpelledAt(s, t, w) ==
  /\ s \in {"call", "op"} => t = << >>
  /\ s \in Moving => t = StepsAt(s) /\ TracedBy(w, t)

NamedInv == Asked /\ AtStage(stage) /\ SpelledAt(stage, steps, where)

(* They are tokens.                                                        *)
LEMMA StepsAreTokens ==
  ASSUME NEW s
  PROVE  /\ StepsAt(s) \in Seq(Tokens) /\ RowsPermuted \in Seq(Tokens) /\ Turned \in Seq(Tokens)
         /\ Lines \in Seq(Tokens) /\ Tiles \in Seq(Tokens)
<1>1. RowToken \in Tokens /\ LineToken \in Tokens /\ "tr" \in Tokens /\ "aiu256" \in Tokens /\ "cvtword" \in Tokens /\ "bias" \in Tokens
  BY DEF RowToken, LineToken, Tokens
<1>2. /\ << >> \in Seq(Tokens) /\ RowsPermuted \in Seq(Tokens) /\ Append(<< >>, "tr") \in Seq(Tokens)
      /\ Turned \in Seq(Tokens) /\ Lines \in Seq(Tokens)
  BY <1>1 DEF RowsPermuted, Turned, Lines
<1>3. Tiles \in Seq(Tokens)
  BY <1>1, <1>2 DEF Tiles
<1>4. Append(Append(Tiles, "cvtword"), "bias") \in Seq(Tokens)
  <2>1. Append(Tiles, "cvtword") \in Seq(Tokens)
    BY <1>1, <1>3
  <2> QED BY <1>1, <2>1
<1> QED BY <1>2, <1>3, <1>4 DEF StepsAt

(* While the request stands, so does what is said in its terms.            *)
LEMMA NamedRequestStands ==
  ASSUME rq' = rq
  PROVE  /\ Asked' <=> Asked
         /\ AtStage(stage)' <=> AtStage(stage')
         /\ SpelledAt(stage, steps, where)' <=> SpelledAt(stage', steps', where')
<1>1. Rows' = Rows /\ Cols' = Cols /\ Experts' = Experts /\ BitsPerElt' = BitsPerElt
  BY DEF Rows, Cols, Experts, BitsPerElt
<1>2. EltsPerReg' = EltsPerReg /\ NumElts' = NumElts /\ WordElts' = WordElts
  <2>1. EltsPerReg' = EltsPerReg
    BY <1>1 DEF EltsPerReg
  <2> QED BY <1>1, <2>1 DEF NumElts, WordElts
<1>3. RowToken' = RowToken /\ LineToken' = LineToken
  BY <1>1 DEF RowToken, LineToken
<1>4. RowsPermuted' = RowsPermuted /\ Turned' = Turned /\ Lines' = Lines /\ Tiles' = Tiles
  BY <1>3 DEF RowsPermuted, Turned, Lines, Tiles
<1>5. Logical' = Logical /\ Planned' = Planned /\ AiuMade' = AiuMade /\ Vectors' = Vectors
  BY <1>1 DEF Logical, Planned, AiuMade, Vectors
<1>6. ASSUME NEW s PROVE StepsAt(s)' = StepsAt(s)
  BY <1>3, <1>4, <1>5 DEF StepsAt
<1>7. RowMajor' = RowMajor
  BY WeightRequestStands
<1>8. ASSUME NEW z PROVE MatrixOf(z)' = MatrixOf(z) /\ InMatrix(z)' = InMatrix(z)
  BY <1>1 DEF MatrixOf, InMatrix
<1>9. ASSUME NEW f, NEW x, NEW z, NEW t PROVE Follows(f, x, z, t)' <=> Follows(f, x, z, t)
  BY <1>1, <1>2, <1>8 DEF Follows
<1>10. ASSUME NEW x, NEW z, NEW t PROVE Traced(x, z, t)' <=> Traced(x, z, t)
  BY <1>2, <1>8, <1>9 DEF Traced
<1>11. TracedBy(where, steps)' <=> TracedBy(where', steps')
  BY <1>7, <1>10 DEF TracedBy
<1>12. SpelledAt(stage, steps, where)' <=> SpelledAt(stage', steps', where')
  <2>1. StepsAt(stage)' = StepsAt(stage')
    BY <1>3, <1>4, <1>5 DEF StepsAt
  <2> QED BY <1>11, <2>1 DEF SpelledAt
<1>13. AtStage(stage)' <=> AtStage(stage')
  BY <1>1, <1>5 DEF AtStage, KnownType
<1>14. Asked' <=> Asked
  BY <1>5 DEF Asked, Requests
<1> QED BY <1>12, <1>13, <1>14

(* So what a step leaves is to be shown in the terms of its request.       *)
LEMMA NamedOnward ==
  ASSUME NamedInv, rq' = rq, AtStage(stage'), SpelledAt(stage', steps', where')
  PROVE  NamedInv'
BY NamedRequestStands DEF NamedInv

(* A refusal says nothing.                                                 *)
LEMMA NamedRefusal ==
  ASSUME NamedInv, Refuse
  PROVE  NamedInv'
<1>1. rq' = rq /\ stage' = "refused"
  BY DEF Refuse
<1>2. AtStage("refused") /\ SpelledAt("refused", steps', where')
  BY DEF AtStage, SpelledAt, Moving
<1> QED BY <1>1, <1>2, NamedOnward

(* The beginning of the chain.                                             *)
LEMMA NamedBeginning ==
  ASSUME NamedInv, stage \in {"call", "op"}, NEW s, Begin(s), AtStage(s),
         s = "permute" \/ (s = "transpose" /\ rq.op = "transpose") \/ (s = "done" /\ Logical)
  PROVE  NamedInv'
<1>1. rq' = rq /\ stage' = s /\ where' = RowMajor /\ steps' = << >>
  BY DEF Begin, NamedInv, SpelledAt
<1>2. StepsAt(s) = << >>
  BY DEF StepsAt
<1>3. TracedBy(RowMajor, << >>)
  <2>1. Sized
    BY RequestsAreSized DEF NamedInv, Asked
  <2> QED BY <2>1, TracedAtFirst
<1>4. SpelledAt(s, << >>, RowMajor)
  BY <1>2, <1>3 DEF SpelledAt
<1> QED BY <1>1, <1>4, NamedOnward

(* A step of the chain.                                                    *)
LEMMA NamedTaking ==
  ASSUME NamedInv, NEW tokens, NEW w, NEW s, Take(tokens, w, s), s \notin {"call", "op"}, AtStage(s),
         s \in Moving => steps \o tokens = StepsAt(s) /\ TracedBy(w, StepsAt(s))
  PROVE  NamedInv'
<1>1. rq' = rq /\ stage' = s /\ where' = w /\ steps' = steps \o tokens
  BY DEF Take
<1>2. SpelledAt(s, steps \o tokens, w)
  BY DEF SpelledAt
<1> QED BY <1>1, <1>2, NamedOnward

(* One token more.                                                         *)
LEMMA OneMore ==
  ASSUME NEW t \in Seq(Tokens), NEW token \in Tokens
  PROVE  t \o <<token>> = Append(t, token)
OBVIOUS

(* What it holds then.                                                     *)
LEMMA Appended ==
  ASSUME NEW t \in Seq(Tokens), NEW token \in Tokens, NEW m \in Nat, Len(t) = m
  PROVE  /\ Append(t, token) \in Seq(Tokens) /\ Len(Append(t, token)) = m + 1 /\ Append(t, token)[m + 1] = token
         /\ \A i \in 1 .. m : Append(t, token)[i] = t[i]
OBVIOUS

(* Sequences with the same elements are the same.                          *)
LEMMA SameSteps ==
  ASSUME NEW s \in Seq(Tokens), NEW t \in Seq(Tokens), Len(s) = Len(t), \A i \in 1 .. Len(s) : s[i] = t[i]
  PROVE  s = t
OBVIOUS

(* What the steps are, one by one.                                         *)
LEMMA LinesAre ==
  /\ Len(Lines) = 3 /\ Lines[1] = RowToken /\ Lines[2] = "tr" /\ Lines[3] = LineToken
  /\ rq.aiu => Len(Tiles) = 4 /\ Tiles[4] = "aiu256" /\ \A i \in 1 .. 3 : Tiles[i] = Lines[i]
<1>1. RowToken \in Tokens /\ LineToken \in Tokens /\ "tr" \in Tokens /\ "aiu256" \in Tokens
  BY DEF RowToken, LineToken, Tokens
<1>2. RowsPermuted \in Seq(Tokens) /\ Len(RowsPermuted) = 1 /\ RowsPermuted[1] = RowToken
  BY <1>1 DEF RowsPermuted
<1>3. Turned \in Seq(Tokens) /\ Len(Turned) = 2 /\ Turned[1] = RowToken /\ Turned[2] = "tr"
  <2> PICK m \in Nat : m = 1
    OBVIOUS
  <2>1. /\ Turned \in Seq(Tokens) /\ Len(Turned) = m + 1 /\ Turned[m + 1] = "tr"
        /\ \A i \in 1 .. m : Turned[i] = RowsPermuted[i]
    <3>1. Len(RowsPermuted) = m
      BY <1>2
    <3> QED BY <1>1, <1>2, <3>1, Appended DEF Turned
  <2>2. 1 \in 1 .. m /\ m + 1 = 2
    OBVIOUS
  <2> QED BY <1>2, <2>1, <2>2
<1>4. Lines \in Seq(Tokens) /\ Len(Lines) = 3 /\ Lines[1] = RowToken /\ Lines[2] = "tr" /\ Lines[3] = LineToken
  <2> PICK m \in Nat : m = 2
    OBVIOUS
  <2>1. /\ Lines \in Seq(Tokens) /\ Len(Lines) = m + 1 /\ Lines[m + 1] = LineToken
        /\ \A i \in 1 .. m : Lines[i] = Turned[i]
    <3>1. Len(Turned) = m
      BY <1>3
    <3>2. Lines = Append(Turned, LineToken)
      BY DEF Lines
    <3> HIDE DEF Lines, Turned, LineToken, Tokens
    <3> QED BY <1>1, <1>3, <3>1, <3>2, Appended
  <2>2. 1 \in 1 .. m /\ 2 \in 1 .. m /\ m + 1 = 3
    OBVIOUS
  <2> QED BY <1>3, <2>1, <2>2
<1>5. ASSUME rq.aiu PROVE Len(Tiles) = 4 /\ Tiles[4] = "aiu256" /\ \A i \in 1 .. 3 : Tiles[i] = Lines[i]
  <2> PICK m \in Nat : m = 3
    OBVIOUS
  <2>1. /\ Len(Tiles) = m + 1 /\ Tiles[m + 1] = "aiu256" /\ \A i \in 1 .. m : Tiles[i] = Lines[i]
    <3>1. Len(Lines) = m
      BY <1>4
    <3>2. Tiles = Append(Lines, "aiu256")
      BY <1>5 DEF Tiles
    <3>3. "aiu256" \in Tokens
      BY <1>1
    <3> QED BY <1>4, <3>1, <3>2, <3>3, Appended
  <2> QED BY <2>1
<1> QED BY <1>4, <1>5

(* And those of a weight whose words are converted.                        *)
LEMMA WordsAre ==
  ASSUME NEW m \in Nat, Len(Tiles) = m
  PROVE  LET t == Append(Append(Tiles, "cvtword"), "bias")
         IN  /\ t \in Seq(Tokens) /\ Len(t) = m + 2 /\ t[m + 1] = "cvtword" /\ t[m + 2] = "bias"
             /\ \A i \in 1 .. m : t[i] = Tiles[i]
<1>1. Tiles \in Seq(Tokens) /\ "cvtword" \in Tokens /\ "bias" \in Tokens
  BY StepsAreTokens DEF Tokens
<1> DEFINE u == Append(Tiles, "cvtword")
           t == Append(u, "bias")
<1>2. u \in Seq(Tokens) /\ Len(u) = m + 1 /\ u[m + 1] = "cvtword" /\ \A i \in 1 .. m : u[i] = Tiles[i]
  BY <1>1, Appended
<1>3. m + 1 \in Nat
  OBVIOUS
<1> HIDE DEF u
<1>4. /\ t \in Seq(Tokens) /\ Len(t) = (m + 1) + 1 /\ t[(m + 1) + 1] = "bias"
      /\ \A i \in 1 .. m + 1 : t[i] = u[i]
  BY <1>1, <1>2, <1>3, Appended
<1> HIDE DEF t
<1>5. t \in Seq(Tokens) /\ Len(t) = m + 2 /\ t[m + 1] = "cvtword" /\ t[m + 2] = "bias" /\ \A i \in 1 .. m : t[i] = Tiles[i]
  <2>1. m + 1 \in 1 .. m + 1 /\ (m + 1) + 1 = m + 2 /\ \A i \in 1 .. m : i \in 1 .. m + 1
    OBVIOUS
  <2> QED BY <1>2, <1>4, <2>1
<1> QED BY <1>5 DEF t, u

(* The elements are in the buffer.                                         *)
LEMMA NamedStands ==
  ASSUME NamedInv, stage \in Moving
  PROVE  Sized /\ steps = StepsAt(stage) /\ TracedBy(where, StepsAt(stage)) /\ AllIn(where) /\ rq.mma \in BOOLEAN
<1>1. Sized /\ rq.mma \in BOOLEAN
  BY RequestsAreSized DEF NamedInv, Asked, Requests
<1>2. steps = StepsAt(stage) /\ TracedBy(where, StepsAt(stage))
  BY DEF NamedInv, SpelledAt
<1>3. AllIn(where)
  BY <1>2 DEF TracedBy, Traced, AllIn
<1> QED BY <1>1, <1>2, <1>3

(* A call for a named layout.                                              *)
LEMMA LayoutNamed == ASSUME NamedInv, PreprocessToLayout PROVE NamedInv'
<1> DEFINE plan == Registry[rq.name]
<1>1. stage = "call" /\ rq.op = "layout"
  BY DEF PreprocessToLayout
<1>2. CASE Refuse
  BY <1>2, NamedRefusal
<1>3. CASE rq.name = "logical" /\ Begin("done")
  <2>1. Logical /\ rq.aiu = FALSE
    BY <1>1, <1>3 DEF Logical, NamedInv, Asked
  <2>2. AtStage("done")
    BY <2>1 DEF AtStage
  <2> QED BY <1>1, <1>3, <2>1, <2>2, NamedBeginning
<1>4. CASE /\ rq.name \in DOMAIN Registry /\ rq.name # "logical" /\ KnownType(rq.type) /\ TypeBits[rq.type] = plan.bits
           /\ rq' = [rq EXCEPT !.mma = plan.mma, !.aiu = plan.aiu]
           /\ stage' = "op" /\ UNCHANGED <<where, steps, restored>>
  <2>1. plan.mma \in BOOLEAN /\ plan.aiu \in BOOLEAN
    <3>1. rq.name \in {"mixed_gemm", "mixed_gemm_aiu", "w4a8", "mixed_gemm_int8", "mixed_gemm_int2"}
      BY <1>4 DEF Registry
    <3>2. CASE rq.name = "w4a8"
      <4>1. plan.mma = TRUE /\ plan.aiu = FALSE
        BY <3>2 DEF Registry, Layout
      <4> QED BY <4>1
    <3>3. CASE rq.name = "mixed_gemm_aiu"
      <4>1. plan.mma = FALSE /\ plan.aiu = TRUE
        BY <3>3 DEF Registry, Layout
      <4> QED BY <4>1
    <3>4. CASE rq.name \in {"mixed_gemm", "mixed_gemm_int8", "mixed_gemm_int2"}
      <4>1. plan.mma = FALSE /\ plan.aiu = FALSE
        BY <3>4 DEF Registry, Layout
      <4> QED BY <4>1
    <3> QED BY <3>1, <3>2, <3>3, <3>4
  <2>2. rq' \in Requests
    BY <1>4, <2>1 DEF NamedInv, Asked, Requests
  <2>3. /\ rq'.type = rq.type /\ rq'.name = rq.name /\ rq'.op = rq.op
        /\ rq'.mma = plan.mma /\ rq'.aiu = plan.aiu
    BY <1>4 DEF NamedInv, Asked, Requests
  <2>4. KnownType(rq.type)' /\ ~Logical' /\ rq'.op = "layout"
    BY <1>1, <1>4, <2>3 DEF KnownType, TypeBits, Logical
  <2>5. Planned'
    BY <1>4, <2>3 DEF Planned
  <2>6. AtStage(stage)'
    BY <1>4, <2>4, <2>5 DEF AtStage, Moving
  <2>7. SpelledAt(stage, steps, where)'
    BY <1>1, <1>4 DEF SpelledAt, Moving, NamedInv
  <2>8. Asked'
    <3>1. Requests' = Requests
      BY DEF Requests
    <3> QED BY <2>2, <2>4, <3>1 DEF Asked
  <2> QED BY <2>6, <2>7, <2>8 DEF NamedInv
<1> HIDE DEF plan
<1> QED BY <1>2, <1>3, <1>4 DEF PreprocessToLayout, plan

(* The ops that begin a chain. One for the AIU is of whole tiles.          *)
LEMMA OpsNamed ==
  ASSUME NamedInv, PreprocessOp \/ SymmetricQuantize \/ PermuteOp \/ TransposeOp
  PROVE  NamedInv'
<1>1. CASE Refuse
  BY <1>1, NamedRefusal
<1>2. CASE PreprocessOp /\ ~Refuse
  <2>1. /\ KnownType(rq.type) /\ Begin("permute") /\ stage \in {"call", "op"}
        /\ stage = "op" \/ rq.op = "flags"
        /\ rq.aiu => rq.useAiu /\ BitsPerElt = 4 /\ Rows % 256 = 0 /\ Cols % 256 = 0
    BY <1>2 DEF PreprocessOp
  <2>2. rq.aiu \in BOOLEAN /\ rq.useAiu \in BOOLEAN
    BY DEF NamedInv, Asked, Requests
  <2>3. rq.aiu => AiuMade
    BY <2>1, <2>2 DEF AiuMade, Whole
  <2>4. ~Logical /\ (rq.op = "layout" => Planned) /\ rq.op \in {"layout", "flags"}
    BY <2>1 DEF NamedInv, AtStage, Logical
  <2>5. AtStage("permute")
    BY <2>1, <2>3, <2>4 DEF AtStage
  <2> QED BY <2>1, <2>5, NamedBeginning
<1>3. CASE (SymmetricQuantize \/ PermuteOp \/ TransposeOp) /\ ~Refuse
  <2>1. /\ KnownType(rq.type) /\ stage = "call" /\ rq.op \in {"symmetric", "permute", "transpose"}
        /\ rq.op # "transpose" => Begin("permute")
        /\ rq.op = "transpose" => Begin("transpose")
    BY <1>3 DEF SymmetricQuantize, PermuteOp, TransposeOp
  <2>2. rq.aiu = FALSE /\ ~Logical
    BY <2>1 DEF NamedInv, Asked, Logical
  <2>3. CASE rq.op # "transpose"
    <3>1. AtStage("permute")
      BY <2>1, <2>2, <2>3 DEF AtStage
    <3> QED BY <2>1, <2>3, <3>1, NamedBeginning
  <2>4. CASE rq.op = "transpose"
    <3>1. AtStage("transpose")
      BY <2>1, <2>2, <2>4 DEF AtStage
    <3> QED BY <2>1, <2>4, <3>1, NamedBeginning
  <2> QED BY <2>3, <2>4
<1> QED BY <1>1, <1>2, <1>3

(* The permutation of rows.                                                *)
LEMMA PermuteNamed == ASSUME NamedInv, PermuteRows PROVE NamedInv'
<1>1. CASE Refuse
  BY <1>1, NamedRefusal
<1>2. CASE ~Refuse
  <2> DEFINE s == IF rq.op = "permute" THEN "done" ELSE "transpose"
  <2>1. /\ stage = "permute" /\ Take(<<RowToken>>, Permuted, s)
        /\ Whole(Rows, RowsPerMma) /\ (rq.mma => RowsPerMma = 32)
    BY <1>2 DEF PermuteRows, Whole
  <2>2. /\ Sized /\ steps = << >> /\ TracedBy(where, << >>) /\ AllIn(where) /\ rq.mma \in BOOLEAN
    BY <2>1, NamedStands DEF Moving, StepsAt
  <2>3. KnownType(rq.type) /\ ~Logical /\ rq.op # "transpose" /\ (rq.aiu => AiuMade) /\ (rq.op = "layout" => Planned)
    BY <2>1 DEF NamedInv, AtStage, Moving
  <2>4. RowToken \in Tokens /\ << >> \in Seq(Tokens)
    BY DEF RowToken, Tokens
  <2>5. steps \o <<RowToken>> = RowsPermuted
    BY <2>2, <2>4, OneMore DEF RowsPermuted
  <2>6. TracedBy(Permuted, RowsPermuted)
    <3>1. Moves(RowToken, Permuted)
      BY <2>1, <2>2, <2>3, PermutedMoves
    <3> QED BY <2>2, <2>3, <2>4, <3>1, TracedOnce DEF RowsPermuted
  <2>7. StepsAt(s) = RowsPermuted /\ s \notin {"call", "op"}
    BY <2>3 DEF StepsAt
  <2>8. AtStage(s)
    BY <2>3 DEF AtStage
  <2> HIDE DEF s
  <2>9. steps \o <<RowToken>> = StepsAt(s) /\ TracedBy(Permuted, StepsAt(s))
    BY <2>2, <2>5, <2>6, <2>7
  <2> QED BY <2>1, <2>7, <2>8, <2>9, NamedTaking
<1> QED BY <1>1, <1>2

(* The transpose.                                                          *)
LEMMA TransposeNamed == ASSUME NamedInv, SubbyteTranspose PROVE NamedInv'
<1>1. CASE Refuse
  BY <1>1, NamedRefusal
<1>2. CASE ~Refuse
  <2> DEFINE s == IF rq.op = "transpose" THEN "done" ELSE "interleave"
             before == IF rq.op = "transpose" THEN << >> ELSE RowsPermuted
  <2>1. stage = "transpose" /\ Take(<<"tr">>, Transposed, s) /\ Vectors
    BY <1>2 DEF SubbyteTranspose, Vectors
  <2>2. Sized /\ steps = before /\ TracedBy(where, before) /\ AllIn(where)
    BY <2>1, NamedStands DEF Moving, StepsAt
  <2>3. KnownType(rq.type) /\ ~Logical /\ rq.op # "permute" /\ (rq.aiu => AiuMade) /\ (rq.op = "layout" => Planned)
    BY <2>1 DEF NamedInv, AtStage, Moving
  <2>4. "tr" \in Tokens /\ before \in Seq(Tokens)
    BY StepsAreTokens DEF Tokens
  <2>5. StepsAt(s) = Append(before, "tr") /\ s \notin {"call", "op"}
    BY <2>3 DEF StepsAt, Turned
  <2>6. AtStage(s)
    BY <2>1, <2>3 DEF AtStage
  <2> HIDE DEF s, before
  <2>7. before \o <<"tr">> = Append(before, "tr")
    BY <2>4, OneMore
  <2>8. TracedBy(Transposed, Append(before, "tr"))
    <3>1. Moves("tr", Transposed)
      BY <2>2, TransposedMoves
    <3> QED BY <2>2, <2>3, <2>4, <3>1, TracedOnce
  <2>9. steps \o <<"tr">> = StepsAt(s) /\ TracedBy(Transposed, StepsAt(s))
    BY <2>2, <2>5, <2>7, <2>8
  <2> QED BY <2>1, <2>5, <2>6, <2>9, NamedTaking
<1> QED BY <1>1, <1>2

(* A multiple of a size is so many of it.                                  *)
LEMMA WholeParts ==
  ASSUME NEW R \in Nat \ {0}
  PROVE  /\ Whole(R, 64) => \E a \in Nat \ {0} : IsLines(R, a)
         /\ Whole(R, 256) => \E a \in Nat \ {0} : IsRows(R, a)
         /\ Whole(R, 4) => \E V \in Nat \ {0} : OfWords(R, V, 4)
         /\ Whole(R, 8) => \E V \in Nat \ {0} : OfWords(R, V, 8)
<1>1. R % 64 = 0 => (R \div 64) \in Nat \ {0} /\ R = 64 * (R \div 64)
  OBVIOUS
<1>2. R % 256 = 0 => (R \div 256) \in Nat \ {0} /\ R = 256 * (R \div 256)
  OBVIOUS
<1>3. R % 4 = 0 => (R \div 4) \in Nat \ {0} /\ R = 4 * (R \div 4)
  OBVIOUS
<1>4. R % 8 = 0 => (R \div 8) \in Nat \ {0} /\ R = 8 * (R \div 8)
  OBVIOUS
<1> QED BY <1>1, <1>2, <1>3, <1>4 DEF Whole, IsLines, IsRows, OfWords

(* Rows that are whole vectors of int4s are whole lines; of int8s they are *)
(* half a line too many when they are not.                                 *)
LEMMA VectorLines ==
  ASSUME Sized, KnownType(rq.type), Vectors, Whole(Rows, EltsPerReg)
  PROVE  /\ BitsPerElt = 8 => Whole(Rows, 32)
         /\ BitsPerElt # 8 => Whole(Rows, 64)
<1>1. PICK R \in Nat \ {0} : R = Rows
  BY DEF Sized, Rows
<1>2. CASE BitsPerElt = 8
  <2>1. ((R * 8) \div 8) % 32 = 0
    BY <1>1, <1>2 DEF Vectors
  <2>2. ((R * 8) \div 8) = R
    OBVIOUS
  <2> QED BY <1>1, <1>2, <2>1, <2>2 DEF Whole
<1>3. CASE BitsPerElt # 8
  <2>1. BitsPerElt = 4 /\ EltsPerReg = 8
    BY <1>3, WordSizes
  <2>2. ((R * 4) \div 8) % 32 = 0 /\ R % 8 = 0
    BY <1>1, <2>1 DEF Vectors, Whole
  <2>3. R % 64 = 0
    BY <2>2
  <2> QED BY <1>1, <1>3, <2>3 DEF Whole
<1> QED BY <1>2, <1>3

(* The interleave of columns: it stays in the buffer when the lines are    *)
(* whole, and leaves it when they are not.                                 *)
LEMMA InterleaveNamed == ASSUME NamedInv, InterleaveColumns PROVE NamedInv'
<1>1. CASE Refuse
  BY <1>1, NamedRefusal
<1>2. CASE ~Refuse
  <2> DEFINE s == IF WritesPastEnd THEN "overrun" ELSE "aiu"
  <2>1. /\ stage = "interleave" /\ Take(<<LineToken>>, Lined, s)
        /\ Whole(Rows, EltsPerReg) /\ Whole(Cols, 64)
    BY <1>2 DEF InterleaveColumns, Lined, Tile, LineToken, Whole
  <2>2. Sized /\ steps = Turned /\ TracedBy(where, Turned) /\ AllIn(where)
    BY <2>1, NamedStands DEF Moving, StepsAt
  <2>3. /\ KnownType(rq.type) /\ ~Logical /\ rq.op \notin {"permute", "transpose"} /\ (rq.aiu => AiuMade) /\ Vectors
        /\ rq.op = "layout" => Planned
    BY <2>1 DEF NamedInv, AtStage, Moving
  <2>4. Rows \in Nat \ {0} /\ Cols \in Nat \ {0}
    BY <2>2 DEF Sized, Rows, Cols
  <2>5. PICK b \in Nat \ {0} : IsLines(Cols, b)
    BY <2>1, <2>4, WholeParts
  <2>6. CASE WritesPastEnd
    <3>1. BitsPerElt = 8 /\ ~Whole(Rows, 64)
      <4>1. Whole(Rows, 64) => ~WritesPastEnd
        <5>1. ASSUME Whole(Rows, 64) PROVE ~WritesPastEnd
          <6>1. PICK a \in Nat \ {0} : IsLines(Rows, a)
            BY <2>4, <5>1, WholeParts
          <6> QED BY <2>2, <2>3, <2>5, <6>1, WholeLinesStay
        <5> QED BY <5>1
      <4> QED BY <2>1, <2>2, <2>3, <2>6, <4>1, VectorLines
    <3>2. AtStage("overrun")
      BY <3>1 DEF AtStage, Moving
    <3>3. Take(<<LineToken>>, Lined, "overrun") /\ "overrun" \notin Moving
      BY <2>1, <2>6 DEF Moving
    <3> QED BY <3>2, <3>3, NamedTaking
  <2>7. CASE ~WritesPastEnd
    <3>1. Whole(Rows, 64)
      <4>1. BitsPerElt = 8 /\ ~Whole(Rows, 64) => WritesPastEnd
        BY <2>1, <2>2, <2>3, <2>5, VectorLines, RaggedLinesOverrun
      <4> QED BY <2>1, <2>2, <2>3, <2>7, <4>1, VectorLines
    <3>2. PICK a \in Nat \ {0} : IsLines(Rows, a)
      BY <2>4, <3>1, WholeParts
    <3>3. PICK V \in Nat \ {0} : OfWords(Rows, V, EltsPerReg)
      <4>1. EltsPerReg \in {4, 8}
        BY <2>3, WordSizes
      <4> QED BY <2>1, <2>4, <4>1, WholeParts
    <3>4. Moves(LineToken, Lined)
      BY <2>2, <2>3, <2>5, <3>2, <3>3, LinedMoves
    <3>5. LineToken \in Tokens /\ Turned \in Seq(Tokens)
      BY StepsAreTokens DEF LineToken, Tokens
    <3>6. TracedBy(Lined, Lines)
      BY <2>2, <2>3, <3>4, <3>5, TracedOnce DEF Lines
    <3>7. StepsAt("aiu") = Lines /\ steps \o <<LineToken>> = Lines
      <4>1. steps \o <<LineToken>> = Append(steps, LineToken)
        BY <2>2, <3>5, OneMore
      <4> QED BY <2>2, <4>1 DEF StepsAt, Lines
    <3>8. AtStage("aiu")
      BY <2>1, <2>3, <3>1 DEF AtStage
    <3>9. Take(<<LineToken>>, Lined, "aiu")
      BY <2>1, <2>7
    <3> QED BY <3>6, <3>7, <3>8, <3>9, NamedTaking
  <2> QED BY <2>6, <2>7
<1> QED BY <1>1, <1>2

(* The AIU's interleave is taken when it was asked for.                    *)
LEMMA AiuNamed == ASSUME NamedInv, AiuInterleave PROVE NamedInv'
<1>1. stage = "aiu"
  BY DEF AiuInterleave
<1>2. Sized /\ steps = Lines /\ TracedBy(where, Lines) /\ AllIn(where)
  BY <1>1, NamedStands DEF Moving, StepsAt
<1>3. AtStage("bias") /\ KnownType(rq.type) /\ (rq.aiu => AiuMade)
  BY <1>1 DEF NamedInv, AtStage, Moving
<1>4. Lines \in Seq(Tokens) /\ "aiu256" \in Tokens
  BY StepsAreTokens DEF Tokens
<1>5. StepsAt("bias") = Tiles
  BY DEF StepsAt
<1>6. CASE Take(<<"aiu256">>, AiuInterleaved, "bias") /\ rq.aiu
  <2>1. BitsPerElt = 4 /\ Rows \in Nat \ {0} /\ Whole(Rows, 256)
    BY <1>2, <1>3, <1>6 DEF AiuMade, Sized, Rows
  <2>2. PICK a \in Nat \ {0} : IsRows(Rows, a)
    BY <2>1, WholeParts
  <2>3. Moves("aiu256", AiuInterleaved)
    BY <1>2, <1>3, <2>1, <2>2, AiuInterleavedMoves
  <2>4. TracedBy(AiuInterleaved, Append(Lines, "aiu256"))
    BY <1>2, <1>3, <1>4, <2>3, TracedOnce
  <2>5. Tiles = Append(Lines, "aiu256") /\ steps \o <<"aiu256">> = Append(Lines, "aiu256")
    BY <1>2, <1>4, <1>6, OneMore DEF Tiles
  <2> QED BY <1>3, <1>5, <1>6, <2>4, <2>5, NamedTaking
<1>7. CASE Take(<< >>, where, "bias") /\ ~rq.aiu
  <2>1. Tiles = Lines /\ steps \o << >> = Lines
    BY <1>2, <1>4, <1>7 DEF Tiles
  <2> QED BY <1>2, <1>3, <1>5, <1>7, <2>1, NamedTaking
<1>8. AiuMade => rq.useAiu /\ BitsPerElt = 4 /\ Rows % 256 = 0 /\ Cols % 256 = 0
  BY DEF AiuMade, Whole
<1> QED BY <1>3, <1>6, <1>7, <1>8 DEF AiuInterleave

(* The bias, and the order of a word.                                      *)
LEMMA BiasNamed == ASSUME NamedInv, AddBiasAndInterleave PROVE NamedInv'
<1>1. stage = "bias"
  BY DEF AddBiasAndInterleave
<1>2. Sized /\ steps = Tiles /\ TracedBy(where, Tiles) /\ AllIn(where)
  BY <1>1, NamedStands DEF Moving, StepsAt
<1>3. AtStage("done") /\ KnownType(rq.type) /\ ~Logical /\ rq.op \notin {"permute", "transpose"} /\ Whole(Rows, 64)
  BY <1>1 DEF NamedInv, AtStage, Moving
<1>4. Tiles \in Seq(Tokens) /\ "cvtword" \in Tokens /\ "bias" \in Tokens
  BY StepsAreTokens DEF Tokens
<1>5. CASE Refuse
  BY <1>5, NamedRefusal
<1>6. CASE Take(<< >>, where, "done") /\ rq.mma
  <2>1. StepsAt("done") = Tiles /\ steps \o << >> = Tiles
    BY <1>2, <1>3, <1>4, <1>6 DEF StepsAt
  <2> QED BY <1>2, <1>3, <1>6, <2>1, NamedTaking
<1>7. CASE Take(<<"cvtword", "bias">>, Relayout, "done") /\ ~rq.mma
  <2>1. Rows \in Nat \ {0} /\ EltsPerReg \in {4, 8}
    BY <1>2, <1>3, WordSizes DEF Sized, Rows
  <2>2. PICK V \in Nat \ {0} : OfWords(Rows, V, EltsPerReg)
    <3>1. PICK a \in Nat \ {0} : IsLines(Rows, a)
      BY <1>3, <2>1, WholeParts
    <3>2. 16 * a \in Nat \ {0} /\ 8 * a \in Nat \ {0} /\ Rows = 4 * (16 * a) /\ Rows = 8 * (8 * a)
      BY <3>1 DEF IsLines
    <3> QED BY <2>1, <3>2 DEF OfWords
  <2>3. Moves("cvtword", Relayout)
    BY <1>2, <1>3, <2>2, RelayoutMoves
  <2> DEFINE once == Append(Tiles, "cvtword")
  <2>4. once \in Seq(Tokens)
    BY <1>4
  <2>5. TracedBy(Relayout, once)
    BY <1>2, <1>3, <1>4, <2>3, TracedOnce
  <2>6. Tiles \o <<"cvtword", "bias">> = Append(once, "bias")
    BY <1>4
  <2>7. StepsAt("done") = Append(once, "bias")
    BY <1>3, <1>7 DEF StepsAt
  <2> HIDE DEF once
  <2>8. TracedBy(Relayout, Append(once, "bias"))
    BY <1>2, <1>3, <2>4, <2>5, TracedBias
  <2> QED BY <1>2, <1>3, <1>7, <2>6, <2>7, <2>8, NamedTaking
<1> QED BY <1>5, <1>6, <1>7 DEF AddBiasAndInterleave

(* It holds when a call is made.                                           *)
LEMMA NamedStarts == PlaceInit => NamedInv
<1> SUFFICES ASSUME PlaceInit PROVE NamedInv
  OBVIOUS
<1>1. rq \in Requests /\ rq \in Calls /\ stage = "call" /\ steps = << >>
  BY CallsAreRequests DEF PlaceInit
<1>2. rq.op \in {"layout", "symmetric", "permute", "transpose"} => rq.aiu = FALSE
  BY <1>1 DEF Calls
<1>3. Asked
  BY <1>1, <1>2 DEF Asked, Logical
<1>4. AtStage("call") /\ SpelledAt("call", << >>, where)
  BY DEF AtStage, SpelledAt, Moving
<1> QED BY <1>1, <1>3, <1>4 DEF NamedInv

(* Every step keeps it.                                                    *)
LEMMA NamedSteps == NamedInv /\ [PlaceNext]_placeVars => NamedInv'
<1> SUFFICES ASSUME NamedInv, [PlaceNext]_placeVars PROVE NamedInv'
  OBVIOUS
<1>1. CASE UNCHANGED placeVars
  <2>1. rq' = rq /\ stage' = stage /\ where' = where /\ steps' = steps
    BY <1>1 DEF placeVars
  <2> QED BY <2>1, NamedOnward DEF NamedInv
<1>2. CASE Restore
  <2>1. rq' = rq /\ stage' = "restored"
    BY <1>2 DEF Restore
  <2>2. AtStage("restored") /\ SpelledAt("restored", steps', where')
    BY DEF AtStage, SpelledAt, Moving
  <2> QED BY <2>1, <2>2, NamedOnward
<1>3. CASE PlaceNext /\ ~Restore
  BY <1>1, <1>3, LayoutNamed, OpsNamed, PermuteNamed, TransposeNamed, InterleaveNamed, AiuNamed, BiasNamed
     DEF PlaceNext, Placed
<1> QED BY <1>1, <1>2, <1>3

(* The steps of a named layout are the tokens of its name.                 *)
LEMMA TokensOfName ==
  ASSUME Planned, KnownType(rq.type), rq.op = "layout", ~Logical
  PROVE  StepsAt("done") = Registry[rq.name].tokens
<1> DEFINE worded == Append(Append(Tiles, "cvtword"), "bias")
           tokens == Registry[rq.name].tokens
<1>1. rq.name \in {"mixed_gemm", "mixed_gemm_aiu", "w4a8", "mixed_gemm_int8", "mixed_gemm_int2"}
  BY DEF Planned, Registry
<1>2. StepsAt("done") = IF rq.mma THEN Tiles ELSE worded
  BY DEF StepsAt
<1>3. BitsPerElt = Registry[rq.name].bits /\ BitsPerElt \in {4, 8}
  BY WordSizes DEF Planned, BitsPerElt
<1>4. ASSUME ~rq.aiu
      PROVE  /\ Tiles = Lines
             /\ worded \in Seq(Tokens) /\ Len(worded) = 5 /\ worded[4] = "cvtword" /\ worded[5] = "bias"
             /\ worded[1] = RowToken /\ worded[2] = "tr" /\ worded[3] = LineToken
  <2>1. Tiles = Lines
    BY <1>4 DEF Tiles
  <2>2. Len(Tiles) = 3
    BY <2>1, LinesAre
  <2>3. /\ worded \in Seq(Tokens) /\ Len(worded) = 3 + 2 /\ worded[3 + 1] = "cvtword" /\ worded[3 + 2] = "bias"
        /\ \A i \in 1 .. 3 : worded[i] = Tiles[i]
    BY <2>2, WordsAre
  <2> HIDE DEF worded
  <2>4. 1 \in 1 .. 3 /\ 2 \in 1 .. 3 /\ 3 \in 1 .. 3
    OBVIOUS
  <2> QED BY <2>1, <2>3, <2>4, LinesAre
<1> HIDE DEF worded
<1>5. CASE rq.name \in {"mixed_gemm", "mixed_gemm_int8"}
  <2>1. /\ Registry[rq.name].mma = FALSE /\ Registry[rq.name].aiu = FALSE
        /\ Registry[rq.name].bits = (IF rq.name = "mixed_gemm" THEN 4 ELSE 8)
    BY <1>5 DEF Registry, Layout
  <2>2. tokens = <<RowToken, "tr", LineToken, "cvtword", "bias">>
    <3>1. CASE rq.name = "mixed_gemm"
      <4>1. BitsPerElt = 4 /\ ~rq.mma
        BY <1>3, <2>1, <3>1 DEF Planned
      <4>2. RowToken = "mmarow32" /\ LineToken = "cl4"
        BY <4>1 DEF RowToken, LineToken
      <4>3. tokens = <<"mmarow32", "tr", "cl4", "cvtword", "bias">>
        BY <3>1 DEF Registry, Layout
      <4> QED BY <4>2, <4>3
    <3>2. CASE rq.name = "mixed_gemm_int8"
      <4>1. BitsPerElt = 8
        BY <1>3, <2>1, <3>2
      <4>2. RowToken = "mmarow16" /\ LineToken = "cl2"
        BY <4>1 DEF RowToken, LineToken
      <4>3. tokens = <<"mmarow16", "tr", "cl2", "cvtword", "bias">>
        BY <3>2 DEF Registry, Layout
      <4> QED BY <4>2, <4>3
    <3> QED BY <1>5, <3>1, <3>2
  <2>3. ~rq.mma /\ ~rq.aiu
    BY <2>1 DEF Planned
  <2> HIDE DEF tokens
  <2>4. /\ Len(tokens) = 5 /\ tokens[1] = RowToken /\ tokens[2] = "tr" /\ tokens[3] = LineToken
        /\ tokens[4] = "cvtword" /\ tokens[5] = "bias"
    BY <2>2
  <2>5. tokens \in Seq(Tokens)
    BY <2>2 DEF RowToken, LineToken, Tokens
  <2>6. \A i \in 1 .. 5 : worded[i] = tokens[i]
    <3>1. \A i \in 1 .. 5 : i \in {1, 2, 3, 4, 5}
      OBVIOUS
    <3> QED BY <1>4, <2>3, <2>4, <3>1
  <2>7. worded = tokens
    BY <1>4, <2>3, <2>4, <2>5, <2>6, SameSteps
  <2> QED BY <1>2, <2>3, <2>7 DEF tokens
<1>6. CASE rq.name = "mixed_gemm_aiu"
  <2>1. /\ Registry[rq.name].mma = FALSE /\ Registry[rq.name].bits = 4 /\ Registry[rq.name].aiu = TRUE
    BY <1>6 DEF Registry, Layout
  <2>2. ~rq.mma /\ BitsPerElt = 4 /\ rq.aiu
    BY <1>3, <2>1 DEF Planned
  <2>3. RowToken = "mmarow32" /\ LineToken = "cl4"
    BY <2>2 DEF RowToken, LineToken
  <2>4. tokens = <<"mmarow32", "tr", "cl4", "aiu256", "cvtword", "bias">>
    BY <1>6 DEF Registry, Layout
  <2> HIDE DEF tokens
  <2>5. /\ Len(tokens) = 6 /\ tokens[1] = "mmarow32" /\ tokens[2] = "tr" /\ tokens[3] = "cl4"
        /\ tokens[4] = "aiu256" /\ tokens[5] = "cvtword" /\ tokens[6] = "bias"
    BY <2>4
  <2>6. tokens \in Seq(Tokens)
    BY <2>4 DEF Tokens
  <2>7. Len(Tiles) = 4 /\ Tiles[4] = "aiu256" /\ Tiles[1] = "mmarow32" /\ Tiles[2] = "tr" /\ Tiles[3] = "cl4"
    <3>1. 1 \in 1 .. 3 /\ 2 \in 1 .. 3 /\ 3 \in 1 .. 3
      OBVIOUS
    <3> QED BY <2>2, <2>3, <3>1, LinesAre
  <2>8. /\ worded \in Seq(Tokens) /\ Len(worded) = 4 + 2 /\ worded[4 + 1] = "cvtword" /\ worded[4 + 2] = "bias"
        /\ \A i \in 1 .. 4 : worded[i] = Tiles[i]
    BY <2>7, WordsAre DEF worded
  <2>9. \A i \in 1 .. 6 : worded[i] = tokens[i]
    <3>1. \A i \in 1 .. 6 : i \in {1, 2, 3, 4, 5, 6}
      OBVIOUS
    <3>2. worded[1] = Tiles[1] /\ worded[2] = Tiles[2] /\ worded[3] = Tiles[3] /\ worded[4] = Tiles[4]
      <4>1. 1 \in 1 .. 4 /\ 2 \in 1 .. 4 /\ 3 \in 1 .. 4 /\ 4 \in 1 .. 4
        OBVIOUS
      <4> QED BY <2>8, <4>1
    <3>3. worded[5] = "cvtword" /\ worded[6] = "bias"
      BY <2>8
    <3> QED BY <2>5, <2>7, <3>1, <3>2, <3>3
  <2>10. worded = tokens
    BY <2>5, <2>6, <2>8, <2>9, SameSteps
  <2> QED BY <1>2, <2>2, <2>10 DEF tokens
<1>7. CASE rq.name = "w4a8"
  <2>1. /\ Registry[rq.name].mma = TRUE /\ Registry[rq.name].bits = 4 /\ Registry[rq.name].aiu = FALSE
        /\ tokens = <<"mmarow32i", "tr", "cl4">>
    BY <1>7 DEF Registry, Layout
  <2>2. rq.mma /\ BitsPerElt = 4 /\ ~rq.aiu
    BY <1>3, <2>1 DEF Planned
  <2> HIDE DEF tokens
  <2>3. Len(tokens) = 3 /\ tokens[1] = "mmarow32i" /\ tokens[2] = "tr" /\ tokens[3] = "cl4"
    BY <2>1
  <2>4. tokens \in Seq(Tokens)
    BY <2>1 DEF Tokens
  <2>5. RowToken = "mmarow32i" /\ LineToken = "cl4"
    BY <2>2 DEF RowToken, LineToken
  <2>6. Lines \in Seq(Tokens)
    BY StepsAreTokens
  <2>7. \A i \in 1 .. 3 : Lines[i] = tokens[i]
    <3>1. \A i \in 1 .. 3 : i \in {1, 2, 3}
      OBVIOUS
    <3> QED BY <2>3, <2>5, <3>1, LinesAre
  <2>8. Lines = tokens
    BY <2>3, <2>4, <2>6, <2>7, LinesAre, SameSteps
  <2> QED BY <1>2, <1>4, <2>2, <2>8 DEF tokens
<1>8. CASE rq.name = "mixed_gemm_int2"
  <2>1. Registry[rq.name].bits = 2
    BY <1>8 DEF Registry, Layout
  <2> QED BY <1>3, <2>1
<1> QED BY <1>1, <1>5, <1>6, <1>7, <1>8

(* What the chain ends with holds each element where its name says.        *)
LEMMA NamedAtTheEnd == NamedInv => StoredAsNamed
<1> SUFFICES ASSUME NamedInv PROVE StoredAsNamed
  OBVIOUS
<1>1. stage = "overrun" => BitsPerElt = 8 /\ Rows % Tile # 0
  BY DEF NamedInv, AtStage, Whole, Tile
<1>2. ASSUME stage = "done"
      PROVE  /\ rq.op = "layout" => steps = Registry[rq.name].tokens
             /\ rq.aiu => \E i \in DOMAIN steps : steps[i] = "aiu256"
             /\ \A x \in DOMAIN where : /\ where[x] \in 0 .. NumElts - 1
                                        /\ MatrixOf(x) * Rows * Cols + UndoneAt(steps, InMatrix(where[x])) = x
  <2>1. Sized /\ steps = StepsAt("done") /\ TracedBy(where, StepsAt("done"))
    BY <1>2, NamedStands DEF Moving
  <2>2. Logical \/ (KnownType(rq.type) /\ (rq.op = "layout" => Planned))
    BY <1>2 DEF NamedInv, AtStage, Moving
  <2>3. rq.op = "layout" => steps = Registry[rq.name].tokens
    <3>1. CASE Logical
      <4>1. StepsAt("done") = << >> /\ Registry["logical"].tokens = << >>
        BY <3>1 DEF StepsAt, Registry, Layout
      <4> QED BY <2>1, <3>1, <4>1 DEF Logical
    <3>2. CASE ~Logical
      BY <2>1, <2>2, <3>2, TokensOfName
    <3> QED BY <3>1, <3>2
  <2>4. rq.aiu => \E i \in DOMAIN steps : steps[i] = "aiu256"
    <3> SUFFICES ASSUME rq.aiu PROVE \E i \in DOMAIN steps : steps[i] = "aiu256"
      OBVIOUS
    <3>1. ~Logical /\ rq.op \notin {"permute", "transpose"}
      BY DEF NamedInv, Asked
    <3>2. steps = IF rq.mma THEN Tiles ELSE Append(Append(Tiles, "cvtword"), "bias")
      BY <2>1, <3>1 DEF StepsAt
    <3>3. Len(Tiles) = 4 /\ Tiles[4] = "aiu256" /\ Tiles \in Seq(Tokens)
      BY LinesAre, StepsAreTokens
    <3>4. /\ Len(Append(Append(Tiles, "cvtword"), "bias")) = 4 + 2
          /\ \A i \in 1 .. 4 : Append(Append(Tiles, "cvtword"), "bias")[i] = Tiles[i]
      BY <3>3, WordsAre
    <3>5. Append(Append(Tiles, "cvtword"), "bias")[4] = "aiu256"
      <4>1. 4 \in 1 .. 4
        OBVIOUS
      <4> QED BY <3>3, <3>4, <4>1
    <3>6. 4 \in DOMAIN steps /\ steps[4] = "aiu256"
      BY <3>2, <3>3, <3>4, <3>5
    <3> QED BY <3>6
  <2>5. ASSUME NEW x \in DOMAIN where
        PROVE  /\ where[x] \in 0 .. NumElts - 1
               /\ MatrixOf(x) * Rows * Cols + UndoneAt(steps, InMatrix(where[x])) = x
    <3>1. where[x] \in 0 .. NumElts - 1 /\ x \in DOMAIN RowMajor /\ \E f : Follows(f, x, where[x], steps)
      BY <2>1 DEF TracedBy, Traced
    <3>2. steps \in Seq(Tokens)
      BY <2>1, StepsAreTokens
    <3>3. UndoneAt(steps, InMatrix(where[x])) = InMatrix(x)
      BY <3>1, <3>2, TraceUnwinds
    <3>4. x \in 0 .. NumElts - 1
      BY <2>1, <3>1, FollowedIn
    <3>5. x = MatrixOf(x) * Rows * Cols + InMatrix(x)
      BY <2>1, <3>4, PlaceParts
    <3> QED BY <3>1, <3>3, <3>5
  <2> QED BY <2>3, <2>4, <2>5
<1>3. \A p : UndoneAt(steps, p)
        = (CHOOSE undone : undone = [i \in 0 .. Len(steps) |->
             IF i = 0 THEN p
             ELSE Documented(steps[Len(steps) - i + 1], undone[i - 1], Rows, Cols,
                             IF KnownType(rq.type) THEN EltsPerReg ELSE 1)])[Len(steps)]
  BY DEF UndoneAt, Unwinds, WordElts
<1> QED BY <1>1, <1>2, <1>3 DEF StoredAsNamed

(* For every shape, architecture and set of columns: a weight is stored as *)
(* its name says, and only a ragged int8 one is written past its buffer.   *)
THEOREM WeightsAreStoredAsNamed == PlaceSpec => []StoredAsNamed
<1>1. PlaceSpec => []NamedInv
  BY NamedStarts, NamedSteps, PTL DEF PlaceSpec
<1> QED BY <1>1, NamedAtTheEnd, PTL

(* And so beside the other producers and readers, as the run checks it.    *)
THEOREM WeightsAreStoredAsNamedBesideReaders == LayoutsSpec => []StoredAsNamed
<1> DEFINE Quiet == stage = "none"
<1>1. LayoutsInit => NamedInv \/ Quiet
  BY NamedStarts DEF LayoutsInit, NoWeight
<1>2. (NamedInv \/ Quiet) /\ [LayoutsNext]_<<vars, placeVars, kernelVars, xplaneVars>> => (NamedInv \/ Quiet)'
  <2>1. [LayoutsNext]_<<vars, placeVars, kernelVars, xplaneVars>>
          => (stage # "none" /\ PlaceNext) \/ UNCHANGED placeVars
    BY DEF LayoutsNext
  <2>2. UNCHANGED placeVars => stage' = stage
    BY DEF placeVars
  <2> QED BY <2>1, <2>2, NamedSteps
<1>3. NamedInv \/ Quiet => StoredAsNamed
  <2>1. Quiet => StoredAsNamed
    BY DEF StoredAsNamed
  <2> QED BY <2>1, NamedAtTheEnd
<1> QED BY <1>1, <1>2, <1>3, PTL DEF LayoutsSpec

-----------------------------------------------------------------------------
(* The statements of an official block's layout: the reader's, the         *)
(* packer's and the converters'. An output of a conversion is numbered by  *)
(* the bits of its code and of its register, so a conversion fills a       *)
(* fragment with no output twice; what it subtracts stays in the           *)
(* mantissa's field, so the number left is the code less its bias; and     *)
(* each code of a high plane is taken by one read. The fields of a unit    *)
(* are compared one by one, and end before the unit does.                  *)

(* The converter's emission is a sum over the bits of a code's number.     *)
Term(bits, code, i) == ((code \div 2 ^ i) % 2) * CodeStride(bits, i)
Sums(u, bits, code) ==
  u = [i \in 0 .. NumCodeBits(bits) |-> IF i = 0 THEN 0 ELSE u[i - 1] + Term(bits, code, i - 1)]

(* The number of an output: a digit for each bit of the code's number, the *)
(* last of them the least significant, and two for the register.           *)
Digits(bits, code) ==
  CASE bits = 1 -> 2 * (code % 2) + 8 * ((code \div 2) % 2) + 16 * ((code \div 4) % 2)
                     + 32 * ((code \div 8) % 2) + ((code \div 16) % 2)
    [] bits = 2 -> 2 * (code % 2) + 8 * ((code \div 2) % 2) + 16 * ((code \div 4) % 2)
                     + ((code \div 8) % 2)
    [] bits = 4 -> 2 * (code % 2) + 8 * ((code \div 2) % 2) + ((code \div 4) % 2)
OutputOf(bits, code, v) == Digits(bits, code) + 2 * CodesPerVreg(bits) * (v % 2) + 4 * (v \div 2)

(* The bits of a code's number have these strides.                         *)
LEMMA TermsAre ==
  ASSUME NEW code \in Nat
  PROVE  /\ NumCodeBits(1) = 5 /\ NumCodeBits(2) = 4 /\ NumCodeBits(4) = 3
         /\ \A bits \in {1, 2, 4} : Term(bits, code, 0) = 2 * (code % 2) /\ Term(bits, code, 1) = 8 * ((code \div 2) % 2)
         /\ Term(1, code, 2) = 16 * ((code \div 4) % 2) /\ Term(1, code, 3) = 32 * ((code \div 8) % 2)
         /\ Term(1, code, 4) = (code \div 16) % 2
         /\ Term(2, code, 2) = 16 * ((code \div 4) % 2) /\ Term(2, code, 3) = (code \div 8) % 2
         /\ Term(4, code, 2) = (code \div 4) % 2
<1>1. NumCodeBits(1) = 5 /\ NumCodeBits(2) = 4 /\ NumCodeBits(4) = 3
  BY DEF NumCodeBits
<1>2. \A bits \in {1, 2, 4} : CodeStride(bits, 0) = 2 /\ CodeStride(bits, 1) = 8
  BY <1>1, SmallPowers DEF CodeStride
<1>3. /\ CodeStride(1, 2) = 16 /\ CodeStride(1, 3) = 32 /\ CodeStride(1, 4) = 1
      /\ CodeStride(2, 2) = 16 /\ CodeStride(2, 3) = 1 /\ CodeStride(4, 2) = 1
  BY <1>1, SmallPowers DEF CodeStride
<1>4. code \div 1 = code
  OBVIOUS
<1> QED BY <1>1, <1>2, <1>3, <1>4, SmallPowers DEF Term

(* A sum of at most five terms.                                            *)
LEMMA SumIsChosen ==
  ASSUME NEW bits \in {1, 2, 4}, NEW code \in Nat
  PROVE  Sums(CHOOSE u : Sums(u, bits, code), bits, code)
<1> DEFINE N == NumCodeBits(bits)
           Nth(i) == Term(bits, code, i)
           w == [i \in 0 .. N |-> (IF i > 0 THEN Nth(0) ELSE 0) + (IF i > 1 THEN Nth(1) ELSE 0)
                   + (IF i > 2 THEN Nth(2) ELSE 0) + (IF i > 3 THEN Nth(3) ELSE 0) + (IF i > 4 THEN Nth(4) ELSE 0)]
<1>1. N \in 3 .. 5
  BY DEF NumCodeBits
<1>2. \A i \in 0 .. 4 : Nth(i) \in Int
  <2>1. ASSUME NEW i \in 0 .. 4 PROVE 2 ^ i \in Nat \ {0} /\ CodeStride(bits, i) \in Int
    <3>1. i = 0 \/ i = 1 \/ i = 2 \/ i = 3 \/ i = 4
      OBVIOUS
    <3>2. 2 ^ i \in Nat \ {0}
      <4>1. CASE i = 0
        BY <4>1, SmallPowers
      <4>2. CASE i = 1
        BY <4>2, SmallPowers
      <4>3. CASE i = 2
        BY <4>3, SmallPowers
      <4>4. CASE i = 3
        BY <4>4, SmallPowers
      <4>5. CASE i = 4
        BY <4>5, SmallPowers
      <4> QED BY <3>1, <4>1, <4>2, <4>3, <4>4, <4>5
    <3>3. 4 * 2 ^ i \in Int
      BY <3>2
    <3> QED BY <3>2, <3>3 DEF CodeStride
  <2>2. ASSUME NEW i \in 0 .. 4 PROVE Nth(i) \in Int
    <3>1. (code \div 2 ^ i) % 2 \in Int
      BY <2>1
    <3> QED BY <2>1, <3>1 DEF Term
  <2> QED BY <2>2
<1> HIDE DEF N, Nth
<1>3. ASSUME NEW i \in 0 .. N PROVE w[i] = IF i = 0 THEN 0 ELSE w[i - 1] + Nth(i - 1)
  <2>1. i \in 0 .. 5
    BY <1>1
  <2>2. i # 0 => i - 1 \in 0 .. N
    BY <1>1
  <2>3. CASE i = 0
    BY <2>3
  <2>4. CASE i = 1
    BY <1>2, <2>2, <2>4
  <2>5. CASE i = 2
    BY <1>2, <2>2, <2>5
  <2>6. CASE i = 3
    BY <1>2, <2>2, <2>6
  <2>7. CASE i = 4
    BY <1>2, <2>2, <2>7
  <2>8. CASE i = 5
    BY <1>2, <2>2, <2>8
  <2> QED BY <2>1, <2>3, <2>4, <2>5, <2>6, <2>7, <2>8
<1>4. w = [i \in 0 .. N |-> w[i]]
  OBVIOUS
<1> HIDE DEF w
<1>5. w = [i \in 0 .. N |-> IF i = 0 THEN 0 ELSE w[i - 1] + Nth(i - 1)]
  BY <1>3, <1>4
<1>6. Sums(w, bits, code)
  BY <1>5 DEF Sums, N, Nth
<1> QED BY <1>6

(* The emission's index is that number.                                    *)
LEMMA EmissionIs ==
  ASSUME NEW bits \in {1, 2, 4}, NEW code \in Nat, NEW v
  PROVE  EmitIndex(bits, code, v) = OutputOf(bits, code, v)
<1> DEFINE s == CHOOSE u : Sums(u, bits, code)
           Nth(i) == Term(bits, code, i)
           N == NumCodeBits(bits)
<1>1. s = [i \in 0 .. N |-> IF i = 0 THEN 0 ELSE s[i - 1] + Nth(i - 1)]
  BY SumIsChosen DEF Sums
<1>2. EmitIndex(bits, code, v) = s[N] + 2 * CodesPerVreg(bits) * (v % 2) + 4 * (v \div 2)
  BY DEF EmitIndex, Sums, Term
<1>3. N \in 3 .. 5
  BY DEF NumCodeBits
<1> HIDE DEF s, N, Nth
<1>4. s[0] = 0
  BY <1>1, <1>3
<1>5. \A i \in 1 .. N : s[i] = s[i - 1] + Nth(i - 1)
  BY <1>1, <1>3
<1>6. s[1] = s[0] + Nth(0) /\ s[2] = s[1] + Nth(1) /\ s[3] = s[2] + Nth(2)
  <2>1. 1 \in 1 .. N /\ 2 \in 1 .. N /\ 3 \in 1 .. N
    BY <1>3
  <2> QED BY <1>5, <2>1
<1>7. N > 3 => s[4] = s[3] + Nth(3)
  <2>1. N > 3 => 4 \in 1 .. N
    BY <1>3
  <2> QED BY <1>5, <2>1
<1>8. N > 4 => s[5] = s[4] + Nth(4)
  <2>1. N > 4 => 5 \in 1 .. N
    BY <1>3
  <2> QED BY <1>5, <2>1
<1>9. s[N] = Digits(bits, code)
  <2>1. CASE bits = 1
    <3>1. N = 5
      BY <2>1, TermsAre DEF N
    <3> QED BY <1>4, <1>6, <1>7, <1>8, <2>1, <3>1, TermsAre DEF Digits, Nth
  <2>2. CASE bits = 2
    <3>1. N = 4
      BY <2>2, TermsAre DEF N
    <3> QED BY <1>4, <1>6, <1>7, <2>2, <3>1, TermsAre DEF Digits, Nth
  <2>3. CASE bits = 4
    <3>1. N = 3
      BY <2>3, TermsAre DEF N
    <3> QED BY <1>4, <1>6, <2>3, <3>1, TermsAre DEF Digits, Nth
  <2> QED BY <2>1, <2>2, <2>3
<1> QED BY <1>2, <1>9 DEF OutputOf

(* The digits of a number made of five.                                    *)
LEMMA DigitsOf ==
  ASSUME NEW a \in {0, 1}, NEW b \in {0, 1}, NEW c \in {0, 1}, NEW d \in {0, 1}, NEW e \in {0, 1}
  PROVE  LET x == a + 2 * b + 4 * c + 8 * d + 16 * e
         IN  /\ x \in 0 .. 31 /\ x % 2 = a /\ (x \div 2) % 2 = b /\ (x \div 4) % 2 = c
             /\ (x \div 8) % 2 = d /\ (x \div 16) % 2 = e
BY SMT

(* Every number below 128 is made of seven.                                *)
LEMMA DigitsExist ==
  ASSUME NEW x \in 0 .. 127
  PROVE  \E a, b, c, d, e, f, g \in {0, 1} : x = a + 2 * b + 4 * c + 8 * d + 16 * e + 32 * f + 64 * g
<1> DEFINE D(m) == (x \div m) % 2
<1>1. x % 2 \in {0, 1} /\ D(2) \in {0, 1} /\ D(4) \in {0, 1} /\ D(8) \in {0, 1} /\ D(16) \in {0, 1}
      /\ D(32) \in {0, 1} /\ D(64) \in {0, 1}
  BY SMT
<1>2. x = (x % 2) + 2 * D(2) + 4 * D(4) + 8 * D(8) + 16 * D(16) + 32 * D(32) + 64 * D(64)
  BY SMT
<1> HIDE DEF D
<1>3. x % 2 \in {0, 1}
  BY <1>1
<1> PICK a \in {0, 1} : a = x % 2
  BY <1>3
<1> QED BY <1>1, <1>2

(* The extents of each width.                                              *)
LEMMA WidthsAre ==
  /\ CodesPerVreg(1) = 32 /\ CodesPerVreg(2) = 16 /\ CodesPerVreg(4) = 8
  /\ Outputs(1) = 128 /\ Outputs(2) = 64 /\ Outputs(4) = 32
BY DEF CodesPerVreg, Outputs

(* The number of an output, for the digits of the code and the register.   *)
LEMMA OutputIs ==
  ASSUME NEW a \in {0, 1}, NEW b \in {0, 1}, NEW c \in {0, 1}, NEW d \in {0, 1}, NEW e \in {0, 1},
         NEW p \in {0, 1}, NEW q \in {0, 1}
  PROVE  /\ OutputOf(1, a + 2 * b + 4 * c + 8 * d + 16 * e, p + 2 * q) = e + 2 * a + 4 * q + 8 * b + 16 * c + 32 * d + 64 * p
         /\ OutputOf(2, a + 2 * b + 4 * c + 8 * d, p + 2 * q) = d + 2 * a + 4 * q + 8 * b + 16 * c + 32 * p
         /\ OutputOf(4, a + 2 * b + 4 * c, p + 2 * q) = c + 2 * a + 4 * q + 8 * b + 16 * p
<1>1. (p + 2 * q) % 2 = p /\ (p + 2 * q) \div 2 = q
  BY SMT
<1>2. /\ OutputOf(1, a + 2 * b + 4 * c + 8 * d + 16 * e, p + 2 * q) = e + 2 * a + 4 * q + 8 * b + 16 * c + 32 * d + 64 * p
  <2>1. Digits(1, a + 2 * b + 4 * c + 8 * d + 16 * e) = 2 * a + 8 * b + 16 * c + 32 * d + e
    BY SMT, DigitsOf DEF Digits
  <2> QED BY <1>1, <2>1, WidthsAre DEF OutputOf
<1>3. OutputOf(2, a + 2 * b + 4 * c + 8 * d, p + 2 * q) = d + 2 * a + 4 * q + 8 * b + 16 * c + 32 * p
  <2>1. Digits(2, a + 2 * b + 4 * c + 8 * d) = 2 * a + 8 * b + 16 * c + d
    BY SMT, DigitsOf DEF Digits
  <2> QED BY <1>1, <2>1, WidthsAre DEF OutputOf
<1>4. OutputOf(4, a + 2 * b + 4 * c, p + 2 * q) = c + 2 * a + 4 * q + 8 * b + 16 * p
  <2>1. Digits(4, a + 2 * b + 4 * c) = 2 * a + 8 * b + c
    BY SMT, DigitsOf DEF Digits
  <2> QED BY <1>1, <2>1, WidthsAre DEF OutputOf
<1> QED BY <1>2, <1>3, <1>4

(* Every output is some code of some register.                             *)
LEMMA OutputsReached ==
  ASSUME NEW bits \in {1, 2, 4}, NEW x \in 0 .. Outputs(bits) - 1
  PROVE  \E code \in 0 .. CodesPerVreg(bits) - 1, v \in Vregs : OutputOf(bits, code, v) = x
<1>1. x \in 0 .. 127
  BY WidthsAre
<1>2. PICK a, b, c, d, e, f, g \in {0, 1} : x = a + 2 * b + 4 * c + 8 * d + 16 * e + 32 * f + 64 * g
  BY <1>1, DigitsExist
<1>3. CASE bits = 1
  <2>1. OutputOf(1, b + 2 * d + 4 * e + 8 * f + 16 * a, g + 2 * c) = x
    BY <1>2, OutputIs
  <2>2. b + 2 * d + 4 * e + 8 * f + 16 * a \in 0 .. 31 /\ g + 2 * c \in Vregs
    BY DEF Vregs
  <2> QED BY <1>3, <2>1, <2>2, WidthsAre
<1>4. CASE bits = 2
  <2>1. g = 0
    BY <1>2, <1>4, WidthsAre
  <2>2. OutputOf(2, b + 2 * d + 4 * e + 8 * a, f + 2 * c) = x
    BY <1>2, <2>1, OutputIs
  <2>3. b + 2 * d + 4 * e + 8 * a \in 0 .. 15 /\ f + 2 * c \in Vregs
    BY DEF Vregs
  <2> QED BY <1>4, <2>2, <2>3, WidthsAre
<1>5. CASE bits = 4
  <2>1. g = 0 /\ f = 0
    BY <1>2, <1>5, WidthsAre
  <2>2. OutputOf(4, b + 2 * d + 4 * a, e + 2 * c) = x
    BY <1>2, <2>1, OutputIs
  <2>3. b + 2 * d + 4 * a \in 0 .. 7 /\ e + 2 * c \in Vregs
    BY DEF Vregs
  <2> QED BY <1>5, <2>2, <2>3, WidthsAre
<1> QED BY <1>3, <1>4, <1>5

(* ... and no code of a register is numbered past them.                    *)
LEMMA OutputsInRange ==
  ASSUME NEW bits \in {1, 2, 4}, NEW code \in 0 .. CodesPerVreg(bits) - 1, NEW v \in Vregs
  PROVE  OutputOf(bits, code, v) \in 0 .. Outputs(bits) - 1
<1>1. v % 2 \in {0, 1} /\ v \div 2 \in {0, 1}
  BY DEF Vregs
<1>2. code \in 0 .. 31
  BY WidthsAre
<1>3. code % 2 \in {0, 1} /\ (code \div 2) % 2 \in {0, 1} /\ (code \div 4) % 2 \in {0, 1}
      /\ (code \div 8) % 2 \in {0, 1} /\ (code \div 16) % 2 \in {0, 1}
  BY <1>2
<1> PICK p, q, r, s, t \in {0, 1} :
      /\ p = code % 2 /\ q = (code \div 2) % 2 /\ r = (code \div 4) % 2
      /\ s = (code \div 8) % 2 /\ t = (code \div 16) % 2
  BY <1>3
<1>4. CASE bits = 1
  <2>1. Digits(1, code) = 2 * p + 8 * q + 16 * r + 32 * s + t
    BY DEF Digits
  <2>2. Digits(1, code) \in 0 .. 59
    BY <2>1
  <2> QED BY <1>1, <1>4, <2>2, WidthsAre DEF OutputOf
<1>5. CASE bits = 2
  <2>1. Digits(2, code) = 2 * p + 8 * q + 16 * r + s
    BY DEF Digits
  <2>2. Digits(2, code) \in 0 .. 27
    BY <2>1
  <2> QED BY <1>1, <1>5, <2>2, WidthsAre DEF OutputOf
<1>6. CASE bits = 4
  <2>1. Digits(4, code) = 2 * p + 8 * q + r
    BY DEF Digits
  <2>2. Digits(4, code) \in 0 .. 11
    BY <2>1
  <2> QED BY <1>1, <1>6, <2>2, WidthsAre DEF OutputOf
<1> QED BY <1>4, <1>5, <1>6

(* A register's number is two digits, a code's are as many as it has bits. *)
LEMMA RegisterDigits ==
  ASSUME NEW v \in Vregs
  PROVE  \E p, q \in {0, 1} : v = p + 2 * q
<1>1. v = 0 + 2 * 0 \/ v = 1 + 2 * 0 \/ v = 0 + 2 * 1 \/ v = 1 + 2 * 1
  BY DEF Vregs
<1> QED BY <1>1

(* The digits of a pair's number.                                          *)
LEMMA PairDigits ==
  /\ \A t \in Pairs(1) : \E a, b, c, d \in {0, 1} : t = a + 2 * b + 4 * c + 8 * d
  /\ \A t \in Pairs(2) : \E a, b, c \in {0, 1} : t = a + 2 * b + 4 * c
  /\ \A t \in Pairs(4) : \E a, b \in {0, 1} : t = a + 2 * b
<1>1. Pairs(1) = 0 .. 15 /\ Pairs(2) = 0 .. 7 /\ Pairs(4) = 0 .. 3
  BY WidthsAre DEF Pairs
<1>2. ASSUME NEW t \in 0 .. 15
      PROVE  \E a, b, c, d \in {0, 1} : t = a + 2 * b + 4 * c + 8 * d /\ (t < 8 => d = 0) /\ (t < 4 => c = 0)
  <2>1. t \in 0 .. 127
    OBVIOUS
  <2>2. PICK a, b, c, d, e, f, g \in {0, 1} : t = a + 2 * b + 4 * c + 8 * d + 16 * e + 32 * f + 64 * g
    BY <2>1, DigitsExist
  <2>3. e = 0 /\ f = 0 /\ g = 0 /\ (t < 8 => d = 0) /\ (t < 4 => c = 0)
    BY <2>2
  <2>4. t = a + 2 * b + 4 * c + 8 * d
    BY <2>2, <2>3
  <2> QED BY <2>3, <2>4
<1>3. \A t \in Pairs(1) : \E a, b, c, d \in {0, 1} : t = a + 2 * b + 4 * c + 8 * d
  BY <1>1, <1>2
<1>4. ASSUME NEW t \in Pairs(2) PROVE \E a, b, c \in {0, 1} : t = a + 2 * b + 4 * c
  <2>1. t \in 0 .. 15 /\ t < 8
    BY <1>1
  <2>2. PICK a, b, c, d \in {0, 1} : t = a + 2 * b + 4 * c + 8 * d /\ (t < 8 => d = 0) /\ (t < 4 => c = 0)
    BY <1>2, <2>1
  <2> QED BY <2>1, <2>2
<1>5. ASSUME NEW t \in Pairs(4) PROVE \E a, b \in {0, 1} : t = a + 2 * b
  <2>1. t \in 0 .. 15 /\ t < 8 /\ t < 4
    BY <1>1
  <2>2. PICK a, b, c, d \in {0, 1} : t = a + 2 * b + 4 * c + 8 * d /\ (t < 8 => d = 0) /\ (t < 4 => c = 0)
    BY <1>2, <2>1
  <2> QED BY <2>1, <2>2
<1> QED BY <1>3, <1>4, <1>5

(* The two codes of a pair have neighbouring outputs.                      *)
LEMMA PairsAreNeighbours ==
  ASSUME NEW bits \in {1, 2, 4}, NEW t \in Pairs(bits), NEW half \in Halves, NEW v \in Vregs
  PROVE  /\ OutputOf(bits, LoCode(bits, t, half), v) = OutputOf(bits, t, v) + half
         /\ OutputOf(bits, t, v) \in Int /\ OutputOf(bits, t, v) % 2 = 0
<1>1. PICK p, q \in {0, 1} : v = p + 2 * q
  BY RegisterDigits
<1>2. CASE bits = 1
  <2>1. PICK a, b, c, d \in {0, 1} : t = a + 2 * b + 4 * c + 8 * d
    BY <1>2, PairDigits
  <2>2. LoCode(bits, t, half) = a + 2 * b + 4 * c + 8 * d + 16 * half /\ t = a + 2 * b + 4 * c + 8 * d + 16 * 0
    BY <1>2, <2>1 DEF LoCode, Halves
  <2>3. /\ OutputOf(1, LoCode(bits, t, half), v) = half + 2 * a + 4 * q + 8 * b + 16 * c + 32 * d + 64 * p
        /\ OutputOf(1, t, v) = 0 + 2 * a + 4 * q + 8 * b + 16 * c + 32 * d + 64 * p
    BY <1>1, <2>2, OutputIs DEF Halves
  <2> QED BY <1>2, <2>3 DEF Halves
<1>3. CASE bits = 2
  <2>1. PICK a, b, c \in {0, 1} : t = a + 2 * b + 4 * c
    BY <1>3, PairDigits
  <2>2. LoCode(bits, t, half) = a + 2 * b + 4 * c + 8 * half /\ t = a + 2 * b + 4 * c + 8 * 0
    BY <1>3, <2>1 DEF LoCode, Halves
  <2>3. /\ OutputOf(2, LoCode(bits, t, half), v) = half + 2 * a + 4 * q + 8 * b + 16 * c + 32 * p
        /\ OutputOf(2, t, v) = 0 + 2 * a + 4 * q + 8 * b + 16 * c + 32 * p
    BY <1>1, <2>2, OutputIs DEF Halves
  <2> QED BY <1>3, <2>3 DEF Halves
<1>4. CASE bits = 4
  <2>1. PICK a, b \in {0, 1} : t = a + 2 * b
    BY <1>4, PairDigits
  <2>2. LoCode(bits, t, half) = a + 2 * b + 4 * half /\ t = a + 2 * b + 4 * 0
    BY <1>4, <2>1 DEF LoCode, Halves
  <2>3. /\ OutputOf(4, LoCode(bits, t, half), v) = half + 2 * a + 4 * q + 8 * b + 16 * p
        /\ OutputOf(4, t, v) = 0 + 2 * a + 4 * q + 8 * b + 16 * p
    BY <1>1, <2>2, OutputIs DEF Halves
  <2> QED BY <1>4, <2>3 DEF Halves
<1> QED BY <1>2, <1>3, <1>4

(* The wide int4 converter emits in the same order.                        *)
LEMMA ComposedAsEmitted ==
  ASSUME NEW code \in 0 .. 7, NEW v \in Vregs
  PROVE  ComposedInt4(code, v) = OutputOf(4, code, v)
<1>1. PICK p, q \in {0, 1} : v = p + 2 * q
  BY RegisterDigits
<1>2. PICK a, b, c \in {0, 1} : code = a + 2 * b + 4 * c
  <2>1. code \in Pairs(2)
    BY WidthsAre DEF Pairs
  <2> QED BY <2>1, PairDigits
<1> DEFINE eight == 2 * (code % 4) + code \div 4
           out == 8 * <<0, 2, 1, 3>>[v + 1] + eight
           quad == out \div 4
           swapped == CASE quad = 1 -> 2 [] quad = 2 -> 1 [] quad = 5 -> 6 [] quad = 6 -> 5
                        [] OTHER -> quad
<1>3. code % 4 = a + 2 * b /\ code \div 4 = c
  BY <1>2
<1>4. <<0, 2, 1, 3>>[v + 1] = 2 * p + q
  BY <1>1
<1>5. out = 16 * p + 8 * q + 2 * a + 4 * b + c
  BY <1>3, <1>4
<1> HIDE DEF out
<1>6. quad = 4 * p + 2 * q + b /\ out % 4 = 2 * a + c
  BY <1>5
<1> HIDE DEF quad
<1>7. swapped = 4 * p + 2 * b + q
  <2>1. p = 0 \/ p = 1
    OBVIOUS
  <2>2. \/ q = 0 /\ b = 0 /\ quad = 4 * p
        \/ q = 0 /\ b = 1 /\ quad = 4 * p + 1
        \/ q = 1 /\ b = 0 /\ quad = 4 * p + 2
        \/ q = 1 /\ b = 1 /\ quad = 4 * p + 3
    BY <1>6
  <2> QED BY <2>1, <2>2
<1> HIDE DEF swapped
<1>8. ComposedInt4(code, v) = 4 * swapped + (out % 4)
  BY DEF ComposedInt4, swapped, quad, out
<1>9. OutputOf(4, code, v) = c + 2 * a + 4 * q + 8 * b + 16 * p
  BY <1>1, <1>2, OutputIs
<1> QED BY <1>6, <1>7, <1>8, <1>9

(* Pair t reads its low code where placement puts it.                      *)
LEMMA BitsAreTheCodes ==
  ASSUME NEW bits \in {1, 2, 4}, NEW t \in Pairs(bits), NEW half \in Halves
  PROVE  BitRead(bits, t, half) = bits * LoCode(bits, t, half)
<1>1. t \in Nat /\ half \in {0, 1}
  BY WidthsAre DEF Pairs, Halves
<1>2. CASE bits = 1
  BY <1>1, <1>2 DEF BitRead, LoCode, BPos, PerLevel
<1>3. CASE bits = 2
  BY <1>1, <1>3 DEF BitRead, LoCode, BPos, PerLevel
<1>4. CASE bits = 4
  BY <1>1, <1>4 DEF BitRead, LoCode, BPos, PerLevel
<1> QED BY <1>2, <1>3, <1>4

(* The codes of a pair are codes of a register.                            *)
LEMMA CodesAreNumbers ==
  ASSUME NEW bits \in {1, 2, 4}, NEW t \in Pairs(bits), NEW half \in Halves
  PROVE  LoCode(bits, t, half) \in 0 .. CodesPerVreg(bits) - 1 /\ t \in 0 .. CodesPerVreg(bits) - 1 /\ t \in Nat
<1>1. CASE bits = 1
  BY <1>1, WidthsAre DEF Pairs, Halves, LoCode
<1>2. CASE bits = 2
  BY <1>2, WidthsAre DEF Pairs, Halves, LoCode
<1>3. CASE bits = 4
  BY <1>3, WidthsAre DEF Pairs, Halves, LoCode
<1> QED BY <1>1, <1>2, <1>3

(* The emission of one plane.                                              *)
LEMMA Emissions ==
  ASSUME NEW bits \in {1, 2, 4}
  PROVE  EmissionAgrees(bits)
<1>1. CodesPerVreg(bits) \in Nat /\ Outputs(bits) \in Nat \ {0}
  BY WidthsAre
<1>2. Cardinality({EmitIndex(bits, c, v) : c \in 0 .. CodesPerVreg(bits) - 1, v \in Vregs}) = Outputs(bits)
  <2> DEFINE all == {EmitIndex(bits, c, v) : c \in 0 .. CodesPerVreg(bits) - 1, v \in Vregs}
  <2>1. \A c \in 0 .. CodesPerVreg(bits) - 1, v \in Vregs : EmitIndex(bits, c, v) = OutputOf(bits, c, v)
    <3>1. \A c \in 0 .. CodesPerVreg(bits) - 1 : c \in Nat
      BY <1>1
    <3> QED BY <3>1, EmissionIs
  <2>2. all = 0 .. Outputs(bits) - 1
    <3>1. \A x \in 0 .. Outputs(bits) - 1 : x \in all
      BY <2>1, OutputsReached
    <3>2. \A x \in all : x \in 0 .. Outputs(bits) - 1
      BY <2>1, OutputsInRange
    <3> HIDE DEF all
    <3> QED BY <3>1, <3>2
  <2> HIDE DEF all
  <2>3. Cardinality(0 .. Outputs(bits) - 1) = Outputs(bits)
    <3>1. 0 \in Int /\ Outputs(bits) - 1 \in Int /\ ~(0 > Outputs(bits) - 1)
      BY <1>1
    <3> QED BY <1>1, <3>1, FS_Interval
  <2>4. Cardinality(all) = Outputs(bits)
    BY <2>2, <2>3
  <2> QED BY <2>4 DEF all
<1>3. bits = 4 => \A c \in 0 .. 7, v \in Vregs : ComposedInt4(c, v) = EmitIndex(4, c, v)
  <2>1. \A c \in 0 .. 7, v \in Vregs : EmitIndex(4, c, v) = OutputOf(4, c, v)
    <3>1. \A c \in 0 .. 7 : c \in Nat
      OBVIOUS
    <3> QED BY <3>1, EmissionIs
  <2> QED BY <2>1, ComposedAsEmitted
<1>4. ASSUME NEW t \in Pairs(bits), NEW half \in Halves, NEW v \in Vregs
      PROVE  EmitIndex(bits, LoCode(bits, t, half), v) = 2 * OutPair(bits, t, v) + half
  <2>1. LoCode(bits, t, half) \in Nat /\ t \in Nat
    BY <1>1, CodesAreNumbers
  <2>2. EmitIndex(bits, LoCode(bits, t, half), v) = OutputOf(bits, t, v) + half
    BY <2>1, EmissionIs, PairsAreNeighbours
  <2>3. OutPair(bits, t, v) = OutputOf(bits, t, v) \div 2
    BY <2>1, EmissionIs DEF OutPair
  <2>4. OutputOf(bits, t, v) \in Int /\ OutputOf(bits, t, v) % 2 = 0
    BY PairsAreNeighbours
  <2>5. 2 * (OutputOf(bits, t, v) \div 2) = OutputOf(bits, t, v)
    BY <2>4
  <2> QED BY <2>2, <2>3, <2>5
<1> QED BY <1>2, <1>3, <1>4, BitsAreTheCodes DEF EmissionAgrees

(* The pairs' outputs are all pairs of outputs.                            *)
LEMMA OutPairsReached ==
  ASSUME NEW bits \in {1, 2, 4}, NEW h \in 0 .. (Outputs(bits) \div 2) - 1
  PROVE  \E t \in Pairs(bits), v \in Vregs : OutPair(bits, t, v) = h
<1>1. 2 * h \in 0 .. Outputs(bits) - 1
  BY WidthsAre
<1>2. PICK code \in 0 .. CodesPerVreg(bits) - 1, v \in Vregs : OutputOf(bits, code, v) = 2 * h
  BY <1>1, OutputsReached
<1> DEFINE half == code \div (16 \div bits)
           t == code % (16 \div bits)
<1>3. t \in Pairs(bits) /\ half \in Halves /\ LoCode(bits, t, half) = code
  <2>1. CASE bits = 1
    BY <2>1, WidthsAre DEF Pairs, Halves, LoCode
  <2>2. CASE bits = 2
    BY <2>2, WidthsAre DEF Pairs, Halves, LoCode
  <2>3. CASE bits = 4
    BY <2>3, WidthsAre DEF Pairs, Halves, LoCode
  <2> QED BY <2>1, <2>2, <2>3
<1> HIDE DEF half, t
<1>4. OutputOf(bits, t, v) + half = 2 * h /\ OutputOf(bits, t, v) \in Int /\ OutputOf(bits, t, v) % 2 = 0
  BY <1>2, <1>3, PairsAreNeighbours
<1>5. OutputOf(bits, t, v) \div 2 = h
  BY <1>3, <1>4 DEF Halves
<1>6. OutPair(bits, t, v) = h
  <2>1. t \in Nat
    BY <1>3, CodesAreNumbers DEF Halves
  <2> QED BY <1>5, <2>1, EmissionIs DEF OutPair
<1> QED BY <1>3, <1>6

(* The pair of outputs a pair of codes becomes is in the fragment.         *)
LEMMA OutPairsInRange ==
  ASSUME NEW bits \in {1, 2, 4}, NEW t \in Pairs(bits), NEW v \in Vregs
  PROVE  OutPair(bits, t, v) \in 0 .. (Outputs(bits) \div 2) - 1
<1>1. t \in Nat /\ t \in 0 .. CodesPerVreg(bits) - 1
  BY CodesAreNumbers DEF Halves
<1>2. OutPair(bits, t, v) = OutputOf(bits, t, v) \div 2
  BY <1>1, EmissionIs DEF OutPair
<1>3. OutputOf(bits, t, v) \in 0 .. Outputs(bits) - 1
  BY <1>1, OutputsInRange
<1> QED BY <1>2, <1>3, WidthsAre

(* A chunk's outputs fill its fragment: of h pairs, in runs of four, every *)
(* atoms-th run.                                                           *)
Fills(atoms, all) ==
  /\ \A h \in 0 .. all - 1 : KAtom(atoms, 2 * h) \in 0 .. atoms - 1 /\ AtH2(atoms, 2 * h) \in 0 .. (all \div atoms) - 1
  /\ \A c \in 0 .. atoms - 1, x \in 0 .. (all \div atoms) - 1 :
       \E h \in 0 .. all - 1 : KAtom(atoms, 2 * h) = c /\ AtH2(atoms, 2 * h) = x

(* ... and so does every chunk's, whatever runs it keeps.                  *)
LEMMA RunsFill ==
  ASSUME NEW atoms \in {1, 2, 4, 8}, NEW runs \in {1, 2, 4, 8, 16}
  PROVE  Fills(atoms, 4 * atoms * runs)
<1> DEFINE all == 4 * atoms * runs
<1>1. all \div atoms = 4 * runs /\ all \in Nat
  BY SMT
<1>2. ASSUME NEW h \in 0 .. all - 1
      PROVE  KAtom(atoms, 2 * h) \in 0 .. atoms - 1 /\ AtH2(atoms, 2 * h) \in 0 .. 4 * runs - 1
  <2>1. (2 * h) \div 8 = h \div 4 /\ h \in Nat
    BY SMT
  <2>2. KAtom(atoms, 2 * h) = (h \div 4) % atoms
    BY <2>1 DEF KAtom
  <2>3. (h \div 4) % atoms \in 0 .. atoms - 1
    BY <2>1
  <2>4. (2 * h) \div (8 * atoms) \in 0 .. runs - 1
    BY SMT
  <2>5. (2 * h) % 8 \in 0 .. 7
    BY <2>1
  <2> HIDE DEF all
  <2>6. AtH2(atoms, 2 * h) \in 0 .. 4 * runs - 1
    BY <2>4, <2>5 DEF AtH2
  <2> QED BY <2>2, <2>3, <2>6
<1>3. ASSUME NEW c \in 0 .. atoms - 1, NEW x \in 0 .. 4 * runs - 1
      PROVE  \E h \in 0 .. all - 1 : KAtom(atoms, 2 * h) = c /\ AtH2(atoms, 2 * h) = x
  <2> DEFINE q == x \div 4
             r == x % 4
             h == 4 * (c + atoms * q) + r
  <2>1. q \in 0 .. runs - 1 /\ r \in 0 .. 3 /\ x = 4 * q + r
    BY SMT
  <2> HIDE DEF q, r
  <2>2. h \in 0 .. all - 1
    BY <2>1, SMT
  <2>3. (2 * h) \div 8 = c + atoms * q /\ (2 * h) % 8 = 2 * r
    BY <2>1, SMT
  <2>4. (c + atoms * q) % atoms = c
    BY <2>1, SMT
  <2>5. (2 * h) \div (8 * atoms) = q
    BY <2>1, SMT
  <2> HIDE DEF h
  <2>6. KAtom(atoms, 2 * h) = c
    BY <2>3, <2>4 DEF KAtom
  <2>7. AtH2(atoms, 2 * h) = x
    <3>1. AtH2(atoms, 2 * h) = (2 * r + 8 * q) \div 2
      BY <2>3, <2>5 DEF AtH2
    <3> QED BY <2>1, <3>1
  <2> QED BY <2>2, <2>6, <2>7
<1> HIDE DEF all
<1>4. Fills(atoms, all)
  BY <1>1, <1>2, <1>3 DEF Fills
<1> QED BY <1>4 DEF all

(* The chunked passes of a plane.                                          *)
LEMMA Chunks ==
  ASSUME NEW bits \in {2, 4}
  PROVE  ChunksAgree(bits)
<1> SUFFICES ASSUME NEW atoms \in {a \in {1, 2, 4, 8} : Outputs(bits) % (8 * a) = 0}
             PROVE  LET perAtom == Outputs(bits) \div (2 * atoms)
                    IN  /\ UNION {Chunked(bits, atoms, c) : c \in 0 .. atoms - 1} = Pairs(bits) \X Vregs
                        /\ \A c \in 0 .. atoms - 1 :
                             {AtH2(atoms, 2 * OutPair(bits, p[1], p[2])) : p \in Chunked(bits, atoms, c)}
                               = 0 .. perAtom - 1
  BY DEF ChunksAgree
<1> DEFINE all == Outputs(bits) \div 2
           perAtom == Outputs(bits) \div (2 * atoms)
<1>1. PICK runs \in {1, 2, 4, 8} : all = 4 * atoms * runs
  <2>1. CASE bits = 2
    BY <2>1, WidthsAre
  <2>2. CASE bits = 4
    BY <2>2, WidthsAre
  <2> QED BY <2>1, <2>2
<1>2. Fills(atoms, all)
  BY <1>1, RunsFill
<1>3. all \div atoms = perAtom
  <2>1. CASE bits = 2
    BY <2>1, WidthsAre
  <2>2. CASE bits = 4
    BY <2>2, WidthsAre
  <2> QED BY <2>1, <2>2
<1>4. \A t \in Pairs(bits), v \in Vregs : OutPair(bits, t, v) \in 0 .. all - 1
  BY OutPairsInRange
<1>5. \A h \in 0 .. all - 1 : \E t \in Pairs(bits), v \in Vregs : OutPair(bits, t, v) = h
  BY OutPairsReached
<1> HIDE DEF all, perAtom
<1>6. UNION {Chunked(bits, atoms, c) : c \in 0 .. atoms - 1} = Pairs(bits) \X Vregs
  <2>1. ASSUME NEW x \in Pairs(bits) \X Vregs PROVE x \in UNION {Chunked(bits, atoms, c) : c \in 0 .. atoms - 1}
    <3>1. x[1] \in Pairs(bits) /\ x[2] \in Vregs
      OBVIOUS
    <3>2. KAtom(atoms, 2 * OutPair(bits, x[1], x[2])) \in 0 .. atoms - 1
      BY <1>2, <1>4, <3>1 DEF Fills
    <3> QED BY <3>2 DEF Chunked, Keep
  <2>2. ASSUME NEW c \in 0 .. atoms - 1 PROVE Chunked(bits, atoms, c) \subseteq Pairs(bits) \X Vregs
    BY DEF Chunked
  <2> QED BY <2>1, <2>2
<1>7. ASSUME NEW c \in 0 .. atoms - 1
      PROVE  {AtH2(atoms, 2 * OutPair(bits, p[1], p[2])) : p \in Chunked(bits, atoms, c)} = 0 .. perAtom - 1
  <2> DEFINE places == {AtH2(atoms, 2 * OutPair(bits, p[1], p[2])) : p \in Chunked(bits, atoms, c)}
  <2>1. ASSUME NEW p \in Chunked(bits, atoms, c) PROVE AtH2(atoms, 2 * OutPair(bits, p[1], p[2])) \in 0 .. perAtom - 1
    <3>1. p[1] \in Pairs(bits) /\ p[2] \in Vregs
      BY DEF Chunked
    <3> QED BY <1>2, <1>3, <1>4, <3>1 DEF Fills
  <2>2. ASSUME NEW x \in 0 .. perAtom - 1 PROVE x \in places
    <3>1. PICK h \in 0 .. all - 1 : KAtom(atoms, 2 * h) = c /\ AtH2(atoms, 2 * h) = x
      BY <1>2, <1>3 DEF Fills
    <3>2. PICK t \in Pairs(bits), v \in Vregs : OutPair(bits, t, v) = h
      BY <1>5
    <3>3. <<t, v>> \in Chunked(bits, atoms, c)
      BY <3>1, <3>2 DEF Chunked, Keep
    <3> QED BY <3>1, <3>2, <3>3
  <2>3. \A x \in places : x \in 0 .. perAtom - 1
    BY <2>1
  <2> HIDE DEF places
  <2>4. places = 0 .. perAtom - 1
    BY <2>2, <2>3
  <2> QED BY <2>4 DEF places
<1> QED BY <1>6, <1>7 DEF perAtom

(* More powers of two.                                                     *)
LEMMA LargerPowers ==
  2 ^ 5 = 32 /\ 2 ^ 6 = 64
BY SMT

(* A scaled number that stays in the mantissa's field, and a scaled code   *)
(* whose bias is taken off by the subtraction.                             *)
FitsField(x, scale) == x \in Nat /\ x * scale < 1024
Cancels(code, bias, scale) ==
  (MantissaField(code * scale) - MantissaField(bias * scale)) \div scale = code - bias
(* What stays in the field is converted exactly.                           *)
LEMMA ScaledExactly ==
  ASSUME NEW scale \in {1, 4, 16, 64}, NEW code, NEW bias, FitsField(code, scale), FitsField(bias, scale)
  PROVE  Cancels(code, bias, scale)
<1>0. code \in Nat /\ bias \in Nat /\ code * scale < 1024 /\ bias * scale < 1024
  BY DEF FitsField
<1> SUFFICES (MantissaField(code * scale) - MantissaField(bias * scale)) \div scale = code - bias
  BY DEF Cancels
<1>1. code * scale \in Nat /\ bias * scale \in Nat
  BY <1>0
<1>2. MantissaField(code * scale) = 1024 + code * scale /\ MantissaField(bias * scale) = 1024 + bias * scale
  BY <1>0, <1>1 DEF MantissaField
<1>3. MantissaField(code * scale) - MantissaField(bias * scale) = code * scale - bias * scale
  BY <1>1, <1>2
<1>4. CASE scale = 1
  BY <1>0, <1>3, <1>4
<1>5. CASE scale = 4
  BY <1>0, <1>3, <1>5
<1>6. CASE scale = 16
  BY <1>0, <1>3, <1>6
<1>7. CASE scale = 64
  BY <1>0, <1>3, <1>7
<1> QED BY <1>4, <1>5, <1>6, <1>7

(* The scales a two-bit and a four-bit code can have in its lane.          *)
LEMMA ScalesAre ==
  /\ \A t \in Pairs(2) : 2 ^ BPos(2, t) \in {1, 4, 16, 64}
  /\ \A t \in Pairs(4) : 2 ^ BPos(4, t) \in {1, 16}
<1>1. ASSUME NEW t \in Pairs(2) PROVE 2 ^ BPos(2, t) \in {1, 4, 16, 64}
  <2>1. t \in 0 .. 7
    BY WidthsAre DEF Pairs
  <2>2. BPos(2, t) = (t % 4) * 2
    BY DEF BPos, PerLevel
  <2>3. BPos(2, t) = 0 \/ BPos(2, t) = 2 \/ BPos(2, t) = 4 \/ BPos(2, t) = 6
    BY <2>1, <2>2
  <2>4. CASE BPos(2, t) = 0
    BY <2>4, SmallPowers
  <2>5. CASE BPos(2, t) = 2
    BY <2>5, SmallPowers
  <2>6. CASE BPos(2, t) = 4
    BY <2>6, SmallPowers
  <2>7. CASE BPos(2, t) = 6
    BY <2>7, LargerPowers
  <2> QED BY <2>3, <2>4, <2>5, <2>6, <2>7
<1>2. ASSUME NEW t \in Pairs(4) PROVE 2 ^ BPos(4, t) \in {1, 16}
  <2>1. t \in 0 .. 3
    BY WidthsAre DEF Pairs
  <2>2. BPos(4, t) = (t % 2) * 4
    BY DEF BPos, PerLevel
  <2>3. BPos(4, t) = 0 \/ BPos(4, t) = 4
    BY <2>1, <2>2
  <2>4. CASE BPos(4, t) = 0
    BY <2>4, SmallPowers
  <2>5. CASE BPos(4, t) = 4
    BY <2>5, SmallPowers
  <2> QED BY <2>3, <2>4, <2>5
<1> QED BY <1>1, <1>2

(* Codes and biases that are small enough for a width.                     *)
SmallCodes(low, codes, biases) ==
  /\ biases \subseteq Nat
  /\ low = 2 => codes <= 16 /\ \A b \in biases : b < 16
  /\ low = 4 => codes <= 64 /\ \A b \in biases : b < 64
(* They are converted exactly.                                             *)
LEMMA SmallAreExact ==
  ASSUME NEW low \in {2, 4}, NEW high, NEW biases, NEW codes \in Nat, 2 ^ (low + high) = codes,
         SmallCodes(low, codes, biases)
  PROVE  ConversionExact(low, high, biases)
<1> SUFFICES ASSUME NEW bias \in biases, NEW t \in Pairs(low), NEW code \in 0 .. codes - 1
             PROVE  BiasFits(low, bias) /\ Converted(low, bias, t, code) = code - bias
  BY DEF ConversionExact
<1> PICK scale : scale = 2 ^ BPos(low, t)
  OBVIOUS
<1>1. bias \in Nat
  BY DEF SmallCodes
<1>2. CASE low = 2
  <2>1. scale \in {1, 4, 16, 64} /\ code < 16 /\ bias < 16
    BY <1>2, ScalesAre DEF SmallCodes
  <2>2. FitsField(code, scale) /\ FitsField(bias, scale)
    BY <1>1, <2>1 DEF FitsField
  <2>3. 2 ^ (8 - low) = 64
    BY <1>2, LargerPowers
  <2>4. BiasFits(low, bias)
    BY <1>1, <2>1, <2>3 DEF BiasFits
  <2>5. scale \in {1, 4, 16, 64}
    BY <2>1
  <2>6. Cancels(code, bias, scale)
    BY <2>2, <2>5, ScaledExactly
  <2> QED BY <2>4, <2>6 DEF Converted, Cancels
<1>3. CASE low = 4
  <2>1. scale \in {1, 16} /\ code < 64 /\ bias < 64
    BY <1>3, ScalesAre DEF SmallCodes
  <2>2. FitsField(code, scale) /\ FitsField(bias, scale)
    BY <1>1, <2>1 DEF FitsField
  <2>3. 2 ^ (8 - low) = 16
    BY <1>3, SmallPowers
  <2>4. BiasFits(low, bias)
    BY <1>1, <2>1, <2>3 DEF BiasFits
  <2>5. scale \in {1, 4, 16, 64}
    BY <2>1
  <2>6. Cancels(code, bias, scale)
    BY <2>2, <2>5, ScaledExactly
  <2> QED BY <2>4, <2>6 DEF Converted, Cancels
<1> QED BY <1>2, <1>3

(* The conversions of the formats.                                         *)
TwoPlaned == {<<2, 1>>, <<4, 1>>, <<4, 2>>}
(* ... are exact.                                                          *)
LEMMA Conversions ==
  /\ ConversionExact(2, 0, {IF 2 = 4 THEN 8 ELSE 0}) /\ ConversionExact(4, 0, {IF 4 = 4 THEN 8 ELSE 0})
  /\ \A lh \in TwoPlaned : ConversionExact(lh[1], lh[2], {CvtBias(lh[1], lh[2], m) : m \in BOOLEAN})
<1>1. ConversionExact(2, 0, {IF 2 = 4 THEN 8 ELSE 0})
  <2>1. 2 ^ (2 + 0) = 4 /\ SmallCodes(2, 4, {IF 2 = 4 THEN 8 ELSE 0})
    BY SmallPowers DEF SmallCodes
  <2> QED BY <2>1, SmallAreExact
<1>2. ConversionExact(4, 0, {IF 4 = 4 THEN 8 ELSE 0})
  <2>1. 2 ^ (4 + 0) = 16 /\ SmallCodes(4, 16, {IF 4 = 4 THEN 8 ELSE 0})
    BY SmallPowers DEF SmallCodes
  <2> QED BY <2>1, SmallAreExact
<1>3. ASSUME NEW low \in {2, 4}, NEW high \in {1, 2}, low = 2 => high = 1
      PROVE  ConversionExact(low, high, {CvtBias(low, high, m) : m \in BOOLEAN})
  <2> DEFINE biases == {CvtBias(low, high, m) : m \in BOOLEAN}
  <2>1. CASE low = 2
    <3>1. 2 ^ (low + high) = 8 /\ SymBias(low, high) = 4
      BY <1>3, <2>1, SmallPowers DEF SymBias
    <3>2. SmallCodes(low, 8, biases)
      BY <2>1, <3>1 DEF SmallCodes, CvtBias
    <3> HIDE DEF biases
    <3> QED BY <3>1, <3>2, SmallAreExact DEF biases
  <2>2. CASE low = 4 /\ high = 1
    <3>1. 2 ^ (low + high) = 32 /\ SymBias(low, high) = 16
      BY <2>2, SmallPowers, LargerPowers DEF SymBias
    <3>2. SmallCodes(low, 32, biases)
      BY <2>2, <3>1 DEF SmallCodes, CvtBias
    <3> HIDE DEF biases
    <3> QED BY <3>1, <3>2, SmallAreExact DEF biases
  <2>3. CASE low = 4 /\ high = 2
    <3>1. 2 ^ (low + high) = 64 /\ SymBias(low, high) = 32
      BY <2>3, SmallPowers, LargerPowers DEF SymBias
    <3>2. SmallCodes(low, 64, biases)
      BY <2>3, <3>1 DEF SmallCodes, CvtBias
    <3> HIDE DEF biases
    <3> QED BY <3>1, <3>2, SmallAreExact DEF biases
  <2> QED BY <2>1, <2>2, <2>3
<1>4. ASSUME NEW lh \in TwoPlaned PROVE ConversionExact(lh[1], lh[2], {CvtBias(lh[1], lh[2], m) : m \in BOOLEAN})
  <2>1. lh[1] \in {2, 4} /\ lh[2] \in {1, 2} /\ (lh[1] = 2 => lh[2] = 1)
    BY DEF TwoPlaned
  <2> QED BY <1>3, <2>1
<1> QED BY <1>1, <1>2, <1>4

(* A read of high codes: the delivery, the copy step, the pair, the        *)
(* register and the half, of wide codes to a half register, and the slot,  *)
(* register and code it takes.                                             *)
ReadsOf(wide, ratio, p2) ==
  {<<ii, kb, t, v, half>> :
     ii \in 0 .. 2 * (ratio \div p2) - 1, kb \in 0 .. p2 - 1, t \in 0 .. wide - 1, v \in Vregs, half \in Halves}
CodesOf(wide, ratio) == {0, 1} \X Vregs \X (0 .. 2 * wide * ratio - 1)
TakenBy(wide, ratio, p2, x) ==
  <<x[1] % 2, (x[2] % p2) + p2 * (x[1] \div 2) + ratio * (x[4] \div ratio),
    x[3] + wide * (x[4] % ratio) + wide * ratio * x[5]>>
ReadOf(wide, ratio, p2, y) ==
  <<y[1] + 2 * ((y[2] % ratio) \div p2), (y[2] % ratio) % p2, y[3] % wide,
    ratio * (y[2] \div ratio) + ((y[3] \div wide) % ratio), y[3] \div (wide * ratio)>>
Folds(wide, ratio, p2) ==
  /\ wide \in {4, 8} /\ ratio \in {2, 4} /\ p2 \in {1, 2, 4} /\ ratio % p2 = 0

(* What is taken lies in the deliveries, and tells the read.               *)
LEMMA ReadsAreApart ==
  ASSUME NEW wide, NEW ratio, NEW p2, Folds(wide, ratio, p2), NEW x \in ReadsOf(wide, ratio, p2)
  PROVE  /\ TakenBy(wide, ratio, p2, x) \in CodesOf(wide, ratio)
         /\ ReadOf(wide, ratio, p2, TakenBy(wide, ratio, p2, x)) = x
<1>1. wide \in {4, 8} /\ ratio \in {2, 4} /\ p2 \in {1, 2, 4} /\ ratio % p2 = 0
  BY DEF Folds
<1>2. PICK ii \in 0 .. 2 * (ratio \div p2) - 1, kb \in 0 .. p2 - 1, t \in 0 .. wide - 1, v \in 0 .. 3, half \in {0, 1} :
        x = <<ii, kb, t, v, half>>
  BY DEF ReadsOf, Vregs, Halves
<1> DEFINE a == ii % 2
           b == (kb % p2) + p2 * (ii \div 2) + ratio * (v \div ratio)
           c == t + wide * (v % ratio) + wide * ratio * half
<1>3. TakenBy(wide, ratio, p2, x) = <<a, b, c>>
  BY <1>2 DEF TakenBy
<1>4. a \in {0, 1} /\ b \in 0 .. 3 /\ c \in 0 .. 2 * wide * ratio - 1
  <2>1. CASE ratio = 2 /\ p2 = 1
    BY <1>1, <2>1, SMT
  <2>2. CASE ratio = 2 /\ p2 = 2
    BY <1>1, <2>2, SMT
  <2>3. CASE ratio = 4 /\ p2 = 1
    BY <1>1, <2>3, SMT
  <2>4. CASE ratio = 4 /\ p2 = 2
    BY <1>1, <2>4, SMT
  <2>5. CASE ratio = 4 /\ p2 = 4
    BY <1>1, <2>5, SMT
  <2> QED BY <1>1, <2>1, <2>2, <2>3, <2>4, <2>5
<1>5. a + 2 * ((b % ratio) \div p2) = ii /\ (b % ratio) % p2 = kb /\ b \div ratio = v \div ratio
  <2>1. CASE ratio = 2 /\ p2 = 1
    BY <1>1, <2>1, SMT
  <2>2. CASE ratio = 2 /\ p2 = 2
    BY <1>1, <2>2, SMT
  <2>3. CASE ratio = 4 /\ p2 = 1
    BY <1>1, <2>3, SMT
  <2>4. CASE ratio = 4 /\ p2 = 2
    BY <1>1, <2>4, SMT
  <2>5. CASE ratio = 4 /\ p2 = 4
    BY <1>1, <2>5, SMT
  <2> QED BY <1>1, <2>1, <2>2, <2>3, <2>4, <2>5
<1>6. c % wide = t /\ (c \div wide) % ratio = v % ratio /\ c \div (wide * ratio) = half
  <2>1. CASE ratio = 2 /\ wide = 4
    BY <1>1, <2>1, SMT
  <2>2. CASE ratio = 2 /\ wide = 8
    BY <1>1, <2>2, SMT
  <2>3. CASE ratio = 4 /\ wide = 4
    BY <1>1, <2>3, SMT
  <2>4. CASE ratio = 4 /\ wide = 8
    BY <1>1, <2>4, SMT
  <2> QED BY <1>1, <2>1, <2>2, <2>3, <2>4
<1>7. ratio * (v \div ratio) + (v % ratio) = v
  BY <1>1
<1> HIDE DEF a, b, c
<1>8. TakenBy(wide, ratio, p2, x) \in CodesOf(wide, ratio)
  BY <1>3, <1>4 DEF CodesOf, Vregs
<1>9. ReadOf(wide, ratio, p2, <<a, b, c>>) = <<ii, kb, t, v, half>>
  BY <1>5, <1>6, <1>7 DEF ReadOf
<1> QED BY <1>2, <1>3, <1>8, <1>9

(* Every code is taken.                                                    *)
LEMMA ReadsAreAll ==
  ASSUME NEW wide, NEW ratio, NEW p2, Folds(wide, ratio, p2), NEW y \in CodesOf(wide, ratio)
  PROVE  /\ ReadOf(wide, ratio, p2, y) \in ReadsOf(wide, ratio, p2)
         /\ TakenBy(wide, ratio, p2, ReadOf(wide, ratio, p2, y)) = y
<1>1. wide \in {4, 8} /\ ratio \in {2, 4} /\ p2 \in {1, 2, 4} /\ ratio % p2 = 0
  BY DEF Folds
<1>2. PICK a \in {0, 1}, b \in 0 .. 3, c \in 0 .. 2 * wide * ratio - 1 : y = <<a, b, c>>
  BY DEF CodesOf, Vregs
<1> DEFINE ii == a + 2 * ((b % ratio) \div p2)
           kb == (b % ratio) % p2
           t == c % wide
           v == ratio * (b \div ratio) + ((c \div wide) % ratio)
           half == c \div (wide * ratio)
<1>3. ReadOf(wide, ratio, p2, y) = <<ii, kb, t, v, half>>
  BY <1>2 DEF ReadOf
<1>4. ii \in 0 .. 2 * (ratio \div p2) - 1 /\ kb \in 0 .. p2 - 1
      /\ ii % 2 = a /\ (kb % p2) + p2 * (ii \div 2) = b % ratio
  <2>1. CASE ratio = 2 /\ p2 = 1
    BY <1>1, <2>1, SMT
  <2>2. CASE ratio = 2 /\ p2 = 2
    BY <1>1, <2>2, SMT
  <2>3. CASE ratio = 4 /\ p2 = 1
    BY <1>1, <2>3, SMT
  <2>4. CASE ratio = 4 /\ p2 = 2
    BY <1>1, <2>4, SMT
  <2>5. CASE ratio = 4 /\ p2 = 4
    BY <1>1, <2>5, SMT
  <2> QED BY <1>1, <2>1, <2>2, <2>3, <2>4, <2>5
<1>5. t \in 0 .. wide - 1 /\ v \in 0 .. 3 /\ half \in {0, 1} /\ v \div ratio = b \div ratio
      /\ t + wide * (v % ratio) + wide * ratio * half = c
  <2>1. CASE ratio = 2 /\ wide = 4
    BY <1>1, <2>1, SMT
  <2>2. CASE ratio = 2 /\ wide = 8
    BY <1>1, <2>2, SMT
  <2>3. CASE ratio = 4 /\ wide = 4
    BY <1>1, <2>3, SMT
  <2>4. CASE ratio = 4 /\ wide = 8
    BY <1>1, <2>4, SMT
  <2> QED BY <1>1, <2>1, <2>2, <2>3, <2>4
<1>6. (b % ratio) + ratio * (b \div ratio) = b
  BY <1>1
<1> HIDE DEF ii, kb, t, v, half
<1>7. ReadOf(wide, ratio, p2, y) \in ReadsOf(wide, ratio, p2)
  BY <1>3, <1>4, <1>5 DEF ReadsOf, Vregs, Halves
<1>8. TakenBy(wide, ratio, p2, <<ii, kb, t, v, half>>) = <<a, b, c>>
  <2>1. (kb % p2) + p2 * (ii \div 2) + ratio * (v \div ratio) = b
    BY <1>4, <1>5, <1>6
  <2> QED BY <1>4, <1>5, <2>1 DEF TakenBy
<1> QED BY <1>2, <1>3, <1>7, <1>8

(* The codes a high plane holds are finitely many.                         *)
LEMMA CodesAreFinite ==
  ASSUME NEW wide \in {4, 8}, NEW ratio \in {2, 4}
  PROVE  IsFiniteSet(CodesOf(wide, ratio))
<1> PICK all \in Nat : all = 2 * wide * ratio
  OBVIOUS
<1> DEFINE f == [y \in CodesOf(wide, ratio) |-> y[1] + 2 * y[2] + 8 * y[3]]
<1>1. ASSUME NEW y \in CodesOf(wide, ratio)
      PROVE  /\ y[1] \in {0, 1} /\ y[2] \in 0 .. 3 /\ y[3] \in 0 .. all - 1 /\ y = <<y[1], y[2], y[3]>>
             /\ f[y] \in 0 .. 8 * all
  <2>1. y[1] \in {0, 1} /\ y[2] \in 0 .. 3 /\ y[3] \in 0 .. all - 1 /\ y = <<y[1], y[2], y[3]>>
    BY DEF CodesOf, Vregs
  <2>2. f[y] = y[1] + 2 * y[2] + 8 * y[3]
    OBVIOUS
  <2> HIDE DEF f
  <2>3. f[y] \in 0 .. 8 * all
    BY <2>1, <2>2
  <2> QED BY <2>1, <2>3
<1>2. ASSUME NEW y \in CodesOf(wide, ratio), NEW z \in CodesOf(wide, ratio), f[y] = f[z] PROVE y = z
  <2>1. y[1] + 2 * y[2] + 8 * y[3] = z[1] + 2 * z[2] + 8 * z[3]
    BY <1>2
  <2>2. y[1] = z[1] /\ y[2] = z[2] /\ y[3] = z[3]
    BY <1>1, <2>1
  <2>3. y = <<y[1], y[2], y[3]>> /\ z = <<z[1], z[2], z[3]>>
    BY <1>1
  <2> QED BY <2>2, <2>3
<1>3. f \in Injection(CodesOf(wide, ratio), 0 .. 8 * all)
  BY <1>1, <1>2 DEF Injection, IsInjective
<1>4. IsFiniteSet(0 .. 8 * all)
  <2>1. 0 \in Int /\ 8 * all \in Int
    OBVIOUS
  <2> QED BY <2>1, FS_Interval
<1> HIDE DEF f
<1> QED BY <1>3, <1>4, FS_Injection

(* So the reads take every code of the deliveries once.                    *)
LEMMA ReadsOnce ==
  ASSUME NEW wide, NEW ratio, NEW p2, Folds(wide, ratio, p2)
  PROVE  /\ {TakenBy(wide, ratio, p2, x) : x \in ReadsOf(wide, ratio, p2)} = CodesOf(wide, ratio)
         /\ Cardinality(ReadsOf(wide, ratio, p2)) = Cardinality(CodesOf(wide, ratio))
<1> DEFINE R == ReadsOf(wide, ratio, p2)
           C == CodesOf(wide, ratio)
           take == [x \in R |-> TakenBy(wide, ratio, p2, x)]
<1>1. \A x \in R : take[x] \in C /\ ReadOf(wide, ratio, p2, take[x]) = x
  BY ReadsAreApart
<1>2. \A y \in C : \E x \in R : take[x] = y
  BY ReadsAreAll
<1>3. {TakenBy(wide, ratio, p2, x) : x \in R} = C
  <2>1. \A x \in R : take[x] = TakenBy(wide, ratio, p2, x)
    OBVIOUS
  <2> HIDE DEF take, R, C
  <2> QED BY <1>1, <1>2, <2>1
<1>4. take \in [R -> C]
  BY <1>1
<1>5. DOMAIN take = R
  OBVIOUS
<1>6. IsFiniteSet(C)
  BY CodesAreFinite DEF Folds
<1> HIDE DEF take, R, C
<1>7. take \in Injection(R, C) /\ take \in Surjection(R, C)
  BY <1>1, <1>2, <1>4, <1>5 DEF Injection, Surjection, IsInjective
<1>8. Cardinality(R) = Cardinality(C)
  BY <1>6, <1>7, FS_Injection
<1> QED BY <1>3, <1>8 DEF R, C

(* Two planes: the widths as such.                                         *)
LEMMA TwoPlanesAre ==
  ASSUME NEW low \in {2, 4}, NEW high \in {1, 2}, low = 2 => high = 1
  PROVE  /\ 16 \div low \in {4, 8} /\ low \div high \in {2, 4}
         /\ 16 \div high = (16 \div low) * (low \div high)
         /\ CodesPerVreg(high) = 2 * (16 \div low) * (low \div high)
         /\ Pairs(low) = 0 .. (16 \div low) - 1
<1>1. CASE low = 2
  BY <1>1, WidthsAre DEF Pairs
<1>2. CASE low = 4 /\ high = 1
  BY <1>2, WidthsAre DEF Pairs
<1>3. CASE low = 4 /\ high = 2
  BY <1>3, WidthsAre DEF Pairs
<1> QED BY <1>1, <1>2, <1>3

(* The high plane.                                                         *)
LEMMA HighPlanes ==
  ASSUME NEW low \in {2, 4}, NEW high \in {1, 2}, low = 2 => high = 1
  PROVE  HighPlaneAgrees(low, high)
<1> DEFINE ratio == VregRatio(low, high)
           wide == 16 \div low
           Read(p2, x) == <<HiSlot(x[1], 2), HiBase(x[1], x[2], 2, p2) + HiVreg(low, high, x[4]),
                            HiCode(low, high, x[3], x[4], x[5])>>
           reads(p2) == {<<ii, kb, t, v, half>> :
                           ii \in 0 .. 2 * (ratio \div p2) - 1, kb \in 0 .. p2 - 1, t \in Pairs(low),
                           v \in Vregs, half \in Halves}
           every == {0, 1} \X Vregs \X (0 .. CodesPerVreg(high) - 1)
<1>1. wide \in {4, 8} /\ ratio \in {2, 4} /\ 16 \div high = wide * ratio
      /\ CodesPerVreg(high) = 2 * wide * ratio /\ Pairs(low) = 0 .. wide - 1
  BY TwoPlanesAre DEF VregRatio
<1>2. ASSUME NEW p2 \in {p \in 1 .. ratio : ratio % p = 0}
      PROVE  {Read(p2, x) : x \in reads(p2)} = every /\ Cardinality(reads(p2)) = Cardinality(every)
  <2>1. Folds(wide, ratio, p2)
    <3>1. p2 = 1 \/ p2 = 2 \/ p2 = 3 \/ p2 = 4
      BY <1>1
    <3>2. p2 # 3
      BY <1>1
    <3> QED BY <1>1, <3>1, <3>2 DEF Folds
  <2>2. reads(p2) = ReadsOf(wide, ratio, p2) /\ every = CodesOf(wide, ratio)
    BY <1>1 DEF ReadsOf, CodesOf
  <2>3. ASSUME NEW x \in reads(p2) PROVE Read(p2, x) = TakenBy(wide, ratio, p2, x)
    <3>1. HiCode(low, high, x[3], x[4], x[5]) = x[3] + wide * (x[4] % ratio) + wide * ratio * x[5]
      BY <1>1 DEF HiCode
    <3>2. HiSlot(x[1], 2) = x[1] % 2 /\ HiBase(x[1], x[2], 2, p2) = (x[2] % p2) + p2 * (x[1] \div 2)
      BY DEF HiSlot, HiBase
    <3>3. HiVreg(low, high, x[4]) = ratio * (x[4] \div ratio)
      BY DEF HiVreg
    <3> HIDE DEF ratio, wide
    <3> QED BY <3>1, <3>2, <3>3 DEF TakenBy
  <2> HIDE DEF ratio, wide, reads, every, Read
  <2>4. {TakenBy(wide, ratio, p2, x) : x \in reads(p2)} = every
    BY <2>1, <2>2, ReadsOnce
  <2>5. {Read(p2, x) : x \in reads(p2)} = every
    BY <2>3, <2>4
  <2> QED BY <2>1, <2>2, <2>5, ReadsOnce
<1>3. ASSUME NEW t \in Pairs(low), NEW v \in Vregs, NEW half \in Halves
      PROVE  HiBitRead(low, high, t, v, half) = high * HiCode(low, high, t, v, half)
  <2>1. (v % ratio) \in Int /\ t \in Int /\ half \in {0, 1}
    BY <1>1 DEF Vregs, Halves
  <2> PICK u \in Int : u = t + wide * (v % ratio)
    BY <1>1, <2>1
  <2>2. HiCode(low, high, t, v, 0) = u /\ HiCode(low, high, t, v, half) = u + (16 \div high) * half
    BY <1>1, <2>1 DEF HiCode
  <2>3. (high = 1 /\ 16 \div high = 16) \/ (high = 2 /\ 16 \div high = 8)
    OBVIOUS
  <2> HIDE DEF ratio, wide
  <2>4. CASE high = 1 /\ 16 \div high = 16
    <3>1. HiBitRead(low, high, t, v, half) = u + 16 * half
      BY <2>2, <2>4 DEF HiBitRead
    <3>2. HiCode(low, high, t, v, half) = u + 16 * half
      BY <2>2, <2>4
    <3>3. HiBitRead(low, high, t, v, half) = 1 * HiCode(low, high, t, v, half)
      BY <2>1, <3>1, <3>2
    <3> QED BY <2>4, <3>3
  <2>5. CASE high = 2 /\ 16 \div high = 8
    <3>1. HiBitRead(low, high, t, v, half) = 2 * u + 16 * half
      BY <2>2, <2>5 DEF HiBitRead
    <3>2. HiCode(low, high, t, v, half) = u + 8 * half
      BY <2>2, <2>5
    <3>3. HiBitRead(low, high, t, v, half) = 2 * HiCode(low, high, t, v, half)
      BY <2>1, <3>1, <3>2
    <3> QED BY <2>5, <3>3
  <2> QED BY <2>3, <2>4, <2>5
<1>4. HighPlaneAgrees(low, high) <=>
        /\ \A p2 \in {p \in 1 .. ratio : ratio % p = 0} :
             {Read(p2, x) : x \in reads(p2)} = every /\ Cardinality(reads(p2)) = Cardinality(every)
        /\ \A t \in Pairs(low), v \in Vregs, half \in Halves :
             HiBitRead(low, high, t, v, half) = high * HiCode(low, high, t, v, half)
  BY DEF HighPlaneAgrees
<1> HIDE DEF ratio, wide, Read, reads, every
<1> QED BY <1>2, <1>3, <1>4

(* The converter of every format's planes.                                 *)
LEMMA Converters ==
  /\ ConverterAgrees(2, 0) /\ ConverterAgrees(4, 0)
  /\ \A lh \in TwoPlaned : ConverterAgrees(lh[1], lh[2])
<1>1. ConverterAgrees(2, 0)
  <2>1. EmissionAgrees(2) /\ ChunksAgree(2)
    BY Emissions, Chunks
  <2>2. ConversionExact(2, 0, {IF 2 = 4 THEN 8 ELSE 0})
    BY Conversions
  <2> QED BY <2>1, <2>2 DEF ConverterAgrees
<1>2. ConverterAgrees(4, 0)
  <2>1. EmissionAgrees(4) /\ ChunksAgree(4)
    BY Emissions, Chunks
  <2>2. ConversionExact(4, 0, {IF 4 = 4 THEN 8 ELSE 0})
    BY Conversions
  <2> QED BY <2>1, <2>2 DEF ConverterAgrees
<1>3. ASSUME NEW lh \in TwoPlaned PROVE ConverterAgrees(lh[1], lh[2])
  <2> PICK low \in {2, 4}, high \in {1, 2} : low = lh[1] /\ high = lh[2] /\ (low = 2 => high = 1)
    BY DEF TwoPlaned
  <2>1. EmissionAgrees(low) /\ ChunksAgree(low) /\ EmissionAgrees(high)
    BY Emissions, Chunks
  <2>2. ConversionExact(low, high, {CvtBias(low, high, m) : m \in BOOLEAN})
    BY Conversions
  <2>3. HighPlaneAgrees(low, high)
    BY HighPlanes
  <2> QED BY <2>1, <2>2, <2>3 DEF ConverterAgrees
<1> QED BY <1>1, <1>2, <1>3

(* A code is in a group, a word and a place of the word.                   *)
LEMMA CodeIsPlaced ==
  ASSUME NEW D \in {16, 32}, NEW i \in Codes
  PROVE  4 * ((i % D) \div 4) + (i % 4) = i % D
<1>1. i \in Nat
  BY DEF Codes, QK
<1>2. CASE D = 16
  BY <1>1, <1>2
<1>3. CASE D = 32
  BY <1>1, <1>3
<1> QED BY <1>2, <1>3

(* Both statements give a code the same bits: the low ones.                *)
LEMMA LowStatements ==
  ASSUME NEW f \in Formats, NEW i \in Codes
  PROVE  CodeField(f, i, "low") = RefCodeField(f, i, "low")
<1> DEFINE D == Quant[f].group
           o == Quant[f].loOff
<1>1. o \in Int
  BY Numbers
<1>5. (f \in {"Q2_K", "Q3_K"} => Quant[f].low = 2) /\ (f \in {"Q4_K", "Q5_K"} => Quant[f].low = 4)
      /\ (f = "Q6_K" => Quant[f].low = 4 /\ o = 0)
  BY DEF Quant
<1> PICK g \in Int, j \in 0 .. 31, w \in Int, x \in 0 .. 3 :
      g = i \div D /\ j = i % D /\ w = j \div 4 /\ x = i % 4 /\ 4 * w + x = j
  <2>1. D \in {16, 32}
    BY Numbers
  <2>2. i \in Nat
    BY DEF Codes, QK
  <2>3. 4 * ((i % D) \div 4) + (i % 4) = i % D
    BY <2>1, CodeIsPlaced
  <2>4. i \div D \in Int /\ i % D \in 0 .. 31 /\ (i % D) \div 4 \in Int /\ i % 4 \in 0 .. 3
    BY <2>1, <2>2
  <2> QED BY <2>3, <2>4
<1>2. CASE f \in {"Q2_K", "Q3_K"}
  <2>1. Quant[f].low = 2
    BY <1>2, <1>5
  <2>2. CodeField(f, i, "low") = Field(8 * (o + 4 * w + x + 16 * (g % 2) + 32 * (g \div 8)) + 2 * ((g \div 2) % 4), 2)
    BY <2>1 DEF CodeField, LowCode, At
  <2>3. RefCodeField(f, i, "low") = Field(8 * (o + j + 16 * (g % 2) + 32 * (g \div 8)) + 2 * ((g \div 2) % 4), 2)
    BY <1>2 DEF RefCodeField, At
  <2>4. o + 4 * w + x + 16 * (g % 2) + 32 * (g \div 8) = o + j + 16 * (g % 2) + 32 * (g \div 8)
    BY <1>1
  <2> QED BY <2>2, <2>3, <2>4
<1>3. CASE f \in {"Q4_K", "Q5_K"}
  <2>1. Quant[f].low = 4 /\ f # "Q6_K"
    BY <1>3, <1>5
  <2>2. CodeField(f, i, "low") = Field(8 * (o + 4 * w + x + 32 * (g \div 2)) + 4 * (g % 2), 4)
    BY <2>1 DEF CodeField, LowCode, At
  <2>3. RefCodeField(f, i, "low") = Field(8 * (o + j + 32 * (g \div 2)) + 4 * (g % 2), 4)
    BY <1>3 DEF RefCodeField, At
  <2>4. o + 4 * w + x + 32 * (g \div 2) = o + j + 32 * (g \div 2)
    BY <1>1
  <2> QED BY <2>2, <2>3, <2>4
<1>4. CASE f = "Q6_K"
  <2>1. Quant[f].low = 4 /\ o = 0
    BY <1>4, <1>5
  <2>2. CodeField(f, i, "low")
          = Field(8 * (o + 4 * w + x + 16 * (g % 2) + 32 * ((g \div 2) % 2) + 64 * (g \div 8)) + 4 * ((g \div 4) % 2), 4)
    BY <1>4, <2>1 DEF CodeField, LowCode, At
  <2>3. RefCodeField(f, i, "low")
          = Field(8 * (j + 16 * (g % 2) + 32 * ((g \div 2) % 2) + 64 * (g \div 8)) + 4 * ((g \div 4) % 2), 4)
    BY <1>4 DEF RefCodeField, At
  <2>4. o + 4 * w + x + 16 * (g % 2) + 32 * ((g \div 2) % 2) + 64 * (g \div 8)
          = j + 16 * (g % 2) + 32 * ((g \div 2) % 2) + 64 * (g \div 8)
    BY <2>1
  <2> QED BY <2>2, <2>3, <2>4
<1> QED BY <1>2, <1>3, <1>4, FormatsAre

(* ... and the high ones.                                                  *)
LEMMA HighStatements ==
  ASSUME NEW f \in Formats, NEW i \in Codes, "high" \in Planes(f)
  PROVE  CodeField(f, i, "high") = RefCodeField(f, i, "high")
<1> DEFINE D == Quant[f].group
           o == Quant[f].hiOff
<1>0. f \in {"Q3_K", "Q5_K", "Q6_K"}
  BY DEF Planes, Formats, Quant
<1>4. (f = "Q3_K" => o = 0) /\ (f = "Q5_K" => o = 16 /\ D = 32) /\ (f = "Q6_K" => o = 128)
  BY DEF Quant
<1>5. PICK g \in 0 .. 15, j \in 0 .. 31, w \in Int, x \in 0 .. 3 :
      g = i \div D /\ j = i % D /\ w = j \div 4 /\ x = i % 4 /\ 4 * w + x = j /\ (D = 32 => g < 8)
  <2>1. D \in {16, 32}
    BY Numbers
  <2>2. i \in 0 .. 255
    BY DEF Codes, QK
  <2>3. 4 * ((i % D) \div 4) + (i % 4) = i % D
    BY <2>1, CodeIsPlaced
  <2>4. i \div D \in 0 .. 15 /\ i % D \in 0 .. 31 /\ (i % D) \div 4 \in Int /\ i % 4 \in 0 .. 3 /\ (D = 32 => i \div D < 8)
    <3> HIDE DEF D
    <3>1. CASE D = 16
      BY <2>2, <3>1
    <3>2. CASE D = 32
      BY <2>2, <3>2
    <3> QED BY <2>1, <3>1, <3>2
  <2> QED BY <2>3, <2>4
<1>6. g = i \div D /\ j = i % D /\ w = j \div 4 /\ x = i % 4
  BY <1>5
<1>7. 4 * w + x = j /\ (D = 32 => g < 8)
  BY <1>5
<1>1. CASE f = "Q3_K"
  <2>1. o = 0
    BY <1>1, <1>4
  <2>2. CodeField(f, i, "high") = Field(8 * (o + 4 * w + x + 16 * (g % 2)) + (((g \div 2) % 4) + 4 * (g \div 8)), 1)
    BY <1>1, <1>6 DEF CodeField, HighCode, At
  <2>3. RefCodeField(f, i, "high") = Field(8 * (j + 16 * (g % 2)) + (((g \div 2) % 4) + 4 * (g \div 8)), 1)
    BY <1>1, <1>6 DEF RefCodeField, At
  <2>4. o + 4 * w + x + 16 * (g % 2) = j + 16 * (g % 2)
    BY <2>1, <1>7
  <2> QED BY <2>2, <2>3, <2>4
<1>2. CASE f = "Q5_K"
  <2>1. o = 16 /\ g \in 0 .. 7
    BY <1>2, <1>4, <1>7
  <2>2. CodeField(f, i, "high") = Field(8 * (o + 4 * w + x) + ((g % 2) + 2 * (g \div 2)), 1)
    BY <1>2, <1>6 DEF CodeField, HighCode, At
  <2>3. RefCodeField(f, i, "high") = Field(8 * (16 + j) + g, 1)
    BY <1>2, <1>6 DEF RefCodeField, At
  <2>4. o + 4 * w + x = 16 + j /\ (g % 2) + 2 * (g \div 2) = g
    BY <2>1, <1>7
  <2> QED BY <2>2, <2>3, <2>4
<1>3. CASE f = "Q6_K"
  <2>1. o = 128
    BY <1>3, <1>4
  <2>2. CodeField(f, i, "high")
          = Field(8 * (o + 4 * w + x + 16 * (g % 2) + 32 * (g \div 8)) + (2 * ((g \div 2) % 2) + 4 * ((g \div 4) % 2)), 2)
    BY <1>3, <1>6 DEF CodeField, HighCode, At
  <2>3. RefCodeField(f, i, "high")
          = Field(8 * (128 + j + 16 * (g % 2) + 32 * (g \div 8)) + (2 * ((g \div 2) % 2) + 4 * ((g \div 4) % 2)), 2)
    BY <1>3, <1>6 DEF RefCodeField, At
  <2>4. o + 4 * w + x + 16 * (g % 2) + 32 * (g \div 8) = 128 + j + 16 * (g % 2) + 32 * (g \div 8)
    BY <2>1, <1>7
  <2> QED BY <2>2, <2>3, <2>4
<1> QED BY <1>0, <1>1, <1>2, <1>3

(* Both give a group's scale the same bits,                                *)
LEMMA ScaleStatements ==
  ASSUME NEW f \in Formats, NEW g \in Groups(f)
  PROVE  ScaleField(f, g) = RefScaleField(f, g)
<1> DEFINE s == Quant[f].scaleOff
<1>1. CASE f \in {"Q4_K", "Q5_K"}
  <2>1. s = 4 /\ g \in 0 .. 7 /\ f \notin {"Q2_K", "Q3_K", "Q6_K"}
    BY <1>1 DEF Quant, Groups
  <2>2. ScaleField(f, g) = Field(8 * (s + (g % 4) + 8 * (g \div 4)) + 0, 4) \o Field(8 * (s + (g % 4)) + (4 + 2 * (g \div 4)), 2)
    BY <1>1 DEF ScaleField, At
  <2>3. RefScaleField(f, g) = Field(8 * (s + (g % 4) + 8 * (g \div 4)) + 0, 4) \o Field(8 * (s + (g % 4)) + (4 + 2 * (g \div 4)), 2)
    BY <2>1 DEF RefScaleField, At
  <2> QED BY <2>2, <2>3
<1>2. CASE f = "Q3_K"
  <2>1. s = 96 /\ g \in 0 .. 15
    BY <1>2 DEF Quant, Groups
  <2>2. ScaleField(f, g)
          = Field(8 * (s + (g % 4) + 4 * ((g \div 4) % 2)) + 4 * ((g \div 4) \div 2), 4)
              \o Field(8 * (s + 8 + (g % 4)) + (2 * ((g \div 4) % 2) + 4 * ((g \div 4) \div 2)), 2)
    BY <1>2 DEF ScaleField, At
  <2>3. RefScaleField(f, g) = Field(8 * (s + (g % 8)) + 4 * (g \div 8), 4) \o Field(8 * (s + 8 + (g % 4)) + 2 * (g \div 4), 2)
    BY <1>2 DEF RefScaleField, At
  <2>4. s + (g % 4) + 4 * ((g \div 4) % 2) = s + (g % 8) /\ 4 * ((g \div 4) \div 2) = 4 * (g \div 8)
        /\ 2 * ((g \div 4) % 2) + 4 * ((g \div 4) \div 2) = 2 * (g \div 4)
    BY <2>1
  <2> QED BY <2>2, <2>3, <2>4
<1>3. CASE f \in {"Q2_K", "Q6_K"}
  <2>1. Quant[f].scaleBits = IF f = "Q2_K" THEN 4 ELSE 8
    BY <1>3 DEF Quant
  <2> QED BY <1>3, <2>1 DEF ScaleField, RefScaleField
<1> QED BY <1>1, <1>2, <1>3, FormatsAre

(* ... and its min.                                                        *)
LEMMA MinStatements ==
  ASSUME NEW f \in Formats, NEW g \in Groups(f)
  PROVE  MinField(f, g) = RefMinField(f, g)
BY DEF MinField, RefMinField, At

(* The bytes a field's bits are in, and the words.                         *)
BytesOfRange(a, w, B) == {x \div 8 : x \in a .. a + w - 1} = B
WordsOfRange(a, w, W) == {x \div 32 : x \in a .. a + w - 1} = W
(* ... are one or two, told apart by where the field begins.               *)
LEMMA RangeIsRead ==
  ASSUME NEW a \in Nat, NEW w \in {4, 6, 8}
  PROVE  /\ BytesOfRange(a, w, {a \div 8} \cup IF (a % 8) + w > 8 THEN {a \div 8 + 1} ELSE {})
         /\ WordsOfRange(a, w, {a \div 32} \cup IF a % 32 > 32 - w THEN {a \div 32 + 1} ELSE {})
<1>1. a \in a .. a + w - 1 /\ a + w - 1 \in a .. a + w - 1
  OBVIOUS
<1>2. BytesOfRange(a, w, {a \div 8} \cup IF (a % 8) + w > 8 THEN {a \div 8 + 1} ELSE {})
  <2>1. ASSUME NEW x \in a .. a + w - 1
        PROVE  x \div 8 = a \div 8 \/ ((a % 8) + w > 8 /\ x \div 8 = a \div 8 + 1)
    BY SMT
  <2>2. ASSUME (a % 8) + w > 8 PROVE (a + w - 1) \div 8 = a \div 8 + 1
    BY <2>2, SMT
  <2> QED BY <1>1, <2>1, <2>2 DEF BytesOfRange
<1>3. WordsOfRange(a, w, {a \div 32} \cup IF a % 32 > 32 - w THEN {a \div 32 + 1} ELSE {})
  <2>1. ASSUME NEW x \in a .. a + w - 1
        PROVE  x \div 32 = a \div 32 \/ (a % 32 > 32 - w /\ x \div 32 = a \div 32 + 1)
    BY SMT
  <2>2. ASSUME a % 32 > 32 - w PROVE (a + w - 1) \div 32 = a \div 32 + 1
    BY <2>2, SMT
  <2> QED BY <1>1, <2>1, <2>2 DEF WordsOfRange
<1> QED BY <1>2, <1>3

(* A field's place in the unit.                                            *)
LEMMA FieldInUnit ==
  ASSUME NEW f \in Formats, NEW g \in Groups(f), NEW which \in Fields(f)
  PROVE  /\ BitOf(f, g, which) \in Nat /\ Width(f, which) \in {4, 6, 8}
         /\ BitOf(f, g, which) + Width(f, which) <= 8 * SbBytes(f)
         /\ BitsOf(UnitField(f, g, which)) = BitOf(f, g, which) .. BitOf(f, g, which) + Width(f, which) - 1
<1> DEFINE a == BitOf(f, g, which)
           u == UnitField(f, g, which)
           pr == <<RefMetaField(f, g, which), u>>
<1> PICK w \in {4, 6, 8} : w = Width(f, which)
  BY DEF Formats, Quant, Fields, HasMin, Width
<1>1. u = [b \in 1 .. w |-> a + b - 1]
  BY DEF UnitField, Field
<1>2. PairFits(f, pr)
  <2>1. pr \in LocalPairs(f)
    BY DEF LocalPairs
  <2> QED BY <2>1, PairsFit
<1>3. a \in Int
  <2>1. /\ Quant[f].groups \in {8, 16} /\ Quant[f].scaleBits \in {4, 6, 8} /\ Quant[f].minBits \in {0, 4, 6}
    BY DEF Formats, Quant
  <2>2. g \in Int /\ HeaderBytes(f) \in Int /\ RunGroups(f) \in {4, 8, 16}
    BY <2>1 DEF Groups, HeaderBytes, RunGroups, Formats, Quant, HasMin
  <2>3. RunBits(f) \in Int
    BY <2>1, <2>2 DEF RunBits
  <2>4. g \div RunGroups(f) \in Int /\ g % RunGroups(f) \in Int
    BY <2>2
  <2> QED BY <2>1, <2>2, <2>3, <2>4 DEF BitOf
<1>4. \A i \in 1 .. w : u[i] \in 0 .. 8 * SbBytes(f) - 1
  <2>1. pr[2] = u
    OBVIOUS
  <2>2. PICK z \in Nat : DOMAIN pr[2] = 1 .. z /\ \A i \in 1 .. z : pr[2][i] \in 0 .. 8 * SbBytes(f) - 1
    BY <1>2 DEF PairFits
  <2>3. DOMAIN u = 1 .. w
    BY <1>1
  <2> HIDE DEF u, pr
  <2> QED BY <2>1, <2>2, <2>3
<1> HIDE DEF a, u, pr
<1>5. u[1] = a /\ u[w] = a + w - 1
  BY <1>1, <1>3
<1>6. a \in Nat /\ a + w <= 8 * SbBytes(f)
  <2>1. SbBytes(f) \in Int
    BY UnitSizes
  <2>2. u[1] \in 0 .. 8 * SbBytes(f) - 1 /\ u[w] \in 0 .. 8 * SbBytes(f) - 1
    BY <1>4
  <2> QED BY <1>3, <1>5, <2>1, <2>2
<1>7. BitsOf(u) = a .. a + w - 1
  <2>1. DOMAIN u = 1 .. w /\ \A b \in 1 .. w : u[b] = a + b - 1
    BY <1>1
  <2>2. ASSUME NEW x \in a .. a + w - 1 PROVE x \in BitsOf(u)
    <3>1. x - a + 1 \in 1 .. w /\ a + (x - a + 1) - 1 = x
      BY <1>3
    <3>2. u[x - a + 1] = x
      BY <2>1, <3>1
    <3> QED BY <2>1, <3>1, <3>2 DEF BitsOf
  <2>3. ASSUME NEW b \in 1 .. w PROVE u[b] \in a .. a + w - 1
    BY <1>3, <2>1
  <2> QED BY <2>1, <2>2, <2>3 DEF BitsOf
<1> QED BY <1>6, <1>7 DEF a, u

(* What a range of bits touches that ends within B bytes.                  *)
StaysWithin(a, m, B) ==
  /\ a \div 8 \in 0 .. B - 1
  /\ (a % 8) + m > 8 => a \div 8 + 1 \in 0 .. B - 1
  /\ a % 32 > 32 - m => a \div 32 + 1 < (B + 3) \div 4
EndsWithin(a, m, B) == a + m <= 8 * B

(* ... stays within.                                                       *)
LEMMA RangeStays ==
  ASSUME NEW a \in Nat, NEW m \in {4, 6, 8}, NEW B \in {14, 16, 18, 20}, EndsWithin(a, m, B)
  PROVE  StaysWithin(a, m, B)
<1>1. a + m <= 8 * B
  BY DEF EndsWithin
<1>2. a \div 8 \in 0 .. B - 1
  BY <1>1
<1>3. (a % 8) + m > 8 => a \div 8 + 1 \in 0 .. B - 1
  BY <1>1
<1>4. ASSUME a % 32 > 32 - m PROVE a \div 32 + 1 < (B + 3) \div 4
  <2>1. 32 * (a \div 32 + 1) < a + m
    BY <1>4
  <2>2. CASE B = 14
    BY <1>1, <2>1, <2>2
  <2>3. CASE B = 16
    BY <1>1, <2>1, <2>3
  <2>4. CASE B = 18
    BY <1>1, <2>1, <2>4
  <2>5. CASE B = 20
    BY <1>1, <2>1, <2>5
  <2> QED BY <2>2, <2>3, <2>4, <2>5
<1> QED BY <1>2, <1>3, <1>4 DEF StaysWithin

(* A reader of a field stays in its unit.                                  *)
LEMMA ReadersStay ==
  ASSUME fmt \in Formats, NEW g \in Groups(fmt), NEW w \in Fields(fmt)
  PROVE  ReadsStayInUnit(g, w)
<1> DEFINE bits == BitsOf(UnitField(fmt, g, w))
           words == (SbBytes(fmt) + 3) \div 4
<1> PICK a \in Nat, m \in {4, 6, 8}, B \in {14, 16, 18, 20} :
      a = BitOf(fmt, g, w) /\ m = Width(fmt, w) /\ B = SbBytes(fmt) /\ EndsWithin(a, m, B) /\ bits = a .. a + m - 1
  BY FieldInUnit, UnitSizes DEF EndsWithin
<1>1. /\ BytesOfRange(a, m, {a \div 8} \cup IF (a % 8) + m > 8 THEN {a \div 8 + 1} ELSE {})
      /\ WordsOfRange(a, m, {a \div 32} \cup IF a % 32 > 32 - m THEN {a \div 32 + 1} ELSE {})
  BY RangeIsRead
<1>2. CodeOfBytes(fmt, g, w) = {a \div 8} \cup IF (a % 8) + m > 8 THEN {a \div 8 + 1} ELSE {}
  BY DEF CodeOfBytes
<1>3. /\ a \div 8 \in 0 .. SbBytes(fmt) - 1
      /\ (a % 8) + m > 8 => a \div 8 + 1 \in 0 .. SbBytes(fmt) - 1
      /\ a % 32 > 32 - m => a \div 32 + 1 < words
  <2>1. StaysWithin(a, m, B)
    BY RangeStays
  <2> QED BY <2>1 DEF StaysWithin
<1>4. WordsOfField(fmt, g, w, words) = {a \div 32} \cup IF a % 32 > 32 - m THEN {a \div 32 + 1} ELSE {}
  <2> HIDE DEF words
  <2> QED BY <1>3 DEF WordsOfField
<1>5. CodeOfBytes(fmt, g, w) \subseteq 0 .. SbBytes(fmt) - 1
  BY <1>2, <1>3
<1>6. {x \div 8 : x \in bits} = CodeOfBytes(fmt, g, w)
  BY <1>1, <1>2 DEF BytesOfRange
<1>7. {x \div 32 : x \in bits} = WordsOfField(fmt, g, w, words)
  BY <1>1, <1>4 DEF WordsOfRange
<1> QED BY <1>5, <1>6, <1>7 DEF ReadsStayInUnit

(* The formats' planes.                                                    *)
LEMMA FormatsConvert == Formats \subseteq ConvertedExactly
<1> SUFFICES ASSUME NEW f \in Formats PROVE ConverterAgrees(Quant[f].low, Quant[f].high)
  BY DEF ConvertedExactly
<1>1. \/ Quant[f].low = 2 /\ Quant[f].high = 0
      \/ Quant[f].low = 4 /\ Quant[f].high = 0
      \/ Quant[f].low = 2 /\ Quant[f].high = 1
      \/ Quant[f].low = 4 /\ Quant[f].high = 1
      \/ Quant[f].low = 4 /\ Quant[f].high = 2
  BY DEF Formats, Quant
<1>2. ConverterAgrees(2, 1) /\ ConverterAgrees(4, 1) /\ ConverterAgrees(4, 2)
  <2> PICK x \in TwoPlaned, y \in TwoPlaned, z \in TwoPlaned :
         x[1] = 2 /\ x[2] = 1 /\ y[1] = 4 /\ y[2] = 1 /\ z[1] = 4 /\ z[2] = 2
    BY DEF TwoPlaned
  <2>1. ConverterAgrees(x[1], x[2]) /\ ConverterAgrees(y[1], y[2]) /\ ConverterAgrees(z[1], z[2])
    BY Converters
  <2> QED BY <2>1
<1> QED BY <1>1, <1>2, Converters

(* So the statements agree of a request for any format.                    *)
LEMMA FormatStatementsAgree ==
  ASSUME fmt \in Formats
  PROVE  StatementsAgree
<1>1. fmt \in ConvertedExactly
  BY FormatsConvert
<1>2. ASSUME NEW g \in Groups(fmt), NEW w \in Fields(fmt)
      PROVE  MetaField(fmt, g, w) = RefMetaField(fmt, g, w) /\ ReadsStayInUnit(g, w)
  <2>1. MetaField(fmt, g, w) = RefMetaField(fmt, g, w)
    BY ScaleStatements, MinStatements DEF MetaField, RefMetaField
  <2> QED BY <2>1, ReadersStay
<1>3. ASSUME NEW i \in Codes, NEW p \in Planes(fmt) PROVE CodeField(fmt, i, p) = RefCodeField(fmt, i, p)
  <2>1. p = "low" \/ p = "high"
    BY DEF Planes
  <2> QED BY <2>1, LowStatements, HighStatements
<1> QED BY <1>1, <1>2, <1>3 DEF StatementsAgree

(* The layouts of the reader, the byte arithmetic of the packer and the    *)
(* converters agree for every format a request can name.                   *)
THEOREM OfficialStatementsAgree == Spec => []StatementsAgree
<1>1. Init => fmt \in Formats
  BY LayoutAssumption DEF Init
<1>2. fmt \in Formats /\ [Next]_vars => (fmt \in Formats)'
  BY DEF Next, vars, request, Validate, PrepareBlock, StartRecover, RecoverBlock, Finish, Terminated
<1>3. fmt \in Formats => StatementsAgree
  BY FormatStatementsAgree
<1> QED BY <1>1, <1>2, <1>3, PTL DEF Spec

(* And so beside the other producers and readers, as the run checks it.    *)
THEOREM OfficialStatementsAgreeBesideReaders == LayoutsSpec => []StatementsAgree
<1> DEFINE Quiet == phase = "none"
           Named == fmt \in Formats
<1>1. LayoutsInit => Named \/ Quiet
  BY LayoutAssumption DEF LayoutsInit, NoArtifact, Init
<1>2. (Named \/ Quiet) /\ [LayoutsNext]_<<vars, placeVars, kernelVars, xplaneVars>> => (Named \/ Quiet)'
  <2>1. [LayoutsNext]_<<vars, placeVars, kernelVars, xplaneVars>>
          => (phase # "none" /\ Next) \/ UNCHANGED vars
    BY DEF LayoutsNext
  <2>2. UNCHANGED vars => phase' = phase /\ fmt' = fmt
    BY DEF vars
  <2>3. Next => fmt' = fmt
    BY DEF Next, vars, request, Validate, PrepareBlock, StartRecover, RecoverBlock, Finish, Terminated
  <2> QED BY <2>1, <2>2, <2>3
<1>3. Named \/ Quiet => StatementsAgree
  <2>1. Quiet => StatementsAgree
    BY DEF StatementsAgree
  <2> QED BY <2>1, FormatStatementsAgree
<1> QED BY <1>1, <1>2, <1>3, PTL DEF LayoutsSpec
=============================================================================
