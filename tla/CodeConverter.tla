--------------------------- MODULE CodeConverter ---------------------------
(***************************************************************************)
(* The converters from packed codes in 32-bit registers to fp16 pairs: what *)
(* each pair reads, where it is written, and the number it becomes. A      *)
(* delivery is four registers. Pair t of register v is two codes, one for  *)
(* each half (0, 1) of the result; a code read from a register is named    *)
(* with the place of its lowest bit. Of a fragment an output is an index   *)
(* in fp16s, k within n.                                                   *)
(***************************************************************************)
EXTENDS Integers, FiniteSets, Sequences

Halves == {0, 1}
Vregs == 0 .. 3
CodesPerVreg(bits) == 32 \div bits
Outputs(bits) == 4 * CodesPerVreg(bits)
Pairs(bits) == 0 .. CodesPerVreg(bits) \div 2 - 1
-----------------------------------------------------------------------------
(* The emission: bit i of a code's number has a stride of its own, and so  *)
(* have the two bits of the register's.                                    *)
NumCodeBits(bits) == CASE bits = 1 -> 5 [] bits = 2 -> 4 [] bits = 4 -> 3
CodeStride(bits, i) ==
  IF i = NumCodeBits(bits) - 1 THEN 1 ELSE IF i = 0 THEN 2 ELSE 4 * 2 ^ i

EmitIndex(bits, code, v) ==
  LET Term(i) == ((code \div 2 ^ i) % 2) * CodeStride(bits, i)
      sum[i \in 0 .. NumCodeBits(bits)] == IF i = 0 THEN 0 ELSE sum[i - 1] + Term(i - 1)
  IN  sum[NumCodeBits(bits)] + 2 * CodesPerVreg(bits) * (v % 2) + 4 * (v \div 2)

(* The wide int4 converter has no table: eight at a time, the registers    *)
(* permuted, and blocks of four outputs swapped.                           *)
ComposedInt4(code, v) ==
  LET eight == 2 * (code % 4) + code \div 4
      out == 8 * <<0, 2, 1, 3>>[v + 1] + eight
      block == out \div 4
      swapped == CASE block = 1 -> 2 [] block = 2 -> 1 [] block = 5 -> 6 [] block = 6 -> 5
                   [] OTHER -> block
  IN  4 * swapped + (out % 4)

OutPair(bits, t, v) == EmitIndex(bits, t, v) \div 2
-----------------------------------------------------------------------------
(* A pair masks the register, shifted down by a byte for the upper half of *)
(* the pairs; the mask is duplicated sixteen bits up.                      *)
PerLevel(bits) == 8 \div bits
BPos(bits, t) == (t % PerLevel(bits)) * bits
BitRead(bits, t, half) == 8 * (t \div PerLevel(bits)) + BPos(bits, t) + 16 * half

(* The masked bits are ORed into the ten mantissa bits of 1024, which is   *)
(* then scaled by 2^-bpos and reduced by an fp16 of exponent 10 - bpos     *)
(* whose mantissa field holds the bias at bpos. Everything here is times   *)
(* 2^bpos; what does not fit the field is lost.                            *)
MantissaField(x) == 1024 + (x % 1024)
Converted(bits, bias, t, code) ==
  LET scale == 2 ^ BPos(bits, t)
  IN  (MantissaField(code * scale) - MantissaField(bias * scale)) \div scale
BiasFits(bits, bias) == bias = 0 \/ bias * 2 ^ (8 - bits) < 1024
-----------------------------------------------------------------------------
(* Two planes: the high plane's bits go above the low code's in the        *)
(* mantissa. A register of high codes serves several of low codes.         *)
VregRatio(low, high) == low \div high
LoCode(bits, t, half) == t + (16 \div bits) * half
HiCode(low, high, t, v, half) ==
  t + (16 \div low) * (v % VregRatio(low, high)) + (16 \div high) * half
HiVreg(low, high, v) == VregRatio(low, high) * (v \div VregRatio(low, high))
HiBitRead(low, high, t, v, half) == high * HiCode(low, high, t, v, 0) + 16 * half

(* The bias of a symmetric format is in the converter when there is no     *)
(* zero channel to hold it.                                                *)
SymBias(low, high) == 2 ^ (low + high - 1)
CvtBias(low, high, scaleOnly) ==
  IF scaleOnly THEN SymBias(low, high) ELSE IF low = 4 THEN 8 ELSE 0

(* Delivery ii of copy step kb takes its high registers from slot HiSlot,  *)
(* from HiBase on. There are n2 slots, and p2 copy steps share a delivery. *)
HiSlot(ii, n2) == ii % n2
HiBaseWithoutN(ii, kb, n2, p2) == kb % p2            \* mutant: the N index left out
HiBase(ii, kb, n2, p2) == (kb % p2) + p2 * (ii \div n2)

(* A chunked pass emits the outputs of one k-atom, out of atoms, into a    *)
(* fragment of that atom alone.                                            *)
KAtom(atoms, e) == (e \div 8) % atoms
AtH2(atoms, e) == ((e % 8) + 8 * (e \div (8 * atoms))) \div 2
Keep(bits, atoms, chunk, t, v) == KAtom(atoms, 2 * OutPair(bits, t, v)) = chunk
Chunked(bits, atoms, chunk) ==
  {p \in Pairs(bits) \X Vregs : Keep(bits, atoms, chunk, p[1], p[2])}
-----------------------------------------------------------------------------
(* Four bytes at once. A selector's two nibbles name the byte of a half:   *)
(* 0 to 3 are the source's, 5 is the exponent of 1024.                     *)
Selectors(interleave) ==
  IF interleave THEN <<<<0, 5, 2, 5>>, <<1, 5, 3, 5>>>> ELSE <<<<0, 5, 1, 5>>, <<2, 5, 3, 5>>>>
Byte4Source(interleave) ==
  LET s == Selectors(interleave)
  IN  <<s[1][1], s[1][3], s[2][1], s[2][3]>>
Byte4Value(bias, byte) == (1024 + byte) - (1024 + bias)
-----------------------------------------------------------------------------
(* A conversion from the packed codes of one or two planes is exact, every *)
(* output has one writer, and each code of each plane reaches one output,  *)
(* together with the code that continues it in the other plane.            *)
EmissionAgrees(bits) ==
  /\ Cardinality({EmitIndex(bits, c, v) : c \in 0 .. CodesPerVreg(bits) - 1, v \in Vregs})
       = Outputs(bits)
  /\ bits = 4 => \A c \in 0 .. 7, v \in Vregs : ComposedInt4(c, v) = EmitIndex(4, c, v)
  /\ \A t \in Pairs(bits), half \in Halves :
       /\ BitRead(bits, t, half) = bits * LoCode(bits, t, half)
       /\ \A v \in Vregs :
            EmitIndex(bits, LoCode(bits, t, half), v) = 2 * OutPair(bits, t, v) + half

ChunksAgree(bits) ==
  \A atoms \in {a \in {1, 2, 4, 8} : Outputs(bits) % (8 * a) = 0} :
    LET perAtom == Outputs(bits) \div (2 * atoms)
    IN  /\ UNION {Chunked(bits, atoms, c) : c \in 0 .. atoms - 1} = Pairs(bits) \X Vregs
        /\ \A c \in 0 .. atoms - 1 :
             {AtH2(atoms, 2 * OutPair(bits, p[1], p[2])) : p \in Chunked(bits, atoms, c)}
               = 0 .. perAtom - 1

ConversionExact(low, high, biases) ==
  \A bias \in biases, t \in Pairs(low), code \in 0 .. 2 ^ (low + high) - 1 :
    BiasFits(low, bias) /\ Converted(low, bias, t, code) = code - bias

(* p2 copy steps of 2 * r deliveries, folded into two slots.               *)
HighPlaneAgrees(low, high) ==
  LET ratio == VregRatio(low, high)
      OnceOver(p2) ==
        LET r == ratio \div p2
            reads == {<<ii, kb, t, v, half>> :
                        ii \in 0 .. 2 * r - 1, kb \in 0 .. p2 - 1, t \in Pairs(low),
                        v \in Vregs, half \in Halves}
            Read(x) == <<HiSlot(x[1], 2), HiBase(x[1], x[2], 2, p2) + HiVreg(low, high, x[4]),
                         HiCode(low, high, x[3], x[4], x[5])>>
            every == {0, 1} \X Vregs \X (0 .. CodesPerVreg(high) - 1)
        IN  {Read(x) : x \in reads} = every /\ Cardinality(reads) = Cardinality(every)
  IN  /\ \A p2 \in {p \in 1 .. ratio : ratio % p = 0} : OnceOver(p2)
      /\ \A t \in Pairs(low), v \in Vregs, half \in Halves :
           HiBitRead(low, high, t, v, half) = high * HiCode(low, high, t, v, half)

ConverterAgrees(low, high) ==
  /\ EmissionAgrees(low) /\ ChunksAgree(low)
  /\ IF high = 0 THEN ConversionExact(low, 0, {IF low = 4 THEN 8 ELSE 0})
     ELSE /\ ConversionExact(low, high, {CvtBias(low, high, m) : m \in BOOLEAN})
          /\ HighPlaneAgrees(low, high)
          /\ EmissionAgrees(high)
=============================================================================
