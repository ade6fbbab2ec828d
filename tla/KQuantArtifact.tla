-------------------------- MODULE KQuantArtifact --------------------------
(***************************************************************************)
(* The producer of a resident K-pack artifact and its inverse: official    *)
(* GGUF blocks [E, N, K/256] become a low plane, a high plane and metadata *)
(* units, and are recovered from them. Data are symbolic: what a bit, or a *)
(* code, of the artifact holds is the place in the official blocks it came *)
(* from, so that the round trip is checked for every content at once.      *)
(* A step is one superblock, as in the loops of _prepare and of            *)
(* recover_raw_blocks. Of the N columns the loops run over, Columns are    *)
(* visited.                                                                *)
(***************************************************************************)
EXTENDS KQuantLayout, CodeConverter

CONSTANTS
  Kinds,      \* formats
  Ns,         \* extents in N: the geometries requested, illegal ones included
  Ks,         \* extents in K
  MaxExperts,
  Columns     \* bound: the columns visited

ASSUME LayoutAssumption ==
  /\ Kinds \subseteq Formats
  /\ Ns \subseteq Int /\ Ks \subseteq Int
  /\ MaxExperts \in Nat \ {0}
  /\ Columns \subseteq Nat

VARIABLES
  fmt, n, k, experts,  \* the request
  phase,               \* "request", "prepare", "recover", "done" or "refused"
  todo,                \* superblocks <<expert, column, sb>> the loop has still to visit
  plane,               \* plane[p]: bit address of a code -> the code's origin
  units,               \* bit address -> the set of metadata bits ORed into it
  recovered            \* address in the official blocks -> origin

vars == <<fmt, n, k, experts, phase, todo, plane, units, recovered>>
request == <<fmt, n, k, experts>>

Superblocks == k \div QK
Blocks == (0 .. experts - 1) \X {c \in Columns : c < n} \X (0 .. Superblocks - 1)

(* The loops run expert-major, then by column, then along K.               *)
Before(a, b) ==
  \/ a[1] < b[1]
  \/ a[1] = b[1] /\ a[2] < b[2]
  \/ a[1] = b[1] /\ a[2] = b[2] /\ a[3] < b[3]
First(S) == CHOOSE a \in S : \A b \in S \ {a} : Before(a, b)
-----------------------------------------------------------------------------
(* Addresses.                                                              *)
RawBase(b) == ((b[1] * n + b[2]) * Superblocks + b[3]) * Quant[fmt].raw * 8

UnitBaseBySuperblocks(b) ==         \* mutant: strides by superblocks, not by units
  ((b[1] * Superblocks + b[3]) * n + b[2]) * UnitBytes(fmt) * 8
    + (b[3] % SbPerUnit(fmt)) * SbBytes(fmt) * 8
UnitBase(b) ==
  LET numUnits == Superblocks \div SbPerUnit(fmt)
  IN  ((b[1] * numUnits + b[3] \div SbPerUnit(fmt)) * n + b[2]) * UnitBytes(fmt) * 8
        + (b[3] % SbPerUnit(fmt)) * SbBytes(fmt) * 8

CodeAt(b, i, p) ==
  IF fmt = "Q5_K" /\ p = "high"
  THEN TransposedAt(b[1], b[2], b[3] * QK + i, n, k)
  ELSE PlacedAt(b[1], b[2], b[3] * QK + i, n, k, Quant[fmt][p])

PlaneHolds(p, a) == IF a \in DOMAIN plane[p] THEN plane[p][a] ELSE << >>
UnitHolds(a) == IF a \in DOMAIN units THEN units[a] ELSE {}

Shifted(base, field) == [i \in DOMAIN field |-> base + field[i]]

(* The metadata of a superblock: where each field comes from in the        *)
(* official block and where it goes in the unit, d and dmin included.      *)
MetaPairs(b) ==
  {<<Shifted(RawBase(b), RefMetaField(fmt, g, w)), Shifted(UnitBase(b), UnitField(fmt, g, w))>> :
     g \in Groups(fmt), w \in Fields(fmt)}
  \cup {<<Shifted(RawBase(b), Field(8 * Quant[fmt].dOff, 16)),
          Shifted(UnitBase(b), Field(0, 16))>>}
  \cup IF ~HasMin(fmt) THEN {}
       ELSE {<<Shifted(RawBase(b), Field(8 * Quant[fmt].dminOff, 16)),
               Shifted(UnitBase(b), Field(16, 16))>>}

RawCode(b, i, p) == Shifted(RawBase(b), RefCodeField(fmt, i, p))
-----------------------------------------------------------------------------
LegalGeometry ==
  /\ n > 0 /\ n % 256 = 0
  /\ k > 0 /\ k % (IF SbPerUnit(fmt) = 2 THEN 512 ELSE 256) = 0

Init ==
  /\ fmt \in Kinds /\ n \in Ns /\ k \in Ks /\ experts \in 1 .. MaxExperts
  /\ phase = "request"
  /\ todo = {}
  /\ plane = [p \in {"low", "high"} |-> << >>]
  /\ units = << >>
  /\ recovered = << >>

Validate ==
  /\ phase = "request"
  /\ IF LegalGeometry THEN phase' = "prepare" /\ todo' = Blocks
                      ELSE phase' = "refused" /\ UNCHANGED todo
  /\ UNCHANGED <<request, plane, units, recovered>>

(* What is stored at an address replaces what was there.                   *)
Over(new, old) == [a \in DOMAIN new \cup DOMAIN old |-> IF a \in DOMAIN new THEN new[a] ELSE old[a]]

(* Codes are put with a mask, so a later one would replace an earlier one. *)
PutCodes(b, p) ==
  Over([a \in {CodeAt(b, i, p) : i \in Codes} |->
          RawCode(b, CHOOSE i \in Codes : CodeAt(b, i, p) = a, p)], plane[p])

(* Unit fields are ORed into the zeroed units.                             *)
PutMeta(b) ==
  LET writes == UNION {{<<pair[2][i], pair[1][i]>> : i \in DOMAIN pair[1] \cap DOMAIN pair[2]} :
                         pair \in MetaPairs(b)}
      written == {w[1] : w \in writes}
  IN  Over([a \in written |-> UnitHolds(a) \cup {w[2] : w \in {v \in writes : v[1] = a}}], units)

PrepareBlock ==
  /\ phase = "prepare" /\ todo # {}
  /\ LET b == First(todo)
     IN  /\ todo' = todo \ {b}
         /\ plane' = [p \in DOMAIN plane |->
                        IF p \in Planes(fmt) THEN PutCodes(b, p) ELSE plane[p]]
         /\ units' = PutMeta(b)
  /\ UNCHANGED <<request, phase, recovered>>

StartRecover ==
  /\ phase = "prepare" /\ todo = {}
  /\ phase' = "recover"
  /\ todo' = Blocks
  /\ UNCHANGED <<request, plane, units, recovered>>

(* What a superblock's bytes hold after the inverse: pairs of a bit of the *)
(* block and an origin.                                                    *)
CodeBits(b) ==
  UNION {LET at == RawCode(b, i, p)
             held == PlaneHolds(p, CodeAt(b, i, p))
         IN  {<<at[j], held[j]>> : j \in DOMAIN at \cap DOMAIN held} : i \in Codes, p \in Planes(fmt)}
MetaBits(b) ==
  UNION {UNION {{<<pair[1][j], o>> : o \in UnitHolds(pair[2][j])} : j \in DOMAIN pair[1]} : pair \in MetaPairs(b)}

RecoverBlock ==
  /\ phase = "recover" /\ todo # {}
  /\ LET b == First(todo)
     IN  /\ todo' = todo \ {b}
         /\ recovered' = Over([c \in {b} |-> CodeBits(c) \cup MetaBits(c)], recovered)
  /\ UNCHANGED <<request, phase, plane, units>>

Finish ==
  /\ phase = "recover" /\ todo = {}
  /\ phase' = "done"
  /\ UNCHANGED <<request, todo, plane, units, recovered>>

Terminated == phase \in {"done", "refused"} /\ UNCHANGED vars

Next == Validate \/ PrepareBlock \/ StartRecover \/ RecoverBlock \/ Finish \/ Terminated

Spec == Init /\ [][Next]_vars
-----------------------------------------------------------------------------
Extent(b) == RawBase(b) .. RawBase(b) + 8 * Quant[fmt].raw - 1
Prepared == IF phase = "prepare" THEN Blocks \ todo
            ELSE IF phase \in {"recover", "done"} THEN Blocks ELSE {}

(* Every byte written lies in a buffer of the size the producer allocates  *)
(* for the request, and a refused request writes nothing (gguf_kpack.py    *)
(* 469-471).                                                               *)
TypeOK ==
  /\ phase \in {"request", "prepare", "recover", "done", "refused"}
  /\ \A p \in Planes(fmt) :
       \A a \in DOMAIN plane[p] : a >= 0 /\ a + Quant[fmt][p] <= experts * n * k * Quant[fmt][p]
  /\ \A a \in DOMAIN units :
       a \in 0 .. experts * (Superblocks \div SbPerUnit(fmt)) * n * UnitBytes(fmt) * 8 - 1
  /\ phase \in {"request", "refused"} => plane = [p \in {"low", "high"} |-> << >>] /\ units = << >>

(* Whatever is written later, a superblock already prepared reads back as  *)
(* it was: no code is replaced by one of another column, superblock or     *)
(* expert, and no two metadata bits are ORed together (_placed_put, which  *)
(* masks, and _unit_put, which does not).                                  *)
NothingClobbered ==
  \A b \in Prepared :
    /\ \A p \in Planes(fmt) : \A i \in Codes : PlaneHolds(p, CodeAt(b, i, p)) = RawCode(b, i, p)
    /\ \A pair \in MetaPairs(b) : \A j \in DOMAIN pair[1] : UnitHolds(pair[2][j]) = {pair[1][j]}

(* Recovering an artifact gives back the official blocks: every bit of a   *)
(* block is written, with the bit that was there (recover_raw_blocks), and *)
(* while it is prepared no superblock spoils another.                      *)
RecoverIsInverse ==
  /\ NothingClobbered
  /\ phase = "done" => \A b \in Blocks : recovered[b] = {<<a, a>> : a \in Extent(b)}

ConvertedExactly == {f \in Formats : ConverterAgrees(Quant[f].low, Quant[f].high)}

(* A reader of one field touches the bytes, or words, the field is in and  *)
(* none beyond its unit, also for the last group of the last superblock    *)
(* (code_of, code_from_words).                                             *)
ReadsStayInUnit(g, w) ==
  LET bits == BitsOf(UnitField(fmt, g, w))
  IN  /\ {x \div 8 : x \in bits} = CodeOfBytes(fmt, g, w)
      /\ CodeOfBytes(fmt, g, w) \subseteq 0 .. SbBytes(fmt) - 1
      /\ {x \div 32 : x \in bits} = WordsOfField(fmt, g, w, (SbBytes(fmt) + 3) \div 4)

(* The layouts the C++ reader is built from and the byte arithmetic of the *)
(* reference packer address the same bits (gguf_scale_layout.hpp,          *)
(* gguf_kpack.py), a reader of the unit stays in it, and the converter of  *)
(* the format's planes takes each code from the bits that placement gives  *)
(* it, with the high bits that go with it (quactlize_mix_gemm_convert.h    *)
(* 592-604).                                                               *)
StatementsAgree ==
  phase = "request" =>
    /\ fmt \in ConvertedExactly
    /\ \A g \in Groups(fmt), w \in Fields(fmt) :
         MetaField(fmt, g, w) = RefMetaField(fmt, g, w) /\ ReadsStayInUnit(g, w)
    /\ \A i \in Codes, p \in Planes(fmt) : CodeField(fmt, i, p) = RefCodeField(fmt, i, p)
=============================================================================
