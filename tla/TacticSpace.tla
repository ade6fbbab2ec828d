---------------------------- MODULE TacticSpace ----------------------------
(***************************************************************************)
(* ppu_format_config, ppu_tactic_space.hpp and the compiled configs: which *)
(* tile and warp shapes the mixed-input kernels can be built with. The     *)
(* offline emitter, the library's validity queries and its launches all    *)
(* ask these predicates; the kernel types repeat them as static_asserts.   *)
(***************************************************************************)
EXTENDS Integers, Sequences, FiniteSets

-----------------------------------------------------------------------------
(* The format registry.                                                    *)
Row(q, low, high, group, scaleTk, fqTk, packed) ==
  [qtype |-> q, low |-> low, high |-> high, group |-> group,
   scaleTk |-> scaleTk, fqTk |-> fqTk, packed |-> packed]
FormatRows == {Row(10, 2, 0, 16, 128, 256, 2), Row(11, 2, 1, 16, 256, 256, 3),
               Row(12, 4, 0, 32, 64, 256, 0), Row(13, 4, 1, 32, 256, 256, 1),
               Row(14, 4, 2, 16, 128, 128, 4)}
InvalidRow == Row(-1, 0, 0, 0, 0, 0, -1)
ForQtype(q) ==
  IF \E f \in FormatRows : f.qtype = q THEN CHOOSE f \in FormatRows : f.qtype = q ELSE InvalidRow
ForPacked(p) ==
  IF \E f \in FormatRows : f.packed = p THEN CHOOSE f \in FormatRows : f.packed = p ELSE InvalidRow
MinimumDelivery(f) ==
  LET bits == IF f.high # 0 THEN f.high ELSE f.low IN 256 \div bits
(* The registry's static_assert.                                           *)
RegistryIsValid ==
  \A f \in FormatRows :
    /\ f.scaleTk = MinimumDelivery(f) /\ f.fqTk >= f.scaleTk
    /\ (256 % f.scaleTk) = 0 /\ (256 % f.fqTk) = 0
ASSUME RegistryAssumption == RegistryIsValid
-----------------------------------------------------------------------------
(* A candidate: one or two code planes, tile, warp, and the TileK that the *)
(* resident artifact was arranged for.                                     *)
BlockSmemBytes == 262144
MinGroup == 16
CeilDiv(a, b) == (a + b - 1) \div b

Tactic(low, high, tm, tn, tk, wm, wn, atk) ==
  [low |-> low, high |-> high, tm |-> tm, tn |-> tn, tk |-> tk, wm |-> wm, wn |-> wn, atk |-> atk]

RunBytes(bits, tk) == (bits * tk) \div 8
FoldFor(bits, tk) ==
  LET run == RunBytes(bits, tk)
  IN  IF run <= 0 \/ (run < 32 /\ (32 % run) # 0) THEN 0
      ELSE IF run >= 32 THEN 1 ELSE 32 \div run
LowFold(c) == FoldFor(c.low, c.atk)
HighFold(c) == IF c.high # 0 THEN FoldFor(c.high, c.atk) ELSE 1
RunIsExact(bits, tk) ==
  /\ ((bits * tk) % 8) = 0
  /\ RunBytes(bits, tk) >= 32 \/ (RunBytes(bits, tk) > 0 /\ (32 % RunBytes(bits, tk)) = 0)

CtaWarps(c) == (c.tm \div c.wm) * (c.tn \div c.wn)
ScaleCopySlots(c, group) == (c.tn \div 8) * CeilDiv(c.tk, group)
ScaleCopyCovered(c, group) == ScaleCopySlots(c, group) <= 32 * CtaWarps(c)

AtomAligned(c) == \A x \in {c.tm, c.tn, c.tk, c.wm, c.wn} : (x % 16) = 0
WarpsDivide(c) == c.wm <= c.tm /\ c.wn <= c.tn /\ (c.tm % c.wm) = 0 /\ (c.tn % c.wn) = 0
ArtifactTiles(c) == c.atk > 0 /\ (c.atk % 16) = 0 /\ c.atk <= c.tk /\ (c.tk % c.atk) = 0
ArtifactRuns(c) == RunIsExact(c.low, c.atk) /\ (c.high # 0 => RunIsExact(c.high, c.atk))
FoldsDivide(c) == (c.tn % LowFold(c)) = 0 /\ (c.high # 0 => (c.tn % HighFold(c)) = 0)
Delivered(c) ==
  /\ c.wn * c.tk * c.low >= 4096
  /\ c.high # 0 => c.wn * c.tk * c.high >= 4096
KernelLegal(c) ==
  /\ AtomAligned(c) /\ WarpsDivide(c) /\ CtaWarps(c) <= 32
  /\ ArtifactTiles(c) /\ ArtifactRuns(c) /\ FoldsDivide(c) /\ Delivered(c)
  /\ ScaleCopyCovered(c, MinGroup)
(* The accumulators of the sweep stay under 192 registers a thread.        *)
NonSmemLegal(c) == KernelLegal(c) /\ (c.wm * c.wn) \div 32 <= 192

StageSmem(c, aRows) ==
  aRows * c.tk * 2 + (c.tn * c.tk * (c.low + c.high)) \div 8
    + c.tn * (c.tk \div MinGroup) * 4
FitsBlock(c, stages, aRows) == StageSmem(c, aRows) * stages <= BlockSmemBytes
TopologyLegal(c, stages) == NonSmemLegal(c) /\ FitsBlock(c, stages, c.tm)

CompactASupported(c) == c.high = 0 /\ LowFold(c) = 1
CompactALegal(c, stages, rows) ==
  /\ NonSmemLegal(c) /\ CompactASupported(c)
  /\ rows > 0 /\ rows <= c.tm /\ (c.tm % rows) = 0
  /\ FitsBlock(c, stages, rows)
(* What the offline producer can arrange: a four-bit low and a two-bit     *)
(* high plane are Q6, whose inverse map at 256 is incomplete.              *)
ProducerReaches(c) == c.wn <= 64 /\ ~(c.low = 4 /\ c.high = 2 /\ c.atk = 256)
SweepLegal(c) == TopologyLegal(c, 2) /\ ProducerReaches(c)

(* The axes of the sweep: i1, i2, i4, Q3, Q5 and Q6 planes.                *)
Planes == {<<1, 0>>, <<2, 0>>, <<4, 0>>, <<2, 1>>, <<4, 1>>, <<4, 2>>}
SweepDomain ==
  {Tactic(p[1], p[2], tm, tn, tk, wm, wn, atk) :
     p \in Planes, tm \in {16, 32, 64, 128, 256}, tn \in {16, 32, 64, 128},
     tk \in {32, 64, 128, 256}, wm \in {16, 32, 64}, wn \in {16, 32, 64, 128},
     atk \in {32, 64, 128, 256}}
-----------------------------------------------------------------------------
(* What the kernel types assert of their own template arguments.           *)
(* MainloopPolicy: the artifact's folds cover the tactic in 32-byte runs.  *)
PolicyCompiles(c) ==
  /\ c.atk > 0 /\ c.atk <= c.tk /\ (c.tk % c.atk) = 0
  /\ (c.tn % LowFold(c)) = 0 /\ ((LowFold(c) * c.tk * c.low) % 256) = 0
  /\ c.high # 0 => /\ (c.tn % HighFold(c)) = 0
                   /\ ((HighFold(c) * c.tk * c.high) % 256) = 0
(* CheckDelivery: a 16-byte delivery has a fragment slot for each code.    *)
Deliverable(bits, c) == bits > 0 => 128 \div bits <= (c.wn * c.tk) \div 32
(* KernelPolicyGuard, the launch size of the tiled MMA included.           *)
GuardHolds(c) ==
  /\ ScaleCopyCovered(c, MinGroup) /\ KernelLegal(c)
  /\ Deliverable(c.low, c) /\ Deliverable(c.high, c)

(* The header's own controls, and: whatever the sweep emits compiles.      *)
ControlQ3 == Tactic(2, 1, 64, 128, 256, 32, 32, 64)
ControlCompact == Tactic(4, 0, 128, 64, 64, 64, 32, 64)
Controls ==
  /\ KernelLegal(Tactic(2, 0, 64, 64, 256, 32, 32, 64))
  /\ LowFold(Tactic(2, 0, 64, 64, 256, 32, 32, 64)) = 2
  /\ KernelLegal(ControlQ3) /\ LowFold(ControlQ3) = 2 /\ HighFold(ControlQ3) = 4
  /\ ~ArtifactTiles(Tactic(2, 0, 64, 64, 96, 64, 32, 64))
  /\ LET c == Tactic(2, 0, 64, 64, 96, 64, 32, 48) IN ArtifactTiles(c) /\ ~ArtifactRuns(c)
  /\ LET c == Tactic(4, 0, 16, 128, 64, 16, 64, 64)
     IN  ScaleCopySlots(c, 16) = 64 /\ CtaWarps(c) = 2 /\ KernelLegal(c)
  /\ LET c == Tactic(4, 0, 16, 128, 256, 16, 32, 64)
     IN  ScaleCopySlots(c, 16) = 256 /\ CtaWarps(c) = 4 /\ ScaleCopyCovered(c, 32) /\ ~KernelLegal(c)
  /\ CompactALegal(ControlCompact, 2, 8)
  /\ \A rows \in {0, 3} : ~CompactALegal(ControlCompact, 2, rows)
ASSUME ControlsAssumption == Controls
ASSUME EmittedTacticsCompile ==
  \A c \in SweepDomain : SweepLegal(c) => PolicyCompiles(c) /\ GuardHolds(c)
-----------------------------------------------------------------------------
(* The configs compiled into the library; the first one is the default.    *)
Config(name, tm, tn, wm, wn, stages) ==
  [name |-> name, tm |-> tm, tn |-> tn, wm |-> wm, wn |-> wn, stages |-> stages]
SharedConfigs ==
  <<Config("32x32:16x16:s3", 32, 32, 16, 16, 3), Config("16x128:16x32:s3", 16, 128, 16, 32, 3),
    Config("32x128:32x32:s3", 32, 128, 32, 32, 3), Config("128x64:64x32:s2", 128, 64, 64, 32, 2)>>
DenseConfigs == <<Config("64x64:32x32:s3", 64, 64, 32, 32, 3)>> \o SharedConfigs
GroupedConfigs == <<Config("16x128:16x16:s2", 16, 128, 16, 16, 2)>> \o SharedConfigs
DenseCuda == "gemv_lowbit"
GroupedCuda == "vecdot_moe"
=============================================================================
