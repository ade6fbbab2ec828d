--------------------------- MODULE LibraryEntries ---------------------------
(***************************************************************************)
(* ppu_dense_backend.cu and ppu_backend.cu: what the exported validity     *)
(* predicates say of a problem, the workspace the queries name for it, and *)
(* the code the host and device entries return for it.  A caller asks,     *)
(* reserves a buffer, and enters, for one library build and one shape.     *)
(* The device itself works here: RuntimeEntries is about its failures.     *)
(***************************************************************************)
EXTENDS TacticSpace, FiniteSetsExt

CONSTANTS Rows,          \* the numbers of activation rows asked about
          Spreads        \* how a grouped problem's rows may be spread
ASSUME EntriesAssumption == Rows \subseteq Int

VARIABLES shape,         \* the library build, the family and the problem
          held,          \* bytes of the caller's workspace, -1: none
          call           \* the last answer
libVars == <<shape, held, call>>

Families == {"dense_lowbit", "dense_fully_quantized", "grouped_lowbit",
             "grouped_fully_quantized", "gemv_lowbit", "vecdot_moe"}
Grouped(s) == s.family \in {"grouped_lowbit", "grouped_fully_quantized", "vecdot_moe"}
Tensor(s) == s.family \notin {"gemv_lowbit", "vecdot_moe"}
Packing(s) == s.family \in {"dense_fully_quantized", "grouped_fully_quantized"}
Known(q) == ForQtype(q) # InvalidRow
TwoPlane(q) == ForQtype(q).high # 0
Builds == -1 .. 4                        \* -1: built without PPU_PACKED_SCALE

Configs(s) == IF Grouped(s) THEN GroupedConfigs ELSE DenseConfigs
Compiled(s) ==
  IF Tensor(s) THEN {Configs(s)[i].name : i \in DOMAIN Configs(s)}
  ELSE {IF Grouped(s) THEN GroupedCuda ELSE DenseCuda}
(* A name that is not compiled falls back to the default when resolved.    *)
Resolve(s, name) ==
  LET at == {i \in DOMAIN Configs(s) : Configs(s)[i].name = name}
  IN  Configs(s)[IF at = {} THEN 1 ELSE Min(at)]

(* The largest number of rows one expert gets.                             *)
MaxRows(m, s, spread) ==
  IF spread = "one" \/ s.experts <= 0 THEN m ELSE CeilDiv(m, s.experts)
-----------------------------------------------------------------------------
(* Which compiled types launch.                                            *)
SelectedQtype(s) == s.packed >= 0 /\ s.qtype = ForPacked(s.packed).qtype
SelectedFullyQuantized(s) == SelectedQtype(s) /\ (s.packed \in {3, 4} => s.k % 512 = 0)
Candidate(q, row, tk) ==
  Tactic(ForQtype(q).low, ForQtype(q).high, row.tm, row.tn, tk, row.wm, row.wn, tk)
CompiledTypes ==
  {x \in (10 .. 14) \X {64, 128, 256} \X
         ({DenseConfigs[i] : i \in DOMAIN DenseConfigs} \cup {GroupedConfigs[1]}) :
     LET c == Candidate(x[1], x[3], x[2])
     IN  KernelLegal(c) /\ FitsBlock(c, x[3].stages, x[3].tm)}
Launches(s, row) ==
  <<s.qtype, IF Packing(s) THEN ForQtype(s.qtype).fqTk ELSE ForQtype(s.qtype).scaleTk, row>>
    \in CompiledTypes

(* The dense route keeps two-plane qtypes out of the build that selects    *)
(* them, the grouped one the single-plane Q2 as well.                      *)
ScaleFirstOut(s) ==
  SelectedQtype(s) /\ (TwoPlane(s.qtype) \/ (Grouped(s) /\ s.qtype = 10))

TensorDomain(m, s) ==
  /\ m > 0 /\ s.n > 0 /\ s.k > 0 /\ s.n % 256 = 0 /\ s.k % 256 = 0
  /\ s.group = ForQtype(s.qtype).group
(* Mutant: the compiled inventory answers for the problem. *)
LowbitValid_Inventory(row, m, s) == TensorDomain(m, s) /\ Known(s.qtype) /\ ~ScaleFirstOut(s)
LowbitValid(row, m, s) ==
  TensorDomain(m, s) /\ Known(s.qtype) /\ ~ScaleFirstOut(s) /\ Launches(s, row)
FullyQuantizedValid(row, m, s) ==
  TensorDomain(m, s) /\ SelectedFullyQuantized(s) /\ Launches(s, row)
GroupedDomain(s, most) == s.experts > 0 /\ most > 0

(* gemv_lowbit: the launcher's own refusals, asked without launching.      *)
StepK(q) == IF q \in {11, 13} THEN 32 ELSE 16
CtaK(q) == StepK(q) * (IF q \in {11, 13} THEN 64 ELSE 128)
QuantCompiled(q, group) ==
  /\ group \in {16, 32} /\ CtaK(q) % group = 0
  /\ IF group < StepK(q) THEN StepK(q) % group = 0 ELSE group % StepK(q) = 0
CtaMMax == 15
GemvLaunches(m, s) ==
  /\ s.n % 8 = 0 /\ s.k > 0 /\ s.k % StepK(s.qtype) = 0 /\ s.k % s.group = 0
  /\ QuantCompiled(s.qtype, s.group)
  /\ m > 0 /\ m <= CtaMMax * 4096
GemvValid(m, s) ==
  /\ Known(s.qtype) /\ s.n > 0 /\ s.n % 256 = 0 /\ s.k > 0 /\ s.k % 256 = 0
  /\ s.group = ForQtype(s.qtype).group
  /\ GemvLaunches(m, s)
VecdotValid(m, s, most) ==
  /\ m > 0 /\ s.n > 0 /\ s.k > 0 /\ s.k % 256 = 0 /\ s.experts > 0 /\ most > 0
  /\ s.group = ForQtype(s.qtype).group

(* The exported predicate of each family: no name asks about the default.  *)
Valid(s, m, spread, name) ==
  LET most == MaxRows(m, s, spread)
      row == Resolve(s, name)
  IN  /\ name = "" \/ name \in Compiled(s)
      /\ Grouped(s) => GroupedDomain(s, most)
      /\ CASE s.family \in {"dense_lowbit", "grouped_lowbit"} -> LowbitValid(row, m, s)
           [] Packing(s) -> FullyQuantizedValid(row, m, s)
           [] s.family = "gemv_lowbit" -> GemvValid(m, s)
           [] s.family = "vecdot_moe" -> VecdotValid(m, s, most)

(* The filtered lists: every compiled record its predicate admits.         *)
Listed(s, m, spread, name) ==
  \/ name \in Compiled(s) /\ Valid(s, m, spread, name)
  \/ /\ name = DenseCuda /\ s.family = "dense_lowbit"
     /\ Valid([s EXCEPT !.family = "gemv_lowbit"], m, spread, name)
-----------------------------------------------------------------------------
(* The workspace: one int for each CTA of the finest dense grid; grouped   *)
(* metadata regions, each aligned to 16 bytes, then the kernel's own.      *)
DenseWorkspace(m, n) ==
  LET tm == Min({DenseConfigs[i].tm : i \in DOMAIN DenseConfigs})
      tn == Min({DenseConfigs[i].tn : i \in DOMAIN DenseConfigs})
  IN  CeilDiv(m, tm) * CeilDiv(n, tn) * 4
Align16(v) == CeilDiv(v, 16) * 16
(* Mutant: the output pointers are counted as ints. *)
GroupedLayout_NarrowPtrs(most, n, experts) ==
  LET ptrs == Align16(12 * experts)
      strides == Align16(ptrs + 4 * experts)
      rows == Align16(strides + 8 * experts)
      kernel == Align16(rows + 4 * experts)
      bytes == CeilDiv(most, 16) * CeilDiv(n, 64) * experts * 64
  IN  [shapes |-> 0, outPtrs |-> ptrs, outStrides |-> strides, rows |-> rows,
       kernel |-> kernel, kernelBytes |-> bytes, total |-> kernel + bytes]
GroupedLayout(most, n, experts) ==
  LET ptrs == Align16(12 * experts)
      strides == Align16(ptrs + 8 * experts)
      rows == Align16(strides + 8 * experts)
      kernel == Align16(rows + 4 * experts)
      bytes == CeilDiv(most, 16) * CeilDiv(n, 64) * experts * 64
  IN  [shapes |-> 0, outPtrs |-> ptrs, outStrides |-> strides, rows |-> rows,
       kernel |-> kernel, kernelBytes |-> bytes, total |-> kernel + bytes]
(* -1 where the family has no query or the query refuses the problem.      *)
WorkspaceBytes(s, m) ==
  CASE s.family = "dense_fully_quantized" ->
         IF m > 0 /\ s.n > 0 /\ s.n % 256 = 0 /\ s.k > 0 /\ s.k % 256 = 0
            /\ SelectedFullyQuantized(s)
         THEN DenseWorkspace(m, s.n) ELSE -1
    [] s.family = "grouped_fully_quantized" ->
         IF m > 0 /\ s.n > 0 /\ s.n % 256 = 0 /\ s.k > 0 /\ s.k % 256 = 0 /\ s.experts > 0
            /\ SelectedFullyQuantized(s)
         THEN GroupedLayout(m, s.n, s.experts).total ELSE -1
    [] s.family = "grouped_lowbit" ->
         IF GroupedDomain(s, m) /\ LowbitValid(GroupedConfigs[1], m, s)
         THEN GroupedLayout(m, s.n, s.experts).total ELSE -1
    [] OTHER -> -1
-----------------------------------------------------------------------------
(* The entries: the code of the first guard that holds, in their order.    *)
FirstOf(guards, otherwise) ==
  LET hit == {i \in DOMAIN guards : guards[i].holds}
  IN  IF hit = {} THEN otherwise ELSE guards[Min(hit)].rc
Guard(holds, rc) == [holds |-> holds, rc |-> rc]

BadProblem(s, m) ==
  m <= 0 \/ s.n <= 0 \/ s.k <= 0 \/ s.n % 256 # 0 \/ s.k % 256 # 0
NoHigh(s) == TwoPlane(s.qtype) /\ ~s.high
(* What the launch asks of its workspace: split-K has one semaphore for    *)
(* each output CTA of the tactic, the grouped scheduler uses none.         *)
KernelNeeds(s, row, m) ==
  IF Grouped(s) THEN 0 ELSE CeilDiv(m, row.tm) * CeilDiv(s.n, row.tn) * 4
Launched(s, m, name, bytes) ==
  LET row == Resolve(s, name)
  IN  IF Launches(s, row) /\ KernelNeeds(s, row, m) <= bytes THEN 0 ELSE 31

DenseLowbit(s, m, name) ==
  FirstOf(<<Guard(BadProblem(s, m), 30), Guard(~Known(s.qtype), 33),
            Guard(ScaleFirstOut(s), 36), Guard(s.group # ForQtype(s.qtype).group, 32),
            Guard(NoHigh(s), 41)>>, Launched(s, m, name, DenseWorkspace(m, s.n)))
DenseFullyQuantized(s, m, name) ==
  FirstOf(<<Guard(BadProblem(s, m), 30), Guard(s.packed < 0, 34),
            Guard(~SelectedFullyQuantized(s) \/ NoHigh(s), 33)>>, Launched(s, m, name, DenseWorkspace(m, s.n)))
GroupedLowbit(s, m, name) ==
  FirstOf(<<Guard(BadProblem(s, m) \/ s.experts <= 0, 30), Guard(~Known(s.qtype), 33),
            Guard(ScaleFirstOut(s), 36),
            Guard(s.group # ForQtype(s.qtype).group \/ NoHigh(s), 32)>>, Launched(s, m, name, DenseWorkspace(m, s.n)))
GroupedFullyQuantized(s, m, name) ==
  FirstOf(<<Guard(BadProblem(s, m) \/ s.experts <= 0, 30), Guard(s.packed < 0, 34),
            Guard(~SelectedFullyQuantized(s) \/ NoHigh(s), 33)>>, Launched(s, m, name, DenseWorkspace(m, s.n)))
GemvLowbit(s, m) ==
  FirstOf(<<Guard(~Known(s.qtype), 6), Guard(NoHigh(s), 41),
            Guard(~GemvLaunches(m, s), 40)>>, 0)
VecdotMoe(s, m, most) ==
  FirstOf(<<Guard(~Known(s.qtype), 2),
            Guard(s.n <= 0 \/ s.k \div 256 <= 0 \/ s.experts <= 0 \/ m <= 0 \/ most <= 0, 11)>>, 0)
HostEntry(s, m, most, name) ==
  CASE s.family = "dense_lowbit" -> DenseLowbit(s, m, name)
    [] s.family = "dense_fully_quantized" -> DenseFullyQuantized(s, m, name)
    [] s.family = "grouped_lowbit" -> GroupedLowbit(s, m, name)
    [] s.family = "grouped_fully_quantized" -> GroupedFullyQuantized(s, m, name)
    [] s.family = "gemv_lowbit" -> GemvLowbit(s, m)
    [] s.family = "vecdot_moe" -> VecdotMoe(s, m, most)

(* The entries on resident buffers, with the caller's workspace.           *)
DenseFullyQuantizedDevice(s, m, name) ==
  FirstOf(<<Guard(WorkspaceBytes(s, m) < 0 \/ held < WorkspaceBytes(s, m), 30),
            Guard(NoHigh(s), 33), Guard(held < DenseWorkspace(m, s.n), 37)>>, Launched(s, m, name, held))
GroupedLowbitDevice(s, m, most, name) ==
  FirstOf(<<Guard(\/ m <= 0 \/ WorkspaceBytes(s, most) < 0 \/ held < WorkspaceBytes(s, most)
                  \/ ~LowbitValid(Resolve(s, name), m, s), 30),
            Guard(NoHigh(s), 33), Guard(held < GroupedLayout(most, s.n, s.experts).total, 37)>>,
          Launched(s, m, name, held))
GroupedFullyQuantizedDevice(s, m, most, name) ==
  FirstOf(<<Guard(m <= 0 \/ WorkspaceBytes(s, most) < 0 \/ held < WorkspaceBytes(s, most), 30),
            Guard(NoHigh(s), 33), Guard(held < GroupedLayout(most, s.n, s.experts).total, 37)>>,
          Launched(s, m, name, held))
GemvLowbitDevice(s, m, name) ==
  FirstOf(<<Guard((name # "" /\ name # DenseCuda) \/ ~GemvValid(m, s), 40),
            Guard(NoHigh(s), 40)>>, 0)
HasDevice(s) == s.family \notin {"dense_lowbit", "vecdot_moe"}
DeviceEntry(s, m, most, name) ==
  CASE s.family = "dense_fully_quantized" -> DenseFullyQuantizedDevice(s, m, name)
    [] s.family = "grouped_lowbit" -> GroupedLowbitDevice(s, m, most, name)
    [] s.family = "grouped_fully_quantized" -> GroupedFullyQuantizedDevice(s, m, most, name)
    [] s.family = "gemv_lowbit" -> GemvLowbitDevice(s, m, name)
-----------------------------------------------------------------------------
(* The caller.  Wrong shapes differ from a sound one in one field.         *)
Sound(build, family, q) ==
  [packed |-> build, family |-> family, qtype |-> q, n |-> 256, k |-> 512, group |-> ForQtype(q).group,
   experts |-> IF family \in {"dense_lowbit", "dense_fully_quantized", "gemv_lowbit"} THEN 0 ELSE 3,
   high |-> TwoPlane(q)]
Wrong(s) ==
  {[s EXCEPT !.n = 128], [s EXCEPT !.k = 256], [s EXCEPT !.k = 128], [s EXCEPT !.group = 48 - @],
   [s EXCEPT !.qtype = 99], [s EXCEPT !.experts = 0], [s EXCEPT !.high = FALSE]}
SoundShapes == {Sound(b, f, q) : b \in Builds, f \in Families, q \in 10 .. 14}
Names == {"", "other", DenseCuda, GroupedCuda}
           \cup {DenseConfigs[i].name : i \in DOMAIN DenseConfigs} \cup {GroupedConfigs[1].name}
NoCall == [how |-> "none"]

LibInit ==
  /\ shape \in UNION {Wrong(s) \cup {s} : s \in SoundShapes}
  /\ held = -1 /\ call = NoCall

(* A buffer for the largest problem to come, kept for the smaller ones.    *)
Reserve(m) ==
  /\ call = NoCall /\ held < 0
  /\ WorkspaceBytes(shape, m) >= 0
  /\ held' = WorkspaceBytes(shape, m)
  /\ UNCHANGED <<shape, call>>
Answer(how, m, spread, name, rc) ==
  [how |-> how, m |-> m, spread |-> spread, name |-> name, rc |-> rc,
   said |-> Valid(shape, m, spread, name), listed |-> Listed(shape, m, spread, name)]
EnterHost(m, spread, name) ==
  /\ held < 0
  /\ call' = Answer("host", m, spread, name, HostEntry(shape, m, MaxRows(m, shape, spread), name))
  /\ UNCHANGED <<shape, held>>
EnterDevice(m, spread, name) ==
  /\ HasDevice(shape)
  /\ held >= 0 \/ shape.family = "gemv_lowbit"
  /\ call' = Answer("device", m, spread, name,
                    DeviceEntry(shape, m, MaxRows(m, shape, spread), name))
  /\ UNCHANGED <<shape, held>>
Return == call # NoCall /\ call' = NoCall /\ UNCHANGED <<shape, held>>
LibNext ==
  \/ \E m \in Rows : Reserve(m)
  \/ /\ call = NoCall
     /\ \E m \in Rows, spread \in Spreads, name \in Names :
          EnterHost(m, spread, name) \/ EnterDevice(m, spread, name)
  \/ Return
LibSpec == LibInit /\ [][LibNext]_libVars
-----------------------------------------------------------------------------
(* A sized buffer serves no larger problem than the one it was sized for.  *)
Buffered(c) ==
  \/ c.how = "host" \/ shape.family = "gemv_lowbit"
  \/ LET most == IF Grouped(shape) THEN MaxRows(c.m, shape, c.spread) ELSE c.m
     IN  0 <= WorkspaceBytes(shape, most) /\ WorkspaceBytes(shape, most) <= held
(* The predicates and the filtered lists answer for the entries: what they *)
(* admit is launched, with any buffer sized for at least these rows, and   *)
(* a tensor tactic that launched is one they admit.  A name that is not    *)
(* compiled gets the default's verdict from the entry.                     *)
QueryAndEntryAgree ==
  call # NoCall /\ ~NoHigh(shape) =>
    /\ call.said /\ Buffered(call) => call.rc = 0
    /\ call.listed => call.said \/ (call.name = DenseCuda /\ GemvLowbit(shape, call.m) = 0)
    /\ /\ call.rc = 0 /\ Tensor(shape) /\ call.name \in Compiled(shape) \cup {""}
       /\ shape.group = ForQtype(shape.qtype).group
       => call.said
    /\ call.name = "other" /\ call.how = "host" /\ Valid(shape, call.m, call.spread, "")
       => call.rc = 0

(* The regions an accepted device call uses in the caller's buffer are     *)
(* aligned for what they hold, apart from each other and inside it, and    *)
(* the semaphores, or the prefix of a host grouped launch, fit.            *)
Apart(regions) ==
  \A i \in DOMAIN regions :
    /\ regions[i].at % regions[i].align = 0
    /\ i + 1 \in DOMAIN regions => regions[i].at + regions[i].bytes <= regions[i + 1].at
Region(at, bytes, align) == [at |-> at, bytes |-> bytes, align |-> align]
WorkspaceHolds ==
  call # NoCall /\ call.rc = 0 /\ Tensor(shape) =>
    IF ~Grouped(shape)
    THEN held >= 0 => KernelNeeds(shape, Resolve(shape, call.name), call.m) <= held
    ELSE LET e == shape.experts
             l == GroupedLayout(MaxRows(call.m, shape, call.spread), shape.n, e)
         IN  /\ Apart(<<Region(l.shapes, 12 * e, 4), Region(l.outPtrs, 8 * e, 8),
                        Region(l.outStrides, 8 * e, 8), Region(l.rows, 4 * e, 4),
                        Region(l.kernel, l.kernelBytes, 16)>>)
             /\ l.kernel + l.kernelBytes <= l.total /\ (held >= 0 => l.total <= held)
             /\ 4 * (e + 1) <= l.kernelBytes
=============================================================================
